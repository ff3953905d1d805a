-------------------------- MODULE BudgetGateProofs --------------------------
(***************************************************************************)
(* What holds of BudgetGate for every set of runs and reps and every       *)
(* ceiling: the ledger matches the runs, never promises more than a        *)
(* ceiling, and accounts for every cent a rep overspends.                  *)
(***************************************************************************)
EXTENDS BudgetGate, FiniteSetTheorems, TLAPS

(* Every step keeps the types: a run's program counter, the ledger's sets  *)
(* of runs, and spend counted in natural numbers.                          *)
THEOREM TypeCorrect == Spec => []TypeOK
<1> USE RunsAssumption, BudgetAssumption
<1>1. Init => TypeOK
  BY DEF Init, TypeOK, PCs
<1>2. TypeOK /\ [Next]_vars => TypeOK'
  <2> SUFFICES ASSUME TypeOK, [Next]_vars PROVE TypeOK'
    OBVIOUS
  <2> USE DEF TypeOK, PCs, Goto, Hold, Unhold
  <2>1. ASSUME NEW r \in Runs, BeginCheck(r) PROVE TypeOK'
    BY <2>1 DEF BeginCheck
  <2>2. ASSUME NEW r \in Runs, CheckOrgSpend(r) PROVE TypeOK'
    BY <2>2 DEF CheckOrgSpend
  <2>3. ASSUME NEW r \in Runs, ReadSpend(r) PROVE TypeOK'
    BY <2>3 DEF ReadSpend
  <2>4. ASSUME NEW r \in Runs, TryReserve(r) PROVE TypeOK'
    BY <2>4 DEF TryReserve
  <2>5. ASSUME NEW r \in Runs, PlatformCheck(r) PROVE TypeOK'
    BY <2>5 DEF PlatformCheck
  <2>6. ASSUME NEW r \in Runs, CheckThrows(r) PROVE TypeOK'
    BY <2>6 DEF CheckThrows
  <2>7. ASSUME NEW r \in Runs, NEW cost \in 0..MaxCost, LandCost(r, cost)
        PROVE TypeOK'
    <3>1. cost \in Nat
      OBVIOUS
    <3>2. Beyond(r, cost) \in Nat
      BY <3>1 DEF Beyond
    <3>3. /\ spend' \in [Reps -> Nat] /\ bypass' \in [Reps -> Nat]
          /\ excess' \in [Reps -> Nat]
      BY <2>7, <3>1, <3>2 DEF LandCost
    <3>4. QED
      BY <2>7, <3>3 DEF LandCost
  <2>8. ASSUME NEW r \in Runs, ReleaseProbe(r) PROVE TypeOK'
    BY <2>8 DEF ReleaseProbe
  <2>9. ASSUME NEW r \in Runs, Release(r) PROVE TypeOK'
    BY <2>9 DEF Release
  <2>10. ASSUME Restart PROVE TypeOK'
    BY <2>10 DEF Restart, InFlight
  <2>11. ASSUME NEW s \in Switches, SetKillSwitch(s) PROVE TypeOK'
    BY <2>11 DEF SetKillSwitch
  <2>12. CASE UNCHANGED vars
    BY <2>12 DEF vars
  <2>13. QED
    BY <2>1, <2>2, <2>3, <2>4, <2>5, <2>6, <2>7, <2>8, <2>9, <2>10, <2>11,
       <2>12 DEF Next, Step
<1>3. QED
  BY <1>1, <1>2, PTL DEF Spec

(* A call still inside check() is one the ledger meters, and has not yet   *)
(* reserved: what HoldsMatchRuns needs to be inductive.                    *)
InCheck ==
    \A r \in Runs :
        /\ pc[r] = "readSpend" => r \notin Critical /\ RepOf[r] \notin UnknownReps
        /\ pc[r] = "reserve" => Metered(r)
        /\ r \in stale => pc[r] \notin {"idle", "readSpend", "reserve"}

(* Every hold belongs to a run that still owes its release, whatever the   *)
(* exit path taken, unless check() itself rejected after reserving.        *)
THEOREM HoldsMatch == Spec => [](HoldsMatchRuns /\ InCheck)
<1> USE RunsAssumption, BudgetAssumption
<1>1. Init => HoldsMatchRuns /\ InCheck
  BY DEF Init, HoldsMatchRuns, InCheck
<1>2. TypeOK /\ HoldsMatchRuns /\ InCheck /\ [Next]_vars
        => HoldsMatchRuns' /\ InCheck'
  <2> SUFFICES ASSUME TypeOK, HoldsMatchRuns, InCheck, [Next]_vars
               PROVE  HoldsMatchRuns' /\ InCheck'
    OBVIOUS
  <2> USE DEF TypeOK, HoldsMatchRuns, InCheck, Metered, Goto, Hold, Unhold
  <2>1. ASSUME NEW r \in Runs, BeginCheck(r) PROVE HoldsMatchRuns' /\ InCheck'
    BY <2>1 DEF BeginCheck
  <2>2. ASSUME NEW r \in Runs, CheckOrgSpend(r) PROVE HoldsMatchRuns' /\ InCheck'
    BY <2>2 DEF CheckOrgSpend
  <2>3. ASSUME NEW r \in Runs, ReadSpend(r) PROVE HoldsMatchRuns' /\ InCheck'
    BY <2>3 DEF ReadSpend
  <2>4. ASSUME NEW r \in Runs, TryReserve(r) PROVE HoldsMatchRuns' /\ InCheck'
    BY <2>4 DEF TryReserve
  <2>5. ASSUME NEW r \in Runs, PlatformCheck(r) PROVE HoldsMatchRuns' /\ InCheck'
    BY <2>5 DEF PlatformCheck
  <2>6. ASSUME NEW r \in Runs, CheckThrows(r) PROVE HoldsMatchRuns' /\ InCheck'
    BY <2>6 DEF CheckThrows
  <2>7. ASSUME NEW r \in Runs, NEW cost \in 0..MaxCost, LandCost(r, cost)
        PROVE HoldsMatchRuns' /\ InCheck'
    BY <2>7 DEF LandCost
  <2>8. ASSUME NEW r \in Runs, ReleaseProbe(r) PROVE HoldsMatchRuns' /\ InCheck'
    BY <2>8 DEF ReleaseProbe
  <2>9. ASSUME NEW r \in Runs, Release(r) PROVE HoldsMatchRuns' /\ InCheck'
    BY <2>9 DEF Release
  <2>10. ASSUME Restart PROVE HoldsMatchRuns' /\ InCheck'
    BY <2>10 DEF Restart, InFlight, PCs
  <2>11. ASSUME NEW s \in Switches, SetKillSwitch(s)
         PROVE HoldsMatchRuns' /\ InCheck'
    BY <2>11 DEF SetKillSwitch
  <2>12. CASE UNCHANGED vars
    BY <2>12 DEF vars
  <2>13. QED
    BY <2>1, <2>2, <2>3, <2>4, <2>5, <2>6, <2>7, <2>8, <2>9, <2>10, <2>11,
       <2>12 DEF Next, Step
<1>3. QED
  BY <1>1, <1>2, TypeCorrect, PTL DEF Spec

-----------------------------------------------------------------------------

LEMMA HeldFinite ==
    ASSUME TypeOK, NEW u \in Reps
    PROVE  /\ IsFiniteSet(held[u]) /\ Cardinality(held[u]) \in Nat
           /\ IsFiniteSet(Unlanded(u)) /\ Cardinality(Unlanded(u)) \in Nat
           /\ Cardinality(Unlanded(u)) <= Cardinality(held[u])
           /\ IsFiniteSet(StaleOf(u)) /\ Cardinality(StaleOf(u)) \in Nat
<1>1. held[u] \subseteq Runs /\ Unlanded(u) \subseteq held[u] /\ StaleOf(u) \subseteq Runs
  BY DEF TypeOK, Unlanded, StaleOf
<1>2. QED
  BY <1>1, RunsAssumption, FS_Subset, FS_CardinalityType

LEMMA TimesMonotone ==
    ASSUME NEW e \in Nat, NEW m \in Nat, NEW n \in Nat, m <= n
    PROVE  e * m <= e * n
<1>1. PICK k \in Nat : n = m + k
  BY n - m \in Nat, n = m + (n - m)
<1>2. e * n = e * m + e * k /\ e * k >= 0
  BY <1>1
<1>3. QED
  BY <1>2

LEMMA TimesSucc ==
    ASSUME NEW e \in Nat, NEW n \in Nat
    PROVE  e * (n + 1) = e * n + e
OBVIOUS

(* The reservations outstanding for a rep are never worth more than the    *)
(* rep's ceiling, however many calls reserve at once.                      *)
THEOREM HoldsBounded == Spec => []HoldsWithinCeiling
<1> USE RunsAssumption, BudgetAssumption
<1>1. Init => HoldsWithinCeiling
  BY DEF Init, HoldsWithinCeiling
<1>2. TypeOK /\ TypeOK' /\ InCheck /\ HoldsMatchRuns /\ HoldsWithinCeiling /\ [Next]_vars
        => HoldsWithinCeiling'
  <2> SUFFICES ASSUME TypeOK, TypeOK', InCheck, HoldsMatchRuns, HoldsWithinCeiling,
                      [Next]_vars,
                      NEW u \in Reps, held'[u] # {}
               PROVE  Outstanding(u)' <= Ceiling[u]
    BY DEF HoldsWithinCeiling
  <2>1. CASE held'[u] \subseteq held[u]
    <3>1. Cardinality(held'[u]) <= Cardinality(held[u])
             /\ Cardinality(held'[u]) \in Nat /\ Cardinality(held[u]) \in Nat
      BY <2>1, HeldFinite, FS_Subset, FS_CardinalityType
    <3>2. Estimate * Cardinality(held'[u]) <= Estimate * Cardinality(held[u])
      BY <3>1, TimesMonotone
    <3>3. held[u] # {} /\ Outstanding(u) <= Ceiling[u]
      BY <2>1 DEF HoldsWithinCeiling
    <3>4. Outstanding(u) \in Nat /\ Outstanding(u)' \in Nat
      BY <3>1 DEF Outstanding
    <3>5. QED
      BY <3>2, <3>3, <3>4 DEF Outstanding
  <2>2. CASE ~(held'[u] \subseteq held[u])
    <3>1. PICK r \in Runs : TryReserve(r) /\ Fits(r, snap[r]) /\ Hold(r) /\ u = RepOf[r]
      BY <2>2 DEF Next, Step, vars, BeginCheck, CheckOrgSpend, ReadSpend, TryReserve,
                  PlatformCheck, CheckThrows, LandCost, ReleaseProbe, Release, Restart,
                  SetKillSwitch, Hold, Unhold, Goto, TypeOK
    <3>2. pc[r] = "reserve" /\ r \notin held[u] /\ held'[u] = held[u] \cup {r}
      BY <3>1 DEF TryReserve, Hold, HoldsMatchRuns, TypeOK
    <3>3. Cardinality(held'[u]) = Cardinality(held[u]) + 1
             /\ Cardinality(held[u]) \in Nat
      BY <3>2, HeldFinite, FS_AddElement
    <3>4. Outstanding(u)' = Outstanding(u) + Estimate /\ Outstanding(u) \in Nat
      BY <3>3, TimesSucc DEF Outstanding
    <3>5. snap[r] \in Nat /\ snap[r] + Outstanding(u) + Estimate <= Ceiling[u]
      BY <3>1 DEF Fits, TypeOK
    <3>6. QED
      BY <3>4, <3>5
  <2>3. QED
    BY <2>1, <2>2
<1>3. QED
  BY <1>1, <1>2, TypeCorrect, HoldsMatch, PTL DEF Spec

-----------------------------------------------------------------------------

(* The bound of OvershootExplained for one rep.                            *)
Owed(u) == spend[u] + Estimate * Cardinality(Unlanded(u))

Allowed(u) ==
    Ceiling[u] + Estimate * Cardinality(StaleOf(u)) + bypass[u] + excess[u]

LEMMA BoundsAreNat ==
    ASSUME TypeOK, NEW u \in Reps
    PROVE  /\ Owed(u) \in Nat /\ Allowed(u) \in Nat
           /\ Estimate * Cardinality(Unlanded(u)) \in Nat
           /\ Estimate * Cardinality(StaleOf(u)) \in Nat
BY HeldFinite, BudgetAssumption DEF Owed, Allowed, TypeOK

(* A step that lands no cost and reserves nothing for u keeps u's bound.   *)
LEMMA QuietStep ==
    ASSUME TypeOK, TypeOK', NEW u \in Reps, Owed(u) <= Allowed(u),
           spend'[u] = spend[u], bypass'[u] = bypass[u], excess'[u] = excess[u],
           stale' = stale,
           Unlanded(u)' \subseteq Unlanded(u)
    PROVE  Owed(u)' <= Allowed(u)'
<1>1. /\ Cardinality(Unlanded(u)') <= Cardinality(Unlanded(u))
      /\ Cardinality(Unlanded(u)') \in Nat /\ Cardinality(Unlanded(u)) \in Nat
  BY HeldFinite, FS_Subset, FS_CardinalityType
<1>2. Estimate * Cardinality(Unlanded(u)') <= Estimate * Cardinality(Unlanded(u))
  BY <1>1, TimesMonotone, BudgetAssumption
<1>3. Owed(u)' <= Owed(u) /\ Owed(u)' \in Nat
  <2>1. Owed(u)' = spend[u] + Estimate * Cardinality(Unlanded(u)')
    BY DEF Owed
  <2>2. QED
    BY <1>1, <1>2, <2>1, BudgetAssumption DEF Owed, TypeOK
<1>4. Allowed(u)' = Allowed(u)
  BY DEF Allowed, StaleOf
<1>5. QED
  BY <1>3, <1>4, BoundsAreNat

(* A reservation from a current snapshot fits under the ceiling; one from  *)
(* an old snapshot is paid for by its own entry in stale.                  *)
LEMMA ReserveStep ==
    ASSUME TypeOK, TypeOK', InCheck, HoldsMatchRuns,
           NEW r \in Runs, TryReserve(r), Fits(r, snap[r]), Hold(r),
           Owed(RepOf[r]) <= Allowed(RepOf[r])
    PROVE  Owed(RepOf[r])' <= Allowed(RepOf[r])'
<1> DEFINE u == RepOf[r]
<1> USE RunsAssumption, BudgetAssumption
<1>1. /\ u \in Reps /\ pc[r] = "reserve" /\ r \notin held[u] /\ r \notin stale
      /\ spend' = spend /\ bypass' = bypass /\ excess' = excess /\ snap' = snap
      /\ stale' = IF snap[r] = spend[u] THEN stale ELSE stale \cup {r}
      /\ pc' = [pc EXCEPT ![r] = "platform"]
      /\ held'[u] = held[u] \cup {r}
  BY DEF TryReserve, Hold, HoldsMatchRuns, InCheck, TypeOK, Goto
<1>2. Unlanded(u)' = Unlanded(u) \cup {r} /\ r \notin Unlanded(u)
  BY <1>1 DEF Unlanded, TypeOK
<1>3. /\ Cardinality(Unlanded(u)') = Cardinality(Unlanded(u)) + 1
      /\ Cardinality(Unlanded(u)) \in Nat
  BY <1>1, <1>2, HeldFinite, FS_AddElement
<1>4. Estimate * Cardinality(Unlanded(u)')
        = Estimate * Cardinality(Unlanded(u)) + Estimate
  BY <1>3, TimesSucc
<1>5. Owed(u)' = Owed(u) + Estimate
  BY <1>1, <1>4, BoundsAreNat DEF Owed, TypeOK
<1>6. CASE snap[r] = spend[u]
  <2>1. Estimate * Cardinality(Unlanded(u)) <= Outstanding(u) /\ Outstanding(u) \in Nat
    BY <1>1, HeldFinite, TimesMonotone DEF Outstanding
  <2>2. spend[u] + Outstanding(u) + Estimate <= Ceiling[u]
    BY <1>6 DEF Fits
  <2>3. Owed(u) + Estimate <= Ceiling[u]
    BY <1>1, <2>1, <2>2, BoundsAreNat DEF Owed, TypeOK
  <2>4. Allowed(u)' = Ceiling[u] + Estimate * Cardinality(StaleOf(u))
                       + bypass[u] + excess[u]
    BY <1>1, <1>6 DEF Allowed, StaleOf
  <2>5. QED
    BY <1>1, <1>5, <2>3, <2>4, BoundsAreNat DEF TypeOK
<1>7. CASE snap[r] # spend[u]
  <2>1. StaleOf(u)' = StaleOf(u) \cup {r} /\ r \notin StaleOf(u)
    BY <1>1, <1>7 DEF StaleOf
  <2>2. /\ Cardinality(StaleOf(u)') = Cardinality(StaleOf(u)) + 1
        /\ Cardinality(StaleOf(u)) \in Nat
    BY <1>1, <2>1, HeldFinite, FS_AddElement
  <2>3. Estimate * Cardinality(StaleOf(u)')
          = Estimate * Cardinality(StaleOf(u)) + Estimate
    BY <2>2, TimesSucc
  <2>4. Allowed(u)' = Allowed(u) + Estimate
    BY <1>1, <2>3, BoundsAreNat DEF Allowed, TypeOK
  <2>5. QED
    BY <1>1, <1>5, <2>4, BoundsAreNat
<1>8. QED
  BY <1>6, <1>7

(* A metered run's cost is covered by the hold it no longer needs and by   *)
(* what it adds to excess; what an unmetered run costs is added to both    *)
(* sides.                                                                  *)
LEMMA LandStep ==
    ASSUME TypeOK, TypeOK', HoldsMatchRuns,
           NEW r \in Runs, NEW cost \in 0..MaxCost, LandCost(r, cost),
           RepOf[r] \notin OrgReps \cup UnknownReps,
           Owed(RepOf[r]) <= Allowed(RepOf[r])
    PROVE  Owed(RepOf[r])' <= Allowed(RepOf[r])'
<1> DEFINE u == RepOf[r]
<1> USE RunsAssumption, BudgetAssumption
<1>1. /\ u \in Reps /\ pc[r] = "running" /\ held' = held /\ stale' = stale
      /\ spend'[u] = spend[u] + cost /\ cost \in Nat
      /\ pc' = [pc EXCEPT ![r] = "finally"]
      /\ spend[u] \in Nat /\ bypass[u] \in Nat /\ excess[u] \in Nat
  BY DEF LandCost, TypeOK, Goto
<1>2. Unlanded(u)' = Unlanded(u) \ {r}
  BY <1>1 DEF Unlanded, TypeOK
<1>3. StaleOf(u)' = StaleOf(u)
  BY <1>1 DEF StaleOf
<1>8. excess'[u] = excess[u] + Beyond(r, cost)
  BY <1>1 DEF LandCost, TypeOK
<1>4. CASE Metered(r)
  <2>0. Beyond(r, cost) \in Nat /\ cost <= Estimate + Beyond(r, cost)
    BY <1>1, <1>4 DEF Beyond
  <2>1. r \in Unlanded(u) /\ bypass' = bypass
    BY <1>1, <1>4 DEF Unlanded, HoldsMatchRuns, LandCost
  <2>2. /\ Cardinality(Unlanded(u)) = Cardinality(Unlanded(u)') + 1
        /\ Cardinality(Unlanded(u)') \in Nat
    <3>1. /\ IsFiniteSet(Unlanded(u)) /\ Cardinality(Unlanded(u)) \in Nat
          /\ Cardinality(Unlanded(u) \ {r}) = Cardinality(Unlanded(u)) - 1
      BY <1>1, <2>1, HeldFinite, FS_RemoveElement
    <3>2. Cardinality(Unlanded(u) \ {r}) \in Nat
      BY <3>1, FS_Subset, FS_CardinalityType
    <3>3. QED
      BY <1>2, <3>1, <3>2
  <2>3. Estimate * Cardinality(Unlanded(u))
          = Estimate * Cardinality(Unlanded(u)') + Estimate
    BY <2>2, TimesSucc
  <2>4. Owed(u)' = spend[u] + cost + Estimate * Cardinality(Unlanded(u)')
    BY <1>1 DEF Owed
  <2>5. /\ Owed(u)' <= Owed(u) + Beyond(r, cost) /\ Owed(u)' \in Nat
        /\ Owed(u) \in Nat
    BY <1>1, <2>0, <2>2, <2>3, <2>4, BoundsAreNat DEF Owed
  <2>6. Allowed(u)' = Allowed(u) + Beyond(r, cost)
    BY <1>8, <1>1, <1>3, <2>0, <2>1, BoundsAreNat DEF Allowed
  <2>7. QED
    BY <1>1, <2>0, <2>5, <2>6, BoundsAreNat
<1>5. CASE ~Metered(r)
  <2>0. excess'[u] = excess[u]
    BY <1>8, <1>1, <1>5 DEF Beyond
  <2>1. r \notin Unlanded(u) /\ bypass'[u] = bypass[u] + cost
    BY <1>1, <1>5 DEF Unlanded, HoldsMatchRuns, LandCost, TypeOK
  <2>2. Unlanded(u)' = Unlanded(u)
    BY <1>2, <2>1
  <2>3. Owed(u)' = Owed(u) + cost
    BY <1>1, <2>2, BoundsAreNat DEF Owed
  <2>4. Allowed(u)' = Allowed(u) + cost
    BY <1>1, <1>3, <2>0, <2>1, BoundsAreNat DEF Allowed
  <2>5. QED
    BY <1>1, <2>3, <2>4, BoundsAreNat
<1>6. QED
  BY <1>4, <1>5

(* No interleaving of admissions, costs, releases and restarts overspends  *)
(* a rep's ceiling by more than its stale reservations, its unmetered runs *)
(* and what its runs cost beyond their estimates account for.              *)
THEOREM OvershootBounded == Spec => []OvershootExplained
<1> USE RunsAssumption, BudgetAssumption
<1>1. Init => OvershootExplained
  <2> SUFFICES ASSUME Init, NEW u \in Reps
               PROVE  spend[u] + Estimate * Cardinality(Unlanded(u))
                        <= Ceiling[u] + Estimate * Cardinality(StaleOf(u))
                             + bypass[u] + excess[u]
    BY DEF OvershootExplained
  <2>1. /\ Unlanded(u) = {} /\ StaleOf(u) = {} /\ spend[u] = 0
          /\ bypass[u] = 0 /\ excess[u] = 0
    BY DEF Init, Unlanded, StaleOf
  <2>2. Cardinality({}) = 0 /\ Estimate * 0 = 0
    BY FS_EmptySet
  <2>3. QED
    BY <2>1, <2>2
<1>2. TypeOK /\ TypeOK' /\ InCheck /\ HoldsMatchRuns /\ OvershootExplained /\ [Next]_vars
        => OvershootExplained'
  <2> SUFFICES ASSUME TypeOK, TypeOK', InCheck, HoldsMatchRuns, OvershootExplained,
                      [Next]_vars,
                      NEW u \in Reps \ (OrgReps \cup UnknownReps)
               PROVE  Owed(u)' <= Allowed(u)'
    BY DEF OvershootExplained, Owed, Allowed
  <2>0. Owed(u) <= Allowed(u)
    BY DEF OvershootExplained, Owed, Allowed
  <2>1. ASSUME NEW r \in Runs, TryReserve(r), Fits(r, snap[r]), RepOf[r] = u
        PROVE  Owed(u)' <= Allowed(u)'
    BY <2>0, <2>1, ReserveStep DEF TryReserve
  <2>2. ASSUME NEW r \in Runs, NEW cost \in 0..MaxCost, LandCost(r, cost), RepOf[r] = u
        PROVE  Owed(u)' <= Allowed(u)'
    BY <2>0, <2>2, LandStep
  <2>3. ASSUME NEW r \in Runs, Step(r), RepOf[r] # u
        PROVE  Owed(u)' <= Allowed(u)'
    <3>1. /\ spend'[u] = spend[u] /\ bypass'[u] = bypass[u]
          /\ held'[u] = held[u] /\ excess'[u] = excess[u]
      BY <2>3 DEF Step, BeginCheck, CheckOrgSpend, ReadSpend, TryReserve, PlatformCheck,
                  CheckThrows, LandCost, ReleaseProbe, Release, Hold, Unhold, TypeOK
    <3>2. r \notin held[u] /\ \A q \in Runs : q # r => pc'[q] = pc[q]
      BY <2>3 DEF Step, BeginCheck, CheckOrgSpend, ReadSpend, TryReserve, PlatformCheck,
                  CheckThrows, LandCost, ReleaseProbe, Release, Goto, HoldsMatchRuns, TypeOK
    <3>3. Unlanded(u)' = Unlanded(u)
      BY <3>1, <3>2 DEF Unlanded, TypeOK
    <3>4. stale' = stale \/ stale' = stale \cup {r}
      BY <2>3 DEF Step, BeginCheck, CheckOrgSpend, ReadSpend, TryReserve, PlatformCheck,
                  CheckThrows, LandCost, ReleaseProbe, Release
    <3>5. StaleOf(u)' = StaleOf(u)
      BY <2>3, <3>4 DEF StaleOf
    <3>6. QED
      BY <2>0, <3>1, <3>3, <3>5 DEF Owed, Allowed
  <2>4. ASSUME NEW r \in Runs,
               \/ BeginCheck(r) \/ CheckOrgSpend(r) \/ ReadSpend(r)
               \/ TryReserve(r) /\ ~Fits(r, snap[r])
               \/ PlatformCheck(r) \/ CheckThrows(r) \/ ReleaseProbe(r) \/ Release(r)
        PROVE  Owed(u)' <= Allowed(u)'
    <3>1. /\ spend' = spend /\ bypass' = bypass /\ stale' = stale
          /\ excess' = excess
          /\ held'[u] \subseteq held[u]
          /\ \A q \in Runs : pc[q] = "finally" /\ pc'[q] # "finally" => q \notin held'[u]
      BY <2>4 DEF BeginCheck, CheckOrgSpend, ReadSpend, TryReserve, PlatformCheck,
                  CheckThrows, ReleaseProbe, Release, Goto, Unhold, HoldsMatchRuns, TypeOK
    <3>2. Unlanded(u)' \subseteq Unlanded(u)
      BY <3>1 DEF Unlanded, TypeOK
    <3>3. QED
      BY <2>0, <3>1, <3>2, QuietStep
  <2>5. ASSUME Restart PROVE Owed(u)' <= Allowed(u)'
    <3>1. Unlanded(u)' = {}
      BY <2>5 DEF Restart, Unlanded
    <3>2. QED
      BY <2>0, <2>5, <3>1, QuietStep DEF Restart
  <2>6. ASSUME NEW s \in Switches, SetKillSwitch(s) PROVE Owed(u)' <= Allowed(u)'
    BY <2>0, <2>6 DEF SetKillSwitch, Owed, Allowed, Unlanded, StaleOf
  <2>7. CASE UNCHANGED vars
    BY <2>0, <2>7 DEF vars, Owed, Allowed, Unlanded, StaleOf
  <2>8. QED
    BY <2>1, <2>2, <2>3, <2>4, <2>5, <2>6, <2>7 DEF Next, Step
<1>3. QED
  BY <1>1, <1>2, TypeCorrect, HoldsMatch, PTL DEF Spec

=============================================================================
