----------------------------- MODULE BudgetGate -----------------------------
(***************************************************************************)
(* The budget gate and kill switch of the agent runtime:                   *)
(* BudgetKillSwitchRunGate.check, the in-process ReservationLedger it      *)
(* reserves from, and the part of AgentRuntime.runAgent that lands a run's *)
(* cost on its AgentRun row and then releases the reservation.             *)
(*                                                                         *)
(* Every await of check() is a step, so a run's committed-spend snapshot   *)
(* may be older than the reservation made from it.  A run is one delivery  *)
(* of an agent job; a probe is the admission test the hourly scheduler     *)
(* makes before it enqueues anything.  All runs of the model fall in one   *)
(* UTC day and are priced at one tier, hence the single Estimate; what a   *)
(* run is charged is the cost of the tier and the tokens it really used,   *)
(* which may be more: an agent whose primary tier is Haiku runs a client-  *)
(* triggered case on Opus, and no code bounds the tokens of a prompt.      *)
(***************************************************************************)
EXTENDS Integers, FiniteSets, Functions

CONSTANTS
    Reps,            \* the reps, each with a daily budget
    Runs,            \* deliveries of agent jobs and scheduler probes
    RepOf,           \* the rep a run spends for
    Ceiling,         \* dailyBudgetCentsFor the rep's tier and intensity
    Estimate,        \* reservationEstimateCentsFor the tier of the runs
    MaxCost,         \* the largest cost_cents of a completed run, a bound
    OrgReps,         \* reps whose tier is ENTERPRISE and who share one org
    UnknownReps,     \* reps getRepBudgetContext finds no row for
    OrgCeiling,      \* ENTERPRISE_ORG_DAILY_BUDGET_CENTS
    PlatformCeiling, \* PLATFORM_DAILY_BUDGET_CENTS
    Critical,        \* runs of criticality 'critical'
    Probes,          \* admission probes of the scheduled dispatch
    Switches         \* the kill switches operators use, bounds the model

ASSUME RunsAssumption ==
    /\ IsFiniteSet(Runs)
    /\ RepOf \in [Runs -> Reps]
    /\ Critical \subseteq Runs
    /\ Probes \subseteq Runs \ Critical

ASSUME BudgetAssumption ==
    /\ Ceiling \in [Reps -> Nat]
    /\ Estimate \in Nat
    /\ MaxCost \in Nat
    /\ OrgCeiling \in Nat
    /\ PlatformCeiling \in Nat
    /\ OrgReps \subseteq Reps
    /\ UnknownReps \subseteq Reps \ OrgReps

VARIABLES
    pc,       \* where each run stands in check() and runAgent
    held,     \* the ledger: the reservations outstanding for each rep
    snap,     \* the committed spend a run read, used by its reservation
    spend,    \* sum of AgentRun.cost_cents of each rep today
    tripped,  \* the kill switches that are tripped
    stale,    \* runs that reserved from a snapshot spend had outgrown
    bypass,   \* spend recorded by runs the ledger does not meter
    excess    \* what metered runs cost beyond the estimate they reserved

vars == <<pc, held, snap, spend, tripped, stale, bypass, excess>>

PCs == {"idle", "readSpend", "reserve", "platform", "running", "finally",
        "done", "denied", "threw", "leaked", "crashed"}

(* stale, bypass and excess are history: no guard reads them.              *)
TypeOK ==
    /\ pc \in [Runs -> PCs]
    /\ held \in [Reps -> SUBSET Runs]
    /\ snap \in [Runs -> Nat]
    /\ spend \in [Reps -> Nat]
    /\ tripped \subseteq Switches
    /\ stale \subseteq Runs
    /\ bypass \in [Reps -> Nat]
    /\ excess \in [Reps -> Nat]

Init ==
    /\ pc = [r \in Runs |-> "idle"]
    /\ held = [u \in Reps |-> {}]
    /\ snap = [r \in Runs |-> 0]
    /\ spend = [u \in Reps |-> 0]
    /\ tripped = {}
    /\ stale = {}
    /\ bypass = [u \in Reps |-> 0]
    /\ excess = [u \in Reps |-> 0]

Goto(r, label) == pc' = [pc EXCEPT ![r] = label]

Metered(r) == r \notin Critical /\ RepOf[r] \notin OrgReps \cup UnknownReps

Outstanding(u) == Estimate * Cardinality(held[u])

OrgSpend == SumFunctionOnSet(spend, OrgReps)

PlatformSpend == SumFunction(spend)

KillSwitchesOf(u) == {"PLATFORM", u} \cup (IF u \in OrgReps THEN {"ORG"} ELSE {})

(* Seeded fault: the admission test of a ledger that ignores other holds.  *)
FitsAlone(r, committed) == committed + Estimate <= Ceiling[RepOf[r]]

(* Seeded fault: the committed spend is left out of the admission test.    *)
FitsHoldsOnly(r, committed) ==
    Outstanding(RepOf[r]) + Estimate <= Ceiling[RepOf[r]]

(* The ledger's admission test, in one synchronous section.                *)
Fits(r, committed) ==
    committed + Outstanding(RepOf[r]) + Estimate <= Ceiling[RepOf[r]]

Hold(r) == held' = [held EXCEPT ![RepOf[r]] = @ \cup {r}]

(* Releasing an unknown or already released token does nothing.            *)
Unhold(r) == held' = [held EXCEPT ![RepOf[r]] = @ \ {r}]

(***************************************************************************)
(* check(): critical runs bypass the gate; a tripped switch denies; a rep  *)
(* with no row is let through without a reservation.                       *)
(***************************************************************************)
BeginCheck(r) ==
    /\ pc[r] = "idle"
    /\ \/ /\ r \in Critical
          /\ Goto(r, "running")
       \/ /\ r \notin Critical
          /\ tripped \cap KillSwitchesOf(RepOf[r]) # {}
          /\ Goto(r, "denied")
       \/ /\ r \notin Critical
          /\ tripped \cap KillSwitchesOf(RepOf[r]) = {}
          /\ Goto(r, IF RepOf[r] \in UnknownReps THEN "running" ELSE "readSpend")
    /\ UNCHANGED <<held, snap, spend, tripped, stale, bypass, excess>>

(* An enterprise rep is tested against the org aggregate and reserves      *)
(* nothing.                                                                *)
CheckOrgSpend(r) ==
    /\ pc[r] = "readSpend"
    /\ RepOf[r] \in OrgReps
    /\ Goto(r, IF OrgSpend >= OrgCeiling THEN "denied" ELSE "platform")
    /\ UNCHANGED <<held, snap, spend, tripped, stale, bypass, excess>>

ReadSpend(r) ==
    /\ pc[r] = "readSpend"
    /\ RepOf[r] \notin OrgReps
    /\ snap' = [snap EXCEPT ![r] = spend[RepOf[r]]]
    /\ Goto(r, "reserve")
    /\ UNCHANGED <<held, spend, tripped, stale, bypass, excess>>

TryReserve(r) ==
    /\ pc[r] = "reserve"
    /\ \/ /\ Fits(r, snap[r])
          /\ Hold(r)
          /\ stale' = IF snap[r] = spend[RepOf[r]] THEN stale ELSE stale \cup {r}
          /\ Goto(r, "platform")
       \/ /\ ~Fits(r, snap[r])
          /\ Goto(r, "denied")
          /\ UNCHANGED <<held, stale>>
    /\ UNCHANGED <<snap, spend, tripped, bypass, excess>>

(* The platform aggregate is checked last; its denial rolls the hold back. *)
PlatformCheck(r) ==
    /\ pc[r] = "platform"
    /\ \/ /\ PlatformSpend >= PlatformCeiling
          /\ Unhold(r)
          /\ Goto(r, "denied")
       \/ /\ PlatformSpend < PlatformCeiling
          /\ Goto(r, "running")
          /\ UNCHANGED held
    /\ UNCHANGED <<snap, spend, tripped, stale, bypass, excess>>

(***************************************************************************)
(* A database read of check() rejects.  Nothing catches it: a reservation  *)
(* made earlier in the same call stays in the ledger.                      *)
(***************************************************************************)
CheckThrows(r) ==
    /\ pc[r] \in {"idle", "readSpend", "platform"}
    /\ r \notin Critical
    /\ Goto(r, IF r \in held[RepOf[r]] THEN "leaked" ELSE "threw")
    /\ UNCHANGED <<held, snap, spend, tripped, stale, bypass, excess>>

(* What a run's cost exceeds the estimate it reserved by.                  *)
Beyond(r, cost) ==
    IF Metered(r) /\ cost > Estimate THEN cost - Estimate ELSE 0

(* The admitted run reaches its finally block: it records its cost, or     *)
(* none when it is held, fails, or its update is rejected (cost 0).        *)
LandCost(r, cost) ==
    /\ pc[r] = "running"
    /\ r \notin Probes
    /\ spend' = [spend EXCEPT ![RepOf[r]] = @ + cost]
    /\ bypass' = IF Metered(r) THEN bypass
                 ELSE [bypass EXCEPT ![RepOf[r]] = @ + cost]
    /\ excess' = [excess EXCEPT ![RepOf[r]] = @ + Beyond(r, cost)]
    /\ Goto(r, "finally")
    /\ UNCHANGED <<held, snap, tripped, stale>>

(* The scheduler's probe releases at once: it only asked for permission.   *)
ReleaseProbe(r) ==
    /\ pc[r] = "running"
    /\ r \in Probes
    /\ Unhold(r)
    /\ Goto(r, "done")
    /\ UNCHANGED <<snap, spend, tripped, stale, bypass, excess>>

(* Seeded fault: the finally block is missing on the run's exit path.      *)
ReleaseForgotten(r) ==
    /\ pc[r] = "finally"
    /\ Goto(r, "done")
    /\ UNCHANGED <<held, snap, spend, tripped, stale, bypass, excess>>

Release(r) ==
    /\ pc[r] = "finally"
    /\ Unhold(r)
    /\ Goto(r, "done")
    /\ UNCHANGED <<snap, spend, tripped, stale, bypass, excess>>

InFlight == {"readSpend", "reserve", "platform", "running", "finally"}

(* The ledger lives in the memory of the process: a restart empties it and *)
(* ends every run in flight.                                               *)
Restart ==
    /\ \E r \in Runs : pc[r] \in InFlight
    /\ held' = [u \in Reps |-> {}]
    /\ pc' = [r \in Runs |-> IF pc[r] \in InFlight THEN "crashed"
                             ELSE IF pc[r] = "leaked" THEN "threw"
                             ELSE pc[r]]
    /\ UNCHANGED <<snap, spend, tripped, stale, bypass, excess>>

SetKillSwitch(s) ==
    /\ tripped' = IF s \in tripped THEN tripped \ {s} ELSE tripped \cup {s}
    /\ UNCHANGED <<pc, held, snap, spend, stale, bypass, excess>>

Step(r) ==
    \/ BeginCheck(r)
    \/ CheckOrgSpend(r)
    \/ ReadSpend(r)
    \/ TryReserve(r)
    \/ PlatformCheck(r)
    \/ CheckThrows(r)
    \/ \E cost \in 0..MaxCost : LandCost(r, cost)
    \/ ReleaseProbe(r)
    \/ Release(r)

Next ==
    \/ \E r \in Runs : Step(r)
    \/ Restart
    \/ \E s \in Switches : SetKillSwitch(s)

Spec == Init /\ [][Next]_vars

-----------------------------------------------------------------------------

(***************************************************************************)
(* The ledger and the runs agree: a reservation is outstanding exactly     *)
(* while its run stands between its admission and the end of its finally   *)
(* block, and always for the run's own rep.  The one exception is a call   *)
(* whose platform read rejected after it reserved.                         *)
(***************************************************************************)
HoldsMatchRuns ==
    \A r \in Runs, u \in Reps :
        r \in held[u] <=>
            /\ u = RepOf[r]
            /\ Metered(r)
            /\ pc[r] \in {"platform", "running", "finally", "leaked"}

(* However many calls check() serves at once, the reservations outstanding *)
(* for a rep never exceed the rep's daily ceiling.                         *)
HoldsWithinCeiling ==
    \A u \in Reps : held[u] # {} => Outstanding(u) <= Ceiling[u]

Unlanded(u) == {r \in held[u] : pc[r] # "finally"}

StaleOf(u) == {r \in stale : RepOf[r] = u}

(***************************************************************************)
(* How far a day's spend can exceed the ceiling, and why: what a rep has   *)
(* spent, with every reservation whose cost is still to land, exceeds the  *)
(* ceiling by at most one estimate for each run that reserved from a       *)
(* snapshot older than a cost landed meanwhile, plus what unmetered runs   *)
(* spent, plus what metered runs cost beyond the estimate they reserved.   *)
(* With none of the three it is the bound run-gate.ts claims.              *)
(***************************************************************************)
OvershootExplained ==
    \A u \in Reps \ (OrgReps \cup UnknownReps) :
        spend[u] + Estimate * Cardinality(Unlanded(u))
            <= Ceiling[u] + Estimate * Cardinality(StaleOf(u)) + bypass[u] + excess[u]

(***************************************************************************)
(* run-gate.ts, "THE INVARIANT THIS BUYS": total spend <= ceiling holds    *)
(* for real, for a rep all of whose runs are metered and cost no more than *)
(* they reserved.                                                          *)
(***************************************************************************)
SpendWithinCeiling ==
    \A u \in Reps \ (OrgReps \cup UnknownReps) :
        bypass[u] = 0 /\ excess[u] = 0 => spend[u] <= Ceiling[u]

(***************************************************************************)
(* The same claim for a rep none of whose runs reserved from an outdated   *)
(* snapshot: run-gate.ts says the estimate is priced for the tier the run  *)
(* will actually spend on, and that no admitted run costs more than it.    *)
(***************************************************************************)
FreshSpendWithinCeiling ==
    \A u \in Reps \ (OrgReps \cup UnknownReps) :
        bypass[u] = 0 /\ StaleOf(u) = {} => spend[u] <= Ceiling[u]

(***************************************************************************)
(* run-gate.ts, at the rollback: a hold must not outlive the denial.  Once *)
(* check() has ended without admitting, or the run is over, its hold is    *)
(* gone.                                                                   *)
(***************************************************************************)
NoHoldOutlivesItsCall ==
    \A r \in Runs : pc[r] \in {"done", "denied", "threw", "leaked", "crashed"}
                        => r \notin held[RepOf[r]]

=============================================================================
