-------------------------- MODULE AgentRuntimeProofs --------------------------
(***************************************************************************)
(* What holds of AgentRuntime for any contacts, any cap, any number of     *)
(* events, retries, passes and changes of the controls.                    *)
(***************************************************************************)
EXTENDS AgentRuntime, FiniteSetTheorems, TLAPS

LEMMA LoopType ==
    ASSUME NEW todo \in SUBSET Contacts, NEW remaining \in Int, remaining <= Cap,
           Loop(todo, remaining)
    PROVE  pass' \in [todo: SUBSET Contacts, remaining: 0 .. Cap]
BY AgentAssumption DEF Loop, NoPass

LEMMA RowsTodayType == TypeOK => RowsToday \in Nat
<1>1. IsFiniteSet(Attempts)
  <2>1. IsFiniteSet(0 .. MaxRetries)
    BY AgentAssumption, FS_Interval
  <2>2. QED
    BY <2>1, AgentAssumption, FS_Product DEF Attempts
<1>2. QED
  BY <1>1, FS_Subset, FS_CardinalityType DEF RowsToday

LEMMA AgentTypeStep == TypeOK /\ [Next]_vars => TypeOK'
<1> SUFFICES ASSUME TypeOK, [Next]_vars PROVE TypeOK'
  OBVIOUS
<1> USE DEF Goto, Rest, history, PCs, Finished
<1>1. ASSUME NEW c \in Contacts, NEW stop \in Stops \cup {"none"}, SetControls(c, stop)
      PROVE  TypeOK'
  <2>1. toggles' \in 0 .. MaxToggles
    BY <1>1, AgentAssumption DEF SetControls, TypeOK
  <2>2. QED
    BY <1>1, <2>1 DEF SetControls, TypeOK
<1>2. ASSUME StartPass PROVE TypeOK'
  <2>1. Cap - RowsToday \in Int /\ Cap - RowsToday <= Cap
    BY RowsTodayType, AgentAssumption
  <2>2. pass' \in [todo: SUBSET Contacts, remaining: 0 .. Cap]
    BY <1>2, <2>1, LoopType DEF StartPass, Due
  <2>3. passes' \in 0 .. MaxPasses /\ drained' \in BOOLEAN
    BY <1>2, AgentAssumption DEF StartPass, TypeOK
  <2>4. QED
    BY <1>2, <2>2, <2>3 DEF StartPass, TypeOK
<1>3. ASSUME NEW c \in Contacts, Consider(c) PROVE TypeOK'
  <2>1. /\ pass.remaining \in Int /\ pass.remaining <= Cap
        /\ pass.remaining - 1 \in Int /\ pass.remaining - 1 <= Cap
        /\ pass.todo \ {c} \in SUBSET Contacts
    BY AgentAssumption DEF TypeOK
  <2>2. pass' \in [todo: SUBSET Contacts, remaining: 0 .. Cap]
    BY <1>3, <2>1, LoopType DEF Consider
  <2>3. pc' \in [Events -> PCs] /\ unit' \in [Events -> Contacts]
    BY <1>3 DEF Consider, TypeOK
  <2>4. QED
    BY <1>3, <2>2, <2>3 DEF Consider, TypeOK
<1>4. ASSUME PassDies PROVE TypeOK'
  BY <1>4, AgentAssumption DEF PassDies, NoPass, TypeOK
<1>5. ASSUME NEW e \in Events, Deliver(e) PROVE TypeOK'
  BY <1>5 DEF Deliver, TypeOK
<1>6. ASSUME NEW e \in Events, Admit(e) PROVE TypeOK'
  BY <1>6 DEF Admit, TypeOK
<1>7. ASSUME NEW e \in Events, Abandon(e) PROVE try' \in [Events -> 0 .. MaxRetries]
                                               /\ pc' \in [Events -> PCs]
  BY <1>7, AgentAssumption DEF Abandon, TypeOK
<1>8. ASSUME NEW e \in Events, Generate(e) PROVE TypeOK'
  BY <1>8, <1>7 DEF Generate, TypeOK
<1>9. ASSUME NEW e \in Events, Judge(e) PROVE TypeOK'
  BY <1>9 DEF Judge, Now, Attempts, TypeOK
<1>10. ASSUME NEW e \in Events, Update(e) PROVE TypeOK'
  BY <1>10 DEF Update, TypeOK
<1>11. ASSUME NEW e \in Events, Mark(e) PROVE TypeOK'
  BY <1>11 DEF Mark, TypeOK
<1>12. ASSUME NEW e \in Events, Fail(e) PROVE TypeOK'
  BY <1>12, <1>7 DEF Fail, TypeOK
<1>13. CASE UNCHANGED vars
  BY <1>13 DEF vars, TypeOK
<1>14. QED
  BY <1>1, <1>2, <1>3, <1>4, <1>5, <1>6, <1>8, <1>9, <1>10, <1>11, <1>12, <1>13
     DEF Next, Attempt

(* The variables keep their types.                                         *)
THEOREM AgentTypeCorrect == Spec => []TypeOK
<1>1. Init => TypeOK
  BY AgentAssumption DEF Init, NoPass, TypeOK, PCs, Finished
<1>2. QED
  BY <1>1, AgentTypeStep, PTL DEF Spec

-----------------------------------------------------------------------------
(* Rows are written in the order of the attempts: nothing exists for an    *)
(* attempt before it is admitted, and the row runs until the mark.         *)
AheadEmpty ==
    \A e \in Events, n \in 0 .. MaxRetries :
        \/ pc[e] = "unsent"
        \/ n > try[e]
        \/ n = try[e] /\ pc[e] \in {"queued", "admit"}
        => run[<<e, n>>] = "none" /\ <<e, n>> \notin drafts

WorkingRow ==
    \A e \in Events :
        /\ pc[e] \in {"generate", "judge", "update"} =>
              run[<<e, try[e]>>] = "RUNNING" /\ unit[e] \in everClear
        /\ pc[e] = "mark" => run[<<e, try[e]>>] \in {"COMPLETED", "HELD"}

Untouched ==
    \A e \in Events, n \in 0 .. MaxRetries :
        pc[e] # "unsent" /\ unit[e] \notin everClear =>
            run[<<e, n>>] \in {"none", "HELD"} /\ <<e, n>> \notin drafts

ClearSeen == \A c \in Contacts : controls[c] = "none" => c \in everClear

Recorded ==
    \A u \in processed : \E e \in Events, n \in 0 .. MaxRetries :
        unit[e] = u /\ pc[e] # "unsent" /\ run[<<e, n>>] \in {"COMPLETED", "HELD"}

RowsInv == AheadEmpty /\ WorkingRow /\ Untouched /\ ClearSeen /\ Recorded

LEMMA RecordedKept ==
    ASSUME Recorded, processed' = processed,
           \A e \in Events, n \in 0 .. MaxRetries :
              pc[e] # "unsent" /\ run[<<e, n>>] \in {"COMPLETED", "HELD"} =>
                 /\ unit'[e] = unit[e] /\ pc'[e] # "unsent"
                 /\ run'[<<e, n>>] \in {"COMPLETED", "HELD"}
    PROVE  Recorded'
<1> SUFFICES ASSUME NEW u \in processed
             PROVE \E e \in Events, n \in 0 .. MaxRetries :
                /\ unit'[e] = u /\ pc'[e] # "unsent"
                /\ run'[<<e, n>>] \in {"COMPLETED", "HELD"}
  BY DEF Recorded
<1>1. PICK e \in Events, n \in 0 .. MaxRetries :
        unit[e] = u /\ pc[e] # "unsent" /\ run[<<e, n>>] \in {"COMPLETED", "HELD"}
  BY DEF Recorded
<1>2. QED
  BY <1>1

LEMMA RowsStep == TypeOK /\ RowsInv /\ [Next]_vars => RowsInv'
<1> SUFFICES ASSUME TypeOK, RowsInv, [Next]_vars PROVE RowsInv'
  OBVIOUS
<1> USE DEF Goto, Rest, history, Now, Attempts
<1>1. ASSUME NEW c \in Contacts, NEW stop \in Stops \cup {"none"}, SetControls(c, stop)
      PROVE  RowsInv'
  <2>1. everClear \subseteq everClear' /\ ClearSeen'
    BY <1>1 DEF SetControls, RowsInv, ClearSeen, TypeOK
  <2>2. UNCHANGED <<unit, pc, try, run, drafts, processed>>
    BY <1>1 DEF SetControls
  <2>3. AheadEmpty' /\ WorkingRow' /\ Untouched'
    BY <2>1, <2>2 DEF RowsInv, AheadEmpty, WorkingRow, Untouched
  <2>4. Recorded'
    BY <2>2 DEF RowsInv, Recorded
  <2>5. QED
    BY <2>1, <2>3, <2>4 DEF RowsInv
<1>2. ASSUME StartPass PROVE RowsInv'
  BY <1>2 DEF StartPass, RowsInv, AheadEmpty, WorkingRow, Untouched, ClearSeen, Recorded
<1>3. ASSUME NEW c \in Contacts, Consider(c) PROVE RowsInv'
  <2>1. CASE UNCHANGED <<pc, unit>>
    BY <1>3, <2>1
       DEF Consider, RowsInv, AheadEmpty, WorkingRow, Untouched, ClearSeen, Recorded
  <2>2. ASSUME NEW e \in Events, pc[e] = "unsent", pc' = [pc EXCEPT ![e] = "queued"],
               unit' = [unit EXCEPT ![e] = c]
        PROVE  RowsInv'
    <3>1. UNCHANGED <<controls, try, run, drafts, processed, everClear>>
      BY <1>3 DEF Consider
    <3>2. \A d \in Events : d # e => pc'[d] = pc[d] /\ unit'[d] = unit[d]
      BY <2>2 DEF TypeOK
    <3>3. pc'[e] = "queued"
      BY <2>2 DEF TypeOK
    <3>4. AheadEmpty' /\ WorkingRow' /\ Untouched' /\ ClearSeen'
      BY <2>2, <3>1, <3>2, <3>3
         DEF RowsInv, AheadEmpty, WorkingRow, Untouched, ClearSeen
    <3>5. Recorded'
      BY <2>2, <3>1, <3>2 DEF RowsInv, Recorded
    <3>6. QED
      BY <3>4, <3>5 DEF RowsInv
  <2>3. QED
    BY <1>3, <2>1, <2>2 DEF Consider
<1>4. ASSUME PassDies PROVE RowsInv'
  BY <1>4 DEF PassDies, RowsInv, AheadEmpty, WorkingRow, Untouched, ClearSeen, Recorded
<1>5. ASSUME NEW e \in Events, Deliver(e) PROVE RowsInv'
  BY <1>5
     DEF Deliver, RowsInv, AheadEmpty, WorkingRow, Untouched, ClearSeen, Recorded, TypeOK
<1>6. ASSUME NEW e \in Events, Admit(e) PROVE RowsInv'
  <2>1. run[<<e, try[e]>>] = "none"
    BY <1>6 DEF Admit, RowsInv, AheadEmpty, TypeOK
  <2>2. pc'[e] = "generate" => unit[e] \in everClear
    BY <1>6 DEF Admit, RowsInv, ClearSeen, TypeOK
  <2>3. PICK status \in {"HELD", "RUNNING"} :
          /\ run' = [run EXCEPT ![<<e, try[e]>>] = status]
          /\ pc' = [pc EXCEPT ![e] = IF status = "HELD" THEN "mark" ELSE "generate"]
    BY <1>6 DEF Admit
  <2>4. UNCHANGED <<controls, unit, try, drafts, processed, everClear>>
    BY <1>6 DEF Admit
  <2>5. AheadEmpty' /\ WorkingRow' /\ Untouched'
    BY <1>6, <2>2, <2>3, <2>4
       DEF Admit, RowsInv, AheadEmpty, WorkingRow, Untouched, TypeOK
  <2>6. ClearSeen'
    BY <2>4 DEF RowsInv, ClearSeen
  <2>7. \A d \in Events, n \in 0 .. MaxRetries :
           run[<<d, n>>] \in {"COMPLETED", "HELD"} => run'[<<d, n>>] = run[<<d, n>>]
    BY <2>1, <2>3 DEF TypeOK
  <2>8. \A d \in Events : pc[d] # "unsent" => pc'[d] # "unsent"
    BY <2>3 DEF TypeOK
  <2>9. Recorded'
    BY <2>4, <2>7, <2>8, RecordedKept DEF RowsInv
  <2>10. QED
    BY <2>5, <2>6, <2>9 DEF RowsInv
<1>7. ASSUME NEW e \in Events, Generate(e) PROVE RowsInv'
  <2>1. /\ UNCHANGED <<controls, unit, drafts, processed, everClear>>
        /\ pc[e] = "generate" /\ pc'[e] \in {"judge", "mark", "queued", "dead"}
        /\ \A d \in Events : d # e => pc'[d] = pc[d] /\ try'[d] = try[d]
        /\ \A a \in Attempts : a # <<e, try[e]>> => run'[a] = run[a]
    BY <1>7 DEF Generate, Abandon, TypeOK
  <2>2. run[<<e, try[e]>>] = "RUNNING" /\ unit[e] \in everClear
    BY <2>1 DEF RowsInv, WorkingRow
  <2>3. \/ pc'[e] = "judge" /\ UNCHANGED <<run, try>>
        \/ pc'[e] = "mark" /\ run'[<<e, try[e]>>] \in {"COMPLETED", "HELD"} /\ UNCHANGED try
        \/ pc'[e] = "queued" /\ try'[e] = try[e] + 1
        \/ pc'[e] = "dead" /\ UNCHANGED try
    BY <1>7 DEF Generate, Abandon, TypeOK
  <2>4. AheadEmpty'
    BY <2>1, <2>3 DEF RowsInv, AheadEmpty, TypeOK
  <2>5. WorkingRow' /\ Untouched' /\ ClearSeen'
    BY <2>1, <2>2, <2>3 DEF RowsInv, WorkingRow, Untouched, ClearSeen, TypeOK
  <2>6. Recorded'
    BY <2>1, <2>2 DEF RowsInv, Recorded
  <2>7. QED
    BY <2>4, <2>5, <2>6 DEF RowsInv
<1>8. ASSUME NEW e \in Events, Judge(e) PROVE RowsInv'
  <2>1. /\ pc[e] = "judge" /\ pc' = [pc EXCEPT ![e] = "update"]
        /\ drafts' = drafts \cup {<<e, try[e]>>}
        /\ UNCHANGED <<controls, unit, try, run, processed, everClear>>
    BY <1>8 DEF Judge
  <2>2. unit[e] \in everClear
    BY <2>1 DEF RowsInv, WorkingRow
  <2>3. AheadEmpty' /\ WorkingRow' /\ Untouched' /\ ClearSeen'
    BY <2>1, <2>2 DEF RowsInv, AheadEmpty, WorkingRow, Untouched, ClearSeen, TypeOK
  <2>4. Recorded'
    BY <2>1 DEF RowsInv, Recorded, TypeOK
  <2>5. QED
    BY <2>3, <2>4 DEF RowsInv
<1>9. ASSUME NEW e \in Events, Update(e) PROVE RowsInv'
  <2>1. PICK status \in {"COMPLETED", "HELD"} : run' = [run EXCEPT ![<<e, try[e]>>] = status]
    BY <1>9 DEF Update
  <2>2. /\ pc[e] = "update" /\ pc' = [pc EXCEPT ![e] = "mark"]
        /\ UNCHANGED <<controls, unit, try, drafts, processed, everClear>>
    BY <1>9 DEF Update
  <2>3. run[<<e, try[e]>>] = "RUNNING" /\ unit[e] \in everClear
    BY <2>2 DEF RowsInv, WorkingRow
  <2>4. AheadEmpty' /\ WorkingRow' /\ Untouched' /\ ClearSeen'
    BY <2>1, <2>2, <2>3 DEF RowsInv, AheadEmpty, WorkingRow, Untouched, ClearSeen, TypeOK
  <2>5. /\ \A d \in Events, n \in 0 .. MaxRetries :
             run[<<d, n>>] \in {"COMPLETED", "HELD"} => run'[<<d, n>>] = run[<<d, n>>]
        /\ \A d \in Events : pc[d] # "unsent" => pc'[d] # "unsent"
    BY <2>1, <2>2, <2>3 DEF TypeOK
  <2>6. Recorded'
    BY <2>2, <2>5, RecordedKept DEF RowsInv
  <2>7. QED
    BY <2>4, <2>6 DEF RowsInv
<1>10. ASSUME NEW e \in Events, Mark(e) PROVE RowsInv'
  <2>1. /\ pc[e] = "mark" /\ pc' = [pc EXCEPT ![e] = "done"]
        /\ processed' = processed \cup {unit[e]}
        /\ UNCHANGED <<controls, unit, try, run, drafts, everClear>>
    BY <1>10 DEF Mark
  <2>2. AheadEmpty' /\ WorkingRow' /\ Untouched' /\ ClearSeen'
    BY <2>1 DEF RowsInv, AheadEmpty, WorkingRow, Untouched, ClearSeen, TypeOK
  <2>3. run[<<e, try[e]>>] \in {"COMPLETED", "HELD"} /\ try[e] \in 0 .. MaxRetries
    BY <2>1 DEF RowsInv, WorkingRow, TypeOK
  <2>4. \A d \in Events : pc[d] # "unsent" => pc'[d] # "unsent"
    BY <2>1 DEF TypeOK
  <2>5. ASSUME NEW u \in processed'
        PROVE  \E d \in Events, n \in 0 .. MaxRetries :
                  unit[d] = u /\ pc'[d] # "unsent" /\ run[<<d, n>>] \in {"COMPLETED", "HELD"}
    <3>1. CASE u = unit[e]
      <4>1. pc[e] # "unsent"
        BY <2>1
      <4>2. QED
        BY <3>1, <4>1, <2>3, <2>4
    <3>2. CASE u \in processed
      BY <3>2, <2>4 DEF RowsInv, Recorded
    <3>3. QED
      BY <2>1, <3>1, <3>2
  <2>6. Recorded'
    BY <2>1, <2>5 DEF Recorded
  <2>7. QED
    BY <2>2, <2>6 DEF RowsInv
<1>11. ASSUME NEW e \in Events, Fail(e) PROVE RowsInv'
  <2>1. /\ UNCHANGED <<controls, unit, run, drafts, processed, everClear>>
        /\ pc[e] # "unsent" /\ pc'[e] \in {"queued", "dead"}
        /\ \A d \in Events : d # e => pc'[d] = pc[d] /\ try'[d] = try[d]
        /\ pc'[e] = "queued" => try'[e] = try[e] + 1
        /\ pc'[e] = "dead" => try'[e] = try[e]
    BY <1>11 DEF Fail, Abandon, TypeOK
  <2>2. AheadEmpty'
    BY <2>1 DEF RowsInv, AheadEmpty, TypeOK
  <2>3. WorkingRow'
    BY <2>1 DEF RowsInv, WorkingRow
  <2>4. Untouched' /\ ClearSeen'
    BY <2>1 DEF RowsInv, Untouched, ClearSeen
  <2>5. \A d \in Events : pc[d] # "unsent" => pc'[d] # "unsent"
    BY <2>1
  <2>6. Recorded'
    BY <2>1, <2>5, RecordedKept DEF RowsInv
  <2>7. QED
    BY <2>2, <2>3, <2>4, <2>6 DEF RowsInv
<1>12. CASE UNCHANGED vars
  BY <1>12 DEF vars, RowsInv, AheadEmpty, WorkingRow, Untouched, ClearSeen, Recorded
<1>13. QED
  BY <1>1, <1>2, <1>3, <1>4, <1>5, <1>6, <1>7, <1>8, <1>9, <1>10, <1>11, <1>12
     DEF Next, Attempt

LEMMA RowsInvariant == Spec => []RowsInv
<1>1. Init => RowsInv
  BY DEF Init, RowsInv, AheadEmpty, WorkingRow, Untouched, ClearSeen, Recorded, Attempts
<1>2. QED
  BY <1>1, RowsStep, AgentTypeCorrect, PTL DEF Spec

(* A key is marked only with its outcome on record, whatever crashes.      *)
THEOREM MarkedIsRecorded == Spec => []MarkedMeansRecorded
<1>1. RowsInv => MarkedMeansRecorded
  <2> SUFFICES ASSUME RowsInv, NEW u \in processed
               PROVE \E a \in Attempts : /\ unit[a[1]] = u /\ pc[a[1]] # "unsent"
                                         /\ run[a] \in {"COMPLETED", "HELD"}
    BY DEF MarkedMeansRecorded
  <2>1. PICK e \in Events, n \in 0 .. MaxRetries :
          unit[e] = u /\ pc[e] # "unsent" /\ run[<<e, n>>] \in {"COMPLETED", "HELD"}
    BY DEF RowsInv, Recorded
  <2>2. <<e, n>> \in Attempts /\ <<e, n>>[1] = e
    BY DEF Attempts
  <2>3. QED
    BY <2>1, <2>2
<1>2. QED
  BY <1>1, RowsInvariant, PTL

(* A contact stopped all day is never worked on.                           *)
THEOREM StoppedIsUntouched == Spec => []StoppedStaysUntouched
<1>1. RowsInv => StoppedStaysUntouched
  BY DEF RowsInv, Untouched, StoppedStaysUntouched, Attempts
<1>2. QED
  BY <1>1, RowsInvariant, PTL

-----------------------------------------------------------------------------
LEMMA SettledStep ==
    ASSUME TypeOK, [Next]_vars, NEW u \in Contacts, Settled(u)
    PROVE  /\ Settled(u)'
           /\ \A a \in Attempts : unit[a[1]] = u /\ pc[a[1]] # "unsent" =>
                run'[a] = run[a] /\ (a \in drafts' <=> a \in drafts)
<1> DEFINE Quiet(e) == pc[e] # "unsent" /\ unit[e] = u => pc[e] \in {"done", "dead", "queued"}
           Kept(e) == pc[e] # "unsent" /\ unit[e] = u =>
                         \A n \in 0 .. MaxRetries :
                            /\ run'[<<e, n>>] = run[<<e, n>>]
                            /\ <<e, n>> \in drafts' <=> <<e, n>> \in drafts
<1> USE DEF Goto, Rest, Now, history, Abandon
<1>1. u \in processed /\ \A e \in Events : Quiet(e)
  BY DEF Settled, Sent, Finished
<1>2. u \in processed' /\ \A e \in Events : Quiet(e)' /\ Kept(e)
  <2>1. ASSUME NEW c \in Contacts, NEW stop \in Stops \cup {"none"}, SetControls(c, stop)
        PROVE  u \in processed' /\ \A e \in Events : Quiet(e)' /\ Kept(e)
    BY <1>1, <2>1 DEF SetControls
  <2>2. ASSUME StartPass \/ PassDies \/ UNCHANGED vars
        PROVE  u \in processed' /\ \A e \in Events : Quiet(e)' /\ Kept(e)
    BY <1>1, <2>2 DEF StartPass, PassDies, vars
  <2>3. ASSUME NEW c \in Contacts, Consider(c)
        PROVE  u \in processed' /\ \A e \in Events : Quiet(e)' /\ Kept(e)
    BY <1>1, <2>3 DEF Consider, TypeOK
  <2>4. ASSUME NEW d \in Events, Deliver(d)
        PROVE  u \in processed' /\ \A e \in Events : Quiet(e)' /\ Kept(e)
    BY <1>1, <2>4 DEF Deliver, TypeOK
  <2>5. ASSUME NEW d \in Events, Admit(d)
        PROVE  u \in processed' /\ \A e \in Events : Quiet(e)' /\ Kept(e)
    <3>1. /\ pc[d] = "admit" /\ u \in processed'
          /\ UNCHANGED <<unit, drafts>>
          /\ \A e \in Events : e # d => pc'[e] = pc[e]
          /\ \A e \in Events, n \in 0 .. MaxRetries : e # d => run'[<<e, n>>] = run[<<e, n>>]
      BY <1>1, <2>5 DEF Admit, TypeOK, Attempts
    <3>2. unit[d] # u
      BY <3>1, <1>1
    <3>3. QED
      BY <1>1, <3>1, <3>2
  <2>6. ASSUME NEW d \in Events, Generate(d)
        PROVE  u \in processed' /\ \A e \in Events : Quiet(e)' /\ Kept(e)
    <3>1. /\ pc[d] = "generate" /\ u \in processed'
          /\ UNCHANGED <<unit, drafts>>
          /\ \A e \in Events : e # d => pc'[e] = pc[e]
          /\ \A e \in Events, n \in 0 .. MaxRetries : e # d => run'[<<e, n>>] = run[<<e, n>>]
      BY <1>1, <2>6 DEF Generate, TypeOK, Attempts
    <3>2. unit[d] # u
      BY <3>1, <1>1
    <3>3. QED
      BY <1>1, <3>1, <3>2
  <2>7. ASSUME NEW d \in Events, Judge(d)
        PROVE  u \in processed' /\ \A e \in Events : Quiet(e)' /\ Kept(e)
    BY <1>1, <2>7 DEF Judge, TypeOK
  <2>8. ASSUME NEW d \in Events, Update(d) \/ Mark(d)
        PROVE  u \in processed' /\ \A e \in Events : Quiet(e)' /\ Kept(e)
    <3>1. /\ pc[d] \in {"update", "mark"} /\ u \in processed'
          /\ UNCHANGED <<unit, drafts>>
          /\ \A e \in Events : e # d => pc'[e] = pc[e]
          /\ \A e \in Events, n \in 0 .. MaxRetries : e # d => run'[<<e, n>>] = run[<<e, n>>]
      BY <1>1, <2>8 DEF Update, Mark, TypeOK, Attempts
    <3>2. unit[d] # u
      BY <3>1, <1>1
    <3>3. QED
      BY <1>1, <3>1, <3>2
  <2>10. ASSUME NEW d \in Events, Fail(d)
         PROVE  u \in processed' /\ \A e \in Events : Quiet(e)' /\ Kept(e)
    <3>1. /\ UNCHANGED <<unit, run, drafts, processed>>
          /\ \A e \in Events : e # d => pc'[e] = pc[e]
          /\ pc'[d] \in {"queued", "dead"} /\ pc[d] # "unsent"
      BY <2>10 DEF Fail, TypeOK
    <3>2. QED
      BY <1>1, <3>1
  <2>9. QED
    BY <2>1, <2>2, <2>3, <2>4, <2>5, <2>6, <2>7, <2>8, <2>10 DEF Next, Attempt
<1>3. Settled(u)'
  BY <1>2 DEF Settled, Sent, Finished
<1>4. ASSUME NEW a \in Attempts, unit[a[1]] = u, pc[a[1]] # "unsent"
      PROVE  run'[a] = run[a] /\ (a \in drafts' <=> a \in drafts)
  <2>1. PICK e \in Events, n \in 0 .. MaxRetries : a = <<e, n>>
    BY DEF Attempts
  <2>2. QED
    BY <1>2, <1>4, <2>1
<1>5. QED
  BY <1>3, <1>4

(* No event, replayed or sent again, works on a unit that is settled.      *)
THEOREM SettledIsFinal == Spec => ProcessedIsFinal
<1>1. TypeOK /\ [Next]_vars =>
        [\A u \in Contacts : Settled(u) =>
            /\ Settled(u)'
            /\ \A a \in Attempts : unit[a[1]] = u /\ pc[a[1]] # "unsent" =>
                 run'[a] = run[a] /\ (a \in drafts' <=> a \in drafts)]_vars
  BY SettledStep
<1>2. QED
  BY <1>1, AgentTypeCorrect, PTL DEF Spec, ProcessedIsFinal
-----------------------------------------------------------------------------
(* What a pass has left to send fits under the cap with what the day has   *)
(* sent already, as long as every pass began with nothing left over.       *)

Dispatched == {c \in Contacts : Sent(c) # {}}

DoneMarked == \A e \in Events : pc[e] = "done" => unit[e] \in processed

CapInv ==
    /\ DoneMarked
    /\ pass.todo # {} => pass.remaining # 0
    /\ drained => Cardinality(Dispatched) + pass.remaining <= Cap

LEMMA DispatchedType ==
    TypeOK => IsFiniteSet(Dispatched) /\ Cardinality(Dispatched) \in Nat
  BY AgentAssumption, FS_Subset, FS_CardinalityType DEF Dispatched

(* A contact whose events are all done has a row of its own.               *)
LEMMA RowPerContact ==
    ASSUME TypeOK, MarkedMeansRecorded, DoneMarked,
           \A e \in Events : pc[e] \in {"unsent", "done"}
    PROVE  Cardinality(Dispatched) <= RowsToday
<1> DEFINE Rows == {a \in Attempts : run[a] # "none"}
           Of(c) == CHOOSE a \in Rows : unit[a[1]] = c
           f == [c \in Dispatched |-> Of(c)]
<1>1. ASSUME NEW c \in Dispatched PROVE Of(c) \in Rows /\ unit[Of(c)[1]] = c
  <2>1. PICK e \in Events : pc[e] = "done" /\ unit[e] = c
    BY DEF Dispatched, Sent
  <2>2. c \in processed
    BY <2>1 DEF DoneMarked
  <2>3. \E a \in Rows : unit[a[1]] = c
    BY <2>2 DEF MarkedMeansRecorded
  <2>4. QED
    BY <2>3
<1>2. f \in [Dispatched -> Rows]
  BY <1>1
<1>3. \A c, d \in Dispatched : f[c] = f[d] => c = d
  BY <1>1
<1>4. f \in Injection(Dispatched, Rows)
  BY <1>2, <1>3 DEF Injection, IsInjective
<1>5. IsFiniteSet(Rows)
  <2>1. IsFiniteSet(0 .. MaxRetries)
    BY AgentAssumption, FS_Interval
  <2>2. IsFiniteSet(Attempts)
    BY <2>1, AgentAssumption, FS_Product DEF Attempts
  <2>3. QED
    BY <2>2, FS_Subset
<1> HIDE DEF Rows, f
<1>6. Cardinality(Dispatched) <= Cardinality(Rows)
  BY <1>4, <1>5, FS_Injection
<1>7. QED
  BY <1>6 DEF Rows, RowsToday

LEMMA LoopLeaves ==
    ASSUME NEW todo, NEW remaining \in Int, Loop(todo, remaining)
    PROVE  /\ pass'.todo # {} => pass'.remaining # 0
           /\ pass'.remaining = 0 \/ (pass'.remaining = remaining /\ remaining > 0)
BY DEF Loop, NoPass

(* A step that sends nothing and changes no pass.                          *)
LEMMA CapFrame ==
    ASSUME TypeOK, CapInv, UNCHANGED <<pass, unit, drained>>,
           \A e \in Events : pc'[e] = "unsent" <=> pc[e] = "unsent",
           DoneMarked'
    PROVE  CapInv'
<1>1. Dispatched' = Dispatched
  BY DEF Dispatched, Sent
<1>2. QED
  BY <1>1 DEF CapInv

LEMMA CapStep == TypeOK /\ MarkedMeansRecorded /\ CapInv /\ [Next]_vars => CapInv'
<1> SUFFICES ASSUME TypeOK, MarkedMeansRecorded, CapInv, [Next]_vars PROVE CapInv'
  OBVIOUS
<1> USE DEF Goto, Rest, history
<1>0. DoneMarked /\ Cardinality(Dispatched) \in Nat /\ IsFiniteSet(Dispatched)
  BY DispatchedType DEF CapInv
<1>1. ASSUME NEW c \in Contacts, NEW stop \in Stops \cup {"none"}, SetControls(c, stop)
      PROVE  CapInv'
  BY <1>1, CapFrame DEF SetControls, CapInv, DoneMarked
<1>2. ASSUME StartPass PROVE CapInv'
  <2>1. UNCHANGED <<unit, pc, processed>> /\ Dispatched' = Dispatched
    BY <1>2 DEF StartPass, Dispatched, Sent
  <2>2. RowsToday \in Nat /\ Cap - RowsToday \in Int /\ Cap \in Nat
    BY RowsTodayType, AgentAssumption
  <2>3. /\ pass'.todo # {} => pass'.remaining # 0
        /\ pass'.remaining = 0 \/ pass'.remaining = Cap - RowsToday
    BY <1>2, <2>2, LoopLeaves DEF StartPass
  <2>4. ASSUME drained' PROVE Cardinality(Dispatched) + pass'.remaining <= Cap
    <3>1. drained /\ \A e \in Events : pc[e] \in {"unsent", "done"}
      BY <1>2, <2>4 DEF StartPass
    <3>2. Cardinality(Dispatched) <= RowsToday
      BY <3>1, <1>0, RowPerContact
    <3>3. Cardinality(Dispatched) + 0 <= Cap
      BY <1>2, <3>1 DEF StartPass, CapInv, NoPass
    <3>4. QED
      BY <1>0, <2>2, <2>3, <3>2, <3>3
  <2>5. DoneMarked'
    BY <1>0, <2>1 DEF DoneMarked
  <2>6. QED
    BY <2>1, <2>3, <2>4, <2>5 DEF CapInv
<1>3. ASSUME NEW c \in Contacts, Consider(c) PROVE CapInv'
  <2>1. pass.remaining \in Nat /\ pass.remaining > 0 /\ Cap \in Nat /\ drained' = drained
    BY <1>3, AgentAssumption DEF Consider, CapInv, TypeOK
  <2>2. CASE /\ Loop(pass.todo \ {c}, pass.remaining)
             /\ UNCHANGED <<pc, unit, processed>>
    <3>1. Dispatched' = Dispatched /\ DoneMarked'
      BY <1>0, <2>2 DEF Dispatched, Sent, DoneMarked
    <3>2. /\ pass'.todo # {} => pass'.remaining # 0
          /\ pass'.remaining = 0 \/ pass'.remaining = pass.remaining
      BY <2>1, <2>2, LoopLeaves
    <3>3. QED
      BY <1>0, <2>1, <3>1, <3>2 DEF CapInv
  <2>3. ASSUME Loop(pass.todo \ {c}, pass.remaining - 1), processed' = processed,
               NEW e \in Events, pc[e] = "unsent", pc' = [pc EXCEPT ![e] = "queued"],
               unit' = [unit EXCEPT ![e] = c]
        PROVE  CapInv'
    <3>1. /\ pc'[e] = "queued" /\ unit'[e] = c
          /\ \A d \in Events : d # e => pc'[d] = pc[d] /\ unit'[d] = unit[d]
      BY <2>3 DEF TypeOK
    <3>2. Dispatched' = Dispatched \cup {c}
      BY <2>3, <3>1 DEF Dispatched, Sent
    <3>3. DoneMarked'
      BY <1>0, <2>3, <3>1 DEF DoneMarked
    <3>4. /\ pass'.todo # {} => pass'.remaining # 0
          /\ pass'.remaining = 0 \/ pass'.remaining = pass.remaining - 1
      BY <2>1, <2>3, LoopLeaves
    <3>5. Cardinality(Dispatched') \in Nat
            /\ Cardinality(Dispatched') <= Cardinality(Dispatched) + 1
      <4>1. Cardinality(Dispatched \cup {c}) = IF c \in Dispatched THEN Cardinality(Dispatched)
                                                 ELSE Cardinality(Dispatched) + 1
        BY <1>0, FS_AddElement
      <4>2. Cardinality(Dispatched') = Cardinality(Dispatched \cup {c})
        BY <3>2
      <4>3. QED
        BY <1>0, <4>1, <4>2
    <3>6. QED
      BY <1>0, <2>1, <3>3, <3>4, <3>5 DEF CapInv
  <2>4. QED
    BY <1>3, <2>2, <2>3 DEF Consider
<1>4. ASSUME PassDies PROVE CapInv'
  <2>1. Dispatched' = Dispatched /\ DoneMarked' /\ drained' = drained
    BY <1>0, <1>4 DEF PassDies, Dispatched, Sent, DoneMarked
  <2>2. pass'.todo = {} /\ pass'.remaining = 0 /\ pass.remaining \in Nat /\ Cap \in Nat
    BY <1>4, AgentAssumption DEF PassDies, NoPass, TypeOK
  <2>3. QED
    BY <1>0, <2>1, <2>2 DEF CapInv
<1>5. ASSUME NEW e \in Events, Deliver(e) PROVE CapInv'
  <2>1. DoneMarked'
    BY <1>0, <1>5 DEF Deliver, DoneMarked, TypeOK
  <2>2. QED
    BY <1>5, <2>1, CapFrame DEF Deliver, TypeOK
<1>6. ASSUME NEW e \in Events, Admit(e) \/ Judge(e) \/ Update(e) PROVE CapInv'
  <2>1. DoneMarked'
    BY <1>0, <1>6 DEF Admit, Judge, Update, DoneMarked, TypeOK
  <2>2. QED
    BY <1>6, <2>1, CapFrame DEF Admit, Judge, Update, TypeOK
<1>7. ASSUME NEW e \in Events, Generate(e) \/ Fail(e) PROVE CapInv'
  <2>1. DoneMarked'
    BY <1>0, <1>7 DEF Generate, Fail, Abandon, DoneMarked, TypeOK
  <2>2. QED
    BY <1>7, <2>1, CapFrame DEF Generate, Fail, Abandon, TypeOK
<1>8. ASSUME NEW e \in Events, Mark(e) PROVE CapInv'
  <2>1. DoneMarked'
    BY <1>0, <1>8 DEF Mark, DoneMarked, TypeOK
  <2>2. QED
    BY <1>8, <2>1, CapFrame DEF Mark, TypeOK
<1>9. CASE UNCHANGED vars
  BY <1>9, <1>0, CapFrame DEF vars, DoneMarked
<1>10. QED
  BY <1>1, <1>2, <1>3, <1>4, <1>5, <1>6, <1>7, <1>8, <1>9 DEF Next, Attempt

(* For any contacts, cap and number of passes, a day whose passes each     *)
(* began with nothing left over dispatches no more contacts than the cap.  *)
THEOREM CapIsHonoured == Spec => []CapHonouredWhenDrained
<1>1. Init => CapInv
  <2> SUFFICES ASSUME Init PROVE CapInv
    OBVIOUS
  <2>1. Dispatched = {} /\ DoneMarked
    BY DEF Init, Dispatched, Sent, DoneMarked
  <2>2. pass.todo = {} /\ pass.remaining = 0 /\ Cap \in Nat
    BY AgentAssumption DEF Init, NoPass
  <2>3. QED
    BY <2>1, <2>2, FS_EmptySet DEF CapInv
<1>2. TypeOK /\ CapInv => CapHonouredWhenDrained
  <2> SUFFICES ASSUME TypeOK, CapInv, drained PROVE Cardinality(Dispatched) <= Cap
    BY DEF CapHonouredWhenDrained, Dispatched
  <2>1. pass.remaining \in Nat /\ Cap \in Nat /\ Cardinality(Dispatched) \in Nat
    BY AgentAssumption, DispatchedType DEF TypeOK
  <2>2. QED
    BY <2>1 DEF CapInv
<1>3. QED
  BY <1>1, <1>2, CapStep, AgentTypeCorrect, MarkedIsRecorded, PTL DEF Spec

=============================================================================
