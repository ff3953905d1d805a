------------------------ MODULE DraftLifecycleProofs ------------------------
(***************************************************************************)
(* What holds of DraftLifecycle for every set of calls, of every kind, in  *)
(* every interleaving.                                                     *)
(***************************************************************************)
EXTENDS DraftLifecycle, TLAPS

(* Every step keeps the types: the draft stays a row with a known state    *)
(* and verdict, and each call's copy of it is such a row.                  *)
THEOREM DraftTypeCorrect == Spec => []TypeOK
<1> USE KindsAssumption DEF KnownKinds
<1>1. Init => TypeOK
  <2> SUFFICES ASSUME Init PROVE TypeOK
    OBVIOUS
  <2>1. PICK o \in Outcomes :
          draft = [body |-> Original, outcome |-> o, edited |-> FALSE, approval |-> None,
                   state |-> IF o = "BLOCK" THEN "HELD" ELSE "PENDING"]
    BY DEF Init
  <2>2. draft \in Drafts
    BY <2>1 DEF Drafts, Texts, None
  <2>3. draft.outcome \in Outcomes
    BY <2>1
  <2>4. verdictOf \in [Texts -> Outcomes]
    BY <2>3 DEF Init
  <2>5. kind \in [Requests -> KnownKinds] /\ queue \in QueueStates
    BY DEF Init, QueueStates
  <2>6. pc \in [Requests -> PCs] /\ snap \in [Requests -> Drafts]
    BY <2>2 DEF Init, PCs
  <2>7. QED
    BY <2>2, <2>4, <2>5, <2>6 DEF Init, TypeOK
<1>2. TypeOK /\ [Next]_vars => TypeOK'
  <2> SUFFICES ASSUME TypeOK, [Next]_vars PROVE TypeOK'
    OBVIOUS
  <2> USE DEF TypeOK, PCs, Goto, AfterDecision, Report, sending, history
  <2>1. ASSUME NEW r \in Requests, Read(r) PROVE TypeOK'
    BY <2>1 DEF Read
  <2>2. ASSUME NEW r \in Requests, WriteApproval(r) PROVE TypeOK'
    BY <2>2 DEF WriteApproval, Drafts, Texts
  <2>3. ASSUME NEW r \in Requests, WriteDecline(r) PROVE TypeOK'
    BY <2>3 DEF WriteDecline, Drafts
  <2>4. ASSUME NEW r \in Requests, NEW v \in {"PASS", "FLAG", "BLOCK"}, WriteBody(r, v)
        PROVE TypeOK'
    <3>1. (snap[r].state = "APPROVED" \/ snap[r].edited) \in BOOLEAN
      OBVIOUS
    <3>2. draft.edited \in BOOLEAN
      BY DEF Drafts
    <3>3. draft'.edited \in BOOLEAN
      BY <2>4, <3>1, <3>2 DEF WriteBody
    <3>4. draft' \in Drafts
      BY <2>4, <3>3 DEF WriteBody, Drafts, Texts, Outcomes, None
    <3>5. verdictOf' \in [Texts -> Outcomes]
      BY <2>4 DEF WriteBody, Texts, Outcomes
    <3>6. QED
      BY <2>4, <3>4, <3>5 DEF WriteBody
  <2>5. ASSUME NEW r \in Requests, EnsureQueueEntry(r) PROVE TypeOK'
    BY <2>5 DEF EnsureQueueEntry
  <2>6. ASSUME NEW r \in Requests, CreateRow(r) PROVE TypeOK'
    BY <2>6 DEF CreateRow, QueueStates
  <2>7. ASSUME NEW r \in Requests, CloseRow(r) PROVE TypeOK'
    BY <2>7 DEF CloseRow, QueueStates
  <2>8. ASSUME NEW r \in Requests, ListOverdue(r) PROVE TypeOK'
    BY <2>8 DEF ListOverdue
  <2>9. ASSUME NEW r \in Requests, MarkRow(r) PROVE TypeOK'
    BY <2>9 DEF MarkRow, QueueStates
  <2>10. ASSUME NEW r \in Requests, HoldDraft(r) PROVE TypeOK'
    BY <2>10 DEF HoldDraft, Drafts
  <2>11. ASSUME NEW r \in Requests, Fails(r) PROVE TypeOK'
    BY <2>11 DEF Fails
  <2>12. ASSUME NEW r \in Requests, SendRead(r) PROVE TypeOK'
    BY <2>12 DEF SendRead
  <2>13. ASSUME NEW r \in Requests, SendGates(r) PROVE TypeOK'
    BY <2>13 DEF SendGates
  <2>14. ASSUME NEW r \in Requests, Dispatch(r) PROVE TypeOK'
    BY <2>14 DEF Dispatch, Drafts
  <2>15. ASSUME NEW r \in Requests, Record(r) PROVE TypeOK'
    BY <2>15 DEF Record
  <2>16. ASSUME NEW r \in Requests, RecordFailure(r) PROVE TypeOK'
    BY <2>16 DEF RecordFailure
  <2>17. CASE UNCHANGED vars
    BY <2>17 DEF vars
  <2> HIDE DEF TypeOK, PCs, Goto, AfterDecision, Report, sending, history
  <2>18. QED
    BY <2>1, <2>2, <2>3, <2>4, <2>5, <2>6, <2>7, <2>8, <2>9, <2>10, <2>11,
       <2>12, <2>13, <2>14, <2>15, <2>16, <2>17 DEF Next, Step
<1>3. QED
  BY <1>1, <1>2, PTL DEF Spec

-----------------------------------------------------------------------------

(* A text is written once, by the call it is named after, together with    *)
(* its verdict: so every copy of the row carries the verdict of its text.  *)
Unwritten(r) ==
    /\ draft.body # r
    /\ \A q \in Requests : snap[q].body # r /\ sent[q] # r

VerdictKept ==
    /\ draft.outcome = verdictOf[draft.body]
    /\ \A q \in Requests : snap[q].outcome = verdictOf[snap[q].body]
    /\ \A q \in Requests : pc[q] \in {"idle", "checked"} => Unwritten(q)
    /\ \A q \in Requests : pc[q] \in {"gates", "dispatch"} => snap[q].outcome \in {"PASS", "FLAG"}
    /\ OnlyReleasedDispatched

LEMMA VerdictInit == Init => VerdictKept
<1> SUFFICES ASSUME Init PROVE VerdictKept
  OBVIOUS
<1>1. PICK o \in Outcomes :
        draft = [body |-> Original, outcome |-> o, edited |-> FALSE, approval |-> None,
                 state |-> IF o = "BLOCK" THEN "HELD" ELSE "PENDING"]
  BY DEF Init
<1>2. draft.body = Original /\ verdictOf[Original] = draft.outcome
  BY <1>1 DEF Init, Texts
<1>3. QED
  BY <1>2, KindsAssumption DEF Init, VerdictKept, Unwritten, OnlyReleasedDispatched

(* A step that moves a call past its write, or nowhere, and changes no     *)
(* text, verdict or copy.                                                  *)
LEMMA VerdictFrame ==
  ASSUME TypeOK, VerdictKept, NEW r \in Requests,
         draft'.body = draft.body, draft'.outcome = draft.outcome,
         UNCHANGED <<snap, sent, verdictOf>>,
         \A q \in Requests \ {r} : pc'[q] = pc[q],
         pc'[r] \in {"idle", "checked"} => pc[r] \in {"idle", "checked"},
         pc'[r] \in {"gates", "dispatch"} => pc[r] \in {"gates", "dispatch"}
  PROVE  VerdictKept'
BY DEF VerdictKept, Unwritten, OnlyReleasedDispatched

LEMMA VerdictStep == TypeOK /\ VerdictKept /\ [Next]_vars => VerdictKept'
<1> SUFFICES ASSUME TypeOK, VerdictKept, [Next]_vars PROVE VerdictKept'
  OBVIOUS
<1> USE DEF Goto, AfterDecision, Report, sending, history
<1>1. ASSUME NEW r \in Requests, Read(r) PROVE VerdictKept'
  BY <1>1 DEF Read, VerdictKept, Unwritten, OnlyReleasedDispatched, TypeOK
<1>2. ASSUME NEW r \in Requests, WriteApproval(r) PROVE VerdictKept'
  <2>1. draft'.body = draft.body /\ draft'.outcome = draft.outcome
    BY <1>2 DEF WriteApproval, TypeOK, Drafts
  <2>2. QED
    BY <1>2, <2>1, VerdictFrame DEF WriteApproval, TypeOK
<1>3. ASSUME NEW r \in Requests, WriteDecline(r) PROVE VerdictKept'
  <2>1. draft'.body = draft.body /\ draft'.outcome = draft.outcome
    BY <1>3 DEF WriteDecline, TypeOK, Drafts
  <2>2. QED
    BY <1>3, <2>1, VerdictFrame DEF WriteDecline, TypeOK
<1>4. ASSUME NEW r \in Requests, NEW v \in {"PASS", "FLAG", "BLOCK"}, WriteBody(r, v)
      PROVE VerdictKept'
  <2>1. draft'.body = r /\ draft'.outcome = v
    BY <1>4 DEF WriteBody
  <2>2. verdictOf' = [verdictOf EXCEPT ![r] = v] /\ r \in Texts /\ r # "nothing"
    BY <1>4, KindsAssumption DEF WriteBody, Texts
  <2>3. Unwritten(r)
    BY <1>4 DEF WriteBody, VerdictKept
  <2>4. \A t \in Texts \ {r} : verdictOf'[t] = verdictOf[t]
    BY <2>2 DEF TypeOK
  <2>5. \A q \in Requests : snap[q].body \in Texts /\ sent[q] \in Texts \cup {"nothing"}
    BY DEF TypeOK, Drafts
  <2>6. UNCHANGED <<snap, sent>> /\ pc'[r] \in {"decided", "done"}
          /\ \A q \in Requests \ {r} : pc'[q] = pc[q]
    BY <1>4 DEF WriteBody, TypeOK
  <2>7. verdictOf'[r] = v
    BY <2>2 DEF TypeOK
  <2>8. QED
    BY <2>1, <2>3, <2>4, <2>5, <2>6, <2>7 DEF VerdictKept, Unwritten, OnlyReleasedDispatched
<1>5. ASSUME NEW r \in Requests, EnsureQueueEntry(r) PROVE VerdictKept'
  BY <1>5, VerdictFrame DEF EnsureQueueEntry, TypeOK
<1>6. ASSUME NEW r \in Requests, CreateRow(r) PROVE VerdictKept'
  BY <1>6, VerdictFrame DEF CreateRow, TypeOK
<1>7. ASSUME NEW r \in Requests, CloseRow(r) PROVE VerdictKept'
  BY <1>7, VerdictFrame DEF CloseRow, TypeOK
<1>8. ASSUME NEW r \in Requests, ListOverdue(r) PROVE VerdictKept'
  BY <1>8, VerdictFrame DEF ListOverdue, TypeOK
<1>9. ASSUME NEW r \in Requests, MarkRow(r) PROVE VerdictKept'
  BY <1>9, VerdictFrame DEF MarkRow, TypeOK
<1>10. ASSUME NEW r \in Requests, HoldDraft(r) PROVE VerdictKept'
  <2>1. draft'.body = draft.body /\ draft'.outcome = draft.outcome
    BY <1>10 DEF HoldDraft, TypeOK, Drafts
  <2>2. QED
    BY <1>10, <2>1, VerdictFrame DEF HoldDraft, TypeOK
<1>11. ASSUME NEW r \in Requests, Fails(r) PROVE VerdictKept'
  BY <1>11, VerdictFrame DEF Fails, TypeOK
<1>12. ASSUME NEW r \in Requests, SendRead(r) PROVE VerdictKept'
  BY <1>12 DEF SendRead, Cleared, VerdictKept, Unwritten, OnlyReleasedDispatched, TypeOK
<1>13. ASSUME NEW r \in Requests, SendGates(r) PROVE VerdictKept'
  BY <1>13, VerdictFrame DEF SendGates, TypeOK
<1>14. ASSUME NEW r \in Requests, Dispatch(r) PROVE VerdictKept'
  BY <1>14 DEF Dispatch, VerdictKept, Unwritten, OnlyReleasedDispatched, TypeOK
<1>15. ASSUME NEW r \in Requests, Record(r) PROVE VerdictKept'
  BY <1>15, VerdictFrame DEF Record, TypeOK
<1>16. ASSUME NEW r \in Requests, RecordFailure(r) PROVE VerdictKept'
  BY <1>16, VerdictFrame DEF RecordFailure, TypeOK
<1>17. CASE UNCHANGED vars
  BY <1>17 DEF vars, VerdictKept, Unwritten, OnlyReleasedDispatched
<1> HIDE DEF Goto, AfterDecision, Report, sending, history
<1>18. QED
  BY <1>1, <1>2, <1>3, <1>4, <1>5, <1>6, <1>7, <1>8, <1>9, <1>10, <1>11,
     <1>12, <1>13, <1>14, <1>15, <1>16, <1>17 DEF Next, Step

(* Whatever the interleaving of edits, approvals, escalations and sends, a *)
(* text reaches a contact only if that very text was passed or flagged.    *)
THEOREM ReleasedOnly == Spec => []OnlyReleasedDispatched
<1>1. VerdictKept => OnlyReleasedDispatched
  BY DEF VerdictKept
<1>2. QED
  BY <1>1, VerdictInit, VerdictStep, DraftTypeCorrect, PTL DEF Spec

-----------------------------------------------------------------------------

(* Nothing has gone out, and nothing is reported, before a call reaches    *)
(* its recording steps; after a dispatch a call stands at one of them.     *)
ReportKept ==
    /\ \A r \in Requests :
        /\ result[r] # "none" => pc[r] = "done"
        /\ pc[r] \notin {"record", "recordFailure", "done", "failed"} => sent[r] = "nothing"
        /\ pc[r] = "record" => sent[r] # "nothing"
        /\ pc[r] = "recordFailure" => sent[r] = "nothing" \/ r \in lost
    /\ SendReportsTruly

LEMMA ReportStep == TypeOK /\ ReportKept /\ [Next]_vars => ReportKept'
<1> SUFFICES ASSUME TypeOK, ReportKept, [Next]_vars PROVE ReportKept'
  OBVIOUS
<1> USE DEF Goto, AfterDecision, Report, sending, history
<1>1. ASSUME NEW r \in Requests, Read(r) PROVE ReportKept'
  BY <1>1 DEF Read, ReportKept, SendReportsTruly, TypeOK
<1>2. ASSUME NEW r \in Requests, WriteApproval(r) PROVE ReportKept'
  BY <1>2 DEF WriteApproval, ReportKept, SendReportsTruly, TypeOK
<1>3. ASSUME NEW r \in Requests, WriteDecline(r) PROVE ReportKept'
  BY <1>3 DEF WriteDecline, ReportKept, SendReportsTruly, TypeOK
<1>4. ASSUME NEW r \in Requests, NEW v \in {"PASS", "FLAG", "BLOCK"}, WriteBody(r, v)
      PROVE ReportKept'
  BY <1>4 DEF WriteBody, ReportKept, SendReportsTruly, TypeOK
<1>5. ASSUME NEW r \in Requests, EnsureQueueEntry(r) PROVE ReportKept'
  BY <1>5 DEF EnsureQueueEntry, ReportKept, SendReportsTruly, TypeOK
<1>6. ASSUME NEW r \in Requests, CreateRow(r) PROVE ReportKept'
  BY <1>6 DEF CreateRow, ReportKept, SendReportsTruly, TypeOK
<1>7. ASSUME NEW r \in Requests, CloseRow(r) PROVE ReportKept'
  BY <1>7 DEF CloseRow, ReportKept, SendReportsTruly, TypeOK
<1>8. ASSUME NEW r \in Requests, ListOverdue(r) PROVE ReportKept'
  BY <1>8 DEF ListOverdue, ReportKept, SendReportsTruly, TypeOK
<1>9. ASSUME NEW r \in Requests, MarkRow(r) PROVE ReportKept'
  BY <1>9 DEF MarkRow, ReportKept, SendReportsTruly, TypeOK
<1>10. ASSUME NEW r \in Requests, HoldDraft(r) PROVE ReportKept'
  BY <1>10 DEF HoldDraft, ReportKept, SendReportsTruly, TypeOK
<1>11. ASSUME NEW r \in Requests, Fails(r) PROVE ReportKept'
  BY <1>11 DEF Fails, ReportKept, SendReportsTruly, TypeOK
<1>12. ASSUME NEW r \in Requests, SendRead(r) PROVE ReportKept'
  BY <1>12 DEF SendRead, ReportKept, SendReportsTruly, TypeOK
<1>13. ASSUME NEW r \in Requests, SendGates(r) PROVE ReportKept'
  BY <1>13 DEF SendGates, ReportKept, SendReportsTruly, TypeOK
<1>14. ASSUME NEW r \in Requests, Dispatch(r) PROVE ReportKept'
  <2>1. snap[r].body # "nothing"
    BY KindsAssumption DEF TypeOK, Drafts, Texts
  <2>2. QED
    BY <1>14, <2>1 DEF Dispatch, ReportKept, SendReportsTruly, TypeOK
<1>15. ASSUME NEW r \in Requests, Record(r) PROVE ReportKept'
  BY <1>15 DEF Record, ReportKept, SendReportsTruly, TypeOK
<1>16. ASSUME NEW r \in Requests, RecordFailure(r) PROVE ReportKept'
  BY <1>16 DEF RecordFailure, ReportKept, SendReportsTruly, TypeOK
<1>17. CASE UNCHANGED vars
  BY <1>17 DEF vars, ReportKept, SendReportsTruly, TypeOK
<1> HIDE DEF Goto, AfterDecision, Report, sending, history
<1>18. QED
  BY <1>1, <1>2, <1>3, <1>4, <1>5, <1>6, <1>7, <1>8, <1>9, <1>10, <1>11,
     <1>12, <1>13, <1>14, <1>15, <1>16, <1>17 DEF Next, Step

(* What a send reports is what happened: SENT is dispatched and on record, *)
(* and a hold or a failure dispatched nothing unless an answer was lost.   *)
THEOREM ReportsTrue == Spec => []SendReportsTruly
<1>1. Init => ReportKept
  BY DEF Init, ReportKept, SendReportsTruly
<1>2. ReportKept => SendReportsTruly
  BY DEF ReportKept
<1>3. QED
  BY <1>1, <1>2, ReportStep, DraftTypeCorrect, PTL DEF Spec

-----------------------------------------------------------------------------

(* Once a decline is final, no handler is between its read of the draft    *)
(* and its write, and the sweep finds no undecided row.                    *)
FinalKept ==
    final =>
        /\ draft.state = "DECLINED"
        /\ queue # "PENDING"
        /\ \A q \in Requests :
            /\ pc[q] \notin {"checked", "overdue", "escalating"}
            /\ pc[q] = "decided" => kind[q] # "enqueue"

LEMMA FinalStep == TypeOK /\ FinalKept /\ [Next]_vars => FinalKept'
<1> SUFFICES ASSUME TypeOK, FinalKept, [Next]_vars PROVE FinalKept'
  OBVIOUS
<1> USE DEF Goto, AfterDecision, Report, sending, history
<1>1. ASSUME NEW r \in Requests, Read(r) PROVE FinalKept'
  BY <1>1 DEF Read, Admits, RepDeclines, FinalKept, TypeOK
<1>2. ASSUME NEW r \in Requests, WriteApproval(r) PROVE FinalKept'
  BY <1>2 DEF WriteApproval, FinalKept, TypeOK
<1>3. ASSUME NEW r \in Requests, WriteDecline(r) PROVE FinalKept'
  <2>1. draft'.state = "DECLINED"
    BY <1>3 DEF WriteDecline, TypeOK, Drafts
  <2>2. pc'[r] = "done" \/ (pc'[r] = "decided" /\ kind[r] \in UplineKinds)
    BY <1>3 DEF WriteDecline, TypeOK
  <2>3. QED
    BY <1>3, <2>1, <2>2 DEF WriteDecline, Undoable, UplineKinds, FinalKept, TypeOK
<1>4. ASSUME NEW r \in Requests, NEW v \in {"PASS", "FLAG", "BLOCK"}, WriteBody(r, v)
      PROVE FinalKept'
  BY <1>4 DEF WriteBody, FinalKept, TypeOK
<1>5. ASSUME NEW r \in Requests, EnsureQueueEntry(r) PROVE FinalKept'
  BY <1>5 DEF EnsureQueueEntry, FinalKept, TypeOK
<1>6. ASSUME NEW r \in Requests, CreateRow(r) PROVE FinalKept'
  BY <1>6 DEF CreateRow, FinalKept, TypeOK
<1>7. ASSUME NEW r \in Requests, CloseRow(r) PROVE FinalKept'
  BY <1>7 DEF CloseRow, FinalKept, TypeOK
<1>8. ASSUME NEW r \in Requests, ListOverdue(r) PROVE FinalKept'
  BY <1>8 DEF ListOverdue, FinalKept, TypeOK
<1>9. ASSUME NEW r \in Requests, MarkRow(r) PROVE FinalKept'
  BY <1>9 DEF MarkRow, FinalKept, TypeOK
<1>10. ASSUME NEW r \in Requests, HoldDraft(r) PROVE FinalKept'
  BY <1>10 DEF HoldDraft, FinalKept, TypeOK
<1>11. ASSUME NEW r \in Requests, Fails(r) PROVE FinalKept'
  BY <1>11 DEF Fails, FinalKept, TypeOK
<1>12. ASSUME NEW r \in Requests, SendRead(r) PROVE FinalKept'
  BY <1>12 DEF SendRead, FinalKept, TypeOK
<1>13. ASSUME NEW r \in Requests, SendGates(r) PROVE FinalKept'
  BY <1>13 DEF SendGates, FinalKept, TypeOK
<1>14. ASSUME NEW r \in Requests, Dispatch(r) PROVE FinalKept'
  BY <1>14 DEF Dispatch, FinalKept, TypeOK
<1>15. ASSUME NEW r \in Requests, Record(r) PROVE FinalKept'
  BY <1>15 DEF Record, FinalKept, TypeOK
<1>16. ASSUME NEW r \in Requests, RecordFailure(r) PROVE FinalKept'
  BY <1>16 DEF RecordFailure, FinalKept, TypeOK
<1>17. CASE UNCHANGED vars
  BY <1>17 DEF vars, FinalKept, TypeOK
<1> HIDE DEF Goto, AfterDecision, Report, sending, history
<1>18. QED
  BY <1>1, <1>2, <1>3, <1>4, <1>5, <1>6, <1>7, <1>8, <1>9, <1>10, <1>11,
     <1>12, <1>13, <1>14, <1>15, <1>16, <1>17 DEF Next, Step

(* A decline that lands while nothing can undo it stands for ever.         *)
THEOREM DeclineStands == Spec => []FinalDeclineStands
<1>1. Init => FinalKept
  BY DEF Init, FinalKept
<1>2. FinalKept => FinalDeclineStands
  BY DEF FinalKept, FinalDeclineStands
<1>3. QED
  BY <1>1, <1>2, FinalStep, DraftTypeCorrect, PTL DEF Spec

-----------------------------------------------------------------------------

(* The approval a copy of the row carries was made by a call that has      *)
(* finished its write and, unless an edit crossed it, read this very text. *)
Covered(d) ==
    d.state = "APPROVED" =>
        /\ d.approval \in Requests
        /\ kind[d.approval] \in Approvals
        /\ pc[d.approval] \notin {"idle", "checked"}
        /\ d.approval \notin crossed =>
            /\ d.body = snap[d.approval].body
            /\ d.outcome = "FLAG" => kind[d.approval] \in {"justify", "uplineApprove"}

ApprovalKept ==
    /\ Covered(draft)
    /\ \A q \in Requests : Covered(snap[q])
    /\ \A q \in Requests : pc[q] = "checked" /\ kind[q] \in Approvals =>
        /\ Admits(kind[q], snap[q])
        /\ q \notin crossed => snap[q].body = draft.body /\ snap[q].outcome = draft.outcome
    /\ \A q \in Requests : pc[q] \in {"gates", "dispatch"} => snap[q].state = "APPROVED"
    /\ \A q \in Requests : sent[q] # "nothing" =>
        sent[q] = snap[q].body /\ snap[q].state = "APPROVED"

LEMMA ApprovalInit == Init => ApprovalKept
<1> SUFFICES ASSUME Init PROVE ApprovalKept
  OBVIOUS
<1>1. draft.state # "APPROVED"
  BY DEF Init
<1>2. QED
  BY <1>1 DEF Init, ApprovalKept, Covered

(* A step after a call's write that approves nothing and leaves texts and  *)
(* copies alone.                                                           *)
LEMMA ApprovalFrame ==
  ASSUME TypeOK, ApprovalKept, NEW r \in Requests,
         draft'.body = draft.body, draft'.outcome = draft.outcome,
         draft' = draft \/ draft'.state # "APPROVED",
         UNCHANGED <<kind, snap, sent, crossed>>,
         \A q \in Requests \ {r} : pc'[q] = pc[q],
         pc'[r] \notin {"idle", "checked"},
         pc'[r] \in {"gates", "dispatch"} => pc[r] \in {"gates", "dispatch"}
  PROVE  ApprovalKept'
<1>1. Covered(draft)' /\ \A q \in Requests : Covered(snap[q])'
  BY DEF Covered, ApprovalKept
<1>2. QED
  BY <1>1 DEF ApprovalKept

LEMMA ApprovalStep ==
  TypeOK /\ ReportKept /\ ApprovalKept /\ [Next]_vars => ApprovalKept'
<1> SUFFICES ASSUME TypeOK, ReportKept, ApprovalKept, [Next]_vars PROVE ApprovalKept'
  OBVIOUS
<1> USE DEF Goto, AfterDecision, Report, sending, history
<1>1. ASSUME NEW r \in Requests, Read(r) PROVE ApprovalKept'
  <2>1. pc[r] = "idle" /\ snap' = [snap EXCEPT ![r] = draft] /\ pc'[r] \in {"checked", "done"}
    BY <1>1 DEF Read, TypeOK
  <2>2. pc'[r] = "checked" => Admits(kind[r], draft)
    BY <1>1 DEF Read, TypeOK
  <2>3. \A d : Covered(d) => Covered(d)'
    BY <1>1, <2>1 DEF Read, Covered, TypeOK
  <2>4. sent[r] = "nothing"
    BY <2>1 DEF ReportKept
  <2>5. UNCHANGED <<draft, kind, sent, crossed>> /\ \A q \in Requests \ {r} : pc'[q] = pc[q]
    BY <1>1 DEF Read, TypeOK
  <2>6. snap'[r] = draft /\ \A q \in Requests \ {r} : snap'[q] = snap[q]
    BY <2>1 DEF TypeOK
  <2>7. Covered(draft)' /\ \A q \in Requests : Covered(snap[q])'
    BY <2>3, <2>5, <2>6 DEF ApprovalKept, Covered
  <2>8. QED
    BY <2>1, <2>2, <2>4, <2>5, <2>6, <2>7 DEF ApprovalKept
<1>2. ASSUME NEW r \in Requests, WriteApproval(r) PROVE ApprovalKept'
  <2>1. draft'.state = "APPROVED" /\ draft'.approval = r
          /\ draft'.body = draft.body /\ draft'.outcome = draft.outcome
    BY <1>2 DEF WriteApproval, TypeOK, Drafts
  <2>2. pc'[r] \in {"decided", "done"} /\ kind[r] \in Approvals
          /\ UNCHANGED <<kind, snap, sent, crossed>>
          /\ \A q \in Requests \ {r} : pc'[q] = pc[q]
    BY <1>2 DEF WriteApproval, TypeOK
  <2>3. Admits(kind[r], snap[r])
          /\ (r \notin crossed => snap[r].body = draft.body /\ snap[r].outcome = draft.outcome)
    BY <1>2 DEF WriteApproval, ApprovalKept
  <2>4. snap[r].outcome = "FLAG" => kind[r] \in {"justify", "uplineApprove"}
    BY <2>2, <2>3 DEF Admits, Approvals, RepApprovals, RepDeclines
  <2>5. Covered(draft)'
    BY <2>1, <2>2, <2>3, <2>4 DEF Covered
  <2>6. \A q \in Requests : Covered(snap[q])'
    BY <2>2 DEF Covered, ApprovalKept
  <2>7. QED
    BY <2>1, <2>2, <2>5, <2>6 DEF ApprovalKept
<1>3. ASSUME NEW r \in Requests, WriteDecline(r) PROVE ApprovalKept'
  <2>1. draft'.body = draft.body /\ draft'.outcome = draft.outcome
          /\ draft'.state # "APPROVED"
    BY <1>3 DEF WriteDecline, TypeOK, Drafts
  <2>2. QED
    BY <1>3, <2>1, ApprovalFrame DEF WriteDecline, TypeOK
<1>4. ASSUME NEW r \in Requests, NEW v \in {"PASS", "FLAG", "BLOCK"}, WriteBody(r, v)
      PROVE ApprovalKept'
  <2>1. draft'.state # "APPROVED"
    BY <1>4 DEF WriteBody
  <2>2. UNCHANGED <<kind, snap, sent>> /\ pc'[r] \in {"decided", "done"}
          /\ \A q \in Requests \ {r} : pc'[q] = pc[q]
    BY <1>4 DEF WriteBody, TypeOK
  <2>3. crossed \subseteq crossed'
          /\ \A q \in Requests : pc[q] = "checked" /\ kind[q] \in Approvals => q \in crossed'
    BY <1>4 DEF WriteBody
  <2>4. \A q \in Requests : Covered(snap[q])'
    BY <2>2, <2>3 DEF Covered, ApprovalKept
  <2>5. QED
    BY <2>1, <2>2, <2>3, <2>4 DEF ApprovalKept, Covered
<1>5. ASSUME NEW r \in Requests, EnsureQueueEntry(r) PROVE ApprovalKept'
  BY <1>5, ApprovalFrame DEF EnsureQueueEntry, TypeOK
<1>6. ASSUME NEW r \in Requests, CreateRow(r) PROVE ApprovalKept'
  BY <1>6, ApprovalFrame DEF CreateRow, TypeOK
<1>7. ASSUME NEW r \in Requests, CloseRow(r) PROVE ApprovalKept'
  BY <1>7, ApprovalFrame DEF CloseRow, TypeOK
<1>8. ASSUME NEW r \in Requests, ListOverdue(r) PROVE ApprovalKept'
  BY <1>8, ApprovalFrame DEF ListOverdue, TypeOK
<1>9. ASSUME NEW r \in Requests, MarkRow(r) PROVE ApprovalKept'
  BY <1>9, ApprovalFrame DEF MarkRow, TypeOK
<1>10. ASSUME NEW r \in Requests, HoldDraft(r) PROVE ApprovalKept'
  <2>1. draft'.body = draft.body /\ draft'.outcome = draft.outcome
          /\ draft'.state # "APPROVED"
    BY <1>10 DEF HoldDraft, TypeOK, Drafts
  <2>2. QED
    BY <1>10, <2>1, ApprovalFrame DEF HoldDraft, TypeOK
<1>11. ASSUME NEW r \in Requests, Fails(r) PROVE ApprovalKept'
  BY <1>11, ApprovalFrame DEF Fails, TypeOK
<1>12. ASSUME NEW r \in Requests, SendRead(r) PROVE ApprovalKept'
  <2>1. pc[r] = "idle" /\ snap' = [snap EXCEPT ![r] = draft] /\ pc'[r] \in {"gates", "done"}
    BY <1>12 DEF SendRead, TypeOK
  <2>2. pc'[r] = "gates" => draft.state = "APPROVED"
    BY <1>12 DEF SendRead, Cleared, TypeOK
  <2>3. \A d : Covered(d) => Covered(d)'
    BY <1>12, <2>1 DEF SendRead, Covered, TypeOK
  <2>4. sent[r] = "nothing"
    BY <2>1 DEF ReportKept
  <2>5. UNCHANGED <<draft, kind, sent, crossed>> /\ \A q \in Requests \ {r} : pc'[q] = pc[q]
    BY <1>12 DEF SendRead, TypeOK
  <2>6. snap'[r] = draft /\ \A q \in Requests \ {r} : snap'[q] = snap[q]
    BY <2>1 DEF TypeOK
  <2>7. Covered(draft)' /\ \A q \in Requests : Covered(snap[q])'
    BY <2>3, <2>5, <2>6 DEF ApprovalKept, Covered
  <2>8. QED
    BY <2>1, <2>2, <2>4, <2>5, <2>6, <2>7 DEF ApprovalKept
<1>13. ASSUME NEW r \in Requests, SendGates(r) PROVE ApprovalKept'
  BY <1>13, ApprovalFrame DEF SendGates, TypeOK
<1>14. ASSUME NEW r \in Requests, Dispatch(r) PROVE ApprovalKept'
  <2>1. snap[r].state = "APPROVED"
    BY <1>14 DEF Dispatch, ApprovalKept
  <2>2. sent' \in {sent, [sent EXCEPT ![r] = snap[r].body]}
    BY <1>14 DEF Dispatch
  <2>3. UNCHANGED <<draft, kind, snap, crossed>> /\ pc'[r] \in {"record", "recordFailure"}
          /\ \A q \in Requests \ {r} : pc'[q] = pc[q]
    BY <1>14 DEF Dispatch, TypeOK
  <2>4. Covered(draft)' /\ \A q \in Requests : Covered(snap[q])'
    BY <2>3 DEF ApprovalKept, Covered
  <2>5. \A q \in Requests : sent'[q] # "nothing" =>
            sent'[q] = snap[q].body /\ snap[q].state = "APPROVED"
    BY <2>1, <2>2 DEF ApprovalKept, TypeOK
  <2>6. QED
    BY <2>3, <2>4, <2>5 DEF ApprovalKept
<1>15. ASSUME NEW r \in Requests, Record(r) PROVE ApprovalKept'
  BY <1>15, ApprovalFrame DEF Record, TypeOK
<1>16. ASSUME NEW r \in Requests, RecordFailure(r) PROVE ApprovalKept'
  BY <1>16, ApprovalFrame DEF RecordFailure, TypeOK
<1>17. CASE UNCHANGED vars
  BY <1>17 DEF vars, ApprovalKept, Covered
<1> HIDE DEF Goto, AfterDecision, Report, sending, history
<1>18. QED
  BY <1>1, <1>2, <1>3, <1>4, <1>5, <1>6, <1>7, <1>8, <1>9, <1>10, <1>11,
     <1>12, <1>13, <1>14, <1>15, <1>16, <1>17 DEF Next, Step

(* The approval a text goes out under was given to that text, and to a     *)
(* flagged text with a justification or by the upline, unless an edit      *)
(* landed between the approval's read of the draft and its write.          *)
THEOREM ApprovalCovers == Spec => []ApprovalCoversDispatch
<1>1. TypeOK /\ VerdictKept /\ ApprovalKept => ApprovalCoversDispatch
  BY DEF TypeOK, VerdictKept, ApprovalKept, Covered, ApprovalCoversDispatch
<1>2. Init => ReportKept
  BY DEF Init, ReportKept, SendReportsTruly
<1>3. QED
  BY <1>1, <1>2, ApprovalInit, ApprovalStep, VerdictInit, VerdictStep, ReportStep,
     DraftTypeCorrect, PTL DEF Spec

=============================================================================
