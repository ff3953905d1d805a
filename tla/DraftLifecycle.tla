--------------------------- MODULE DraftLifecycle ---------------------------
(***************************************************************************)
(* One DraftMessage row and everything that writes it: the Approval Inbox  *)
(* (approve, decline, edit), the Mission Control queue (one-tap approve    *)
(* and decline), the upline's compliance review (approve, reject, modify)  *)
(* with its review queue row, the 48-hour SLA sweep over those rows, and   *)
(* the send seam that reads the draft and dispatches it.                   *)
(*                                                                         *)
(* No handler uses a transaction: each reads the row, checks what it read, *)
(* and later updates the row by id alone.  The read and each update are    *)
(* separate steps here, and a request may die between them.  Each edit     *)
(* writes a text of its own, so a text is named after the request that     *)
(* wrote it.                                                               *)
(***************************************************************************)
EXTENDS Naturals, FiniteSets

CONSTANTS
    Requests,    \* the calls that reach the draft
    Kinds,       \* the kinds of call the instance considers
    Original     \* the text the draft was created with

KnownKinds == {"approve", "justify", "decline", "edit",
               "queueApprove", "queueDecline",
               "uplineApprove", "uplineReject", "uplineModify",
               "enqueue", "sweep", "send"}

ASSUME KindsAssumption ==
    /\ Kinds \subseteq KnownKinds
    /\ Original \notin Requests
    /\ "nothing" \notin Requests \cup {Original}

None == Original

VARIABLES
    draft,      \* the DraftMessage row
    queue,      \* status of the draft's one ComplianceReviewQueue row
    kind,       \* what each call asks for
    pc,         \* where each call stands
    snap,       \* the draft as each call read it
    result,     \* what a send reported
    sent,       \* the text a send handed to the provider
    logged,     \* the Message row a send recorded
    verdictOf,  \* the compliance verdict each text received
    crossed,    \* approvals in flight while another call replaced the text
    lost,       \* sends that lost an answer or a write after dispatching
    final       \* a decline landed with nothing pending that could undo it

vars == <<draft, queue, kind, pc, snap, result, sent, logged, verdictOf,
          crossed, lost, final>>

history == <<verdictOf, crossed, lost, final>>

sending == <<result, sent, logged, lost>>

Texts == Requests \cup {Original}

Outcomes == {"null", "PASS", "FLAG", "BLOCK"}

Drafts == [body: Texts, outcome: Outcomes, edited: BOOLEAN, approval: Texts,
           state: {"PENDING", "APPROVED", "DECLINED", "HELD"}]

PCs == {"idle", "checked", "decided", "overdue", "escalating",
        "gates", "dispatch", "record", "recordFailure", "done", "failed"}

QueueStates == {"none", "PENDING", "APPROVED", "REJECTED", "MODIFIED",
                "ESCALATED", "HELD"}

TypeOK ==
    /\ draft \in Drafts
    /\ queue \in QueueStates
    /\ kind \in [Requests -> KnownKinds]
    /\ pc \in [Requests -> PCs]
    /\ snap \in [Requests -> Drafts]
    /\ result \in [Requests -> {"none", "SENT", "HELD", "FAILED", "NOT_FOUND"}]
    /\ sent \in [Requests -> Texts \cup {"nothing"}]
    /\ logged \in [Requests -> {"none", "DELIVERED", "FAILED"}]
    /\ verdictOf \in [Texts -> Outcomes]
    /\ crossed \subseteq Requests
    /\ lost \subseteq Requests
    /\ final \in BOOLEAN

(* An agent's draft was checked when it was created: held when blocked.    *)
(* An objection response is created pending with no verdict at all.        *)
Init ==
    /\ draft \in {[body |-> Original, outcome |-> o, edited |-> FALSE,
                   approval |-> None,
                   state |-> IF o = "BLOCK" THEN "HELD" ELSE "PENDING"] : o \in Outcomes}
    /\ queue = "none"
    /\ kind \in [Requests -> Kinds]
    /\ pc = [r \in Requests |-> "idle"]
    /\ snap = [r \in Requests |-> draft]
    /\ result = [r \in Requests |-> "none"]
    /\ sent = [r \in Requests |-> "nothing"]
    /\ logged = [r \in Requests |-> "none"]
    /\ verdictOf = [t \in Texts |-> draft.outcome]
    /\ crossed = {}
    /\ lost = {}
    /\ final = FALSE

Goto(r, label) == pc' = [pc EXCEPT ![r] = label]

RepApprovals == {"approve", "justify", "queueApprove"}
Approvals == RepApprovals \cup {"uplineApprove"}
RepDeclines == {"decline", "queueDecline"}
Declines == RepDeclines \cup {"uplineReject"}
BodyWriters == {"edit", "uplineModify"}
UplineKinds == {"uplineApprove", "uplineReject", "uplineModify"}

-----------------------------------------------------------------------------

(* Seeded fault: a declined draft is editable.                             *)
AdmitsEditOfDeclined(k, d) ==
    \/ k = "edit"
    \/ k \in {"approve", "justify"} /\ d.state = "PENDING"
    \/ k \in RepDeclines /\ d.state \in {"PENDING", "HELD"}

(* What each handler requires of the draft it read.  approve is the call   *)
(* without a justification, justify the one that gives one.                *)
Admits(k, d) ==
    \/ k = "approve" /\ d.state = "PENDING" /\ d.outcome # "FLAG"
    \/ k = "justify" /\ d.state = "PENDING"
    \/ k = "edit" /\ d.state # "DECLINED"
    \/ k = "queueApprove" /\ d.state \in {"PENDING", "HELD"} /\ d.outcome = "PASS"
    \/ k \in RepDeclines /\ d.state \in {"PENDING", "HELD"}
    \/ k = "uplineApprove" /\ d.state = "PENDING" /\ d.outcome \in {"FLAG", "PASS"}
    \/ k \in {"uplineReject", "uplineModify"} /\ d.state \in {"PENDING", "HELD"}
    \/ k = "enqueue" /\ d.state = "PENDING" /\ d.outcome = "FLAG"

(* A handler reads the draft, an upline's after finding its queue row.     *)
Read(r) ==
    /\ pc[r] = "idle"
    /\ kind[r] \notin {"send", "sweep"}
    /\ snap' = [snap EXCEPT ![r] = draft]
    /\ kind[r] \in UplineKinds => queue # "none"
    /\ Goto(r, IF Admits(kind[r], draft) THEN "checked" ELSE "done")
    /\ UNCHANGED <<draft, queue, kind, sending, verdictOf, crossed, final>>

(* Whether something already under way could still change a declined row.  *)
Undoable(r) ==
    \/ queue = "PENDING"
    \/ \E q \in Requests \ {r} :
        \/ pc[q] \in {"checked", "overdue", "escalating"}
        \/ pc[q] = "decided" /\ kind[q] = "enqueue"

AfterDecision(r) == Goto(r, IF kind[r] \in UplineKinds THEN "decided" ELSE "done")

(* All approvals write the same columns; none tests the row again.         *)
WriteApproval(r) ==
    /\ pc[r] = "checked"
    /\ kind[r] \in Approvals
    /\ draft' = [draft EXCEPT !.state = "APPROVED", !.approval = r]
    /\ AfterDecision(r)
    /\ UNCHANGED <<queue, kind, snap, sending, verdictOf, crossed, final>>

WriteDecline(r) ==
    /\ pc[r] = "checked"
    /\ kind[r] \in Declines
    /\ draft' = [draft EXCEPT !.state = "DECLINED"]
    /\ final' = (final \/ ~Undoable(r))
    /\ AfterDecision(r)
    /\ UNCHANGED <<queue, kind, snap, sending, verdictOf, crossed>>

(* Seeded fault: the new text is stored beside the old text's verdict.     *)
WriteBodyKeepsOutcome(r, v) ==
    /\ pc[r] = "checked"
    /\ kind[r] \in BodyWriters
    /\ draft' = [draft EXCEPT !.body = r, !.approval = None,
                              !.state = IF v = "BLOCK" THEN "HELD" ELSE "PENDING"]
    /\ verdictOf' = [verdictOf EXCEPT ![r] = v]
    /\ AfterDecision(r)
    /\ UNCHANGED <<queue, kind, snap, sending, crossed, final>>

(* Seeded fault: an edit leaves the approval of the old text standing.     *)
WriteBodyKeepsApproval(r, v) ==
    /\ pc[r] = "checked"
    /\ kind[r] \in BodyWriters
    /\ draft' = [draft EXCEPT !.body = r, !.outcome = v]
    /\ verdictOf' = [verdictOf EXCEPT ![r] = v]
    /\ AfterDecision(r)
    /\ UNCHANGED <<queue, kind, snap, sending, crossed, final>>

(***************************************************************************)
(* An edit or an upline's modification has had the new text checked and    *)
(* writes text, verdict and state in one update, voiding the approval.     *)
(* Only the rep's edit marks a text changed after an approval, from what   *)
(* it read; nothing ever clears the mark on purpose.                       *)
(***************************************************************************)
WriteBody(r, v) ==
    /\ pc[r] = "checked"
    /\ kind[r] \in BodyWriters
    /\ draft' = [body |-> r, outcome |-> v, approval |-> None,
                 state |-> IF v = "BLOCK" THEN "HELD" ELSE "PENDING",
                 edited |-> IF kind[r] = "edit"
                            THEN snap[r].state = "APPROVED" \/ snap[r].edited
                            ELSE draft.edited]
    /\ verdictOf' = [verdictOf EXCEPT ![r] = v]
    /\ crossed' = crossed \cup {q \in Requests : pc[q] = "checked" /\ kind[q] \in Approvals}
    /\ AfterDecision(r)
    /\ UNCHANGED <<queue, kind, snap, sending, final>>

(* The queue's listing looks for the flagged draft's row before it writes  *)
(* the audit entry and then the row.                                       *)
EnsureQueueEntry(r) ==
    /\ pc[r] = "checked"
    /\ kind[r] = "enqueue"
    /\ Goto(r, IF queue = "none" THEN "decided" ELSE "done")
    /\ UNCHANGED <<draft, queue, kind, snap, sending, history>>

(* draft_id is unique: the second of two concurrent listings is rejected.  *)
CreateRow(r) ==
    /\ pc[r] = "decided"
    /\ kind[r] = "enqueue"
    /\ queue' = IF queue = "none" THEN "PENDING" ELSE queue
    /\ Goto(r, IF queue = "none" THEN "done" ELSE "failed")
    /\ UNCHANGED <<draft, kind, snap, sending, history>>

(* After its audit entry, an upline's decision closes the row, whatever    *)
(* the row has become.                                                     *)
CloseRow(r) ==
    /\ pc[r] = "decided"
    /\ kind[r] \in UplineKinds
    /\ queue' = IF kind[r] = "uplineApprove" THEN "APPROVED"
                ELSE IF kind[r] = "uplineReject" THEN "REJECTED" ELSE "MODIFIED"
    /\ Goto(r, "done")
    /\ UNCHANGED <<draft, kind, snap, sending, history>>

-----------------------------------------------------------------------------

(* The hourly sweep lists the row when its 48 hours have passed undecided. *)
ListOverdue(r) ==
    /\ pc[r] = "idle"
    /\ kind[r] = "sweep"
    /\ queue = "PENDING"
    /\ Goto(r, "overdue")
    /\ UNCHANGED <<draft, queue, kind, snap, sending, history>>

(* ESCALATED when the org has a compliance contact, HELD when it has none. *)
MarkRow(r) ==
    /\ pc[r] = "overdue"
    /\ queue' \in {"ESCALATED", "HELD"}
    /\ Goto(r, "escalating")
    /\ UNCHANGED <<draft, kind, snap, sending, history>>

(* The draft is held whatever its state has become.                        *)
HoldDraft(r) ==
    /\ pc[r] = "escalating"
    /\ draft' = [draft EXCEPT !.state = "HELD"]
    /\ Goto(r, "done")
    /\ UNCHANGED <<queue, kind, snap, sending, history>>

(* A database call of a handler rejects, or its process dies.              *)
Fails(r) ==
    /\ pc[r] \in {"checked", "decided", "overdue", "escalating"}
    /\ Goto(r, "failed")
    /\ UNCHANGED <<draft, queue, kind, snap, sending, history>>

-----------------------------------------------------------------------------

(* resolveDraftClearance                                                   *)
Cleared(d) ==
    /\ d.outcome \in {"PASS", "FLAG"}
    /\ d.state = "APPROVED"
    /\ ~d.edited

Report(r, status) ==
    /\ result' = [result EXCEPT ![r] = status]
    /\ Goto(r, "done")

SendRead(r) ==
    /\ pc[r] = "idle"
    /\ kind[r] = "send"
    /\ snap' = [snap EXCEPT ![r] = draft]
    /\ \/ Cleared(draft) /\ Goto(r, "gates") /\ UNCHANGED result
       \/ ~Cleared(draft) /\ Report(r, "HELD")
    /\ UNCHANGED <<draft, queue, kind, sent, logged, history>>

(* Contact, compliance gate, deliverability, sender, credentials, thread.  *)
SendGates(r) ==
    /\ pc[r] = "gates"
    /\ \/ Goto(r, "dispatch") /\ UNCHANGED result
       \/ \E status \in {"HELD", "NOT_FOUND"} : Report(r, status)
    /\ UNCHANGED <<draft, queue, kind, snap, sent, logged, history>>

(* The provider takes the text, refuses it, or takes it and the answer is  *)
(* lost, which the code cannot tell from a refusal.                        *)
Dispatch(r) ==
    /\ pc[r] = "dispatch"
    /\ \/ /\ sent' = [sent EXCEPT ![r] = snap[r].body]
          /\ Goto(r, "record")
          /\ UNCHANGED lost
       \/ /\ Goto(r, "recordFailure")
          /\ UNCHANGED <<sent, lost>>
       \/ /\ sent' = [sent EXCEPT ![r] = snap[r].body]
          /\ lost' = lost \cup {r}
          /\ Goto(r, "recordFailure")
    /\ UNCHANGED <<draft, queue, kind, snap, result, logged, verdictOf, crossed, final>>

(* Seeded fault: a failed Message insert is swallowed and reported sent.   *)
RecordSwallows(r) ==
    /\ pc[r] = "record"
    /\ \/ logged' = [logged EXCEPT ![r] = "DELIVERED"] /\ UNCHANGED lost
       \/ lost' = lost \cup {r} /\ UNCHANGED logged
    /\ Report(r, "SENT")
    /\ UNCHANGED <<draft, queue, kind, snap, sent, verdictOf, crossed, final>>

(* The Message row is created and the draft's hold reason cleared; a       *)
(* rejection of either is caught and reported as a hold.                   *)
Record(r) ==
    /\ pc[r] = "record"
    /\ \/ /\ logged' = [logged EXCEPT ![r] = "DELIVERED"]
          /\ Report(r, "SENT")
          /\ UNCHANGED lost
       \/ /\ logged' \in {logged, [logged EXCEPT ![r] = "DELIVERED"]}
          /\ lost' = lost \cup {r}
          /\ Report(r, "HELD")
    /\ UNCHANGED <<draft, queue, kind, snap, sent, verdictOf, crossed, final>>

RecordFailure(r) ==
    /\ pc[r] = "recordFailure"
    /\ \/ /\ logged' = [logged EXCEPT ![r] = "FAILED"]
          /\ Report(r, "FAILED")
       \/ /\ logged' \in {logged, [logged EXCEPT ![r] = "FAILED"]}
          /\ Report(r, "HELD")
    /\ UNCHANGED <<draft, queue, kind, snap, sent, history>>

-----------------------------------------------------------------------------

Step(r) ==
    \/ Read(r)
    \/ WriteApproval(r)
    \/ WriteDecline(r)
    \/ \E v \in {"PASS", "FLAG", "BLOCK"} : WriteBody(r, v)
    \/ EnsureQueueEntry(r)
    \/ CreateRow(r)
    \/ CloseRow(r)
    \/ ListOverdue(r)
    \/ MarkRow(r)
    \/ HoldDraft(r)
    \/ Fails(r)
    \/ SendRead(r)
    \/ SendGates(r)
    \/ Dispatch(r)
    \/ Record(r)
    \/ RecordFailure(r)

Next == \E r \in Requests : Step(r)

Spec == Init /\ [][Next]_vars

-----------------------------------------------------------------------------

(***************************************************************************)
(* The send layer's invariant, for the texts themselves: whatever the      *)
(* interleaving of edits and sends, a text reaches a contact only if the   *)
(* compliance engine passed or flagged that very text.                     *)
(***************************************************************************)
OnlyReleasedDispatched ==
    \A r \in Requests : sent[r] # "nothing" => verdictOf[sent[r]] \in {"PASS", "FLAG"}

(***************************************************************************)
(* The approval a text goes out under was given to that text, and to a     *)
(* flagged text only with a justification or by the upline; the one way    *)
(* around this is an edit that lands between the approval's read of the    *)
(* draft and its write.                                                    *)
(***************************************************************************)
ApprovalCoversDispatch ==
    \A r \in Requests : sent[r] # "nothing" =>
        LET a == snap[r].approval
        IN  /\ a \in Requests /\ kind[a] \in Approvals
            /\ a \notin crossed =>
                /\ sent[r] = snap[a].body
                /\ verdictOf[sent[r]] = "FLAG" => kind[a] \in {"justify", "uplineApprove"}

(***************************************************************************)
(* What a send reports is what happened: SENT means dispatched and on      *)
(* record; a hold or a failure means nothing went out, unless the          *)
(* provider's answer or a write after the dispatch was lost.               *)
(***************************************************************************)
SendReportsTruly ==
    \A r \in Requests :
        /\ result[r] = "SENT" => sent[r] # "nothing" /\ logged[r] = "DELIVERED"
        /\ result[r] \in {"HELD", "FAILED", "NOT_FOUND"} /\ r \notin lost
                => sent[r] = "nothing"

(***************************************************************************)
(* Declining is terminal: a decline that lands while no other handler is   *)
(* half done and no undecided review row is left for the sweep stands for  *)
(* ever, through every later call of every kind.                           *)
(***************************************************************************)
FinalDeclineStands == final => draft.state = "DECLINED"

(***************************************************************************)
(* send-decision.ts: neither path may dispatch content that is not         *)
(* human-approved.  The text sent is the text its approval read.           *)
(***************************************************************************)
DispatchedTextApproved ==
    \A r \in Requests : sent[r] # "nothing" /\ snap[r].approval \in Requests
                            => sent[r] = snap[snap[r].approval].body

(***************************************************************************)
(* send-decision.ts, EDITED_AFTER_APPROVAL: a send refuses an edited draft *)
(* until it has been checked and approved again.  A released draft whose   *)
(* present text was the one approved is cleared.                           *)
(***************************************************************************)
ReapprovedDraftClears ==
    /\ draft.state = "APPROVED"
    /\ draft.outcome \in {"PASS", "FLAG"}
    /\ draft.approval \in Requests
    /\ snap[draft.approval].body = draft.body
    => Cleared(draft)

(***************************************************************************)
(* sla-escalation.ts, at markEscalated: the draft is held so it cannot be  *)
(* self-approved while escalated.  No approval of the rep's own takes a    *)
(* draft it read as held.                                                  *)
(***************************************************************************)
EscalatedNotSelfApproved ==
    queue \in {"ESCALATED", "HELD"} /\ draft.state = "APPROVED"
            /\ draft.approval \in Requests /\ kind[draft.approval] \in RepApprovals
        => snap[draft.approval].state # "HELD"

=============================================================================
