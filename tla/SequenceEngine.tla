--------------------------- MODULE SequenceEngine ---------------------------
(***************************************************************************)
(* One outreach sequence and its steps: SequenceService.enroll, the hourly *)
(* cadence tick (runDueSequences and runDueSteps), the reply, stop and     *)
(* resume calls, and the send seam as the tick sees it.                    *)
(*                                                                         *)
(* A tick reads the sequence and its steps once and then works from what   *)
(* it read; every database call and every call of the seam is a step, so   *)
(* replies, opt-outs and other ticks interleave with it.  Updates are by   *)
(* id alone.                                                               *)
(***************************************************************************)
EXTENDS Naturals

CONSTANTS
    N,            \* how many steps the cadence has
    DueAt,        \* when each step is scheduled, on the clock below
    Unsendable,   \* steps with no draft, whose contact or draft is missing
    Tickers,      \* cadence ticks that may run at one time
    Replies,      \* inbound replies of the contact
    Stops,        \* calls of stopOnOptOut
    Resumes,      \* calls of resume
    MaxFailures,  \* bound: database calls that reject
    MaxDeliveries \* bound: how often one step goes out

Steps == 0 .. N - 1

ASSUME SequenceAssumption ==
    /\ N \in Nat \ {0}
    /\ DueAt \in [Steps -> Nat]
    /\ Unsendable \subseteq Steps
    /\ MaxFailures \in Nat
    /\ MaxDeliveries \in Nat \ {0}

Calls == Tickers \cup Replies \cup Stops \cup Resumes

VARIABLES
    seq,         \* the OutreachSequence row: state, pause_reason, cursor
    status,      \* OutreachSequenceStep.status
    created,     \* steps enroll has created; the row is ACTIVE before them
    enrolling,   \* enroll is still creating steps
    clock,
    crowded,     \* more sequences are ACTIVE than one tick takes
    optedOut,    \* the contact is in the opt-out registry
    pc,          \* where each call stands
    todo,        \* steps a tick found due and runnable when it read them
    count,       \* how many steps a tick read
    cur,         \* a tick's own cursor
    at,          \* the step a tick is working on
    delivered,   \* how often each step has gone out
    overlapped,  \* two ticks have worked on the sequence at once
    redo,        \* steps that went out in a tick that died before marking them
    stoppedFor,  \* a stop landed with no half-done call to overwrite it
    failures

tick == <<todo, count, cur, at>>
history == <<delivered, overlapped, redo, stoppedFor>>
vars == <<seq, status, created, enrolling, clock, crowded, optedOut, pc, tick, history, failures>>

Runnable == {"SCHEDULED", "DEFERRED"}

(* Between reading the sequence as ACTIVE and the end of the tick.         *)
Working == {"pick", "holdEnd", "holdStop", "holdPause", "defer", "stop", "pause",
            "preCheck", "seam", "markSent", "advance", "markFailed"}

PCs == Working \cup {"idle", "listed", "readSteps", "pauseWrite", "resumeWrite", "done"}

Sequences == [state: {"ACTIVE", "PAUSED", "STOPPED", "COMPLETED"}, cursor: 0..N,
              reason: {"none", "REPLY", "OPT_OUT", "COMPLIANCE_BLOCK"}]

TypeOK ==
    /\ seq \in Sequences
    /\ status \in [Steps -> Runnable \cup {"SENT", "HELD", "FAILED"}]
    /\ created \in 0..N
    /\ enrolling \in BOOLEAN
    /\ clock \in Nat
    /\ crowded \in BOOLEAN
    /\ optedOut \in BOOLEAN
    /\ pc \in [Calls -> PCs]
    /\ todo \in [Tickers -> SUBSET Steps]
    /\ count \in [Tickers -> 0..N]
    /\ cur \in [Tickers -> 0..N]
    /\ at \in [Tickers -> Steps]
    /\ delivered \in [Steps -> 0..MaxDeliveries]
    /\ overlapped \in BOOLEAN
    /\ redo \subseteq Steps
    /\ stoppedFor \in BOOLEAN
    /\ failures \in 0..MaxFailures

(* enroll has just inserted the sequence row.                              *)
Init ==
    /\ seq = [state |-> "ACTIVE", cursor |-> 0, reason |-> "none"]
    /\ status = [i \in Steps |-> "SCHEDULED"]
    /\ created = 0
    /\ enrolling = TRUE
    /\ clock = 0
    /\ crowded = FALSE
    /\ optedOut = FALSE
    /\ pc = [c \in Calls |-> "idle"]
    /\ todo = [c \in Tickers |-> {}]
    /\ count = [c \in Tickers |-> 0]
    /\ cur = [c \in Tickers |-> 0]
    /\ at = [c \in Tickers |-> 0]
    /\ delivered = [i \in Steps |-> 0]
    /\ overlapped = FALSE
    /\ redo = {}
    /\ stoppedFor = FALSE
    /\ failures = 0

Goto(c, label) == pc' = [pc EXCEPT ![c] = label]

(* What a tick knows ends with it.                                         *)
Forget(c) ==
    /\ todo' = [todo EXCEPT ![c] = {}]
    /\ count' = [count EXCEPT ![c] = 0]
    /\ cur' = [cur EXCEPT ![c] = 0]
    /\ at' = [at EXCEPT ![c] = 0]

TickGoto(c, label) ==
    /\ Goto(c, label)
    /\ IF label = "idle" THEN Forget(c) ELSE UNCHANGED tick

-----------------------------------------------------------------------------

(* enroll inserts the steps one by one after the sequence.                 *)
CreateStep ==
    /\ enrolling
    /\ created' = created + 1
    /\ enrolling' = (created + 1 < N)
    /\ UNCHANGED <<seq, status, clock, crowded, optedOut, pc, tick, history, failures>>

EnrollFails ==
    /\ enrolling
    /\ failures < MaxFailures
    /\ failures' = failures + 1
    /\ enrolling' = FALSE
    /\ UNCHANGED <<seq, status, created, clock, crowded, optedOut, pc, tick, history>>

(* Time passes; nothing changes after the last step has come due.          *)
Advance ==
    /\ \E i \in Steps : DueAt[i] > clock
    /\ clock' = clock + 1
    /\ UNCHANGED <<seq, status, created, enrolling, crowded, optedOut, pc, tick, history, failures>>

(* Other sequences become ACTIVE, or are ACTIVE no longer.                 *)
Crowd ==
    /\ crowded' = ~crowded
    /\ UNCHANGED <<seq, status, created, enrolling, clock, optedOut, pc, tick, history,
                   failures>>

(* An inbound STOP: recorded in the registry, the sequence is not touched. *)
OptOut ==
    /\ ~optedOut
    /\ optedOut' = TRUE
    /\ UNCHANGED <<seq, status, created, enrolling, clock, crowded, pc, tick, history, failures>>

-----------------------------------------------------------------------------

(* Seeded fault: a deferred step is not picked up again.                   *)
DueForgetsDeferred == {i \in 0 .. created - 1 : DueAt[i] <= clock /\ status[i] = "SCHEDULED"}

(* Seeded fault: only held steps are left out of what is due.              *)
DueRetriesSent == {i \in 0 .. created - 1 : DueAt[i] <= clock /\ status[i] # "HELD"}

(* The steps that exist, are due and may still run.                        *)
Due == {i \in 0 .. created - 1 : DueAt[i] <= clock /\ status[i] \in Runnable}

(* runDueSequences takes MAX_SEQUENCES_PER_TICK of the ACTIVE sequences,   *)
(* in no order, and keeps those with a due step; while there are more, it  *)
(* may take others and see nothing of this one, which changes nothing      *)
(* here.  The tick's now is the clock.                                     *)
ListDue(c) ==
    /\ pc[c] = "idle"
    /\ seq.state = "ACTIVE"
    /\ Due # {}
    /\ todo' = [todo EXCEPT ![c] = {i \in Steps : DueAt[i] <= clock}]
    /\ Goto(c, "listed")
    /\ UNCHANGED <<seq, status, created, enrolling, clock, crowded, optedOut, count, cur, at,
                   history, failures>>

ReadSequence(c) ==
    /\ pc[c] = "listed"
    /\ \/ /\ seq.state = "ACTIVE"
          /\ cur' = [cur EXCEPT ![c] = seq.cursor]
          /\ Goto(c, "readSteps")
          /\ UNCHANGED <<todo, count, at>>
       \/ seq.state # "ACTIVE" /\ TickGoto(c, "idle")
    /\ UNCHANGED <<seq, status, created, enrolling, clock, crowded, optedOut, history, failures>>

ReadSteps(c) ==
    /\ pc[c] = "readSteps"
    /\ todo' = [todo EXCEPT ![c] = @ \cap Due]
    /\ count' = [count EXCEPT ![c] = created]
    /\ overlapped' = (overlapped \/ \E d \in Tickers \ {c} : pc[d] \in Working)
    /\ Goto(c, "pick")
    /\ UNCHANGED <<seq, status, created, enrolling, clock, crowded, optedOut, cur, at,
                   delivered, redo, stoppedFor, failures>>

Candidates(c) == {i \in todo[c] : i >= cur[c]}

Take(c, i) ==
    /\ at' = [at EXCEPT ![c] = i]
    /\ Goto(c, IF i \in Unsendable THEN "holdEnd" ELSE "preCheck")
    /\ UNCHANGED <<todo, count, cur>>

(* Seeded fault: the due steps are taken in whatever order they came.      *)
PickAny(c) ==
    /\ pc[c] = "pick"
    /\ \/ Candidates(c) = {} /\ TickGoto(c, "idle")
       \/ \E i \in Candidates(c) : Take(c, i)
    /\ UNCHANGED <<seq, status, created, enrolling, clock, crowded, optedOut, history, failures>>

(* The first due step at or after the tick's cursor, or the tick ends.     *)
Pick(c) ==
    /\ pc[c] = "pick"
    /\ \/ Candidates(c) = {} /\ TickGoto(c, "idle")
       \/ \E i \in Candidates(c) : (\A j \in Candidates(c) : i <= j) /\ Take(c, i)
    /\ UNCHANGED <<seq, status, created, enrolling, clock, crowded, optedOut, history, failures>>

(***************************************************************************)
(* The pre-schedule gate, and then the seam, which asks the same gate      *)
(* again before it dispatches: an opt-out stops the sequence, quiet hours  *)
(* defer the step, any other refusal holds the step and pauses.  A seam    *)
(* that cannot find the draft leaves the sequence ACTIVE.                  *)
(***************************************************************************)
Gate(c) ==
    /\ pc[c] = "preCheck"
    /\ ~optedOut
    /\ TickGoto(c, "seam")
    /\ UNCHANGED <<seq, status, created, enrolling, clock, crowded, optedOut, history, failures>>

GateRefuses(c) ==
    /\ pc[c] \in {"preCheck", "seam"}
    /\ \/ optedOut /\ TickGoto(c, "holdStop")
       \/ TickGoto(c, "holdPause")
       \/ pc[c] = "seam" /\ TickGoto(c, "holdEnd")
    /\ UNCHANGED <<seq, status, created, enrolling, clock, crowded, optedOut, history, failures>>

QuietHours(c) ==
    /\ pc[c] \in {"preCheck", "seam"}
    /\ ~optedOut
    /\ TickGoto(c, "defer")
    /\ UNCHANGED <<seq, status, created, enrolling, clock, crowded, optedOut, history, failures>>

(* The step goes out.  The seam reports it sent, or, having lost the       *)
(* provider's answer or a write of its own, failed or held.                *)
Deliver(c) ==
    /\ pc[c] = "seam"
    /\ delivered[at[c]] < MaxDeliveries
    /\ delivered' = [delivered EXCEPT ![at[c]] = @ + 1]
    /\ \E label \in {"markSent", "markFailed", "holdPause"} : TickGoto(c, label)
    /\ UNCHANGED <<seq, status, created, enrolling, clock, crowded, optedOut,
                   overlapped, redo, stoppedFor, failures>>

(* The provider refuses.                                                   *)
DeliveryFails(c) ==
    /\ pc[c] = "seam"
    /\ TickGoto(c, "markFailed")
    /\ UNCHANGED <<seq, status, created, enrolling, clock, crowded, optedOut, history, failures>>

-----------------------------------------------------------------------------

WriteStatus == [holdEnd |-> "HELD", holdStop |-> "HELD", holdPause |-> "HELD",
                   defer |-> "DEFERRED", markSent |-> "SENT", markFailed |-> "FAILED"]

AfterStatus == [holdEnd |-> "idle", holdStop |-> "stop", holdPause |-> "pause",
                   defer |-> "idle", markSent |-> "advance", markFailed |-> "idle"]

(* holdStep, deferStep and the SENT and FAILED updates of a step.          *)
MarkStep(c) ==
    /\ pc[c] \in DOMAIN WriteStatus
    /\ status' = [status EXCEPT ![at[c]] = WriteStatus[pc[c]]]
    /\ TickGoto(c, AfterStatus[pc[c]])
    /\ UNCHANGED <<seq, created, enrolling, clock, crowded, optedOut, history, failures>>

(* After a step is sent the cursor moves past it; past the last step the   *)
(* tick has read, the sequence is COMPLETED.                               *)
AdvanceCursor(c) ==
    /\ pc[c] = "advance"
    /\ LET next == at[c] + 1
       IN  /\ seq' = [seq EXCEPT !.cursor = next,
                                 !.state = IF next >= count[c] THEN "COMPLETED" ELSE @]
           /\ \/ next >= count[c] /\ TickGoto(c, "idle")
              \/ /\ next < count[c]
                 /\ cur' = [cur EXCEPT ![c] = next]
                 /\ Goto(c, "pick")
                 /\ UNCHANGED <<todo, count, at>>
    /\ UNCHANGED <<status, created, enrolling, clock, crowded, optedOut, history, failures>>

PauseTick(c) ==
    /\ pc[c] = "pause"
    /\ seq' = [seq EXCEPT !.state = "PAUSED", !.reason = "COMPLIANCE_BLOCK"]
    /\ TickGoto(c, "idle")
    /\ UNCHANGED <<status, created, enrolling, clock, crowded, optedOut, history, failures>>

StopTick(c) ==
    /\ pc[c] = "stop"
    /\ seq' = [seq EXCEPT !.state = "STOPPED", !.reason = "OPT_OUT"]
    /\ TickGoto(c, "idle")
    /\ UNCHANGED <<status, created, enrolling, clock, crowded, optedOut, history, failures>>

(* A database call of the tick rejects, or its process dies: the sequence  *)
(* is skipped this time.                                                   *)
TickFails(c) ==
    /\ pc[c] # "idle"
    /\ failures < MaxFailures
    /\ failures' = failures + 1
    /\ redo' = IF pc[c] \in {"markSent", "markFailed", "holdPause"} /\ delivered[at[c]] > 0
                THEN redo \cup {at[c]} ELSE redo
    /\ TickGoto(c, "idle")
    /\ UNCHANGED <<seq, status, created, enrolling, clock, crowded, optedOut,
                   delivered, overlapped, stoppedFor>>

-----------------------------------------------------------------------------

(* The webhook lists the ACTIVE sequences of the contact, then calls       *)
(* pauseOnReply for each.                                                  *)
ListActive(c) ==
    /\ pc[c] = "idle"
    /\ Goto(c, IF seq.state = "ACTIVE" THEN "listed" ELSE "done")
    /\ UNCHANGED <<seq, status, created, enrolling, clock, crowded, optedOut, tick, history, failures>>

(* Seeded fault: a reply pauses a stopped sequence.                        *)
ReadForReplyAnyState(c) ==
    /\ pc[c] = "listed"
    /\ Goto(c, "pauseWrite")
    /\ UNCHANGED <<seq, status, created, enrolling, clock, crowded, optedOut, tick, history, failures>>

ReadForReply(c) ==
    /\ pc[c] = "listed"
    /\ Goto(c, IF seq.state = "STOPPED" THEN "done" ELSE "pauseWrite")
    /\ UNCHANGED <<seq, status, created, enrolling, clock, crowded, optedOut, tick, history, failures>>

PauseOnReply(c) ==
    /\ pc[c] = "pauseWrite"
    /\ seq' = [seq EXCEPT !.state = "PAUSED", !.reason = "REPLY"]
    /\ Goto(c, "done")
    /\ UNCHANGED <<status, created, enrolling, clock, crowded, optedOut, tick, history, failures>>

ReadForResume(c) ==
    /\ pc[c] = "idle"
    /\ Goto(c, IF seq.state = "PAUSED" THEN "resumeWrite" ELSE "done")
    /\ UNCHANGED <<seq, status, created, enrolling, clock, crowded, optedOut, tick, history, failures>>

Resume(c) ==
    /\ pc[c] = "resumeWrite"
    /\ seq' = [seq EXCEPT !.state = "ACTIVE", !.reason = "none"]
    /\ Goto(c, "done")
    /\ UNCHANGED <<status, created, enrolling, clock, crowded, optedOut, tick, history, failures>>

(* Calls that have read a state they are about to overwrite.               *)
HalfDone == {c \in Calls : pc[c] \in Working \cup {"readSteps", "pauseWrite", "resumeWrite"}}

(* stopOnOptOut stops the sequence whatever its state.                     *)
StopOnOptOut(c) ==
    /\ pc[c] = "idle"
    /\ seq' = [seq EXCEPT !.state = "STOPPED", !.reason = "OPT_OUT"]
    /\ stoppedFor' = (stoppedFor \/ HalfDone = {})
    /\ Goto(c, "done")
    /\ UNCHANGED <<status, created, enrolling, clock, crowded, optedOut, tick,
                   delivered, overlapped, redo, failures>>

TickStep(c) ==
    \/ ListDue(c)
    \/ ReadSequence(c)
    \/ ReadSteps(c)
    \/ Pick(c)
    \/ Gate(c)
    \/ GateRefuses(c)
    \/ QuietHours(c)
    \/ Deliver(c)
    \/ DeliveryFails(c)
    \/ MarkStep(c)
    \/ AdvanceCursor(c)
    \/ PauseTick(c)
    \/ StopTick(c)

Next ==
    \/ CreateStep
    \/ EnrollFails
    \/ Advance
    \/ Crowd
    \/ OptOut
    \/ \E c \in Tickers : TickStep(c)
    \/ \E c \in Tickers : TickFails(c)
    \/ \E c \in Replies : ListActive(c) \/ ReadForReply(c) \/ PauseOnReply(c)
    \/ \E c \in Resumes : ReadForResume(c) \/ Resume(c)
    \/ \E c \in Stops : StopOnOptOut(c)

Spec == Init /\ [][Next]_vars

(* A tick attempt that gets past the gates: quiet hours end every day.     *)
GateAnswers(c) == Gate(c) \/ GateRefuses(c)

SeamAnswers(c) == Deliver(c) \/ DeliveryFails(c) \/ (pc[c] = "seam" /\ GateRefuses(c))

(***************************************************************************)
(* The cron fires every hour, its handler runs to its end and lists the    *)
(* sequence unless there are more than it takes, enroll finishes or fails, *)
(* time passes, and a step is not met by quiet hours every time it is      *)
(* tried.                                                                  *)
(***************************************************************************)
Fairness ==
    /\ WF_vars(CreateStep)
    /\ WF_vars(Advance)
    /\ \A c \in Tickers :
        /\ WF_vars((pc[c] = "idle" => ~crowded) /\ TickStep(c))
        /\ SF_vars(GateAnswers(c))
        /\ SF_vars(SeamAnswers(c))

FairSpec == Spec /\ Fairness

-----------------------------------------------------------------------------

(***************************************************************************)
(* sequence-scheduled-run.ts: a second pass never re-sends a step already  *)
(* sent.  A step goes out twice only if two ticks worked on the sequence   *)
(* at once, or if a tick died between the dispatch and marking it SENT.    *)
(***************************************************************************)
SentOnce == \A i \in Steps : delivered[i] > 1 => overlapped \/ i \in redo

(* A later step has gone out that was scheduled before step i.             *)
Overtaken(i) == \E k \in Steps : k > i /\ delivered[k] > 0 /\ DueAt[k] < DueAt[i]

(***************************************************************************)
(* Steps go out in cadence order, whatever is held, deferred, paused or    *)
(* resumed: a step goes out after a later one only if two ticks worked on  *)
(* the sequence at once, or if the interval days the client chose put a    *)
(* later step before it and that one has gone out.                         *)
(***************************************************************************)
DeliversInOrder ==
    [][\A i \in Steps : delivered'[i] > delivered[i] =>
            \/ overlapped
            \/ Overtaken(i)
            \/ \A j \in Steps : j > i => delivered[j] = 0]_vars

(***************************************************************************)
(* sequence-cadence.ts: every arc runs from warm_open to next_step and     *)
(* never loops back.  One tick at a time never sends a step after a later  *)
(* one.                                                                    *)
(***************************************************************************)
NeverLoopsBack ==
    [][\A i \in Steps : delivered'[i] > delivered[i] =>
            overlapped \/ \A j \in Steps : j > i => delivered[j] = 0]_vars

(***************************************************************************)
(* A stop is terminal: one that lands while no call is between its read    *)
(* and its write is never undone by a reply, a resume or a tick.           *)
(***************************************************************************)
StopIsTerminal == stoppedFor => seq.state = "STOPPED"

Waiting(i) ==
    /\ i < created /\ i >= seq.cursor
    /\ DueAt[i] <= clock
    /\ status[i] \in Runnable
    /\ seq.state = "ACTIVE"

(***************************************************************************)
(* Once the ACTIVE sequences stay within what a tick takes, no due step of *)
(* an ACTIVE sequence waits for ever: a tick sends it, holds it, or the    *)
(* sequence is paused, stopped or completed.                               *)
(***************************************************************************)
DueStepsSettle ==
    <>[]~crowded => \A i \in Steps : Waiting(i) ~> ~Waiting(i)

(***************************************************************************)
(* sequence-scheduled-run.ts, at MAX_SEQUENCES_PER_TICK: the remainder is  *)
(* naturally picked up next hour.  However many sequences there are, no    *)
(* due step waits for ever.                                                *)
(***************************************************************************)
RemainderIsPickedUp == \A i \in Steps : Waiting(i) ~> ~Waiting(i)

(***************************************************************************)
(* sequence.service.ts: a step whose draft is missing holds without        *)
(* advancing, waiting for its content, and a failed delivery is retryable. *)
(* A completed sequence has therefore sent every step.                     *)
(***************************************************************************)
CompletedMeansAllSent ==
    seq.state = "COMPLETED" => \A i \in Steps : status[i] = "SENT"

=============================================================================
