---------------------------- MODULE Conversation ----------------------------
(* One contact of one rep: the first touch that the rep sends from their own *)
(* number (FirstTouchComposerService), the pipeline stage that replies and   *)
(* bookings move (PipelineService), opt-outs and the do-not-contact flag,    *)
(* and the three-way handoff to the rep's upline. Every operation reads a    *)
(* row in one await and updates it by id in a later one. Whether the draft   *)
(* is cleared is the subject of DraftLifecycle and a choice here; threads,   *)
(* bodies and phone numbers are left out.                                    *)
EXTENDS Integers, Sequences

CONSTANTS
  Workers,      \* requests in progress
  BookingStages, \* the stages a booking moves the contact to
  ManualStages, \* the stages posted to /api/contacts/agent-queue
  MaxMessages, MaxCalls \* first touches, and other calls, of a behaviour

(* PIPELINE_FUNNEL_RANK: DORMANT and DO_NOT_CONTACT have no rank. *)
Rank == [IDENTIFIED |-> 0, INTRODUCED |-> 1, RESPONDED |-> 2, APPOINTMENT_PROPOSED |-> 3,
         APPOINTMENT_CONFIRMED |-> 4, MET |-> 5, CLOSED_CLIENT |-> 6, CLOSED_RECRUIT |-> 6]
Stages == DOMAIN Rank \cup {"DORMANT", "DO_NOT_CONTACT"}

ASSUME ConversationConstants ==
  /\ BookingStages \subseteq {"APPOINTMENT_PROPOSED", "APPOINTMENT_CONFIRMED", "MET"}
  /\ ManualStages \subseteq Stages
  /\ MaxMessages \in Nat /\ MaxCalls \in Nat

VARIABLES
  stage, dnc, minor, \* columns of the Contact row
  optedOut,          \* its OptOutRegistry row for SMS_HANDOFF exists
  message,           \* the outbound Message rows, in creation order
  handoff,           \* the ThreeWayHandoff row
  worker,
  calls,             \* calls so far
  history            \* see Init

vars == <<stage, dnc, minor, optedOut, message, handoff, worker, calls, history>>
contact == <<stage, dnc, minor>>

Idle == [at |-> "idle"]
NoHandoff == [state |-> "none", lapsed |-> FALSE, joined |-> FALSE, returned |-> FALSE]

(* furthest is the rank of the furthest event that has been handled; moved,  *)
(* crossed and handoffCrossed say that the stage was set by hand, that a     *)
(* stage write followed a read another write had outdated, and likewise for  *)
(* the handoff.                                                              *)
Init ==
  /\ stage = "IDENTIFIED" /\ dnc = FALSE /\ minor = FALSE /\ optedOut = FALSE
  /\ message = <<>> /\ handoff = NoHandoff
  /\ worker = [w \in Workers |-> Idle] /\ calls = 0
  /\ history = [furthest |-> 0, moved |-> FALSE, crossed |-> FALSE, handoffCrossed |-> FALSE]

Becomes(w, rec) == worker' = [worker EXCEPT ![w] = rec]
Counted == calls < MaxCalls /\ calls' = calls + 1
Start(w, rec) == worker[w] = Idle /\ Counted /\ Becomes(w, rec)
Furthest(to) == IF Rank[to] > history.furthest THEN Rank[to] ELSE history.furthest
-----------------------------------------------------------------------------
(* prepareHandoff: a hold for any other reason leaves everything as it is.   *)
Prepare(w) ==
  /\ worker[w] = Idle /\ Len(message) < MaxMessages
  /\ Becomes(w, [at |-> "gate", early |-> ~optedOut])
  /\ UNCHANGED <<contact, optedOut, message, handoff, calls, history>>

(* Seeded fault: the gate is for automated messages only. *)
EvaluateAutomatedOnly(w) ==
  /\ worker[w].at = "gate"
  /\ Becomes(w, [worker[w] EXCEPT !.at = "compose"])
  /\ UNCHANGED <<contact, optedOut, message, handoff, calls, history>>

(* SendComplianceGate.evaluate, for the SMS_HANDOFF channel; a hold ends the *)
(* request.                                                                  *)
Evaluate(w) ==
  /\ worker[w].at = "gate" /\ ~optedOut
  /\ Becomes(w, [worker[w] EXCEPT !.at = "compose"])
  /\ UNCHANGED <<contact, optedOut, message, handoff, calls, history>>

Compose(w) ==
  /\ worker[w].at = "compose" /\ Len(message) < MaxMessages
  /\ message' = Append(message, [confirmed |-> FALSE, status |-> "HANDED_OFF",
                                 late |-> optedOut, early |-> worker[w].early])
  /\ Becomes(w, Idle)
  /\ UNCHANGED <<contact, optedOut, handoff, calls, history>>

(* confirmHandoff, which reads the message, and its two updates. *)
ReadMessage(w, i, sent) ==
  /\ i \in DOMAIN message
  /\ Start(w, [at |-> IF sent THEN "confirm" ELSE "deny", i |-> i])
  /\ UNCHANGED <<contact, optedOut, message, handoff, history>>

Advancing(to) == [at |-> "advance", to |-> to]

ConfirmSent(w) ==
  /\ worker[w].at = "confirm"
  /\ message' = [message EXCEPT ![worker[w].i].confirmed = TRUE]
  /\ Becomes(w, Advancing("INTRODUCED"))
  /\ UNCHANGED <<contact, optedOut, handoff, calls, history>>

MarkNotSent(w) ==
  /\ worker[w].at = "deny"
  /\ message' = [message EXCEPT ![worker[w].i].confirmed = FALSE,
                                ![worker[w].i].status = "NOT_SENT"]
  /\ Becomes(w, Idle)
  /\ UNCHANGED <<contact, optedOut, handoff, calls, history>>

(* A reply that is no STOP, and a booking, move the stage; a STOP does not.  *)
Reply(w) ==
  /\ Start(w, Advancing("RESPONDED"))
  /\ UNCHANGED <<contact, optedOut, message, handoff, history>>

BookingEvent(w) ==
  /\ \E to \in BookingStages : Start(w, Advancing(to))
  /\ UNCHANGED <<contact, optedOut, message, handoff, history>>

Stop ==
  /\ Counted /\ optedOut' = TRUE
  /\ UNCHANGED <<contact, message, handoff, worker, history>>
-----------------------------------------------------------------------------
(* Seeded fault: a stage without a rank counts as the lowest. *)
CanAutoAdvanceUnranked(current, to) ==
  current \in DOMAIN Rank => Rank[to] > Rank[current]

(* Seeded fault: the same stage and an earlier one pass as well. *)
CanAutoAdvanceBack(current, to) == current \in DOMAIN Rank

CanAutoAdvance(current, to) == current \in DOMAIN Rank /\ Rank[to] > Rank[current]

(* advanceStage: the read and its guard, then the write. *)
AdvanceRead(w) ==
  /\ worker[w].at = "advance" /\ ~dnc /\ CanAutoAdvance(stage, worker[w].to)
  /\ Becomes(w, [at |-> "write", to |-> worker[w].to, seen |-> stage])
  /\ UNCHANGED <<contact, optedOut, message, handoff, calls, history>>

(* An event skipped for do-not-contact leaves no trace of its stage. *)
AdvanceSkipped(w) ==
  /\ worker[w].at = "advance" /\ (dnc \/ ~CanAutoAdvance(stage, worker[w].to))
  /\ Becomes(w, Idle)
  /\ history' = [history EXCEPT !.furthest =
       IF dnc \/ stage \notin DOMAIN Rank THEN @ ELSE Furthest(worker[w].to)]
  /\ UNCHANGED <<contact, optedOut, message, handoff, calls>>

RecordOutreach(w) ==
  /\ worker[w].at = "write"
  /\ stage' = worker[w].to
  /\ history' = [history EXCEPT !.furthest = Furthest(worker[w].to),
                                !.crossed = @ \/ stage # worker[w].seen]
  /\ Becomes(w, Idle)
  /\ UNCHANGED <<dnc, minor, optedOut, message, handoff, calls>>

(* The agent-queue route: recordOutreach with any stage and no guard. *)
PostOutreach(to) ==
  /\ Counted /\ stage' = to
  /\ history' = [history EXCEPT !.moved = TRUE]
  /\ UNCHANGED <<dnc, minor, optedOut, message, handoff, worker>>

(* setControls of do_not_contact, either way. *)
SetDoNotContact ==
  /\ Counted /\ dnc' = ~dnc
  /\ UNCHANGED <<stage, minor, optedOut, message, handoff, worker, history>>

(* upsertRow of an import that finds the contact is a minor: the row is      *)
(* merged, then its opt-outs are registered.                                 *)
MergeMinor(w) ==
  /\ ~minor /\ Start(w, [at |-> "register"])
  /\ stage' = "DO_NOT_CONTACT" /\ dnc' = TRUE /\ minor' = TRUE
  /\ UNCHANGED <<optedOut, message, handoff, history>>

RegisterMinorOptOut(w) ==
  /\ worker[w].at = "register" /\ optedOut' = TRUE
  /\ Becomes(w, Idle)
  /\ UNCHANGED <<contact, message, handoff, calls, history>>
-----------------------------------------------------------------------------
Trigger ==
  /\ Counted /\ handoff = NoHandoff
  /\ handoff' = [handoff EXCEPT !.state = "INVITED"]
  /\ UNCHANGED <<contact, optedOut, message, worker, history>>

(* Twenty-four hours pass. *)
Lapse ==
  /\ handoff.state # "none" /\ ~handoff.lapsed
  /\ handoff' = [handoff EXCEPT !.lapsed = TRUE]
  /\ UNCHANGED <<contact, optedOut, message, worker, calls, history>>

(* join by the invited upline, at any time. *)
ReadJoin(w) ==
  /\ handoff.state = "INVITED" /\ Start(w, [at |-> "join", seen |-> "INVITED"])
  /\ UNCHANGED <<contact, optedOut, message, handoff, history>>

Answer(w, at, state) ==
  /\ worker[w].at = at
  /\ history' = [history EXCEPT !.handoffCrossed = @ \/ handoff.state # worker[w].seen]
  /\ Becomes(w, Idle)
  /\ handoff' = [handoff EXCEPT !.state = state,
                                !.joined = @ \/ state = "JOINED",
                                !.returned = @ \/ state = "RETURNED"]
  /\ UNCHANGED <<contact, optedOut, message, calls>>

Join(w) == Answer(w, "join", "JOINED")

(* The sweep lists the lapsed handoffs; returnIfLapsed reads the row again.  *)
ListLapsed(w) ==
  /\ handoff.state = "INVITED" /\ handoff.lapsed /\ Start(w, [at |-> "listed"])
  /\ UNCHANGED <<contact, optedOut, message, handoff, history>>

(* Seeded fault: a listed handoff is taken to be still open. *)
ReadLapsedAsListed(w) ==
  /\ worker[w].at = "listed"
  /\ Becomes(w, [at |-> "return", seen |-> handoff.state])
  /\ UNCHANGED <<contact, optedOut, message, handoff, calls, history>>

ReadLapsed(w) ==
  /\ worker[w].at = "listed"
  /\ Becomes(w, IF handoff.state = "INVITED" THEN [at |-> "return", seen |-> "INVITED"]
                ELSE Idle)
  /\ UNCHANGED <<contact, optedOut, message, handoff, calls, history>>

Return(w) == Answer(w, "return", "RETURNED")
-----------------------------------------------------------------------------
(* A held first touch, a rejected query or the end of its process: the       *)
(* request stops where it is.                                                *)
Die(w) ==
  /\ worker[w] # Idle /\ Becomes(w, Idle)
  /\ UNCHANGED <<contact, optedOut, message, handoff, calls, history>>

Next ==
  \/ \E w \in Workers :
       \/ Prepare(w) \/ Evaluate(w) \/ Compose(w)
       \/ \E i \in 1..MaxMessages, sent \in BOOLEAN : ReadMessage(w, i, sent)
       \/ ConfirmSent(w) \/ MarkNotSent(w)
       \/ Reply(w) \/ BookingEvent(w)
       \/ AdvanceRead(w) \/ AdvanceSkipped(w) \/ RecordOutreach(w)
       \/ MergeMinor(w) \/ RegisterMinorOptOut(w)
       \/ ReadJoin(w) \/ Join(w) \/ ListLapsed(w) \/ ReadLapsed(w) \/ Return(w)
       \/ Die(w)
  \/ \E to \in ManualStages : PostOutreach(to)
  \/ Stop \/ SetDoNotContact \/ Trigger \/ Lapse

Spec == Init /\ [][Next]_vars
-----------------------------------------------------------------------------
(* pipeline.service.ts:51-59: in whatever order the events of a contact are  *)
(* handled, its stage is that of the furthest one, unless someone set it by  *)
(* hand, an import took it out of the funnel, or two advances crossed. An    *)
(* event handled while the contact is marked do-not-contact, or out of the   *)
(* funnel, is dropped for good and does not count (pipeline.service.ts:212). *)
FurthestEventCounts ==
  history.moved \/ history.crossed \/ minor \/ Rank[stage] = history.furthest

(* A contact an import found to be a minor stays out of the funnel, through  *)
(* replies, bookings and a cleared do-not-contact flag, unless someone set   *)
(* the stage by hand or an advance had read the row before the import.       *)
MinorStaysOut ==
  minor => stage = "DO_NOT_CONTACT" \/ history.moved \/ history.crossed

(* first-touch-composer.service.ts:16-19: a first touch is composed for an   *)
(* opted-out contact only by a request that had begun before the opt-out.    *)
StopBlocksNewTouches == \A i \in DOMAIN message : message[i].late => message[i].early

(* three-way-handoff.service.ts:101: a handoff that was answered is left     *)
(* alone: it is both joined and returned only if a join and a sweep crossed. *)
AnsweredOnce == handoff.joined /\ handoff.returned => history.handoffCrossed

(* pipeline.service.ts:55: a contact who raced ahead is never pulled         *)
(* backward to an earlier stage.                                             *)
NeverPulledBack ==
  [][{stage, stage'} \subseteq DOMAIN Rank /\ ~history.moved'
       => Rank[stage'] >= Rank[stage]]_vars

(* three-way-handoff.service.ts:101: a handoff the upline joined is left     *)
(* untouched by the return sweep.                                            *)
JoinStands == [][handoff.state = "JOINED" => handoff'.state = "JOINED"]_vars
=============================================================================
