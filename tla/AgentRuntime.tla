---------------------------- MODULE AgentRuntime ----------------------------
(***************************************************************************)
(* One rep's scheduled agent work on one UTC day: the hourly pass of       *)
(* scheduled-dispatch.ts (processRep), the durable queue that delivers     *)
(* each event with retries, and AgentRuntime.runAgent, which every         *)
(* attempt runs from the top.                                              *)
(*                                                                         *)
(* The unit of work is a contact: the day's idempotency key is a function  *)
(* of it.  The rep's briefing, a unit with a key and rows of its own that  *)
(* no contact's work reads, is left out.  Every attempt of an event        *)
(* creates at most one AgentRun row and one draft, so rows are kept per    *)
(* attempt.  The run gate's reservation and its release are the subject    *)
(* of BudgetGate; its answer and those of the model and of the compliance  *)
(* engine are choices.                                                     *)
(***************************************************************************)
EXTENDS Integers, FiniteSets

CONSTANTS
    Contacts,   \* the rep's contacts in a pipeline stage an agent owns
    Events,     \* events the passes may send
    Stops,      \* the controls the rep uses: do not contact, paused, manual mode
    Cap,        \* SCHEDULED_ACTION_CAP_BY_INTENSITY of the rep
    MaxRetries, \* AGENT_DISPATCH_RETRIES
    MaxPasses,  \* bound: hourly passes of the day
    MaxToggles  \* bound: changes of a contact's controls

ASSUME AgentAssumption ==
    /\ IsFiniteSet(Contacts) /\ Contacts # {}
    /\ IsFiniteSet(Events)
    /\ Stops \subseteq {"dnc", "paused", "manual"}
    /\ Cap \in Nat
    /\ MaxRetries \in Nat
    /\ MaxPasses \in Nat
    /\ MaxToggles \in Nat

Attempts == Events \X (0 .. MaxRetries)

VARIABLES
    controls,   \* do_not_contact, agents_paused and manual_mode of a contact
    pass,       \* the pass: the listed contacts it has not come to, the sends it has left
    unit,       \* the contact each event was sent for
    pc,         \* where the event's current attempt stands
    try,        \* how many attempts of the event have failed
    run,        \* AgentRun.status of each attempt's row
    drafts,     \* attempts that created a DraftMessage, PENDING or HELD
    processed,  \* IdempotencyLog: the keys marked
    passes,
    toggles,
    everClear,  \* contacts that some time had no control set
    drained     \* every pass so far began with all its events finished

history == <<everClear, drained>>
vars == <<controls, pass, unit, pc, try, run, drafts, processed, passes, toggles, history>>

Finished == {"done", "dead"}
PCs == Finished \cup {"unsent", "queued", "admit", "generate", "judge", "update", "mark"}

TypeOK ==
    /\ controls \in [Contacts -> Stops \cup {"none"}]
    /\ pass \in [todo: SUBSET Contacts, remaining: 0 .. Cap]
    /\ unit \in [Events -> Contacts]
    /\ pc \in [Events -> PCs]
    /\ try \in [Events -> 0 .. MaxRetries]
    /\ run \in [Attempts -> {"none", "RUNNING", "COMPLETED", "FAILED", "HELD"}]
    /\ drafts \subseteq Attempts
    /\ processed \subseteq Contacts
    /\ passes \in 0 .. MaxPasses
    /\ toggles \in 0 .. MaxToggles
    /\ everClear \subseteq Contacts
    /\ drained \in BOOLEAN

NoPass == [todo |-> {}, remaining |-> 0]

Init ==
    /\ controls \in [Contacts -> Stops \cup {"none"}]
    /\ pass = NoPass
    /\ unit = [e \in Events |-> CHOOSE c \in Contacts : TRUE]
    /\ pc = [e \in Events |-> "unsent"]
    /\ try = [e \in Events |-> 0]
    /\ run = [a \in Attempts |-> "none"]
    /\ drafts = {}
    /\ processed = {}
    /\ passes = 0
    /\ toggles = 0
    /\ everClear = {c \in Contacts : controls[c] = "none"}
    /\ drained = TRUE

Goto(e, label) == pc' = [pc EXCEPT ![e] = label]
Now(e) == <<e, try[e]>>
Sent(u) == {e \in Events : pc[e] # "unsent" /\ unit[e] = u}

-----------------------------------------------------------------------------
(* The user interface: a rep stops the agents on a contact or lets them on. *)
SetControls(c, stop) ==
    /\ toggles < MaxToggles
    /\ controls[c] # stop
    /\ controls' = [controls EXCEPT ![c] = stop]
    /\ everClear' = IF stop = "none" THEN everClear \cup {c} ELSE everClear
    /\ toggles' = toggles + 1
    /\ UNCHANGED <<pass, unit, pc, try, run, drafts, processed, passes, drained>>

-----------------------------------------------------------------------------
(* The hourly pass.                                                        *)

(* Seeded fault: interrupted and failed runs do not count.                 *)
RowsOfSuccess == Cardinality({a \in Attempts : run[a] = "COMPLETED"})

(* countScheduledDispatchesToday: rows, not events and not units.          *)
RowsToday == Cardinality({a \in Attempts : run[a] # "none"})

(* listDueContacts leaves contacts in manual mode in.                      *)
Due == {c \in Contacts : controls[c] \notin {"dnc", "paused"}}

(* The loop goes on while contacts and sends are left.                     *)
Loop(todo, remaining) ==
    pass' = IF todo = {} \/ remaining <= 0 THEN NoPass
            ELSE [todo |-> todo, remaining |-> remaining]

(* processRep up to its loop, when the gate lets the rep through: the      *)
(* day's rows are counted and, if the cap leaves room, the due contacts    *)
(* listed.                                                                 *)
StartPass ==
    /\ passes < MaxPasses
    /\ pass = NoPass
    /\ passes' = passes + 1
    /\ Loop(Due, Cap - RowsToday)
    /\ drained' = (drained /\ \A e \in Events : pc[e] \in {"unsent", "done"})
    /\ UNCHANGED <<controls, unit, pc, try, run, drafts, processed, toggles, everClear>>

(* One turn of the loop over the due contacts, whose order is the          *)
(* database's: sent unless the key is marked.                              *)
Consider(c) ==
    /\ c \in pass.todo
    /\ \/ /\ c \in processed
          /\ Loop(pass.todo \ {c}, pass.remaining)
          /\ UNCHANGED <<pc, unit>>
       \/ /\ c \notin processed
          /\ Loop(pass.todo \ {c}, pass.remaining - 1)
          /\ \E e \in Events :
                /\ pc[e] = "unsent"
                /\ Goto(e, "queued")
                /\ unit' = [unit EXCEPT ![e] = c]
    /\ UNCHANGED <<controls, try, run, drafts, processed, passes, toggles, history>>

(* The pass dies: no error leaves runScheduledDispatch and the next hour   *)
(* tries again.                                                            *)
PassDies ==
    /\ pass # NoPass
    /\ pass' = NoPass
    /\ UNCHANGED <<controls, unit, pc, try, run, drafts, processed, passes, toggles, history>>

-----------------------------------------------------------------------------
(* One attempt of an event, from the top of runAgent.                      *)

Rest(e) == UNCHANGED <<controls, pass, unit, passes, toggles, history>>

(* The attempt threw or died: the durable queue delivers the event again   *)
(* until its retries are spent.                                            *)
Abandon(e) ==
    IF try[e] < MaxRetries
    THEN /\ try' = [try EXCEPT ![e] = @ + 1]
         /\ Goto(e, "queued")
    ELSE /\ Goto(e, "dead")
         /\ UNCHANGED try

(* Seeded fault: the key is not looked up.                                 *)
DeliverAlways(e) ==
    /\ pc[e] = "queued"
    /\ Goto(e, "admit")
    /\ Rest(e) /\ UNCHANGED <<try, run, drafts, processed>>

(* Seeded fault: the key is claimed before the work.                       *)
DeliverClaims(e) ==
    /\ pc[e] = "queued"
    /\ Goto(e, IF unit[e] \in processed THEN "done" ELSE "admit")
    /\ processed' = processed \cup {unit[e]}
    /\ Rest(e) /\ UNCHANGED <<try, run, drafts>>

(* wasProcessed.                                                           *)
Deliver(e) ==
    /\ pc[e] = "queued"
    /\ Goto(e, IF unit[e] \in processed THEN "done" ELSE "admit")
    /\ Rest(e) /\ UNCHANGED <<try, run, drafts, processed>>

(* Seeded fault: manual mode and the other controls are not looked at.     *)
AdmitAnyContact(e) ==
    /\ pc[e] = "admit"
    /\ run' = [run EXCEPT ![Now(e)] = "RUNNING"]
    /\ Goto(e, "generate")
    /\ Rest(e) /\ UNCHANGED <<try, drafts, processed>>

(* getContactControls and the run gate: a stopped contact, a denied run or *)
(* a compliance engine that is down ends in a HELD row.  Otherwise the row *)
(* is RUNNING.                                                             *)
Admit(e) ==
    /\ pc[e] = "admit"
    /\ \/ /\ run' = [run EXCEPT ![Now(e)] = "HELD"]
          /\ Goto(e, "mark")
       \/ /\ controls[unit[e]] \notin Stops
          /\ run' = [run EXCEPT ![Now(e)] = "RUNNING"]
          /\ Goto(e, "generate")
    /\ Rest(e) /\ UNCHANGED <<try, drafts, processed>>

(* The model call: text to judge, an internal or empty output, no key for  *)
(* the model, or a transient error, which is rethrown to the queue.        *)
Generate(e) ==
    /\ pc[e] = "generate"
    /\ \/ /\ Goto(e, "judge")
          /\ UNCHANGED <<run, try>>
       \/ \E status \in {"COMPLETED", "HELD"} :
            /\ run' = [run EXCEPT ![Now(e)] = status]
            /\ Goto(e, "mark")
            /\ UNCHANGED try
       \/ /\ run' = [run EXCEPT ![Now(e)] = "FAILED"]
          /\ Abandon(e)
    /\ Rest(e) /\ UNCHANGED <<drafts, processed>>

(* evaluateContent, and the draft for the Approval Inbox.                  *)
Judge(e) ==
    /\ pc[e] = "judge"
    /\ drafts' = drafts \cup {Now(e)}
    /\ Goto(e, "update")
    /\ Rest(e) /\ UNCHANGED <<try, run, processed>>

(* updateAgentRun with the verdict's status.                               *)
Update(e) ==
    /\ pc[e] = "update"
    /\ \E status \in {"COMPLETED", "HELD"} : run' = [run EXCEPT ![Now(e)] = status]
    /\ Goto(e, "mark")
    /\ Rest(e) /\ UNCHANGED <<try, drafts, processed>>

(* Seeded fault: a held run returns without its mark.                      *)
MarkUnlessHeld(e) ==
    /\ pc[e] = "mark"
    /\ processed' = IF run[Now(e)] = "HELD" THEN processed ELSE processed \cup {unit[e]}
    /\ Goto(e, "done")
    /\ Rest(e) /\ UNCHANGED <<try, run, drafts>>

(* markProcessed, where a key already there is swallowed, and the return.  *)
Mark(e) ==
    /\ pc[e] = "mark"
    /\ processed' = processed \cup {unit[e]}
    /\ Goto(e, "done")
    /\ Rest(e) /\ UNCHANGED <<try, run, drafts>>

(* A database call rejects, the function dies before its next step, or the *)
(* queue does not hear that it returned.                                   *)
Fail(e) ==
    /\ pc[e] \notin {"unsent", "queued", "dead"}
    /\ pc[e] = "done" => try[e] < MaxRetries
    /\ Abandon(e)
    /\ Rest(e) /\ UNCHANGED <<run, drafts, processed>>

-----------------------------------------------------------------------------
Attempt(e) ==
    Deliver(e) \/ Admit(e) \/ Generate(e) \/ Judge(e) \/ Update(e) \/ Mark(e)

Next ==
    \/ \E c \in Contacts, stop \in Stops \cup {"none"} : SetControls(c, stop)
    \/ StartPass
    \/ \E c \in Contacts : Consider(c)
    \/ PassDies
    \/ \E e \in Events : Attempt(e)
    \/ \E e \in Events : Fail(e)

(* The queue keeps running what it was sent.                               *)
Spec == Init /\ [][Next]_vars /\ \A e \in Events : WF_vars(Attempt(e))

-----------------------------------------------------------------------------
(* A key is marked only once the outcome it stands for is on record: a     *)
(* crash never leaves a unit that is neither run nor ever run again.       *)
MarkedMeansRecorded ==
    \A u \in processed : \E a \in Attempts :
        unit[a[1]] = u /\ pc[a[1]] # "unsent" /\ run[a] \in {"COMPLETED", "HELD"}

(* A contact that was stopped all day gets no draft and no model call, by  *)
(* whichever of the scheduler's list and runAgent's own check.             *)
StoppedStaysUntouched ==
    \A a \in Attempts :
        /\ pc[a[1]] # "unsent"
        /\ unit[a[1]] \notin everClear
        => a \notin drafts /\ run[a] \in {"none", "HELD"}

(* Passes that begin with nothing left over dispatch no more contacts than *)
(* the rep's daily cap, however many passes the day has.                   *)
CapHonouredWhenDrained ==
    drained => Cardinality({c \in Contacts : Sent(c) # {}}) <= Cap

(* The unit is marked and no attempt for it is under way.                  *)
Settled(u) == u \in processed /\ \A e \in Sent(u) : pc[e] \in Finished \cup {"queued"}

(* A settled unit stays settled and nothing writes a row or a draft for it *)
(* again: not an event delivered twice, not one a later pass sent.         *)
ProcessedIsFinal ==
    [][\A u \in Contacts : Settled(u) =>
          /\ Settled(u)'
          /\ \A a \in Attempts : unit[a[1]] = u /\ pc[a[1]] # "unsent" =>
                run'[a] = run[a] /\ (a \in drafts' <=> a \in drafts)]_vars

(* What was sent settles: the key is marked, or an event ran out of        *)
(* retries.                                                                *)
SentSettles ==
    \A u \in Contacts : Sent(u) # {} ~> (u \in processed \/ \E e \in Sent(u) : pc[e] = "dead")

(* store.ts says of the key that a replayed or retried event makes no      *)
(* duplicate DraftMessage.                                                 *)
OneDraftPerUnit ==
    \A c \in Contacts :
        Cardinality({a \in drafts : unit[a[1]] = c}) <= 1
=============================================================================
