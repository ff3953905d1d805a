------------------------------- MODULE Billing -------------------------------
(***************************************************************************)
(* One member's subscription row and the three actors that write it: the   *)
(* deliveries of Stripe's webhook events (app/api/stripe/webhook, through  *)
(* withIdempotency and the handlers of production-wiring.ts), the daily    *)
(* grace sweep and the in-app cancellation.  Every handler reads the row   *)
(* and then writes it with nothing held in between, so the steps of two    *)
(* deliveries, of the sweep and of a cancellation interleave.  Stripe is   *)
(* external: it emits events about its own subscription and redelivers     *)
(* each, in any order and at any time, until it gets a 2xx.  Plan changes  *)
(* and proration leave the status alone and are left out.                  *)
(***************************************************************************)
EXTENDS Naturals, Sequences

CONSTANTS Workers,     \* webhook requests that can be in progress at once
          MaxEvents,   \* bound on the events Stripe emits
          MaxFaults,   \* bound on the requests that throw or die
          MaxClock     \* bound on the billing periods that go by

ASSUME BillingConstants == MaxEvents \in Nat /\ MaxFaults \in Nat /\ MaxClock \in Nat

Status == {"ACTIVE", "PAST_DUE", "EXPIRED", "DISPUTED", "CANCELED"}
Absent == "absent"          \* the member has no subscription row
NoChange == "no_change"     \* nextSubscriptionStatus returned null
NoPeriod == MaxClock + 1    \* current_period_end is null: never before any date

EventTypes == {"checkout", "paid", "failed", "updated", "deleted", "dispute"}
StripeStatus == {"none", "active", "past_due", "unpaid", "canceled"}
EventIds == 1..MaxEvents
Event == [type : EventTypes, status : StripeStatus, ending : BOOLEAN,
          period : 0..MaxClock]

VARIABLES
  stripe,    \* external: Stripe's own subscription, status and cancel_at_period_end
  events,    \* external: the events emitted so far; an event's id is its index
  acked,     \* external: the events Stripe has a 2xx for and redelivers no more
  clock,     \* a row whose period is below it is past its period's end and grace
  row,       \* the member's latest Subscription row
  claimed,   \* the IdempotencyLog keys
  worker,    \* each webhook request: where it is, its event, the status it read
  sweep,     \* the grace sweep: "idle", or "listed" with the row in its list
  user,      \* the in-app cancellation: "idle", "write" after Stripe, "done"
  faults,    \* requests that threw or died so far
  applied,   \* history: how often each event's write was made
  redone,    \* history: how often a request for it failed after its write landed
  settled,   \* history: the events whose handler ran to its end
  orderly    \* history: no two actors overlapped, events were taken in order

outside == <<stripe, events, clock>>
history == <<applied, redone, settled, orderly>>
vars == <<stripe, events, acked, clock, row, claimed, worker, sweep, user,
          faults, applied, redone, settled, orderly>>

Idle == [pc |-> "idle", ev |-> 0, seen |-> Absent]

TypeOK ==
  /\ stripe \in [status : StripeStatus, ending : BOOLEAN]
  /\ events \in Seq(Event) /\ Len(events) \in 0..MaxEvents
  /\ acked \subseteq EventIds /\ claimed \subseteq EventIds /\ settled \subseteq EventIds
  /\ clock \in 0..MaxClock /\ faults \in 0..MaxFaults
  /\ row \in [status : Status \cup {Absent}, linked : BOOLEAN, period : 0..NoPeriod]
  /\ worker \in [Workers -> [pc : {"idle", "read", "write", "finish", "release"},
                             ev : 0..MaxEvents, seen : Status \cup {Absent}]]
  /\ sweep \in {"idle", "listed"} /\ user \in {"idle", "write", "done"}
  /\ applied \in [EventIds -> Nat] /\ redone \in [EventIds -> Nat]
  /\ orderly \in BOOLEAN

(* A member provisioned at onboarding has an ACTIVE row with no Stripe ids, *)
(* one never provisioned has none, one who has paid before has it linked    *)
(* and may be behind on a payment.                                          *)
Init ==
  /\ \/ /\ row \in {[status |-> Absent, linked |-> FALSE, period |-> NoPeriod],
                    [status |-> "ACTIVE", linked |-> FALSE, period |-> 0]}
        /\ stripe = [status |-> "none", ending |-> FALSE]
     \/ /\ row = [status |-> "ACTIVE", linked |-> TRUE, period |-> 0]
        /\ stripe = [status |-> "active", ending |-> FALSE]
     \/ /\ row = [status |-> "PAST_DUE", linked |-> TRUE, period |-> 0]
        /\ stripe = [status |-> "past_due", ending |-> FALSE]
  /\ events = <<>> /\ acked = {} /\ clock = 0 /\ claimed = {}
  /\ worker = [w \in Workers |-> Idle]
  /\ sweep = "idle" /\ user = "idle" /\ faults = 0
  /\ applied = [e \in EventIds |-> 0] /\ redone = [e \in EventIds |-> 0]
  /\ settled = {} /\ orderly = TRUE

Busy(w) == worker[w].pc # "idle"
Quiet == (\A w \in Workers : ~Busy(w)) /\ sweep = "idle" /\ user # "write"
-----------------------------------------------------------------------------
(* Stripe: what happens to its subscription, and the events it emits.       *)

Emitted(type, status, ending) ==
  [type |-> type, status |-> status, ending |-> ending, period |-> clock]

Emit(batch) == /\ Len(events) + Len(batch) \in 0..MaxEvents
               /\ events' = events \o batch

StripeMoves(status, ending, batch) ==
  /\ stripe' = [status |-> status, ending |-> ending]
  /\ Emit(batch)

Purchase ==
  /\ stripe.status = "none"
  /\ StripeMoves("active", FALSE, <<Emitted("checkout", "active", FALSE),
                                    Emitted("paid", "active", FALSE)>>)

ChargeFails ==
  /\ stripe.status = "active" /\ ~stripe.ending
  /\ StripeMoves("past_due", FALSE, <<Emitted("failed", "past_due", FALSE),
                                      Emitted("updated", "past_due", FALSE)>>)

ChargeSucceeds ==
  /\ stripe.status = "past_due" \/ (stripe.status = "active" /\ ~stripe.ending)
  /\ StripeMoves("active", stripe.ending, <<Emitted("paid", "active", stripe.ending),
                                            Emitted("updated", "active", stripe.ending)>>)

GiveUp == stripe.status = "past_due"
          /\ StripeMoves("unpaid", stripe.ending, <<Emitted("updated", "unpaid", stripe.ending)>>)

Live == stripe.status \in {"active", "past_due", "unpaid"}

CancelNow == Live /\ StripeMoves("canceled", FALSE, <<Emitted("deleted", "canceled", FALSE)>>)

CancelAtPeriodEnd ==
  Live /\ ~stripe.ending
       /\ StripeMoves(stripe.status, TRUE, <<Emitted("updated", stripe.status, TRUE)>>)

Dispute == /\ stripe.status # "none"
           /\ \A e \in DOMAIN events : events[e].type # "dispute"
           /\ StripeMoves(stripe.status, stripe.ending, <<Emitted("dispute", "none", FALSE)>>)

StripeAct ==
  /\ Purchase \/ ChargeFails \/ ChargeSucceeds \/ GiveUp \/ CancelNow \/ CancelAtPeriodEnd \/ Dispute
  /\ UNCHANGED <<acked, clock, row, claimed, worker, sweep, user, faults, history>>

PeriodPasses ==
  /\ clock < MaxClock
  /\ clock' = clock + 1
  /\ UNCHANGED <<stripe, events, acked, row, claimed, worker, sweep, user, faults, history>>
-----------------------------------------------------------------------------
(* What each event does to the row.                                         *)

(* The transitions whose event something raises; dispute_resolved, canceled *)
(* and reactivated have no caller.                                          *)
NextStatus(current, event) ==
  CASE event = "payment_failed" /\ current = "ACTIVE" -> "PAST_DUE"
    [] event = "payment_succeeded" /\ current \in {"PAST_DUE", "EXPIRED"} -> "ACTIVE"
    [] event = "grace_window_elapsed" /\ current = "PAST_DUE" -> "EXPIRED"
    [] event = "dispute_opened" /\ current \in {"ACTIVE", "PAST_DUE"} -> "DISPUTED"
    [] OTHER -> NoChange

(* Seeded fault: a scheduled cancellation is taken for an ordinary update. *)
MappedIgnoresEnding(ev) ==
  CASE ev.status = "active" -> "ACTIVE"
    [] ev.status = "past_due" -> "PAST_DUE"
    [] ev.status = "unpaid" -> "EXPIRED"
    [] OTHER -> "CANCELED"

Mapped(ev) ==
  CASE ev.status = "active" /\ ev.ending -> "CANCELED"
    [] ev.status = "active" /\ ~ev.ending -> "ACTIVE"
    [] ev.status = "past_due" -> "PAST_DUE"
    [] ev.status = "unpaid" -> "EXPIRED"
    [] OTHER -> "CANCELED"

(* Whether the handler, having read the status, writes the row at all.  All *)
(* but the checkout's find the row by an id the checkout stores.            *)
Writes(ev, seen) ==
  CASE ev.type = "checkout" -> TRUE
    [] ev.type = "failed" -> row.linked /\ NextStatus(seen, "payment_failed") # NoChange
    [] ev.type = "dispute" -> row.linked /\ NextStatus(seen, "dispute_opened") # NoChange
    [] OTHER -> row.linked

Written(ev, seen) ==
  CASE ev.type = "checkout" -> [row EXCEPT !.status = "ACTIVE", !.linked = TRUE]
    [] ev.type = "paid" ->
         [row EXCEPT !.status = IF NextStatus(seen, "payment_succeeded") = NoChange
                                THEN seen ELSE NextStatus(seen, "payment_succeeded"),
                     !.period = ev.period]
    [] ev.type = "failed" -> [row EXCEPT !.status = NextStatus(seen, "payment_failed")]
    [] ev.type = "updated" -> [row EXCEPT !.status = Mapped(ev), !.period = ev.period]
    [] ev.type = "deleted" -> [row EXCEPT !.status = "CANCELED"]
    [] OTHER -> [row EXCEPT !.status = NextStatus(seen, "dispute_opened")]
-----------------------------------------------------------------------------
(* One webhook request.                                                     *)

(* Seeded fault: the idempotency key is built from the event's type. *)
DeliverKeyedByType(w, e) ==
  /\ ~Busy(w) /\ e \in DOMAIN events /\ e \notin acked
  /\ IF \E d \in claimed : events[d].type = events[e].type
     THEN acked' = acked \cup {e} /\ UNCHANGED <<claimed, worker, orderly>>
     ELSE /\ claimed' = claimed \cup {e}
          /\ worker' = [worker EXCEPT ![w] = [pc |-> "read", ev |-> e, seen |-> Absent]]
          /\ orderly' = (orderly /\ Quiet /\ \A d \in 1..(e - 1) : d \in settled)
          /\ UNCHANGED acked
  /\ UNCHANGED <<outside, row, sweep, user, faults, applied, redone, settled>>

(* The claim: an insert under a unique key.  A key already there, done or   *)
(* still in progress, is answered 200 as a duplicate.                       *)
Deliver(w, e) ==
  /\ ~Busy(w) /\ e \in DOMAIN events /\ e \notin acked
  /\ IF e \in claimed
     THEN acked' = acked \cup {e} /\ UNCHANGED <<claimed, worker, orderly>>
     ELSE /\ claimed' = claimed \cup {e}
          /\ worker' = [worker EXCEPT ![w] = [pc |-> "read", ev |-> e, seen |-> Absent]]
          /\ orderly' = (orderly /\ Quiet /\ \A d \in 1..(e - 1) : d \in settled)
          /\ UNCHANGED acked
  /\ UNCHANGED <<outside, row, sweep, user, faults, applied, redone, settled>>

Read(w) ==
  /\ worker[w].pc = "read"
  /\ worker' = [worker EXCEPT
       ![w].seen = IF events[worker[w].ev].type \in {"checkout", "updated", "deleted"}
                   THEN Absent ELSE row.status,
       ![w].pc = IF Writes(events[worker[w].ev], row.status) THEN "write" ELSE "finish"]
  /\ UNCHANGED <<outside, acked, row, claimed, sweep, user, faults, history>>

Write(w) ==
  /\ worker[w].pc = "write"
  /\ row' = Written(events[worker[w].ev], worker[w].seen)
  /\ applied' = [applied EXCEPT ![worker[w].ev] = @ + 1]
  /\ worker' = [worker EXCEPT ![w].pc = "finish"]
  /\ UNCHANGED <<outside, acked, claimed, sweep, user, faults, redone, settled, orderly>>

Finish(w) ==
  /\ worker[w].pc = "finish"
  /\ acked' = acked \cup {worker[w].ev}
  /\ settled' = settled \cup {worker[w].ev}
  /\ worker' = [worker EXCEPT ![w] = Idle]
  /\ UNCHANGED <<outside, row, claimed, sweep, user, faults, applied, redone, orderly>>

(* Seeded fault: a request that has done its work releases its claim too. *)
ThrowAtTheEnd(w) ==
  /\ worker[w].pc \in {"read", "write", "finish"}
  /\ faults < MaxFaults
  /\ faults' = faults + 1
  /\ worker' = [worker EXCEPT ![w].pc = "release"]
  /\ UNCHANGED <<outside, acked, row, claimed, sweep, user, history>>

(* A database or Stripe call throws.  After a write that was answered only  *)
(* the dispute handler has something left that can: the evidence read.      *)
Throw(w) ==
  /\ \/ worker[w].pc \in {"read", "write"} /\ redone' = redone
     \/ /\ worker[w].pc = "finish" /\ events[worker[w].ev].type = "dispute"
        /\ redone' = [redone EXCEPT ![worker[w].ev] = @ + 1]
  /\ faults < MaxFaults
  /\ faults' = faults + 1
  /\ worker' = [worker EXCEPT ![w].pc = "release"]
  /\ UNCHANGED <<outside, acked, row, claimed, sweep, user, applied, settled, orderly>>

(* The row's update commits and its answer is lost: the handler throws, and *)
(* its claim is dropped though the write has landed.                        *)
WriteLost(w) ==
  /\ worker[w].pc = "write" /\ faults < MaxFaults
  /\ faults' = faults + 1
  /\ row' = Written(events[worker[w].ev], worker[w].seen)
  /\ applied' = [applied EXCEPT ![worker[w].ev] = @ + 1]
  /\ redone' = [redone EXCEPT ![worker[w].ev] = @ + 1]
  /\ worker' = [worker EXCEPT ![w].pc = "release"]
  /\ UNCHANGED <<outside, acked, claimed, sweep, user, settled, orderly>>

(* The claim is deleted and the request answered 500. *)
Release(w) ==
  /\ worker[w].pc = "release"
  /\ claimed' = claimed \ {worker[w].ev}
  /\ worker' = [worker EXCEPT ![w] = Idle]
  /\ UNCHANGED <<outside, acked, row, sweep, user, faults, history>>

(* The process dies, or the best-effort delete of the claim fails: the      *)
(* claim stays and Stripe gets no 2xx.                                      *)
Die(w) ==
  /\ Busy(w)
  /\ faults < MaxFaults
  /\ faults' = faults + 1
  /\ worker' = [worker EXCEPT ![w] = Idle]
  /\ UNCHANGED <<outside, acked, row, claimed, sweep, user, history>>
-----------------------------------------------------------------------------
(* The grace sweep and the in-app cancellation.                             *)

SweepList ==
  /\ sweep = "idle"
  /\ row.status = "PAST_DUE" /\ row.period < clock
  /\ sweep' = "listed"
  /\ orderly' = (orderly /\ Quiet)
  /\ UNCHANGED <<outside, acked, row, claimed, worker, user, faults, applied, redone, settled>>

(* By id, whatever the row has become since it was listed. *)
SweepWrite ==
  /\ sweep = "listed"
  /\ sweep' = "idle"
  /\ row' = [row EXCEPT !.status = NextStatus("PAST_DUE", "grace_window_elapsed")]
  /\ UNCHANGED <<outside, acked, claimed, worker, user, faults, history>>

(* Stripe first: a linked row is cancelled there, and Stripe echoes what it *)
(* changed; one already set to end is only asked for again.                 *)
CancelAtStripe ==
  /\ user = "idle" /\ row.status # Absent
  /\ IF row.linked
     THEN \/ CancelNow \/ CancelAtPeriodEnd
          \/ Live /\ stripe.ending /\ UNCHANGED <<stripe, events>>
     ELSE UNCHANGED <<stripe, events>>
  /\ user' = "write"
  /\ orderly' = (orderly /\ Quiet)
  /\ UNCHANGED <<acked, clock, row, claimed, worker, sweep, faults, applied, redone, settled>>

CancelWrite ==
  /\ user = "write"
  /\ user' = "done"
  /\ row' = [row EXCEPT !.status = "CANCELED"]
  /\ UNCHANGED <<outside, acked, claimed, worker, sweep, faults, history>>

CancelDies ==
  /\ user = "write" /\ faults < MaxFaults
  /\ user' = "done" /\ faults' = faults + 1
  /\ UNCHANGED <<outside, acked, row, claimed, worker, sweep, history>>

Request(w) == Read(w) \/ Write(w) \/ Finish(w) \/ Release(w)

Next ==
  \/ StripeAct \/ PeriodPasses
  \/ \E w \in Workers : \E e \in EventIds : Deliver(w, e)
  \/ \E w \in Workers : Request(w) \/ Throw(w) \/ WriteLost(w) \/ Die(w)
  \/ SweepList \/ SweepWrite
  \/ CancelAtStripe \/ CancelWrite \/ CancelDies

(* A request that was started goes on, and Stripe redelivers an event it    *)
(* has no 2xx for as long as a request can be served.                       *)
Fairness ==
  /\ \A w \in Workers : WF_vars(Request(w))
  /\ \A e \in EventIds : SF_vars(\E w \in Workers : Deliver(w, e))

Spec == Init /\ [][Next]_vars
FairSpec == Spec /\ Fairness
-----------------------------------------------------------------------------
Working(e) == \E w \in Workers : Busy(w) /\ worker[w].ev = e

(* However often Stripe delivers an event, and however deliveries overlap,  *)
(* fail and are retried, it moves the row once, and once more for every     *)
(* request for it that failed after its write had landed: the answer to the *)
(* write was lost, or a dispute's evidence could not be read.               *)
EffectAtMostOnce == \A e \in DOMAIN events : applied[e] <= 1 + redone[e]

(* What idempotency.ts promises: "the side effect runs at most once even    *)
(* under a race", "never double-applied".                                   *)
NeverAppliedTwice == \A e \in DOMAIN events : applied[e] <= 1

(* As long as no request threw or died, an event Stripe was told is         *)
(* received has been handled to its end or is being handled.                *)
AckedIsHandled ==
  faults = 0 => \A e \in acked : e \in settled \/ Working(e)

(* The row states that fit what Stripe says of its subscription.  One behind *)
(* on its payments and set to end may read either way: the cancellation      *)
(* writes CANCELED, its echo what is owed.                                   *)
Agrees ==
  CASE stripe.status = "active" /\ ~stripe.ending -> row.status \in {"ACTIVE", "DISPUTED"}
    [] stripe.status = "active" /\ stripe.ending -> row.status \in {"CANCELED", "DISPUTED"}
    [] stripe.status = "past_due" -> \/ row.status \in {"PAST_DUE", "EXPIRED", "DISPUTED"}
                                     \/ stripe.ending /\ row.status = "CANCELED"
    [] stripe.status = "unpaid" -> row.status = "EXPIRED" \/ (stripe.ending /\ row.status = "CANCELED")
    [] stripe.status = "canceled" -> row.status = "CANCELED"
    [] OTHER -> TRUE

(* When nothing overlapped, and every event was handled in the order Stripe *)
(* emitted it, the row agrees with Stripe: the echo of an active            *)
(* subscription's cancellation does not undo it, a payment restores, a      *)
(* deletion ends.                                                           *)
InOrderAgrees ==
  (orderly /\ Quiet /\ \A e \in DOMAIN events : e \in settled) => Agrees

(* What cancel() says of Stripe's echo: it does not "let it reactivate the  *)
(* row this method just canceled" (subscription.service.ts).                *)
EchoNeverUndoesCancel ==
  [][\A w \in Workers :
       (worker[w].pc = "write" /\ worker'[w].pc = "finish" /\ user = "done"
          /\ events[worker[w].ev].type = "updated" /\ events[worker[w].ev].ending
          /\ row.status = "CANCELED")
       => row'.status = "CANCELED"]_vars

(* Whatever throws or dies, every event Stripe emits is acknowledged in the *)
(* end, by the request that handled it or by one that finds its claim.  (With *)
(* AckedIsHandled: while nothing fails, every event is handled.)            *)
EveryEventAcked == \A e \in EventIds : (e \in DOMAIN events) ~> (e \in acked)

(* A payment never clears a dispute (billing-lifecycle.ts: "A DISPUTED row  *)
(* is NOT cleared by a payment").                                           *)
DisputeSurvivesPayment ==
  [][\A w \in Workers :
       (worker[w].pc = "write" /\ worker'[w].pc = "finish"
          /\ events[worker[w].ev].type = "paid" /\ row.status = "DISPUTED")
       => row'.status = "DISPUTED"]_vars
=============================================================================
