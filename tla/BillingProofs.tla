---------------------------- MODULE BillingProofs ----------------------------
(***************************************************************************)
(* What holds of Billing for any number of webhook requests, events,       *)
(* faults and billing periods.                                             *)
(***************************************************************************)
EXTENDS Billing, SequenceTheorems, TLAPS

(* A busy request works on an emitted event it holds the claim of; no two   *)
(* requests work on the same one.                                           *)
Holds ==
  \A w \in Workers : Busy(w) => worker[w].ev \in DOMAIN events /\ worker[w].ev \in claimed

Alone ==
  \A v, w \in Workers : Busy(v) /\ Busy(w) /\ worker[v].ev = worker[w].ev => v = w

(* A request about to write a conditional transition read a state that has it. *)
SeenFits ==
  \A w \in Workers : worker[w].pc = "write" =>
    /\ events[worker[w].ev].type = "failed"
         => NextStatus(worker[w].seen, "payment_failed") \in Status
    /\ events[worker[w].ev].type = "dispute"
         => NextStatus(worker[w].seen, "dispute_opened") \in Status

(* An event's writes are accounted for by the requests that failed after    *)
(* theirs, but for one whose claim is kept; a request that has not written, *)
(* or gives its claim up, has none of its own.                              *)
NotYet ==
  \A w \in Workers :
    worker[w].pc \in {"read", "write", "release"}
      => applied[worker[w].ev] <= redone[worker[w].ev]

Kept ==
  \A e \in EventIds :
    /\ applied[e] <= redone[e] + 1
    /\ e \notin claimed => applied[e] <= redone[e]

(* Until something fails, a claimed event is in hand or done. *)
InHand ==
  faults = 0 => /\ \A e \in claimed : e \in settled \/ Working(e)
                /\ \A w \in Workers : worker[w].pc # "release"

AckedClaimed == faults = 0 => acked \subseteq claimed

IInv == TypeOK /\ Holds /\ Alone /\ SeenFits /\ NotYet /\ Kept /\ InHand /\ AckedClaimed

-----------------------------------------------------------------------------
LEMMA NextStatusType ==
  ASSUME NEW s, NEW e
  PROVE  NextStatus(s, e) \in Status \cup {NoChange}
BY DEF NextStatus, Status, NoChange

LEMMA NoChangeIsNoStatus == NoChange \notin Status
BY DEF NoChange, Status

(* Emitting appends: what was emitted keeps its id. *)
LEMMA EmitAppends ==
  ASSUME TypeOK, NEW batch \in Seq(Event), Emit(batch)
  PROVE  /\ events' \in Seq(Event) /\ Len(events') \in 0..MaxEvents
         /\ DOMAIN events \subseteq DOMAIN events'
         /\ \A e \in DOMAIN events : events'[e] = events[e]
<1>1. events \in Seq(Event) /\ Len(events) \in Nat /\ Len(batch) \in Nat
  BY DEF TypeOK
<1>2. events' = events \o batch /\ Len(events) + Len(batch) \in 0..MaxEvents
  BY DEF Emit
<1>3. /\ events' \in Seq(Event) /\ Len(events') = Len(events) + Len(batch)
      /\ \A i \in 1..(Len(events) + Len(batch)) :
            events'[i] = IF i <= Len(events) THEN events[i] ELSE batch[i - Len(events)]
  BY <1>1, <1>2, ConcatProperties
<1>4. DOMAIN events = 1..Len(events) /\ DOMAIN events' = 1..Len(events')
  BY <1>1, <1>3
<1>5. QED
  BY <1>1, <1>2, <1>3, <1>4

LEMMA BatchOfOne ==
  ASSUME NEW a \in Event
  PROVE  <<a>> \in Seq(Event)
OBVIOUS

LEMMA BatchOfTwo ==
  ASSUME NEW a \in Event, NEW b \in Event
  PROVE  <<a, b>> \in Seq(Event)
OBVIOUS

(* Whatever Stripe does, it only appends to the events and moves its own   *)
(* subscription.                                                           *)
LEMMA StripeEmits ==
  ASSUME TypeOK,
         \/ Purchase \/ ChargeFails \/ ChargeSucceeds \/ GiveUp \/ CancelNow
         \/ CancelAtPeriodEnd \/ Dispute
  PROVE  /\ stripe' \in [status : StripeStatus, ending : BOOLEAN]
         /\ events' \in Seq(Event) /\ Len(events') \in 0..MaxEvents
         /\ DOMAIN events \subseteq DOMAIN events'
         /\ \A e \in DOMAIN events : events'[e] = events[e]
<1>1. ASSUME NEW t \in EventTypes, NEW s \in StripeStatus, NEW b \in BOOLEAN
      PROVE  Emitted(t, s, b) \in Event
  BY <1>1 DEF Emitted, Event, TypeOK
<1>2. stripe.ending \in BOOLEAN /\ stripe.status \in StripeStatus
  BY DEF TypeOK
<1>3. \E batch \in Seq(Event), s \in StripeStatus, b \in BOOLEAN : StripeMoves(s, b, batch)
  <2> USE DEF EventTypes, StripeStatus
  <2>1. CASE Purchase
    <3>1. /\ Emitted("checkout", "active", FALSE) \in Event
          /\ Emitted("paid", "active", FALSE) \in Event
      BY <1>1
    <3>2. QED BY <3>1, BatchOfTwo, <2>1 DEF Purchase
  <2>2. CASE ChargeFails
    <3>1. /\ Emitted("failed", "past_due", FALSE) \in Event
          /\ Emitted("updated", "past_due", FALSE) \in Event
      BY <1>1
    <3>2. QED BY <3>1, BatchOfTwo, <2>2 DEF ChargeFails
  <2>3. CASE ChargeSucceeds
    <3>1. /\ Emitted("paid", "active", stripe.ending) \in Event
          /\ Emitted("updated", "active", stripe.ending) \in Event
      BY <1>1, <1>2
    <3>2. QED BY <3>1, BatchOfTwo, <2>3, <1>2 DEF ChargeSucceeds
  <2>4. CASE GiveUp
    <3>1. Emitted("updated", "unpaid", stripe.ending) \in Event
      BY <1>1, <1>2
    <3>2. QED BY <3>1, BatchOfOne, <2>4, <1>2 DEF GiveUp
  <2>5. CASE CancelNow
    <3>1. Emitted("deleted", "canceled", FALSE) \in Event
      BY <1>1
    <3>2. QED BY <3>1, BatchOfOne, <2>5 DEF CancelNow
  <2>6. CASE CancelAtPeriodEnd
    <3>1. Emitted("updated", stripe.status, TRUE) \in Event
      BY <1>1, <1>2
    <3>2. QED BY <3>1, BatchOfOne, <2>6, <1>2 DEF CancelAtPeriodEnd
  <2>7. CASE Dispute
    <3>1. Emitted("dispute", "none", FALSE) \in Event
      BY <1>1
    <3>2. QED BY <3>1, BatchOfOne, <2>7, <1>2 DEF Dispute
  <2>8. QED BY <2>1, <2>2, <2>3, <2>4, <2>5, <2>6, <2>7
<1>4. PICK batch \in Seq(Event), s \in StripeStatus, b \in BOOLEAN : StripeMoves(s, b, batch)
  BY <1>3
<1>5. stripe' = [status |-> s, ending |-> b] /\ Emit(batch)
  BY <1>4 DEF StripeMoves
<1>6. stripe' \in [status : StripeStatus, ending : BOOLEAN]
  BY <1>5
<1>7. QED BY <1>5, <1>6, EmitAppends

(* Growing the events disturbs none of the other conjuncts. *)
LEMMA StripeKeeps ==
  ASSUME IInv,
         events' \in Seq(Event), Len(events') \in 0..MaxEvents,
         DOMAIN events \subseteq DOMAIN events',
         \A e \in DOMAIN events : events'[e] = events[e],
         UNCHANGED <<acked, claimed, worker, faults, applied, redone, settled>>
  PROVE  /\ Holds' /\ Alone' /\ SeenFits' /\ NotYet' /\ Kept' /\ InHand' /\ AckedClaimed'
<1>1. \A w \in Workers : Busy(w) => worker[w].ev \in DOMAIN events
  BY DEF IInv, Holds
<1>2. \A w \in Workers : Busy(w)' <=> Busy(w)
  BY DEF Busy
<1>3. Holds' BY <1>2 DEF IInv, Holds
<1>4. Alone' BY <1>2 DEF IInv, Alone
<1>5. SeenFits'
  BY <1>1 DEF IInv, SeenFits, Busy
<1>6. NotYet'
  BY <1>1 DEF IInv, NotYet, Busy
<1>7. Kept'
  BY DEF IInv, Kept
<1>8. InHand' /\ AckedClaimed'
  BY <1>2 DEF IInv, InHand, AckedClaimed, Working
<1>9. QED BY <1>3, <1>4, <1>5, <1>6, <1>7, <1>8

-----------------------------------------------------------------------------
LEMMA DeliverKeeps ==
  ASSUME IInv, NEW w \in Workers, NEW e \in EventIds, Deliver(w, e)
  PROVE  IInv'
<1>1. CASE e \in claimed
  <2>1. acked' = acked \cup {e} /\ UNCHANGED <<stripe, events, clock, row, claimed, worker, sweep,
                                        user, faults, applied, redone, settled, orderly>>
    BY <1>1 DEF Deliver, outside
  <2>2. TypeOK'
    BY <2>1 DEF IInv, TypeOK
  <2>3. \A v \in Workers : Busy(v)' <=> Busy(v)
    BY <2>1 DEF Busy
  <2>4. Holds' /\ Alone' /\ SeenFits' /\ NotYet' /\ Kept'
    BY <2>1, <2>3 DEF IInv, Holds, Alone, SeenFits, NotYet, Kept
  <2>5. InHand' /\ AckedClaimed'
    BY <2>1, <2>3, <1>1 DEF IInv, InHand, AckedClaimed, Working
  <2>6. QED BY <2>2, <2>4, <2>5 DEF IInv
<1>2. CASE e \notin claimed
  <2>1. /\ ~Busy(w) /\ e \in DOMAIN events
        /\ claimed' = claimed \cup {e}
        /\ worker' = [worker EXCEPT ![w] = [pc |-> "read", ev |-> e, seen |-> Absent]]
        /\ orderly' \in BOOLEAN
        /\ UNCHANGED <<stripe, events, clock, acked, row, sweep, user, faults, applied, redone, settled>>
    BY <1>2 DEF Deliver, outside, IInv, TypeOK
  <2>2. worker \in [Workers -> [pc : {"idle", "read", "write", "finish", "release"},
                                ev : 0..MaxEvents, seen : Status \cup {Absent}]]
    BY DEF IInv, TypeOK
  <2>3. /\ worker'[w] = [pc |-> "read", ev |-> e, seen |-> Absent]
        /\ \A v \in Workers : v # w => worker'[v] = worker[v]
    BY <2>1, <2>2
  <2>4. e \in 0..MaxEvents
    BY DEF EventIds
  <2>5. TypeOK'
    BY <2>1, <2>2, <2>4 DEF IInv, TypeOK
  <2>6. /\ Busy(w)' /\ \A v \in Workers : v # w => (Busy(v)' <=> Busy(v))
    BY <2>3 DEF Busy
  <2>7. Holds'
    BY <2>1, <2>3, <2>6 DEF IInv, Holds
  <2>8. Alone'
    BY <2>1, <2>3, <2>6, <1>2 DEF IInv, Holds, Alone
  <2>9. SeenFits'
    BY <2>1, <2>3 DEF IInv, SeenFits
  <2>10. NotYet'
    BY <2>1, <2>3, <1>2 DEF IInv, NotYet, Kept
  <2>11. Kept'
    BY <2>1 DEF IInv, Kept
  <2>12. InHand'
    BY <2>1, <2>3, <2>6 DEF IInv, InHand, Working
  <2>13. AckedClaimed'
    BY <2>1 DEF IInv, AckedClaimed
  <2>14. QED BY <2>5, <2>7, <2>8, <2>9, <2>10, <2>11, <2>12, <2>13 DEF IInv
<1>3. QED BY <1>1, <1>2

LEMMA ReadKeeps ==
  ASSUME IInv, NEW w \in Workers, Read(w)
  PROVE  IInv'
<1> DEFINE ev == events[worker[w].ev]
           saw == IF ev.type \in {"checkout", "updated", "deleted"} THEN Absent ELSE row.status
           to == IF Writes(ev, row.status) THEN "write" ELSE "finish"
           new == [pc |-> to, ev |-> worker[w].ev, seen |-> saw]
<1>1. /\ worker[w].pc = "read"
      /\ UNCHANGED <<stripe, events, clock, acked, row, claimed, sweep, user, faults,
                     applied, redone, settled, orderly>>
  BY DEF Read, outside, history
<1>2. worker' = [worker EXCEPT ![w] = new]
  <2>1. worker \in [Workers -> [pc : {"idle", "read", "write", "finish", "release"},
                                ev : 0..MaxEvents, seen : Status \cup {Absent}]]
    BY DEF IInv, TypeOK
  <2>2. worker' = [worker EXCEPT ![w].seen = saw, ![w].pc = to]
    BY DEF Read
  <2> HIDE DEF saw, to
  <2> DEFINE mid == [worker[w] EXCEPT !.seen = saw]
  <2>3. mid = [pc |-> worker[w].pc, ev |-> worker[w].ev, seen |-> saw]
    BY <2>1
  <2> HIDE DEF mid
  <2>4. [mid EXCEPT !.pc = to] = new
    BY <2>3
  <2>5. worker' = [worker EXCEPT ![w] = [mid EXCEPT !.pc = to]]
    BY <2>1, <2>2 DEF mid
  <2>6. QED BY <2>4, <2>5
<1>3. worker'[w] = new /\ (\A v \in Workers : v # w => worker'[v] = worker[v])
      /\ worker[w].ev \in 0..MaxEvents
  BY <1>2 DEF IInv, TypeOK
<1>4. row.status \in Status \cup {Absent}
  BY DEF IInv, TypeOK
<1>5. new \in [pc : {"idle", "read", "write", "finish", "release"},
               ev : 0..MaxEvents, seen : Status \cup {Absent}]
  BY <1>3, <1>4
<1>6. TypeOK'
  BY <1>1, <1>2, <1>5 DEF IInv, TypeOK
<1>7. new.pc = to /\ new.ev = worker[w].ev /\ new.seen = saw /\ to \in {"write", "finish"}
  OBVIOUS
<1> HIDE DEF new, to, saw
<1>8. Busy(w) /\ \A v \in Workers : (Busy(v)' <=> Busy(v)) /\ worker'[v].ev = worker[v].ev
  BY <1>1, <1>3, <1>7 DEF Busy
<1>9. Holds' /\ Alone' /\ Kept' /\ AckedClaimed'
  BY <1>1, <1>8 DEF IInv, Holds, Alone, Kept, AckedClaimed
<1>10. SeenFits'
  <2>1. ASSUME to = "write", ev.type = "failed" PROVE NextStatus(saw, "payment_failed") \in Status
    BY <2>1, NextStatusType DEF to, saw, Writes
  <2>2. ASSUME to = "write", ev.type = "dispute" PROVE NextStatus(saw, "dispute_opened") \in Status
    BY <2>2, NextStatusType DEF to, saw, Writes
  <2>3. QED BY <1>1, <1>3, <1>7, <2>1, <2>2 DEF IInv, SeenFits
<1>11. NotYet'
  BY <1>1, <1>3, <1>7 DEF IInv, NotYet
<1>12. InHand'
  BY <1>1, <1>3, <1>7, <1>8 DEF IInv, InHand, Working
<1>13. QED BY <1>6, <1>9, <1>10, <1>11, <1>12 DEF IInv

(* What a handler leaves in the row is a row. *)
LEMMA WrittenType ==
  ASSUME IInv, NEW w \in Workers, worker[w].pc = "write",
         worker[w].ev \in DOMAIN events, events[worker[w].ev] \in Event
  PROVE  Written(events[worker[w].ev], worker[w].seen)
           \in [status : Status \cup {Absent}, linked : BOOLEAN, period : 0..NoPeriod]
<1> DEFINE ev == events[worker[w].ev]
           seen == worker[w].seen
<1>1. /\ row \in [status : Status \cup {Absent}, linked : BOOLEAN, period : 0..NoPeriod]
      /\ seen \in Status \cup {Absent} /\ ev.period \in 0..NoPeriod /\ ev.type \in EventTypes
  BY BillingConstants DEF IInv, TypeOK, Event, NoPeriod
<1>2. {"ACTIVE", "CANCELED"} \subseteq Status /\ Mapped(ev) \in Status
  BY DEF Status, Mapped
<1>3. CASE ev.type = "checkout"
  BY <1>1, <1>2, <1>3 DEF Written
<1>4. CASE ev.type = "paid"
  <2>1. NextStatus(seen, "payment_succeeded") = NoChange
          \/ NextStatus(seen, "payment_succeeded") \in Status
    BY NextStatusType
  <2>2. QED BY <1>1, <1>4, <2>1 DEF Written
<1>5. CASE ev.type = "failed"
  <2>1. NextStatus(seen, "payment_failed") \in Status
    BY <1>5 DEF IInv, SeenFits
  <2>2. QED BY <1>1, <1>5, <2>1 DEF Written
<1>6. CASE ev.type = "updated"
  BY <1>1, <1>2, <1>6 DEF Written
<1>7. CASE ev.type = "deleted"
  BY <1>1, <1>2, <1>7 DEF Written
<1>8. CASE ev.type = "dispute"
  <2>1. NextStatus(seen, "dispute_opened") \in Status
    BY <1>8 DEF IInv, SeenFits
  <2>2. QED BY <1>1, <1>8, <2>1 DEF Written
<1>9. QED BY <1>1, <1>3, <1>4, <1>5, <1>6, <1>7, <1>8 DEF EventTypes

LEMMA WriteKeeps ==
  ASSUME IInv, NEW w \in Workers, Write(w)
  PROVE  IInv'
<1> DEFINE e == worker[w].ev
           ev == events[e]
           seen == worker[w].seen
           new == [worker[w] EXCEPT !.pc = "finish"]
<1>1. /\ worker[w].pc = "write" /\ row' = Written(ev, seen)
      /\ applied' = [applied EXCEPT ![e] = @ + 1]
      /\ worker' = [worker EXCEPT ![w] = new]
      /\ UNCHANGED <<stripe, events, clock, acked, claimed, sweep, user, faults,
                     redone, settled, orderly>>
  BY DEF Write, outside
<1>2. /\ Busy(w) /\ e \in DOMAIN events /\ e \in claimed
  BY <1>1 DEF IInv, Holds, Busy
<1>3. e \in EventIds /\ ev \in Event
  BY <1>2 DEF IInv, TypeOK, EventIds
<1>4. worker'[w] = new /\ (\A v \in Workers : v # w => worker'[v] = worker[v])
      /\ new.pc = "finish" /\ new.ev = e /\ new.seen = seen
      /\ new \in [pc : {"idle", "read", "write", "finish", "release"},
                  ev : 0..MaxEvents, seen : Status \cup {Absent}]
  BY <1>1 DEF IInv, TypeOK
<1>5. row' \in [status : Status \cup {Absent}, linked : BOOLEAN, period : 0..NoPeriod]
  BY <1>1, <1>2, <1>3, WrittenType
<1>6. applied \in [EventIds -> Nat] /\ applied' \in [EventIds -> Nat]
      /\ applied'[e] = applied[e] + 1
      /\ \A d \in EventIds : d # e => applied'[d] = applied[d]
  BY <1>1, <1>3 DEF IInv, TypeOK
<1>7. TypeOK'
  BY <1>1, <1>4, <1>5, <1>6 DEF IInv, TypeOK
<1> HIDE DEF new, seen
<1>8. \A v \in Workers : (Busy(v)' <=> Busy(v)) /\ worker'[v].ev = worker[v].ev
  BY <1>1, <1>4 DEF Busy
<1>9. Holds' /\ Alone' /\ SeenFits' /\ AckedClaimed'
  BY <1>1, <1>4, <1>8 DEF IInv, Holds, Alone, SeenFits, AckedClaimed
<1>10. NotYet'
  <2> SUFFICES ASSUME NEW v \in Workers,
                      worker'[v].pc \in {"read", "write", "release"}
               PROVE  applied'[worker'[v].ev] <= redone[worker'[v].ev]
    BY <1>1 DEF NotYet
  <2>1. v # w /\ worker'[v] = worker[v] /\ Busy(v)
    BY <1>4 DEF Busy
  <2>2. worker[v].ev # e /\ worker[v].ev \in DOMAIN events
    BY <2>1, <1>2 DEF IInv, Alone, Holds
  <2>3. worker[v].ev \in EventIds
    BY <2>2 DEF IInv, TypeOK, EventIds
  <2>4. QED BY <2>1, <2>2, <2>3, <1>6 DEF IInv, NotYet
<1>11. Kept'
  <2>1. applied[e] <= redone[e] /\ redone \in [EventIds -> Nat]
    BY <1>1 DEF IInv, NotYet, TypeOK
  <2>2. QED BY <1>1, <1>2, <1>3, <1>6, <2>1 DEF IInv, Kept
<1>12. InHand'
  BY <1>1, <1>4, <1>8 DEF IInv, InHand, Working
<1>13. QED BY <1>7, <1>9, <1>10, <1>11, <1>12 DEF IInv

LEMMA FinishKeeps ==
  ASSUME IInv, NEW w \in Workers, Finish(w)
  PROVE  IInv'
<1> DEFINE e == worker[w].ev
<1>1. /\ worker[w].pc = "finish" /\ Busy(w)
      /\ acked' = acked \cup {e} /\ settled' = settled \cup {e}
      /\ worker' = [worker EXCEPT ![w] = Idle]
      /\ UNCHANGED <<stripe, events, clock, row, claimed, sweep, user, faults, applied, redone, orderly>>
  BY DEF Finish, outside, Busy
<1>2. e \in DOMAIN events /\ e \in claimed
  BY <1>1 DEF IInv, Holds
<1>3. e \in EventIds
  BY <1>2 DEF IInv, TypeOK, EventIds
<1>4. worker'[w] = Idle /\ (\A v \in Workers : v # w => worker'[v] = worker[v])
      /\ Idle.pc = "idle"
      /\ Idle \in [pc : {"idle", "read", "write", "finish", "release"},
                   ev : 0..MaxEvents, seen : Status \cup {Absent}]
  BY <1>1, BillingConstants DEF IInv, TypeOK, Idle
<1>5. TypeOK'
  BY <1>1, <1>3, <1>4 DEF IInv, TypeOK
<1>6. \A v \in Workers : Busy(v)' => v # w /\ Busy(v)
  BY <1>4 DEF Busy
<1>7. \A v \in Workers : v # w /\ Busy(v) => Busy(v)'
  BY <1>4 DEF Busy
<1>8. Holds' /\ Alone' /\ SeenFits' /\ NotYet' /\ Kept'
  BY <1>1, <1>4, <1>6 DEF IInv, Holds, Alone, SeenFits, NotYet, Kept
<1>9. InHand'
  BY <1>1, <1>4, <1>7 DEF IInv, InHand, Working
<1>10. AckedClaimed'
  BY <1>1, <1>2 DEF IInv, AckedClaimed
<1>11. QED BY <1>5, <1>8, <1>9, <1>10 DEF IInv

LEMMA ThrowKeeps ==
  ASSUME IInv, NEW w \in Workers, Throw(w)
  PROVE  IInv'
<1> DEFINE new == [worker[w] EXCEPT !.pc = "release"]
<1>1. /\ worker[w].pc \in {"read", "write", "finish"}
      /\ worker[w].pc = "finish" => events[worker[w].ev].type = "dispute"
      /\ faults \in Nat /\ faults' = faults + 1 /\ faults' \in 0..MaxFaults
      /\ worker' = [worker EXCEPT ![w] = new]
      /\ UNCHANGED <<stripe, events, clock, acked, row, claimed, sweep, user,
                     applied, settled, orderly>>
  BY BillingConstants DEF Throw, outside, IInv, TypeOK
<1>9. /\ worker[w].ev \in EventIds
      /\ redone' \in [EventIds -> Nat]
      /\ \A d \in EventIds : redone[d] <= redone'[d]
      /\ worker[w].pc = "finish" => redone'[worker[w].ev] = redone[worker[w].ev] + 1
  <2>1. worker[w].ev \in EventIds /\ redone \in [EventIds -> Nat]
    BY <1>1 DEF IInv, TypeOK, Holds, Busy, EventIds
  <2>2. CASE worker[w].pc # "finish"
    BY <2>1, <2>2 DEF Throw
  <2>3. CASE worker[w].pc = "finish"
    <3>1. redone' = [redone EXCEPT ![worker[w].ev] = @ + 1]
      BY <2>3 DEF Throw
    <3>2. QED BY <2>1, <3>1
  <2>4. QED BY <2>2, <2>3
<1>2. worker'[w] = new /\ (\A v \in Workers : v # w => worker'[v] = worker[v])
      /\ new.pc = "release" /\ new.ev = worker[w].ev
      /\ new \in [pc : {"idle", "read", "write", "finish", "release"},
                  ev : 0..MaxEvents, seen : Status \cup {Absent}]
  BY <1>1 DEF IInv, TypeOK
<1>3. TypeOK'
  BY <1>1, <1>2, <1>9 DEF IInv, TypeOK
<1> HIDE DEF new
<1>4. \A v \in Workers : (Busy(v)' <=> Busy(v)) /\ worker'[v].ev = worker[v].ev
  BY <1>1, <1>2 DEF Busy
<1>5. Holds' /\ Alone' /\ SeenFits'
  BY <1>1, <1>2, <1>4 DEF IInv, Holds, Alone, SeenFits
<1>10. applied \in [EventIds -> Nat] /\ redone \in [EventIds -> Nat]
  BY DEF IInv, TypeOK
<1>11. Kept'
  <2> SUFFICES ASSUME NEW d \in EventIds
               PROVE  /\ applied[d] <= redone'[d] + 1
                      /\ d \notin claimed => applied[d] <= redone'[d]
    BY <1>1 DEF Kept
  <2>1. /\ applied[d] <= redone[d] + 1 /\ (d \notin claimed => applied[d] <= redone[d])
        /\ redone[d] <= redone'[d]
    BY <1>9 DEF IInv, Kept
  <2>2. applied[d] \in Nat /\ redone[d] \in Nat /\ redone'[d] \in Nat
    BY <1>9, <1>10
  <2>3. QED BY <2>1, <2>2
<1>6. NotYet'
  <2> SUFFICES ASSUME NEW v \in Workers, worker'[v].pc \in {"read", "write", "release"}
               PROVE  applied[worker[v].ev] <= redone'[worker[v].ev]
    BY <1>1, <1>4 DEF NotYet
  <2>1. Busy(v) /\ worker[v].ev \in EventIds
    BY <1>4 DEF Busy, IInv, Holds, TypeOK, EventIds
  <2>2. /\ applied[worker[v].ev] \in Nat /\ redone[worker[v].ev] \in Nat
        /\ redone'[worker[v].ev] \in Nat /\ redone[worker[v].ev] <= redone'[worker[v].ev]
    BY <1>9, <1>10, <2>1
  <2>3. CASE worker[v].pc \in {"read", "write", "release"}
    <3>1. applied[worker[v].ev] <= redone[worker[v].ev]
      BY <2>3 DEF IInv, NotYet
    <3>2. QED BY <2>2, <3>1
  <2>4. CASE v = w /\ worker[w].pc = "finish"
    <3>1. applied[worker[w].ev] <= redone[worker[w].ev] + 1
      BY <1>9 DEF IInv, Kept
    <3>2. redone'[worker[w].ev] = redone[worker[w].ev] + 1
      BY <1>9, <2>4
    <3>3. QED BY <2>4, <3>1, <3>2
  <2>5. QED BY <1>1, <1>2, <2>3, <2>4
<1>7. InHand' /\ AckedClaimed'
  BY <1>1 DEF InHand, AckedClaimed
<1>8. QED BY <1>3, <1>5, <1>6, <1>7, <1>11 DEF IInv

(* A write that landed in a request that fails counts on both sides. *)
LEMMA WriteLostKeeps ==
  ASSUME IInv, NEW w \in Workers, WriteLost(w)
  PROVE  IInv'
<1> DEFINE e == worker[w].ev
           new == [worker[w] EXCEPT !.pc = "release"]
<1>1. /\ worker[w].pc = "write" /\ row' = Written(events[e], worker[w].seen)
      /\ applied' = [applied EXCEPT ![e] = @ + 1] /\ redone' = [redone EXCEPT ![e] = @ + 1]
      /\ faults \in Nat /\ faults' = faults + 1 /\ faults' \in 0..MaxFaults
      /\ worker' = [worker EXCEPT ![w] = new]
      /\ UNCHANGED <<stripe, events, clock, acked, claimed, sweep, user, settled, orderly>>
  BY BillingConstants DEF WriteLost, outside, IInv, TypeOK
<1>2. e \in DOMAIN events /\ e \in EventIds /\ events[e] \in Event
  BY <1>1 DEF IInv, Holds, Busy, TypeOK, EventIds
<1>3. worker'[w] = new /\ (\A v \in Workers : v # w => worker'[v] = worker[v])
      /\ new.pc = "release" /\ new.ev = e
      /\ new \in [pc : {"idle", "read", "write", "finish", "release"},
                  ev : 0..MaxEvents, seen : Status \cup {Absent}]
  BY <1>1 DEF IInv, TypeOK
<1>4. row' \in [status : Status \cup {Absent}, linked : BOOLEAN, period : 0..NoPeriod]
  BY <1>1, <1>2, WrittenType
<1>5. /\ applied \in [EventIds -> Nat] /\ redone \in [EventIds -> Nat]
      /\ applied' \in [EventIds -> Nat] /\ redone' \in [EventIds -> Nat]
      /\ applied'[e] = applied[e] + 1 /\ redone'[e] = redone[e] + 1
      /\ \A d \in EventIds : d # e => applied'[d] = applied[d] /\ redone'[d] = redone[d]
  BY <1>1, <1>2 DEF IInv, TypeOK
<1>6. TypeOK'
  BY <1>1, <1>3, <1>4, <1>5 DEF IInv, TypeOK
<1> HIDE DEF new
<1>7. \A v \in Workers : (Busy(v)' <=> Busy(v)) /\ worker'[v].ev = worker[v].ev
  BY <1>1, <1>3 DEF Busy
<1>8. Holds' /\ Alone' /\ SeenFits'
  BY <1>1, <1>3, <1>7 DEF IInv, Holds, Alone, SeenFits
<1>9. ASSUME NEW d \in EventIds, applied[d] <= redone[d] PROVE applied'[d] <= redone'[d]
  <2>1. applied[d] \in Nat /\ redone[d] \in Nat
    BY <1>5
  <2>2. QED BY <1>5, <1>9, <2>1
<1>10. NotYet'
  <2> SUFFICES ASSUME NEW v \in Workers, worker'[v].pc \in {"read", "write", "release"}
               PROVE  applied'[worker[v].ev] <= redone'[worker[v].ev]
    BY <1>7 DEF NotYet
  <2>1. worker[v].pc \in {"read", "write", "release"}
    BY <1>1, <1>3
  <2>2. worker[v].ev \in EventIds
    BY <2>1 DEF Busy, IInv, Holds, TypeOK, EventIds
  <2>3. applied[worker[v].ev] <= redone[worker[v].ev]
    BY <2>1 DEF IInv, NotYet
  <2>4. QED BY <1>9, <2>2, <2>3
<1>11. Kept'
  <2> SUFFICES ASSUME NEW d \in EventIds
               PROVE  /\ applied'[d] <= redone'[d] + 1
                      /\ d \notin claimed => applied'[d] <= redone'[d]
    BY <1>1 DEF Kept
  <2>1. applied[d] <= redone[d] + 1 /\ (d \notin claimed => applied[d] <= redone[d])
    BY DEF IInv, Kept
  <2>2. applied[d] \in Nat /\ redone[d] \in Nat
    BY <1>5
  <2>3. QED BY <1>5, <1>9, <2>1, <2>2
<1>12. InHand' /\ AckedClaimed'
  BY <1>1 DEF InHand, AckedClaimed
<1>13. QED BY <1>6, <1>8, <1>10, <1>11, <1>12 DEF IInv

LEMMA ReleaseKeeps ==
  ASSUME IInv, NEW w \in Workers, Release(w)
  PROVE  IInv'
<1> DEFINE e == worker[w].ev
<1>1. /\ worker[w].pc = "release" /\ Busy(w)
      /\ claimed' = claimed \ {e}
      /\ worker' = [worker EXCEPT ![w] = Idle]
      /\ UNCHANGED <<stripe, events, clock, acked, row, sweep, user, faults,
                     applied, redone, settled, orderly>>
  BY DEF Release, outside, history, Busy
<1>2. faults # 0 /\ e \in DOMAIN events
  BY <1>1 DEF IInv, InHand, Holds
<1>3. worker'[w] = Idle /\ (\A v \in Workers : v # w => worker'[v] = worker[v])
      /\ Idle.pc = "idle"
      /\ Idle \in [pc : {"idle", "read", "write", "finish", "release"},
                   ev : 0..MaxEvents, seen : Status \cup {Absent}]
  BY <1>1, BillingConstants DEF IInv, TypeOK, Idle
<1>4. TypeOK'
  BY <1>1, <1>3 DEF IInv, TypeOK
<1>5. \A v \in Workers : Busy(v)' => v # w /\ Busy(v) /\ worker'[v] = worker[v]
  BY <1>3 DEF Busy
<1>6. Holds'
  BY <1>1, <1>5 DEF IInv, Holds, Alone
<1>7. Alone' /\ SeenFits' /\ NotYet'
  BY <1>1, <1>3, <1>5 DEF IInv, Alone, SeenFits, NotYet
<1>8. Kept'
  <2>1. applied[e] <= redone[e]
    BY <1>1 DEF IInv, NotYet
  <2>2. QED BY <1>1, <2>1 DEF IInv, Kept
<1>9. InHand' /\ AckedClaimed'
  BY <1>1, <1>2 DEF InHand, AckedClaimed
<1>10. QED BY <1>4, <1>6, <1>7, <1>8, <1>9 DEF IInv

LEMMA DieKeeps ==
  ASSUME IInv, NEW w \in Workers, Die(w)
  PROVE  IInv'
<1>1. /\ faults \in Nat /\ faults' = faults + 1 /\ faults' \in 0..MaxFaults
      /\ worker' = [worker EXCEPT ![w] = Idle]
      /\ UNCHANGED <<stripe, events, clock, acked, row, claimed, sweep, user,
                     applied, redone, settled, orderly>>
  BY BillingConstants DEF Die, outside, history, IInv, TypeOK
<1>2. worker'[w] = Idle /\ (\A v \in Workers : v # w => worker'[v] = worker[v])
      /\ Idle.pc = "idle"
      /\ Idle \in [pc : {"idle", "read", "write", "finish", "release"},
                   ev : 0..MaxEvents, seen : Status \cup {Absent}]
  BY <1>1, BillingConstants DEF IInv, TypeOK, Idle
<1>3. TypeOK'
  BY <1>1, <1>2 DEF IInv, TypeOK
<1>4. \A v \in Workers : Busy(v)' => v # w /\ Busy(v) /\ worker'[v] = worker[v]
  BY <1>2 DEF Busy
<1>5. Holds' /\ Alone' /\ SeenFits' /\ NotYet' /\ Kept'
  BY <1>1, <1>2, <1>4 DEF IInv, Holds, Alone, SeenFits, NotYet, Kept
<1>6. InHand' /\ AckedClaimed'
  BY <1>1 DEF InHand, AckedClaimed
<1>7. QED BY <1>3, <1>5, <1>6 DEF IInv

(* The sweep and the cancellation touch only the row and Stripe. *)
LEMMA OthersKeep ==
  ASSUME IInv, SweepList \/ SweepWrite \/ CancelAtStripe \/ CancelWrite \/ CancelDies
  PROVE  IInv'
<1>1. CASE SweepList
  <2>1. /\ sweep' = "listed" /\ orderly' \in BOOLEAN
        /\ UNCHANGED <<stripe, events, clock, acked, row, claimed, worker, user, faults,
                       applied, redone, settled>>
    BY <1>1 DEF SweepList, outside, IInv, TypeOK
  <2>2. TypeOK'
    BY <2>1 DEF IInv, TypeOK
  <2>3. QED BY <2>1, <2>2, StripeKeeps DEF IInv, TypeOK
<1>2. CASE SweepWrite
  <2>1. /\ sweep' = "idle" /\ row' = [row EXCEPT !.status = "EXPIRED"]
        /\ UNCHANGED <<stripe, events, clock, acked, claimed, worker, user, faults,
                       applied, redone, settled, orderly>>
    BY <1>2 DEF SweepWrite, outside, history, NextStatus
  <2>2. TypeOK'
    BY <2>1 DEF IInv, TypeOK, Status
  <2>3. QED BY <2>1, <2>2, StripeKeeps DEF IInv, TypeOK
<1>3. CASE CancelAtStripe
  <2>1. /\ user' = "write" /\ orderly' \in BOOLEAN
        /\ UNCHANGED <<acked, clock, row, claimed, worker, sweep, faults, applied, redone, settled>>
    BY <1>3 DEF CancelAtStripe, IInv, TypeOK
  <2>2. /\ stripe' \in [status : StripeStatus, ending : BOOLEAN]
        /\ events' \in Seq(Event) /\ Len(events') \in 0..MaxEvents
        /\ DOMAIN events \subseteq DOMAIN events'
        /\ \A e \in DOMAIN events : events'[e] = events[e]
    <3>1. CASE CancelNow \/ CancelAtPeriodEnd
      BY <3>1, StripeEmits DEF IInv
    <3>2. CASE UNCHANGED <<stripe, events>>
      BY <3>2 DEF IInv, TypeOK
    <3>3. QED BY <1>3, <3>1, <3>2 DEF CancelAtStripe
  <2>3. TypeOK'
    BY <2>1, <2>2 DEF IInv, TypeOK
  <2>4. QED BY <2>1, <2>2, <2>3, StripeKeeps DEF IInv
<1>4. CASE CancelWrite
  <2>1. /\ user' = "done" /\ row' = [row EXCEPT !.status = "CANCELED"]
        /\ UNCHANGED <<stripe, events, clock, acked, claimed, worker, sweep, faults,
                       applied, redone, settled, orderly>>
    BY <1>4 DEF CancelWrite, outside, history
  <2>2. TypeOK'
    BY <2>1 DEF IInv, TypeOK, Status
  <2>3. QED BY <2>1, <2>2, StripeKeeps DEF IInv, TypeOK
<1>5. CASE CancelDies
  <2>1. /\ user' = "done" /\ faults \in Nat /\ faults' = faults + 1 /\ faults' \in 0..MaxFaults
        /\ UNCHANGED <<stripe, events, clock, acked, row, claimed, worker, sweep,
                       applied, redone, settled, orderly>>
    BY <1>5, BillingConstants DEF CancelDies, outside, history, IInv, TypeOK
  <2>2. TypeOK'
    BY <2>1 DEF IInv, TypeOK
  <2>3. \A v \in Workers : Busy(v)' <=> Busy(v)
    BY <2>1 DEF Busy
  <2>4. Holds' /\ Alone' /\ SeenFits' /\ NotYet' /\ Kept'
    BY <2>1, <2>3 DEF IInv, Holds, Alone, SeenFits, NotYet, Kept
  <2>5. InHand' /\ AckedClaimed'
    BY <2>1 DEF InHand, AckedClaimed
  <2>6. QED BY <2>2, <2>4, <2>5 DEF IInv
<1>6. QED BY <1>1, <1>2, <1>3, <1>4, <1>5

-----------------------------------------------------------------------------
LEMMA InitIInv == Init => IInv
<1> SUFFICES ASSUME Init PROVE IInv
  OBVIOUS
<1>1. TypeOK
  <2>1. events \in Seq(Event) /\ Len(events) \in 0..MaxEvents
    <3>1. events = <<>>
      BY DEF Init
    <3>2. QED BY <3>1, BillingConstants
  <2>2. /\ row \in [status : Status \cup {Absent}, linked : BOOLEAN, period : 0..NoPeriod]
        /\ stripe \in [status : StripeStatus, ending : BOOLEAN]
    <3>1. 0 \in 0..NoPeriod /\ NoPeriod \in 0..NoPeriod
      BY BillingConstants DEF NoPeriod
    <3>2. "ACTIVE" \in Status /\ "PAST_DUE" \in Status /\ Absent \in Status \cup {Absent}
      BY DEF Status
    <3>3. "none" \in StripeStatus /\ "active" \in StripeStatus /\ "past_due" \in StripeStatus
      BY DEF StripeStatus
    <3>4. /\ \/ row = [status |-> Absent, linked |-> FALSE, period |-> NoPeriod]
             \/ row = [status |-> "ACTIVE", linked |-> FALSE, period |-> 0]
             \/ row = [status |-> "ACTIVE", linked |-> TRUE, period |-> 0]
             \/ row = [status |-> "PAST_DUE", linked |-> TRUE, period |-> 0]
          /\ \/ stripe = [status |-> "none", ending |-> FALSE]
             \/ stripe = [status |-> "active", ending |-> FALSE]
             \/ stripe = [status |-> "past_due", ending |-> FALSE]
      BY DEF Init
    <3>5. ASSUME NEW s \in StripeStatus, NEW b \in BOOLEAN
          PROVE  [status |-> s, ending |-> b] \in [status : StripeStatus, ending : BOOLEAN]
      OBVIOUS
    <3>6. ASSUME NEW s \in Status \cup {Absent}, NEW b \in BOOLEAN, NEW p \in 0..NoPeriod
          PROVE  [status |-> s, linked |-> b, period |-> p]
                   \in [status : Status \cup {Absent}, linked : BOOLEAN, period : 0..NoPeriod]
      OBVIOUS
    <3>7. TRUE \in BOOLEAN /\ FALSE \in BOOLEAN
      OBVIOUS
    <3>8. stripe \in [status : StripeStatus, ending : BOOLEAN]
      BY <3>3, <3>4, <3>5, <3>7, Zenon
    <3> DEFINE Rows == [status : Status \cup {Absent}, linked : BOOLEAN, period : 0..NoPeriod]
    <3>11. "ACTIVE" \in Status \cup {Absent} /\ "PAST_DUE" \in Status \cup {Absent}
      BY <3>2
    <3>12. [status |-> Absent, linked |-> FALSE, period |-> NoPeriod] \in Rows
      BY <3>1, <3>2, <3>6, <3>7, Zenon
    <3>13. [status |-> "ACTIVE", linked |-> FALSE, period |-> 0] \in Rows
      BY <3>1, <3>11, <3>6, <3>7, Zenon
    <3>14. [status |-> "ACTIVE", linked |-> TRUE, period |-> 0] \in Rows
      BY <3>1, <3>11, <3>6, <3>7, Zenon
    <3>15. [status |-> "PAST_DUE", linked |-> TRUE, period |-> 0] \in Rows
      BY <3>1, <3>11, <3>6, <3>7, Zenon
    <3> HIDE DEF Rows
    <3>16. row \in Rows
      BY <3>4, <3>12, <3>13, <3>14, <3>15, Zenon
    <3>9. row \in [status : Status \cup {Absent}, linked : BOOLEAN, period : 0..NoPeriod]
      BY <3>16 DEF Rows
    <3>10. QED BY <3>8, <3>9
  <2>3. worker \in [Workers -> [pc : {"idle", "read", "write", "finish", "release"},
                                ev : 0..MaxEvents, seen : Status \cup {Absent}]]
    BY BillingConstants DEF Init, Idle
  <2>4. applied \in [EventIds -> Nat] /\ redone \in [EventIds -> Nat]
    BY DEF Init
  <2>5. QED BY <2>1, <2>2, <2>3, <2>4, BillingConstants DEF Init, TypeOK
<1>2. \A w \in Workers : worker[w].pc = "idle"
  BY DEF Init, Idle
<1>3. Holds /\ Alone /\ SeenFits /\ NotYet
  BY <1>2 DEF Holds, Alone, SeenFits, NotYet, Busy
<1>4. Kept /\ InHand /\ AckedClaimed
  BY <1>2 DEF Init, Kept, InHand, AckedClaimed
<1>5. QED BY <1>1, <1>3, <1>4 DEF IInv

LEMMA StepIInv == IInv /\ [Next]_vars => IInv'
<1> SUFFICES ASSUME IInv, [Next]_vars PROVE IInv'
  OBVIOUS
<1>1. CASE StripeAct
  <2>1. UNCHANGED <<acked, clock, row, claimed, worker, sweep, user, faults,
                    applied, redone, settled, orderly>>
    BY <1>1 DEF StripeAct, history
  <2>2. /\ stripe' \in [status : StripeStatus, ending : BOOLEAN]
        /\ events' \in Seq(Event) /\ Len(events') \in 0..MaxEvents
        /\ DOMAIN events \subseteq DOMAIN events'
        /\ \A e \in DOMAIN events : events'[e] = events[e]
    BY <1>1, StripeEmits DEF StripeAct, IInv
  <2>3. TypeOK'
    BY <2>1, <2>2 DEF IInv, TypeOK
  <2>4. QED BY <2>1, <2>2, <2>3, StripeKeeps DEF IInv
<1>2. CASE PeriodPasses
  <2>1. /\ clock' \in 0..MaxClock
        /\ UNCHANGED <<stripe, events, acked, row, claimed, worker, sweep, user, faults,
                       applied, redone, settled, orderly>>
    BY <1>2, BillingConstants DEF PeriodPasses, history, IInv, TypeOK
  <2>2. TypeOK'
    BY <2>1 DEF IInv, TypeOK
  <2>3. QED BY <2>1, <2>2, StripeKeeps DEF IInv, TypeOK
<1>3. CASE UNCHANGED vars
  <2>1. UNCHANGED <<stripe, events, acked, clock, row, claimed, worker, sweep, user, faults,
                    applied, redone, settled, orderly>>
    BY <1>3 DEF vars
  <2>2. TypeOK'
    BY <2>1 DEF IInv, TypeOK
  <2>3. QED BY <2>1, <2>2, StripeKeeps DEF IInv, TypeOK
<1>4. QED
  BY <1>1, <1>2, <1>3, DeliverKeeps, ReadKeeps, WriteKeeps, FinishKeeps, ReleaseKeeps,
     ThrowKeeps, WriteLostKeeps, DieKeeps, OthersKeep DEF Next, Request

LEMMA InvariantHolds == Spec => []IInv
BY InitIInv, StepIInv, PTL DEF Spec

(* The variables keep their types. *)
THEOREM BillingTypeCorrect == Spec => []TypeOK
<1>1. IInv => TypeOK
  BY DEF IInv
<1>2. QED BY <1>1, InvariantHolds, PTL

(* Claim-first with release on failure: whatever the deliveries, the        *)
(* overlaps, the throws, the lost answers and the deaths, an event moves    *)
(* the row once, and again only for a request that failed after its write.  *)
THEOREM EffectIsAtMostOnce == Spec => []EffectAtMostOnce
<1>1. IInv => EffectAtMostOnce
  <2> SUFFICES ASSUME IInv, NEW e \in DOMAIN events
               PROVE  applied[e] <= 1 + redone[e]
    BY DEF EffectAtMostOnce
  <2>1. DOMAIN events = 1..Len(events) /\ Len(events) \in 0..MaxEvents
    BY DEF IInv, TypeOK
  <2>2. e \in EventIds
    BY <2>1, BillingConstants DEF EventIds
  <2>3. applied[e] <= redone[e] + 1 /\ applied[e] \in Nat /\ redone[e] \in Nat
    BY <2>2 DEF IInv, Kept, TypeOK
  <2>4. QED BY <2>3
<1>2. QED BY <1>1, InvariantHolds, PTL

(* A 2xx is given only for a claimed event, and without a failure every     *)
(* claimed event is done or in hand.                                        *)
THEOREM AcknowledgedIsHandled == Spec => []AckedIsHandled
<1>1. IInv => AckedIsHandled
  BY DEF IInv, AckedIsHandled, InHand, AckedClaimed
<1>2. QED BY <1>1, InvariantHolds, PTL

-----------------------------------------------------------------------------
(* That events handled in order leave the row as Stripe has it: what the     *)
(* steps preserve, from an event that decides to the row that follows it.    *)

(* An event that settles what the row says, whatever it said before. *)
Decides(e) == events[e].type \in {"checkout", "updated", "deleted"}

(* Its write has been made, as far as a request that is not lost can tell. *)
Done(e) == e \in settled \/ \E w \in Workers : worker[w].pc = "finish" /\ worker[w].ev = e

Open == \E e \in DOMAIN events : Decides(e) /\ ~Done(e)

Settles ==
  /\ settled \subseteq claimed /\ settled \subseteq DOMAIN events
  /\ \A w \in Workers : Busy(w) => worker[w].ev \notin settled

(* What Stripe emits: the last event that decides says what Stripe says, a  *)
(* failed charge is followed by one that decides, and so is a payment, or   *)
(* it follows the checkout.                                                 *)
Emits ==
  /\ DOMAIN events # {} => stripe.status # "none"
  /\ \A e \in DOMAIN events :
       /\ Decides(e) /\ (\A d \in DOMAIN events : e < d => ~Decides(d))
            => stripe.status = events[e].status /\ stripe.ending = events[e].ending
       /\ events[e].type = "checkout" => e = 1 /\ events[e].status = "active" /\ ~events[e].ending
       /\ events[e].type = "deleted" => events[e].status = "canceled"
       /\ events[e].type = "failed" => e + 1 \in DOMAIN events /\ Decides(e + 1)
       /\ events[e].type = "paid" => \/ e + 1 \in DOMAIN events /\ Decides(e + 1)
                                     \/ e = 2 /\ events[1].type = "checkout"

(* While all is in order, events settle one after the other, and at most    *)
(* one actor is under way.                                                  *)
InTurn ==
  orderly =>
    /\ \A e \in settled : \A d \in 1..(e - 1) : d \in settled
    /\ \A w \in Workers : Busy(w) =>
         /\ \A d \in 1..(worker[w].ev - 1) : d \in settled
         /\ \A v \in Workers : Busy(v) => v = w
         /\ sweep = "idle" /\ user # "write"
    /\ sweep = "idle" \/ user # "write"

(* What it read or listed is what the row still says. *)
Fresh ==
  orderly =>
    /\ \A w \in Workers :
         worker[w].pc = "write" /\ events[worker[w].ev].type \in {"paid", "failed", "dispute"}
           => worker[w].seen = row.status
    /\ sweep = "listed" => row.status = "PAST_DUE"

(* Only a row whose checkout is still to come can be unlinked. *)
Linked ==
  orderly => \/ row.linked \/ stripe.status = "none"
             \/ \E e \in DOMAIN events : events[e].type = "checkout" /\ ~Done(e)

(* The row agrees with Stripe, or an event that will decide is still open;  *)
(* a cancellation that is to be written leaves one open, or Stripe was set  *)
(* to end already.                                                          *)
RowFollows ==
  orderly => /\ Open \/ Agrees
             /\ user = "write" => \/ Open \/ stripe.status = "none"
                                  \/ stripe.ending /\ stripe.status # "canceled"

OrderInv == Settles /\ Emits /\ InTurn /\ Fresh /\ Linked /\ RowFollows

-----------------------------------------------------------------------------
LEMMA InitOrder == Init => OrderInv
<1> SUFFICES ASSUME Init PROVE OrderInv
  OBVIOUS
<1>1. /\ events = <<>> /\ settled = {} /\ user = "idle" /\ sweep = "idle"
      /\ \A w \in Workers : worker[w].pc = "idle"
  BY DEF Init, Idle
<1>2. DOMAIN events = {}
  BY <1>1
<1>3. Settles /\ Emits /\ InTurn /\ Fresh
  BY <1>1, <1>2 DEF Settles, Emits, InTurn, Fresh, Busy
<1>4. \/ stripe.status = "none"
      \/ row.linked = TRUE /\ row.status = "ACTIVE" /\ stripe.status = "active" /\ stripe.ending = FALSE
      \/ row.linked = TRUE /\ row.status = "PAST_DUE" /\ stripe.status = "past_due"
  BY DEF Init
<1>5. Linked
  BY <1>4 DEF Linked
<1>6. Agrees
  BY <1>4 DEF Agrees
<1>7. RowFollows
  BY <1>1, <1>6 DEF RowFollows
<1>8. QED BY <1>3, <1>5, <1>7 DEF OrderInv

(* Steps that leave the row, Stripe and the requests alone. *)
LEMMA FrameOrders ==
  ASSUME OrderInv,
         claimed' = claimed,
         UNCHANGED <<stripe, events, row, worker, sweep, settled, orderly>>,
         user' \in {user, "done"}
  PROVE  OrderInv'
<1>1. \A w \in Workers : Busy(w)' <=> Busy(w)
  BY DEF Busy
<1>2. (Open' <=> Open) /\ (Agrees' <=> Agrees)
  BY DEF Open, Agrees, Done, Decides
<1>3. Settles' /\ Emits' /\ InTurn' /\ Fresh'
  BY <1>1 DEF OrderInv, Settles, Emits, InTurn, Fresh, Decides
<1>4. Linked'
  BY DEF OrderInv, Linked, Done
<1>5. RowFollows'
  BY <1>2 DEF OrderInv, RowFollows
<1>6. QED BY <1>3, <1>4, <1>5 DEF OrderInv

(* A request that is lost or gives up makes no event done. *)
LEMMA GivingUpOrders ==
  ASSUME OrderInv, Holds, NEW w \in Workers,
         \A v \in Workers : v # w => worker'[v] = worker[v],
         worker'[w].pc \in {"idle", "release"},
         worker'[w].pc = "release" => Busy(w) /\ worker'[w].ev = worker[w].ev,
         \/ claimed' = claimed
         \/ worker'[w].pc = "idle" /\ claimed' = claimed \ {worker[w].ev} /\ Busy(w),
         UNCHANGED <<stripe, events, row, sweep, user, settled, orderly>>
  PROVE  OrderInv'
<1>1. \A v \in Workers : Busy(v)' => Busy(v) /\ worker'[v].ev = worker[v].ev
  BY DEF Busy
<1>2. \A v \in Workers : worker'[v].pc \in {"write", "finish"} => v # w /\ worker'[v] = worker[v]
  OBVIOUS
<1>3. \A e : Done(e)' => Done(e)
  BY <1>2 DEF Done
<1>4. \A e : Decides(e)' <=> Decides(e)
  BY DEF Decides
<1>5. (Open => Open') /\ (Agrees' <=> Agrees)
  BY <1>3, <1>4 DEF Open, Agrees
<1>6. Settles'
  BY <1>1 DEF OrderInv, Settles
<1>7. Emits'
  BY <1>4 DEF OrderInv, Emits
<1>8. InTurn'
  BY <1>1 DEF OrderInv, InTurn
<1>9. Fresh'
  BY <1>2 DEF OrderInv, Fresh
<1>10. Linked'
  BY <1>3 DEF OrderInv, Linked
<1>11. RowFollows'
  BY <1>5 DEF OrderInv, RowFollows
<1>12. QED BY <1>6, <1>7, <1>8, <1>9, <1>10, <1>11 DEF OrderInv

-----------------------------------------------------------------------------
LEMMA EmitOne ==
  ASSUME TypeOK, NEW a \in Event, Emit(<<a>>)
  PROVE  Len(events') = Len(events) + 1 /\ events'[Len(events) + 1] = a
<1>1. events' = events \o <<a>> /\ events \in Seq(Event) /\ <<a>> \in Seq(Event)
  BY DEF Emit, TypeOK
<1>2. QED BY <1>1

LEMMA EmitTwo ==
  ASSUME TypeOK, NEW a \in Event, NEW b \in Event, Emit(<<a, b>>)
  PROVE  /\ Len(events') = Len(events) + 2
         /\ events'[Len(events) + 1] = a /\ events'[Len(events) + 2] = b
<1>1. events' = events \o <<a, b>> /\ events \in Seq(Event) /\ <<a, b>> \in Seq(Event)
  BY DEF Emit, TypeOK
<1>2. QED BY <1>1

(* The last event of what Stripe emits decides and says what Stripe says    *)
(* now; a payment or a failed charge may come before it.                    *)
Deciding(e) ==
  /\ events'[e].type \in {"updated", "deleted"}
  /\ events'[e].type = "deleted" => events'[e].status = "canceled"
  /\ events'[e].status = stripe'.status /\ events'[e].ending = stripe'.ending

Announced(n) ==
  \/ /\ stripe.status # "none" /\ stripe'.status # "none"
     /\ Len(events') = n + 1 /\ Deciding(n + 1)
  \/ /\ stripe.status # "none" /\ stripe'.status # "none"
     /\ Len(events') = n + 2 /\ events'[n + 1].type \in {"paid", "failed"} /\ Deciding(n + 2)

Bought(n) ==
  /\ stripe.status = "none" /\ stripe'.status = "active" /\ stripe'.ending = FALSE
  /\ Len(events') = n + 2 /\ events'[n + 1].type = "checkout"
  /\ events'[n + 1].status = "active" /\ events'[n + 1].ending = FALSE
  /\ events'[n + 2].type = "paid"

Disputed(n) ==
  /\ stripe.status # "none" /\ stripe'.status = stripe.status /\ stripe'.ending = stripe.ending
  /\ Len(events') = n + 1 /\ events'[n + 1].type = "dispute"

LEMMA CancelAnnounces ==
  ASSUME TypeOK, CancelNow \/ CancelAtPeriodEnd
  PROVE  Announced(Len(events))
<1>1. ASSUME NEW t \in EventTypes, NEW s \in StripeStatus, NEW b \in BOOLEAN
      PROVE  Emitted(t, s, b) \in Event
  BY <1>1 DEF Emitted, Event, TypeOK
<1>0. /\ \A t \in {"checkout", "paid", "failed", "updated", "deleted", "dispute"} : t \in EventTypes
      /\ \A s \in {"none", "active", "past_due", "unpaid", "canceled"} : s \in StripeStatus
      /\ TRUE \in BOOLEAN /\ FALSE \in BOOLEAN
  BY DEF EventTypes, StripeStatus
<1>2. stripe.ending \in BOOLEAN /\ stripe.status \in StripeStatus
  BY DEF TypeOK
<1>3. CASE CancelNow
  <2>1. stripe.status # "none" /\ stripe' = [status |-> "canceled", ending |-> FALSE]
        /\ Emit(<<Emitted("deleted", "canceled", FALSE)>>)
    BY <1>3 DEF CancelNow, Live, StripeMoves
  <2> DEFINE a == Emitted("deleted", "canceled", FALSE)
  <2>2. a \in Event
    BY <1>0, <1>1
  <2>6. a.type = "deleted" /\ a.status = "canceled" /\ a.ending = FALSE
    BY DEF Emitted
  <2> HIDE DEF a
  <2>3. Len(events') = Len(events) + 1 /\ events'[Len(events) + 1] = a
    BY <2>1, <2>2, EmitOne DEF a
  <2>4. QED BY <2>1, <2>3, <2>6 DEF Announced, Deciding
<1>4. CASE CancelAtPeriodEnd
  <2>1. stripe.status # "none" /\ stripe' = [status |-> stripe.status, ending |-> TRUE]
        /\ Emit(<<Emitted("updated", stripe.status, TRUE)>>)
    BY <1>4 DEF CancelAtPeriodEnd, Live, StripeMoves
  <2> DEFINE a == Emitted("updated", stripe.status, TRUE)
  <2>2. a \in Event
    BY <1>0, <1>1, <1>2
  <2>6. a.type = "updated" /\ a.status = stripe.status /\ a.ending = TRUE
    BY DEF Emitted
  <2> HIDE DEF a
  <2>3. Len(events') = Len(events) + 1 /\ events'[Len(events) + 1] = a
    BY <2>1, <2>2, EmitOne DEF a
  <2>4. QED BY <2>1, <2>3, <2>6 DEF Announced, Deciding
<1>5. QED BY <1>3, <1>4

LEMMA StripeAnnounces ==
  ASSUME TypeOK,
         \/ Purchase \/ ChargeFails \/ ChargeSucceeds \/ GiveUp \/ CancelNow
         \/ CancelAtPeriodEnd \/ Dispute
  PROVE  Announced(Len(events)) \/ Bought(Len(events)) \/ Disputed(Len(events))
<1>1. ASSUME NEW t \in EventTypes, NEW s \in StripeStatus, NEW b \in BOOLEAN
      PROVE  Emitted(t, s, b) \in Event
  BY <1>1 DEF Emitted, Event, TypeOK
<1>0. /\ \A t \in {"checkout", "paid", "failed", "updated", "deleted", "dispute"} : t \in EventTypes
      /\ \A s \in {"none", "active", "past_due", "unpaid", "canceled"} : s \in StripeStatus
      /\ TRUE \in BOOLEAN /\ FALSE \in BOOLEAN
  BY DEF EventTypes, StripeStatus
<1>2. stripe.ending \in BOOLEAN /\ stripe.status \in StripeStatus
  BY DEF TypeOK
<1>3. CASE Purchase
  <2> DEFINE a == Emitted("checkout", "active", FALSE)
             b == Emitted("paid", "active", FALSE)
  <2>1. /\ stripe.status = "none" /\ stripe' = [status |-> "active", ending |-> FALSE]
        /\ Emit(<<a, b>>)
    BY <1>3 DEF Purchase, StripeMoves
  <2>2. a \in Event
    BY <1>0, <1>1
  <2>6. a.type = "checkout" /\ a.status = "active" /\ a.ending = FALSE
    BY DEF Emitted
  <2>5. b \in Event
    BY <1>0, <1>1
  <2>7. b.type = "paid"
    BY DEF Emitted
  <2> HIDE DEF a, b
  <2>3. /\ Len(events') = Len(events) + 2
        /\ events'[Len(events) + 1] = a /\ events'[Len(events) + 2] = b
    BY <2>1, <2>2, <2>5, EmitTwo
  <2>4. QED BY <2>1, <2>3, <2>6, <2>7 DEF Bought
<1>4. CASE ChargeFails
  <2> DEFINE a == Emitted("failed", "past_due", FALSE)
             b == Emitted("updated", "past_due", FALSE)
  <2>1. /\ stripe.status # "none" /\ stripe' = [status |-> "past_due", ending |-> FALSE]
        /\ Emit(<<a, b>>)
    BY <1>4 DEF ChargeFails, StripeMoves
  <2>2. a \in Event
    BY <1>0, <1>1
  <2>6. a.type = "failed"
    BY DEF Emitted
  <2>5. b \in Event
    BY <1>0, <1>1
  <2>7. b.type = "updated" /\ b.status = "past_due" /\ b.ending = FALSE
    BY DEF Emitted
  <2> HIDE DEF a, b
  <2>3. /\ Len(events') = Len(events) + 2
        /\ events'[Len(events) + 1] = a /\ events'[Len(events) + 2] = b
    BY <2>1, <2>2, <2>5, EmitTwo
  <2>4. QED BY <2>1, <2>3, <2>6, <2>7 DEF Announced, Deciding
<1>5. CASE ChargeSucceeds
  <2> DEFINE a == Emitted("paid", "active", stripe.ending)
             b == Emitted("updated", "active", stripe.ending)
  <2>1. /\ stripe.status # "none" /\ stripe' = [status |-> "active", ending |-> stripe.ending]
        /\ Emit(<<a, b>>)
    BY <1>5 DEF ChargeSucceeds, StripeMoves
  <2>2. a \in Event
    BY <1>0, <1>1, <1>2
  <2>6. a.type = "paid"
    BY DEF Emitted
  <2>5. b \in Event
    BY <1>0, <1>1, <1>2
  <2>7. b.type = "updated" /\ b.status = "active" /\ b.ending = stripe.ending
    BY DEF Emitted
  <2> HIDE DEF a, b
  <2>3. /\ Len(events') = Len(events) + 2
        /\ events'[Len(events) + 1] = a /\ events'[Len(events) + 2] = b
    BY <2>1, <2>2, <2>5, EmitTwo
  <2>4. QED BY <2>1, <2>3, <2>6, <2>7 DEF Announced, Deciding
<1>6. CASE GiveUp
  <2> DEFINE a == Emitted("updated", "unpaid", stripe.ending)
  <2>1. stripe.status # "none" /\ stripe' = [status |-> "unpaid", ending |-> stripe.ending]
        /\ Emit(<<a>>)
    BY <1>6 DEF GiveUp, StripeMoves
  <2>2. a \in Event
    BY <1>0, <1>1, <1>2
  <2>6. a.type = "updated" /\ a.status = "unpaid" /\ a.ending = stripe.ending
    BY DEF Emitted
  <2> HIDE DEF a
  <2>3. Len(events') = Len(events) + 1 /\ events'[Len(events) + 1] = a
    BY <2>1, <2>2, EmitOne
  <2>4. QED BY <2>1, <2>3, <2>6 DEF Announced, Deciding
<1>7. CASE Dispute
  <2> DEFINE a == Emitted("dispute", "none", FALSE)
  <2>1. stripe.status # "none" /\ stripe' = [status |-> stripe.status, ending |-> stripe.ending]
        /\ Emit(<<a>>)
    BY <1>7 DEF Dispute, StripeMoves
  <2>2. a \in Event
    BY <1>0, <1>1
  <2>6. a.type = "dispute"
    BY DEF Emitted
  <2> HIDE DEF a
  <2>3. Len(events') = Len(events) + 1 /\ events'[Len(events) + 1] = a
    BY <2>1, <2>2, EmitOne
  <2>4. QED BY <2>1, <2>3, <2>6 DEF Disputed
<1>8. QED BY <1>3, <1>4, <1>5, <1>6, <1>7, CancelAnnounces

(* What Stripe adds to its events keeps what is said of them. *)
LEMMA EmitsKept ==
  ASSUME TypeOK, Emits, NEW n, n = Len(events), events' \in Seq(Event), stripe'.ending \in BOOLEAN,
         \A e \in DOMAIN events : events'[e] = events[e],
         Announced(n) \/ Bought(n) \/ Disputed(n)
  PROVE  Emits'
<1>1. /\ n \in Nat /\ DOMAIN events = 1..n
      /\ DOMAIN events' = 1..Len(events') /\ Len(events') \in Nat
  BY DEF TypeOK
<1>2. stripe'.status # "none"
  BY DEF Announced, Bought, Disputed
<1>3. \A e \in 1..n : Decides(e)' <=> Decides(e)
  BY <1>1 DEF Decides
<1>8. \A e \in 1..n : events[e].type = "paid" => \/ e + 1 \in 1..n /\ Decides(e + 1)
                                                 \/ e = 2 /\ events[1].type = "checkout"
  <2> SUFFICES ASSUME NEW e \in DOMAIN events, events[e].type = "paid"
               PROVE  \/ e + 1 \in DOMAIN events /\ Decides(e + 1)
                      \/ e = 2 /\ events[1].type = "checkout"
    BY <1>1, Zenon
  <2>1. QED BY Zenon DEF Emits
<1>4. CASE Announced(n)
  <2>1. PICK m \in {n + 1, n + 2} :
          /\ Len(events') = m /\ Deciding(m)
          /\ m = n + 2 => events'[n + 1].type \in {"paid", "failed"}
    <3>1. n + 1 # n + 2
      BY <1>1
    <3>2. CASE Len(events') = n + 1 /\ Deciding(n + 1)
      BY <3>1, <3>2, Zenon
    <3>3. CASE Len(events') = n + 2 /\ events'[n + 1].type \in {"paid", "failed"} /\ Deciding(n + 2)
      BY <3>3, Zenon
    <3>4. QED BY <3>2, <3>3, <1>4, Zenon DEF Announced
  <2>2. m \in 1..m /\ m \in Nat /\ \A e \in 1..m : e = m \/ (e = n + 1 /\ m = n + 2) \/ e \in 1..n
    BY <1>1, <2>1
  <2>3. /\ Decides(m)'
        /\ events'[m].type # "checkout" /\ events'[m].type # "failed" /\ events'[m].type # "paid"
        /\ events'[m].type = "deleted" => events'[m].status = "canceled"
        /\ events'[m].status = stripe'.status /\ events'[m].ending = stripe'.ending
    BY <2>1 DEF Deciding, Decides
  <2> SUFFICES ASSUME NEW e \in 1..m
               PROVE
       /\ Decides(e)' /\ (\A d \in 1..m : e < d => ~Decides(d)')
            => stripe'.status = events'[e].status /\ stripe'.ending = events'[e].ending
       /\ events'[e].type = "checkout" => e = 1 /\ events'[e].status = "active" /\ ~events'[e].ending
       /\ events'[e].type = "deleted" => events'[e].status = "canceled"
       /\ events'[e].type = "failed" => e + 1 \in 1..m /\ Decides(e + 1)'
       /\ events'[e].type = "paid" => \/ e + 1 \in 1..m /\ Decides(e + 1)'
                                      \/ e = 2 /\ events'[1].type = "checkout"
    BY <1>1, <1>2, <2>1 DEF Emits
  <2>4. CASE e = m
    BY <2>2, <2>3, <2>4
  <2>5. CASE e = n + 1 /\ m = n + 2
    <3>1. e < m /\ e + 1 = m
      BY <2>5, <1>1
    <3>2. events'[e].type \in {"paid", "failed"}
      BY <2>5, <2>1
    <3>3. Decides(e + 1)' /\ e + 1 \in 1..m
      BY <2>2, <2>3, <3>1 DEF Decides
    <3>4. ~(\A d \in 1..m : e < d => ~Decides(d)')
      BY <2>2, <2>3, <3>1 DEF Decides
    <3>5. events'[e].type # "checkout" /\ events'[e].type # "deleted"
      BY <3>2
    <3>6. QED BY <3>3, <3>4, <3>5, Zenon
  <2>6. CASE e \in 1..n
    <3>1. e < m /\ \A d \in 1..n : d \in 1..m
      BY <2>6, <1>1, <2>1
    <3>2. events'[e] = events[e]
      BY <2>6, <1>1
    <3>3. /\ events[e].type = "checkout" => e = 1 /\ events[e].status = "active" /\ ~events[e].ending
          /\ events[e].type = "deleted" => events[e].status = "canceled"
      BY <2>6, <1>1 DEF Emits
    <3>4. events[e].type = "failed" => e + 1 \in 1..n /\ Decides(e + 1)
      BY <2>6, <1>1 DEF Emits
    <3>5. events[e].type = "paid" => \/ e + 1 \in 1..n /\ Decides(e + 1)
                                     \/ e = 2 /\ events[1].type = "checkout"
      BY <2>6, <1>8, Zenon
    <3>6. \A d \in 1..n : events'[d] = events[d]
      BY <1>1
    <3>7. events'[e].type = "failed" => e + 1 \in 1..m /\ Decides(e + 1)'
      BY <3>1, <3>2, <3>4, <1>3
    <3>8. events'[e].type = "paid" => \/ e + 1 \in 1..m /\ Decides(e + 1)'
                                      \/ e = 2 /\ events'[1].type = "checkout"
      BY <3>1, <3>2, <3>5, <3>6, <1>3
    <3>9. QED BY <2>2, <2>3, <3>1, <3>2, <3>3, <3>7, <3>8
  <2>7. QED BY <2>2, <2>4, <2>5, <2>6
<1>5. CASE Bought(n)
  <2>1. n = 0
    BY <1>1, <1>5 DEF Bought, Emits
  <2>2. /\ stripe'.status = "active" /\ stripe'.ending = FALSE
        /\ DOMAIN events' = {1, 2} /\ events'[1].type = "checkout"
        /\ events'[1].status = "active" /\ events'[1].ending = FALSE
        /\ events'[2].type = "paid"
    <3>1. Len(events') = 2
      BY <1>5, <2>1 DEF Bought
    <3>2. 1..2 = {1, 2}
      OBVIOUS
    <3>3. QED BY <3>1, <3>2, <1>1, <1>5, <2>1 DEF Bought
  <2>3. ~Decides(2)'
    BY <2>2 DEF Decides
  <2>4. QED BY <2>2, <2>3 DEF Emits
<1>6. CASE Disputed(n)
  <2>1. /\ Len(events') = n + 1 /\ events'[n + 1].type = "dispute"
        /\ stripe'.status = stripe.status /\ stripe'.ending = stripe.ending
    BY <1>6 DEF Disputed
  <2>2. \A e \in 1..(n + 1) : e = n + 1 \/ e \in 1..n
    BY <1>1
  <2>3. ~Decides(n + 1)'
    BY <2>1 DEF Decides
  <2> SUFFICES ASSUME NEW e \in 1..n
               PROVE
       /\ Decides(e)' /\ (\A d \in 1..(n + 1) : e < d => ~Decides(d)')
            => stripe'.status = events'[e].status /\ stripe'.ending = events'[e].ending
       /\ events'[e].type = "checkout" => e = 1 /\ events'[e].status = "active" /\ ~events'[e].ending
       /\ events'[e].type = "deleted" => events'[e].status = "canceled"
       /\ events'[e].type = "failed" => e + 1 \in 1..(n + 1) /\ Decides(e + 1)'
       /\ events'[e].type = "paid" => \/ e + 1 \in 1..(n + 1) /\ Decides(e + 1)'
                                      \/ e = 2 /\ events'[1].type = "checkout"
    BY <1>1, <1>2, <2>1, <2>2, <2>3 DEF Emits
  <2>4. \A d \in 1..n : d \in 1..(n + 1) /\ events'[d] = events[d]
    BY <1>1
  <2>5. Decides(e) /\ (\A d \in 1..n : e < d => ~Decides(d))
            => stripe.status = events[e].status /\ stripe.ending = events[e].ending
    BY <1>1 DEF Emits
  <2>6. events[e].type = "failed" => e + 1 \in 1..n /\ Decides(e + 1)
    BY <1>1 DEF Emits
  <2>7. events[e].type = "paid" => \/ e + 1 \in 1..n /\ Decides(e + 1)
                                   \/ e = 2 /\ events[1].type = "checkout"
    BY <1>8, Zenon
  <2>8. /\ events[e].type = "checkout" => e = 1 /\ events[e].status = "active" /\ ~events[e].ending
        /\ events[e].type = "deleted" => events[e].status = "canceled"
    BY <1>1 DEF Emits
  <2>9. Decides(e)' /\ (\A d \in 1..(n + 1) : e < d => ~Decides(d)')
            => stripe'.status = events'[e].status /\ stripe'.ending = events'[e].ending
    BY <1>3, <2>1, <2>4, <2>5
  <2>10. events'[e].type = "failed" => e + 1 \in 1..(n + 1) /\ Decides(e + 1)'
    BY <1>3, <2>4, <2>6
  <2>11. events'[e].type = "paid" => \/ e + 1 \in 1..(n + 1) /\ Decides(e + 1)'
                                     \/ e = 2 /\ events'[1].type = "checkout"
    BY <1>3, <2>4, <2>7
  <2>12. QED BY <2>4, <2>8, <2>9, <2>10, <2>11
<1>7. QED BY <1>4, <1>5, <1>6

(* An event that decides and is new is open. *)
LEMMA NewsIsOpen ==
  ASSUME IInv, Settles, NEW n, n = Len(events), events' \in Seq(Event),
         UNCHANGED <<worker, settled>>,
         Announced(n) \/ Bought(n)
  PROVE  /\ Open'
         /\ Bought(n) => \E e \in DOMAIN events' : events'[e].type = "checkout" /\ ~Done(e)'
<1>1. /\ n \in Nat /\ DOMAIN events = 1..n /\ DOMAIN events' = 1..Len(events')
  BY DEF IInv, TypeOK
<1>2. ASSUME NEW e \in Nat, e > n PROVE ~Done(e)'
  <2>1. e \notin DOMAIN events
    BY <1>1, <1>2
  <2>2. QED BY <2>1 DEF Settles, Done, IInv, Holds, Busy
<1>3. n + 1 \in Nat /\ n + 1 > n /\ n + 2 \in Nat /\ n + 2 > n
      /\ n + 1 \in 1..(n + 1) /\ n + 1 \in 1..(n + 2) /\ n + 2 \in 1..(n + 2)
  BY <1>1
<1>4. ~Done(n + 1)' /\ ~Done(n + 2)'
  BY <1>2, <1>3
<1>5. CASE Announced(n)
  <2>1. ~Bought(n)
    BY <1>5 DEF Announced, Bought
  <2>2. QED BY <1>1, <1>3, <1>4, <1>5, <2>1 DEF Announced, Deciding, Open, Decides
<1>6. CASE Bought(n)
  <2>1. /\ n + 1 \in DOMAIN events' /\ events'[n + 1].type = "checkout"
    BY <1>1, <1>3, <1>6 DEF Bought
  <2>2. QED BY <1>4, <2>1 DEF Open, Decides
<1>7. QED BY <1>5, <1>6

LEMMA StripeOrders ==
  ASSUME IInv, OrderInv, StripeAct
  PROVE  OrderInv'
<1>1. UNCHANGED <<claimed, row, worker, sweep, user, settled, orderly>>
  BY DEF StripeAct, history
<1>2. /\ stripe' \in [status : StripeStatus, ending : BOOLEAN]
      /\ events' \in Seq(Event) /\ DOMAIN events \subseteq DOMAIN events'
      /\ \A e \in DOMAIN events : events'[e] = events[e]
  BY StripeEmits DEF StripeAct, IInv
<1>3. Announced(Len(events)) \/ Bought(Len(events)) \/ Disputed(Len(events))
  BY StripeAnnounces DEF StripeAct, IInv
<1>4. Emits'
  <2>1. stripe'.ending \in BOOLEAN /\ TypeOK /\ Emits
    BY <1>2 DEF IInv, OrderInv
  <2>2. QED BY <1>2, <1>3, <2>1, EmitsKept
<1>5. \A w \in Workers : (Busy(w)' <=> Busy(w)) /\ (Busy(w) => worker[w].ev \in DOMAIN events)
  BY <1>1 DEF Busy, IInv, Holds
<1>6. \A e : Done(e)' <=> Done(e)
  BY <1>1 DEF Done
<1>7. Settles'
  BY <1>1, <1>2, <1>5 DEF OrderInv, Settles
<1>8. InTurn'
  BY <1>1, <1>5 DEF OrderInv, InTurn
<1>9. Fresh'
  BY <1>1, <1>2, <1>5 DEF OrderInv, Fresh, Busy
<1>10. \/ Open'
       \/ stripe'.status = stripe.status /\ stripe'.ending = stripe.ending
  BY <1>1, <1>2, <1>3, NewsIsOpen DEF OrderInv, Disputed
<1>11. Linked'
  <2> SUFFICES ASSUME orderly, ~row.linked
               PROVE  \/ stripe'.status = "none"
                      \/ \E e \in DOMAIN events' : events'[e].type = "checkout" /\ ~Done(e)'
    BY <1>1 DEF Linked
  <2>1. CASE stripe.status = "none"
    <3>1. Bought(Len(events))
      BY <1>3, <2>1 DEF Announced, Disputed
    <3>2. QED BY <3>1, <1>1, <1>2, NewsIsOpen DEF OrderInv
  <2>2. CASE \E e \in DOMAIN events : events[e].type = "checkout" /\ ~Done(e)
    BY <1>2, <1>6, <2>2
  <2>3. QED BY <2>1, <2>2 DEF OrderInv, Linked
<1>12. Open => Open'
  BY <1>2, <1>6 DEF Open, Decides
<1>13. RowFollows'
  <2>1. stripe'.status = stripe.status /\ stripe'.ending = stripe.ending => (Agrees' <=> Agrees)
    BY <1>1 DEF Agrees
  <2>2. QED BY <1>1, <1>10, <1>12, <2>1 DEF OrderInv, RowFollows
<1>14. QED BY <1>4, <1>7, <1>8, <1>9, <1>11, <1>13 DEF OrderInv

(* A cancellation of a linked row leaves its echo to come, or finds Stripe  *)
(* set to end; an unlinked row has no subscription at Stripe, or its        *)
(* checkout is still to be written.                                         *)
LEMMA CancelOrders ==
  ASSUME IInv, OrderInv, CancelAtStripe
  PROVE  OrderInv'
<1>1. /\ user' = "write" /\ orderly' = (orderly /\ Quiet)
      /\ UNCHANGED <<claimed, row, worker, sweep, settled>>
  BY DEF CancelAtStripe
<1>2. /\ stripe' \in [status : StripeStatus, ending : BOOLEAN]
      /\ events' \in Seq(Event) /\ DOMAIN events \subseteq DOMAIN events'
      /\ \A e \in DOMAIN events : events'[e] = events[e]
  <2>1. CASE CancelNow \/ CancelAtPeriodEnd
    BY <2>1, StripeEmits DEF IInv
  <2>2. CASE UNCHANGED <<stripe, events>>
    BY <2>2 DEF IInv, TypeOK
  <2>3. QED BY <2>1, <2>2 DEF CancelAtStripe
<1>3. \/ row.linked /\ Announced(Len(events))
      \/ ~row.linked /\ UNCHANGED <<stripe, events>>
      \/ row.linked /\ Live /\ stripe.ending /\ UNCHANGED <<stripe, events>>
  BY CancelAnnounces DEF CancelAtStripe, IInv
<1>4. Emits'
  <2>1. CASE Announced(Len(events))
    <3>1. stripe'.ending \in BOOLEAN /\ TypeOK /\ Emits
      BY <1>2 DEF IInv, OrderInv
    <3>2. QED BY <1>2, <2>1, <3>1, EmitsKept
  <2>2. CASE UNCHANGED <<stripe, events>>
    BY <2>2 DEF OrderInv, Emits, Decides
  <2>3. QED BY <1>3, <2>1, <2>2
<1>5. \A w \in Workers : (Busy(w)' <=> Busy(w)) /\ (Busy(w) => worker[w].ev \in DOMAIN events)
  BY <1>1 DEF Busy, IInv, Holds
<1>6. \A e : Done(e)' <=> Done(e)
  BY <1>1 DEF Done
<1>7. orderly' => orderly /\ Quiet
  BY <1>1
<1>8. Settles'
  BY <1>1, <1>2, <1>5 DEF OrderInv, Settles
<1>9. InTurn'
  BY <1>1, <1>5, <1>7 DEF OrderInv, InTurn, Quiet
<1>10. Fresh'
  BY <1>1, <1>5, <1>7 DEF Fresh, Quiet, Busy
<1>11. Linked'
  <2>1. stripe'.status = "none" \/ stripe.status # "none"
    BY <1>3 DEF Announced, Live
  <2>2. QED BY <1>1, <1>2, <1>6, <1>7, <2>1 DEF OrderInv, Linked
<1>12. RowFollows'
  <2> SUFFICES ASSUME orderly, Quiet
               PROVE  \/ Open'
                      \/ stripe'.status = "none" /\ Agrees'
                      \/ stripe'.ending /\ stripe'.status # "canceled" /\ Agrees'
    BY <1>7 DEF RowFollows
  <2>5. CASE row.linked /\ Live /\ stripe.ending /\ UNCHANGED <<stripe, events>>
    <3>1. stripe'.ending /\ stripe'.status # "canceled"
      BY <2>5 DEF Live
    <3>2. Open' <=> Open
      BY <1>6, <2>5 DEF Open, Decides
    <3>3. Agrees' <=> Agrees
      BY <1>1, <2>5 DEF Agrees
    <3>4. QED BY <3>1, <3>2, <3>3 DEF OrderInv, RowFollows
  <2>1. CASE Announced(Len(events))
    BY <1>1, <1>2, <2>1, NewsIsOpen DEF OrderInv
  <2>2. CASE ~row.linked /\ UNCHANGED <<stripe, events>> /\ stripe.status = "none"
    BY <2>2 DEF Agrees
  <2>3. CASE UNCHANGED events /\ \E e \in DOMAIN events : events[e].type = "checkout" /\ ~Done(e)
    BY <2>3, <1>6 DEF Open, Decides
  <2>4. QED BY <1>3, <2>1, <2>2, <2>3, <2>5 DEF OrderInv, Linked
<1>13. QED BY <1>4, <1>8, <1>9, <1>10, <1>11, <1>12 DEF OrderInv

LEMMA CancelWriteOrders ==
  ASSUME IInv, OrderInv, CancelWrite
  PROVE  OrderInv'
<1>1. /\ user = "write" /\ user' = "done" /\ row' = [row EXCEPT !.status = "CANCELED"]
      /\ UNCHANGED <<stripe, events, claimed, worker, sweep, settled, orderly>>
  BY DEF CancelWrite, outside, history
<1>2. row'.linked = row.linked
  BY <1>1 DEF IInv, TypeOK
<1>3. \A w \in Workers : Busy(w)' <=> Busy(w)
  BY <1>1 DEF Busy
<1>4. (\A e : Done(e)' <=> Done(e)) /\ (Open' <=> Open)
  BY <1>1 DEF Done, Open, Decides
<1>5. orderly => (\A w \in Workers : ~Busy(w)) /\ sweep = "idle"
  BY <1>1 DEF OrderInv, InTurn
<1>6. Settles' /\ Emits' /\ InTurn'
  BY <1>1, <1>3 DEF OrderInv, Settles, Emits, InTurn, Decides
<1>7. Fresh'
  BY <1>1, <1>5 DEF Fresh, Busy
<1>8. Linked'
  BY <1>1, <1>2, <1>4 DEF OrderInv, Linked
<1>9. RowFollows'
  <2>1. stripe.status = "none" => Agrees'
    BY <1>1 DEF Agrees
  <2>2. stripe.ending /\ stripe.status # "canceled" => Agrees'
    <3>1. row'.status = "CANCELED"
      BY <1>1 DEF IInv, TypeOK
    <3>2. stripe' = stripe /\ stripe.status \in StripeStatus
      BY <1>1 DEF IInv, TypeOK
    <3>3. QED BY <3>1, <3>2 DEF Agrees, StripeStatus
  <2>3. QED BY <1>1, <1>4, <2>1, <2>2 DEF OrderInv, RowFollows
<1>10. QED BY <1>6, <1>7, <1>8, <1>9 DEF OrderInv

LEMMA SweepListOrders ==
  ASSUME IInv, OrderInv, SweepList
  PROVE  OrderInv'
<1>1. /\ row.status = "PAST_DUE" /\ sweep' = "listed" /\ orderly' = (orderly /\ Quiet)
      /\ UNCHANGED <<stripe, events, claimed, row, worker, user, settled>>
  BY DEF SweepList, outside
<1>2. \A w \in Workers : Busy(w)' <=> Busy(w)
  BY <1>1 DEF Busy
<1>3. (\A e : Done(e)' <=> Done(e)) /\ (Open' <=> Open) /\ (Agrees' <=> Agrees)
  BY <1>1 DEF Done, Open, Decides, Agrees
<1>4. orderly' => orderly /\ Quiet
  BY <1>1
<1>5. Settles' /\ Emits'
  BY <1>1, <1>2 DEF OrderInv, Settles, Emits, Decides
<1>6. InTurn'
  BY <1>1, <1>2, <1>4 DEF OrderInv, InTurn, Quiet
<1>7. Fresh'
  BY <1>1, <1>2, <1>4 DEF Fresh, Quiet, Busy
<1>8. Linked'
  BY <1>1, <1>3, <1>4 DEF OrderInv, Linked
<1>9. RowFollows'
  BY <1>1, <1>3, <1>4 DEF OrderInv, RowFollows
<1>10. QED BY <1>5, <1>6, <1>7, <1>8, <1>9 DEF OrderInv

(* The row listed is still behind on its payment, so is Stripe. *)
LEMMA SweepWriteOrders ==
  ASSUME IInv, OrderInv, SweepWrite
  PROVE  OrderInv'
<1>1. /\ sweep = "listed" /\ sweep' = "idle" /\ row' = [row EXCEPT !.status = "EXPIRED"]
      /\ UNCHANGED <<stripe, events, claimed, worker, user, settled, orderly>>
  BY DEF SweepWrite, outside, history, NextStatus
<1>2. row'.linked = row.linked /\ row'.status = "EXPIRED"
  BY <1>1 DEF IInv, TypeOK
<1>3. \A w \in Workers : Busy(w)' <=> Busy(w)
  BY <1>1 DEF Busy
<1>4. (\A e : Done(e)' <=> Done(e)) /\ (Open' <=> Open)
  BY <1>1 DEF Done, Open, Decides
<1>5. orderly => (\A w \in Workers : ~Busy(w)) /\ user # "write" /\ row.status = "PAST_DUE"
  BY <1>1 DEF OrderInv, InTurn, Fresh
<1>6. Settles' /\ Emits'
  BY <1>1, <1>3 DEF OrderInv, Settles, Emits, Decides
<1>7. InTurn'
  BY <1>1, <1>3, <1>5 DEF OrderInv, InTurn
<1>8. Fresh'
  BY <1>1, <1>5 DEF Fresh, Busy
<1>9. Linked'
  BY <1>1, <1>2, <1>4 DEF OrderInv, Linked
<1>10. RowFollows'
  <2>1. row.status = "PAST_DUE" /\ Agrees => Agrees'
    <3>1. stripe.ending \in BOOLEAN /\ stripe.status \in StripeStatus
      BY DEF IInv, TypeOK
    <3>2. QED BY <1>1, <1>2, <3>1 DEF Agrees, StripeStatus
  <2>2. QED BY <1>1, <1>4, <1>5, <2>1 DEF OrderInv, RowFollows
<1>11. QED BY <1>6, <1>7, <1>8, <1>9, <1>10 DEF OrderInv

-----------------------------------------------------------------------------
LEMMA DeliverOrders ==
  ASSUME IInv, OrderInv, NEW w \in Workers, NEW e \in EventIds, Deliver(w, e)
  PROVE  OrderInv'
<1>1. CASE e \in claimed
  <2>1. UNCHANGED <<stripe, events, row, claimed, worker, sweep, user, settled, orderly>>
    BY <1>1 DEF Deliver, outside
  <2>2. QED BY <2>1, FrameOrders
<1>2. CASE e \notin claimed
  <2>1. /\ ~Busy(w) /\ e \in DOMAIN events
        /\ claimed' = claimed \cup {e}
        /\ worker' = [worker EXCEPT ![w] = [pc |-> "read", ev |-> e, seen |-> Absent]]
        /\ orderly' = (orderly /\ Quiet /\ \A d \in 1..(e - 1) : d \in settled)
        /\ UNCHANGED <<stripe, events, row, sweep, user, settled>>
    BY <1>2 DEF Deliver, outside
  <2>2. /\ worker'[w].pc = "read" /\ worker'[w].ev = e
        /\ \A v \in Workers : v # w => worker'[v] = worker[v]
    BY <2>1 DEF IInv, TypeOK
  <2>3. Busy(w)' /\ \A v \in Workers : v # w => (Busy(v)' <=> Busy(v))
    BY <2>2 DEF Busy
  <2>4. worker[w].pc = "idle"
    BY <2>1 DEF Busy
  <2>5. \A d : Done(d)' <=> Done(d)
    BY <2>1, <2>2, <2>4 DEF Done
  <2>6. (Open' <=> Open) /\ (Agrees' <=> Agrees)
    BY <2>1, <2>5 DEF Open, Decides, Agrees
  <2>7. orderly' => orderly /\ Quiet /\ \A d \in 1..(e - 1) : d \in settled
    BY <2>1
  <2>8. e \notin settled
    BY <1>2 DEF OrderInv, Settles
  <2>9. Settles'
    BY <2>1, <2>2, <2>3, <2>8 DEF OrderInv, Settles
  <2>10. Emits'
    BY <2>1 DEF OrderInv, Emits, Decides
  <2>11. InTurn'
    BY <2>1, <2>2, <2>3, <2>7 DEF OrderInv, InTurn, Quiet
  <2>12. Fresh'
    BY <2>1, <2>2, <2>7 DEF OrderInv, Fresh, Quiet, Busy
  <2>13. Linked'
    BY <2>1, <2>5, <2>7 DEF OrderInv, Linked
  <2>14. RowFollows'
    BY <2>1, <2>6, <2>7 DEF OrderInv, RowFollows
  <2>15. QED BY <2>9, <2>10, <2>11, <2>12, <2>13, <2>14 DEF OrderInv
<1>3. QED BY <1>1, <1>2

LEMMA ReadOrders ==
  ASSUME IInv, OrderInv, NEW w \in Workers, Read(w)
  PROVE  OrderInv'
<1> DEFINE ev == events[worker[w].ev]
           saw == IF ev.type \in {"checkout", "updated", "deleted"} THEN Absent ELSE row.status
           to == IF Writes(ev, row.status) THEN "write" ELSE "finish"
           new == [pc |-> to, ev |-> worker[w].ev, seen |-> saw]
<1>1. /\ worker[w].pc = "read" /\ Busy(w)
      /\ UNCHANGED <<stripe, events, claimed, row, sweep, user, settled, orderly>>
  BY DEF Read, outside, history, Busy
<1>2. worker' = [worker EXCEPT ![w] = new]
  <2>1. worker \in [Workers -> [pc : {"idle", "read", "write", "finish", "release"},
                                ev : 0..MaxEvents, seen : Status \cup {Absent}]]
    BY DEF IInv, TypeOK
  <2>2. worker' = [worker EXCEPT ![w].seen = saw, ![w].pc = to]
    BY DEF Read
  <2> HIDE DEF saw, to
  <2> DEFINE mid == [worker[w] EXCEPT !.seen = saw]
  <2>3. mid = [pc |-> worker[w].pc, ev |-> worker[w].ev, seen |-> saw]
    BY <2>1
  <2> HIDE DEF mid
  <2>4. [mid EXCEPT !.pc = to] = new
    BY <2>3
  <2>5. worker' = [worker EXCEPT ![w] = [mid EXCEPT !.pc = to]]
    BY <2>1, <2>2 DEF mid
  <2>6. QED BY <2>4, <2>5
<1>3. worker'[w] = new /\ \A v \in Workers : v # w => worker'[v] = worker[v]
  BY <1>2 DEF IInv, TypeOK
<1>4. /\ worker'[w].pc = to /\ worker'[w].ev = worker[w].ev /\ worker'[w].seen = saw
      /\ to \in {"write", "finish"}
  BY <1>3
<1> HIDE DEF new, to, saw
<1>5. \A v \in Workers : (Busy(v)' <=> Busy(v)) /\ worker'[v].ev = worker[v].ev
  BY <1>1, <1>3, <1>4 DEF Busy
<1>6. worker[w].ev \in DOMAIN events /\ worker[w].ev \in 1..Len(events)
  BY <1>1 DEF IInv, Holds, TypeOK
<1>7. ASSUME orderly, Decides(worker[w].ev) PROVE to = "write"
  <2>1. CASE ev.type = "checkout"
    BY <2>1 DEF to, Writes
  <2>2. CASE ev.type \in {"updated", "deleted"}
    <3>1. stripe.status # "none"
      BY <1>6 DEF OrderInv, Emits
    <3>2. ASSUME NEW c \in DOMAIN events, events[c].type = "checkout" PROVE Done(c)
      <4>1. c = 1
        BY <3>2 DEF OrderInv, Emits
      <4>2. worker[w].ev # 1
        BY <2>2, <3>2, <4>1
      <4>3. 1 \in 1..(worker[w].ev - 1)
        BY <4>2, <1>6 DEF IInv, TypeOK
      <4>4. 1 \in settled
        BY <4>3, <1>1, <1>7 DEF OrderInv, InTurn
      <4>5. QED BY <4>1, <4>4 DEF Done
    <3>3. row.linked
      BY <1>7, <3>1, <3>2 DEF OrderInv, Linked
    <3>4. QED BY <2>2, <3>3 DEF to, Writes
  <2>3. QED BY <1>7, <2>1, <2>2 DEF Decides
<1>8. \A d : Done(d)' => Done(d) \/ (d = worker[w].ev /\ to = "finish")
  BY <1>1, <1>3, <1>4 DEF Done
<1>9. Settles' /\ Emits' /\ InTurn'
  BY <1>1, <1>5 DEF OrderInv, Settles, Emits, InTurn, Decides
<1>10. Fresh'
  <2>1. ev.type \in {"paid", "failed", "dispute"} => saw = row.status
    BY DEF saw
  <2>2. QED BY <1>1, <1>3, <1>4, <2>1 DEF OrderInv, Fresh
<1>11. Linked'
  <2> SUFFICES ASSUME orderly,
                      NEW c \in DOMAIN events, events[c].type = "checkout", ~Done(c)
               PROVE  ~Done(c)'
    BY <1>1 DEF OrderInv, Linked
  <2>1. c = worker[w].ev => to = "write"
    BY <1>7 DEF Decides
  <2>2. QED BY <2>1, <1>8
<1>12. RowFollows'
  <2>1. Agrees' <=> Agrees
    BY <1>1 DEF Agrees
  <2>2. orderly /\ Open => Open'
    BY <1>1, <1>7, <1>8 DEF Open, Decides
  <2>3. QED BY <1>1, <2>1, <2>2 DEF OrderInv, RowFollows
<1>13. QED BY <1>9, <1>10, <1>11, <1>12 DEF OrderInv

LEMMA FinishOrders ==
  ASSUME IInv, OrderInv, NEW w \in Workers, Finish(w)
  PROVE  OrderInv'
<1> DEFINE e == worker[w].ev
<1>1. /\ worker[w].pc = "finish" /\ Busy(w)
      /\ settled' = settled \cup {e}
      /\ worker' = [worker EXCEPT ![w] = Idle]
      /\ UNCHANGED <<stripe, events, row, claimed, sweep, user, orderly>>
  BY DEF Finish, outside, Busy
<1>2. e \in DOMAIN events /\ e \in claimed
  BY <1>1 DEF IInv, Holds
<1>3. worker'[w].pc = "idle" /\ \A v \in Workers : v # w => worker'[v] = worker[v]
  BY <1>1 DEF IInv, TypeOK, Idle
<1>4. \A v \in Workers : Busy(v)' => v # w /\ Busy(v) /\ worker'[v] = worker[v]
  BY <1>3 DEF Busy
<1>5. \A v \in Workers : Busy(v)' => worker'[v].ev # e
  BY <1>1, <1>4 DEF IInv, Alone
<1>6. \A d : Done(d)' <=> Done(d)
  BY <1>1, <1>3 DEF Done
<1>7. Settles'
  BY <1>1, <1>2, <1>4, <1>5 DEF OrderInv, Settles
<1>8. Emits'
  BY <1>1 DEF OrderInv, Emits, Decides
<1>9. InTurn'
  BY <1>1, <1>4 DEF OrderInv, InTurn
<1>10. Fresh'
  BY <1>1, <1>3 DEF OrderInv, Fresh
<1>11. Linked'
  BY <1>1, <1>6 DEF OrderInv, Linked
<1>12. (Open' <=> Open) /\ (Agrees' <=> Agrees)
  BY <1>1, <1>6 DEF Open, Decides, Agrees
<1>13. RowFollows'
  BY <1>1, <1>12 DEF OrderInv, RowFollows
<1>14. QED BY <1>7, <1>8, <1>9, <1>10, <1>11, <1>13 DEF OrderInv

(* The write of an event in its turn: one that decides is the last to, or   *)
(* a later one is still open; the others fit a row that agreed, or an event *)
(* that decides follows.                                                    *)
LEMMA WriteAgrees ==
  ASSUME IInv, OrderInv, NEW w \in Workers, Write(w) \/ WriteLost(w), orderly
  PROVE  Open' \/ Agrees'
<1> DEFINE e == worker[w].ev
           ev == events[e]
           seen == worker[w].seen
<1>1. /\ worker[w].pc = "write" /\ Busy(w) /\ row' = Written(ev, seen)
      /\ \/ worker' = [worker EXCEPT ![w].pc = "finish"]
         \/ worker' = [worker EXCEPT ![w].pc = "release"]
      /\ UNCHANGED <<stripe, events, settled>>
  BY DEF Write, WriteLost, outside, Busy
<1>2. /\ e \in DOMAIN events /\ e \notin settled /\ settled \subseteq DOMAIN events
      /\ DOMAIN events = 1..Len(events) /\ Len(events) \in Nat /\ ev \in Event
  BY <1>1 DEF IInv, Holds, TypeOK, OrderInv, Settles
<1>3. /\ \A d \in settled : \A c \in 1..(d - 1) : c \in settled
      /\ \A v \in Workers : Busy(v) => v = w
  BY <1>1 DEF OrderInv, InTurn
<1>4. worker'[w].ev = e /\ \A v \in Workers : v # w => worker'[v] = worker[v]
  BY <1>1 DEF IInv, TypeOK
<1>5. \A v \in Workers : worker'[v].pc = "finish" => v = w
  BY <1>3, <1>4 DEF Busy
<1>6. \A d : Done(d)' => d \in settled \/ d = e
  BY <1>1, <1>4, <1>5 DEF Done
<1>7. \A d \in DOMAIN events : d > e => d \notin settled
  BY <1>2, <1>3
<1>8. \A d \in DOMAIN events : Decides(d) /\ d > e => Open'
  BY <1>1, <1>2, <1>6, <1>7 DEF Open, Decides
<1>9. \A d \in DOMAIN events : Decides(d) /\ d \notin settled /\ d # e => Open'
  BY <1>1, <1>6 DEF Open, Decides
<1>10. ~Decides(e) /\ ~Open' => Agrees
  <2>1. Open /\ ~Decides(e) => Open'
    BY <1>9 DEF Open, Done
  <2>2. QED BY <2>1 DEF OrderInv, RowFollows
<1>11. /\ row \in [status : Status \cup {Absent}, linked : BOOLEAN, period : 0..NoPeriod]
       /\ stripe.ending \in BOOLEAN /\ stripe.status \in StripeStatus
       /\ ev.ending \in BOOLEAN /\ ev.status \in StripeStatus /\ ev.type \in EventTypes
  BY <1>2 DEF IInv, TypeOK, Event
<1>12. \A d \in DOMAIN events : Decides(d) /\ (\A c \in DOMAIN events : d < c => ~Decides(c))
            => stripe.status = events[d].status /\ stripe.ending = events[d].ending
  BY Zenon DEF OrderInv, Emits
<1>13. /\ ev.type = "checkout" => ev.status = "active" /\ ~ev.ending
       /\ ev.type = "deleted" => ev.status = "canceled"
  BY <1>2 DEF OrderInv, Emits
<1>14. CASE Decides(e)
  <2> SUFFICES ASSUME ~Open' PROVE Agrees'
    OBVIOUS
  <2>1. stripe.status = ev.status /\ stripe.ending = ev.ending
    BY <1>2, <1>8, <1>12, <1>14
  <2>2. CASE ev.type = "checkout"
    <3>1. row'.status = "ACTIVE"
      BY <1>1, <1>11, <2>2 DEF Written
    <3>2. QED BY <1>1, <1>13, <2>1, <2>2, <3>1 DEF Agrees
  <2>3. CASE ev.type = "updated"
    <3>1. row'.status = Mapped(ev)
      BY <1>1, <1>11, <2>3 DEF Written
    <3>2. QED BY <1>1, <1>11, <2>1, <3>1 DEF Agrees, Mapped, StripeStatus
  <2>4. CASE ev.type = "deleted"
    <3>1. row'.status = "CANCELED"
      BY <1>1, <1>11, <2>4 DEF Written
    <3>2. QED BY <1>1, <1>13, <2>1, <2>4, <3>1 DEF Agrees
  <2>5. QED BY <1>14, <2>2, <2>3, <2>4 DEF Decides
<1>15. CASE ev.type = "failed"
  <2>1. e + 1 \in DOMAIN events /\ Decides(e + 1)
    BY <1>2, <1>15 DEF OrderInv, Emits
  <2>2. e + 1 > e
    BY <1>2
  <2>3. QED BY <1>8, <2>1, <2>2
<1>16. CASE ev.type = "paid"
  <2> SUFFICES ASSUME ~Open' PROVE Agrees'
    OBVIOUS
  <2>1. \/ e + 1 \in DOMAIN events /\ Decides(e + 1)
        \/ e = 2 /\ events[1].type = "checkout"
    BY <1>2, <1>16 DEF OrderInv, Emits
  <2>2. e + 1 > e
    BY <1>2
  <2>3. e = 2 /\ events[1].type = "checkout"
    BY <1>8, <2>1, <2>2
  <2>4. ~Decides(e) /\ Decides(1) /\ 1 \in DOMAIN events
    BY <1>2, <1>16, <2>3 DEF Decides
  <2>5. \A c \in DOMAIN events : 1 < c => ~Decides(c)
    <3>1. \A c \in DOMAIN events : 1 < c => c = e \/ c > e
      BY <1>2, <2>3
    <3>2. QED BY <1>8, <2>4, <3>1
  <2>6. stripe.status = "active" /\ stripe.ending = FALSE
    <3>1. events[1].status = "active" /\ ~events[1].ending
      BY <2>3, <2>4 DEF OrderInv, Emits
    <3>2. stripe.status = events[1].status /\ stripe.ending = events[1].ending
      BY <1>12, <2>4, <2>5, Zenon
    <3>3. QED BY <3>1, <3>2, <1>11
  <2>7. row.status \in {"ACTIVE", "DISPUTED"}
    BY <1>10, <2>4, <2>6 DEF Agrees
  <2>8. seen = row.status
    BY <1>1, <1>16 DEF OrderInv, Fresh
  <2>9. NextStatus(seen, "payment_succeeded") = NoChange
    BY <2>7, <2>8 DEF NextStatus
  <2>10. row'.status = seen
    BY <1>1, <1>11, <1>16, <2>9 DEF Written
  <2>11. QED BY <1>1, <2>6, <2>7, <2>8, <2>10 DEF Agrees
<1>17. CASE ev.type = "dispute"
  <2> SUFFICES ASSUME ~Open' PROVE Agrees'
    OBVIOUS
  <2>1. Agrees
    BY <1>10, <1>17 DEF Decides
  <2>2. seen = row.status
    BY <1>1, <1>17 DEF OrderInv, Fresh
  <2>3. NextStatus(seen, "dispute_opened") \in Status
    BY <1>1, <1>17 DEF IInv, SeenFits
  <2>4. row.status \in {"ACTIVE", "PAST_DUE"} /\ NextStatus(seen, "dispute_opened") = "DISPUTED"
    BY <2>2, <2>3, NoChangeIsNoStatus DEF NextStatus
  <2>5. row'.status = "DISPUTED"
    BY <1>1, <1>11, <1>17, <2>4 DEF Written
  <2>6. QED BY <1>1, <1>11, <2>1, <2>4, <2>5 DEF Agrees, StripeStatus
<1>18. QED BY <1>11, <1>14, <1>15, <1>16, <1>17 DEF EventTypes, Decides

LEMMA WriteOrders ==
  ASSUME IInv, OrderInv, NEW w \in Workers, Write(w) \/ WriteLost(w)
  PROVE  OrderInv'
<1> DEFINE e == worker[w].ev
           ev == events[e]
<1>1. /\ worker[w].pc = "write" /\ Busy(w) /\ row' = Written(ev, worker[w].seen)
      /\ \/ worker' = [worker EXCEPT ![w].pc = "finish"]
         \/ worker' = [worker EXCEPT ![w].pc = "release"]
      /\ UNCHANGED <<stripe, events, claimed, sweep, user, settled, orderly>>
  BY DEF Write, WriteLost, outside, Busy
<1>2. /\ worker'[w].pc \in {"finish", "release"} /\ worker'[w].ev = e
      /\ \A v \in Workers : v # w => worker'[v] = worker[v]
  BY <1>1 DEF IInv, TypeOK
<1>3. \A v \in Workers : (Busy(v)' <=> Busy(v)) /\ worker'[v].ev = worker[v].ev
  BY <1>1, <1>2 DEF Busy
<1>4. orderly => /\ \A v \in Workers : Busy(v) => v = w
                 /\ sweep = "idle" /\ user # "write"
  BY <1>1 DEF OrderInv, InTurn
<1>5. \A d : Done(d)' => Done(d) \/ d = e
  BY <1>1, <1>2 DEF Done
<1>6. Settles' /\ Emits' /\ InTurn'
  BY <1>1, <1>3 DEF OrderInv, Settles, Emits, InTurn, Decides
<1>7. Fresh'
  BY <1>1, <1>2, <1>4 DEF Fresh, Busy
<1>8. Linked'
  <2>1. row \in [status : Status \cup {Absent}, linked : BOOLEAN, period : 0..NoPeriod]
    BY DEF IInv, TypeOK
  <2>2. ev.type = "checkout" => row'.linked = TRUE
    BY <1>1, <2>1 DEF Written
  <2>3. row'.linked = row.linked \/ row'.linked = TRUE
    BY <1>1, <2>1 DEF Written
  <2>4. QED BY <1>1, <1>5, <2>2, <2>3 DEF OrderInv, Linked
<1>9. RowFollows'
  BY <1>1, <1>4, WriteAgrees DEF RowFollows
<1>10. QED BY <1>6, <1>7, <1>8, <1>9 DEF OrderInv

-----------------------------------------------------------------------------
LEMMA StepOrder == IInv /\ OrderInv /\ [Next]_vars => OrderInv'
<1> SUFFICES ASSUME IInv, OrderInv, [Next]_vars PROVE OrderInv'
  OBVIOUS
<1>1. CASE PeriodPasses
  <2>1. UNCHANGED <<stripe, events, row, claimed, worker, sweep, user, settled, orderly>>
    BY <1>1 DEF PeriodPasses, history
  <2>2. QED BY <2>1, FrameOrders
<1>2. CASE CancelDies
  <2>1. user' = "done"
        /\ UNCHANGED <<stripe, events, row, claimed, worker, sweep, settled, orderly>>
    BY <1>2 DEF CancelDies, outside, history
  <2>2. QED BY <2>1, FrameOrders
<1>3. CASE UNCHANGED vars
  <2>1. UNCHANGED <<stripe, events, row, claimed, worker, sweep, user, settled, orderly>>
    BY <1>3 DEF vars
  <2>2. QED BY <2>1, FrameOrders
<1>4. ASSUME NEW w \in Workers, Throw(w) PROVE OrderInv'
  <2>1. /\ Busy(w) /\ worker' = [worker EXCEPT ![w].pc = "release"]
        /\ UNCHANGED <<stripe, events, claimed, row, sweep, user, settled, orderly>>
    BY <1>4 DEF Throw, outside, Busy
  <2>2. /\ worker'[w].pc = "release" /\ worker'[w].ev = worker[w].ev
        /\ \A v \in Workers : v # w => worker'[v] = worker[v]
    BY <2>1 DEF IInv, TypeOK
  <2>3. QED BY <2>1, <2>2, GivingUpOrders DEF IInv
<1>5. ASSUME NEW w \in Workers, Release(w) \/ Die(w) PROVE OrderInv'
  <2>1. /\ Busy(w) /\ worker' = [worker EXCEPT ![w] = Idle]
        /\ claimed' = claimed \/ claimed' = claimed \ {worker[w].ev}
        /\ UNCHANGED <<stripe, events, row, sweep, user, settled, orderly>>
    BY <1>5 DEF Release, Die, outside, history, Busy
  <2>2. /\ worker'[w].pc = "idle"
        /\ \A v \in Workers : v # w => worker'[v] = worker[v]
    BY <2>1 DEF IInv, TypeOK, Idle
  <2>3. QED BY <2>1, <2>2, GivingUpOrders DEF IInv
<1>6. QED
  BY <1>1, <1>2, <1>3, <1>4, <1>5, StripeOrders, DeliverOrders, ReadOrders, WriteOrders,
     FinishOrders, SweepListOrders, SweepWriteOrders, CancelOrders, CancelWriteOrders
  DEF Next, Request

LEMMA OrderHolds == Spec => [](IInv /\ OrderInv)
<1>1. Init => IInv /\ OrderInv
  BY InitIInv, InitOrder
<1>2. (IInv /\ OrderInv) /\ [Next]_vars => (IInv /\ OrderInv)'
  BY StepIInv, StepOrder
<1>3. QED BY <1>1, <1>2, PTL DEF Spec

(* When nothing overlapped and every event was handled in the order Stripe  *)
(* emitted it, the row says what Stripe says: whatever the events, the      *)
(* redeliveries and the requests that died on the way.                      *)
THEOREM EventsInOrderAgree == Spec => []InOrderAgrees
<1>1. OrderInv => InOrderAgrees
  <2> SUFFICES ASSUME OrderInv, orderly, \A e \in DOMAIN events : e \in settled PROVE Agrees
    BY DEF InOrderAgrees
  <2>1. ~Open
    BY DEF Open, Done
  <2>2. QED BY <2>1 DEF OrderInv, RowFollows
<1>2. QED BY <1>1, OrderHolds, PTL
=============================================================================
