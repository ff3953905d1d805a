------------------------------- MODULE Booking -------------------------------
(* Closing appointments and coaching sessions: BookingService                *)
(* (booking.service.ts) over the slot search of availability.ts and the slot *)
(* lock of slot-lock.ts. A request reads the calendars of both parties,      *)
(* picks a window, and creates a row in a later await; what keeps two        *)
(* requests apart is only the unique slot_lock_id, made of the trainer and   *)
(* the exact window. Time is in ticks; a window is searched from the         *)
(* request's own instant, so two requests search grids that need not meet.   *)
(* Left out: the drafted messages, the contact's pipeline stage, and working *)
(* hours and imported calendars, which only narrow the candidates.           *)
EXTENDS Integers, Sequences, FiniteSets, FiniteSetsExt

CONSTANTS
  Reps, Trainers, \* the two parties
  Requests,       \* requests in progress
  Nows,           \* the instants requests are made at
  Grid,           \* SLOT_GRANULARITY_MINUTES
  Duration,       \* of either kind
  Horizon,        \* how far ahead a request searches
  Day,            \* how far ahead a session is put when there is nothing else
  Week,           \* the rolling week of the cap
  Cap,            \* MAX_COACHING_SESSIONS_PER_REP_PER_WEEK
  MaxRows, MaxAnswers \* rows, and answers given to them

Kinds == {"appointment", "session"}

ASSUME BookingConstants ==
  /\ Nows \subseteq Nat /\ Grid \in Nat \ {0} /\ Horizon \in Nat
  /\ Day \in Nat /\ Week \in Nat
  /\ Duration \in [Kinds -> Nat \ {0}]
  /\ Cap \in Nat /\ MaxRows \in Nat /\ MaxAnswers \in Nat

VARIABLES
  row,    \* the Appointment and CoachingSession rows, in creation order
  request, \* each request in progress
  answers \* Decline, Outcome and Respond calls so far

bookingVars == <<row, request, answers>>

NoStart == -1

NoRequest == [at |-> "idle"]
Request(at, kind, rep, trainer, now, counted) ==
  [at |-> at, kind |-> kind, rep |-> rep, trainer |-> trainer, now |-> now,
   counted |-> counted]
Found(at, q, free, other) ==
  [at |-> at, kind |-> q.kind, rep |-> q.rep, trainer |-> q.trainer,
   counted |-> q.counted, seen |-> Len(row), free |-> free, other |-> other]

BookingInit == row = <<>> /\ request = [w \in Requests |-> NoRequest] /\ answers = 0

Answered == answers < MaxAnswers /\ answers' = answers + 1
RequestIs(w, rec) == request' = [request EXCEPT ![w] = rec]
-----------------------------------------------------------------------------
Ends(r) == r.start + Duration[r.kind]
Overlaps(s, e, r) == s < Ends(r) /\ r.start < e

(* The statuses that hold a time, when the row has one. *)
Holds(r) == r.status \in {"PROPOSED", "CONFIRMED"} /\ r.start # NoStart

(* A trainer may be a rep of another row. *)
Parties(r) == {r.rep, r.trainer}

(* Seeded fault: only the trainer's calendar is read. *)
BusyTrainer(rep, trainer) ==
  {i \in DOMAIN row : Holds(row[i]) /\ trainer \in Parties(row[i])}

(* mergedBusyFor: rows of either party, in either part, that hold a time. *)
Busy(rep, trainer) ==
  {i \in DOMAIN row : Holds(row[i]) /\ Parties(row[i]) \cap {rep, trainer} # {}}

Candidates(now) == {s \in {now + k * Grid : k \in 0..Horizon} : s < now + Horizon}

(* findFreeWindow: the first candidate free of every busy row. *)
FreeWindow(now, d, busy) ==
  LET free == {s \in Candidates(now) : \A i \in busy : ~Overlaps(s, s + d, row[i])}
  IN  IF free = {} THEN NoStart ELSE Min(free)

(* overlapMinutes, over all busy rows. *)
Conflict(s, d, busy) ==
  Cardinality({c \in busy \X (s..s + d - 1) :
                 row[c[1]].start <= c[2] /\ c[2] < Ends(row[c[1]])})

(* findNearMissWindows, of which only the first is used: the candidate that  *)
(* conflicts for the shortest time, the earliest of those.                   *)
NearMiss(now, d, busy) ==
  LET near == {s \in Candidates(now) : Conflict(s, d, busy) > 0}
      least == Min({Conflict(s, d, busy) : s \in near})
  IN  IF near = {} THEN NoStart ELSE Min({s \in near : Conflict(s, d, busy) = least})

(* The unique index of each table, over rows of any status. *)
SlotTaken(kind, trainer, start) ==
  \E i \in DOMAIN row :
    row[i].kind = kind /\ row[i].locked /\ row[i].trainer = trainer /\ row[i].start = start
-----------------------------------------------------------------------------
ProposeAppointment(w, rep, trainer, now) ==
  /\ request[w] = NoRequest /\ Len(row) < MaxRows
  /\ RequestIs(w, Request("search", "appointment", rep, trainer, now, 0))
  /\ UNCHANGED <<row, answers>>

SessionsOf(rep) ==
  {i \in DOMAIN row :
     row[i].kind = "session" /\ row[i].rep = rep /\ row[i].status \in {"PROPOSED", "CONFIRMED"}}
SessionsFrom(rep, from) == {i \in SessionsOf(rep) : row[i].start >= from}

(* Seeded fault: sessions already begun are not counted. *)
ProposeSessionUpcoming(w, rep, trainer, now) ==
  /\ request[w] = NoRequest /\ Len(row) < MaxRows /\ rep # trainer
  /\ Cardinality(SessionsFrom(rep, now)) < Cap
  /\ RequestIs(w, Request("search", "session", rep, trainer, now, Len(row)))
  /\ UNCHANGED <<row, answers>>

(* The flooding check counts the sessions from a week ago on; at the cap the *)
(* request ends.                                                             *)
ProposeSession(w, rep, trainer, now) ==
  /\ request[w] = NoRequest /\ Len(row) < MaxRows /\ rep # trainer
  /\ Cardinality(SessionsFrom(rep, now - Week)) < Cap
  /\ RequestIs(w, Request("search", "session", rep, trainer, now, Len(row)))
  /\ UNCHANGED <<row, answers>>

(* What is proposed when no free window is booked: an appointment with no    *)
(* time of its own, a session at the nearest miss, or a day from now when    *)
(* nothing conflicts.                                                        *)
Proposal(q, busy) ==
  LET near == NearMiss(q.now, Duration[q.kind], busy)
  IN  IF q.kind = "appointment" THEN NoStart
      ELSE IF near # NoStart THEN near ELSE q.now + Day

(* The calendars are read and the search is done. Whether Google is still    *)
(* connected decides, for an appointment, if a free window is booked.        *)
Search(w, connected) ==
  LET q == request[w]
      busy == Busy(q.rep, q.trainer)
      free == IF connected THEN FreeWindow(q.now, Duration[q.kind], busy) ELSE NoStart
      at == IF free # NoStart THEN "book" ELSE "propose"
  IN  /\ q.at = "search"
      /\ q.kind = "session" => connected
      /\ RequestIs(w, Found(at, q, free, Proposal(q, busy)))
      /\ UNCHANGED <<row, answers>>

(* Kept of a row besides its columns: how many rows its request had seen     *)
(* when it counted the rep's sessions and when it read the calendars,        *)
(* whether it is a near miss, and whether it was confirmed after a decline.  *)
NewRow(q, start, status, locked, tentative) ==
  [kind |-> q.kind, rep |-> q.rep, trainer |-> q.trainer, start |-> start,
   status |-> status, locked |-> locked, tentative |-> tentative, revived |-> FALSE,
   counted |-> q.counted, seen |-> q.seen]

(* The row that wins its slot lock is confirmed. *)
Book(w) ==
  LET q == request[w]
  IN  /\ q.at = "book" /\ ~SlotTaken(q.kind, q.trainer, q.free) /\ Len(row) < MaxRows
      /\ row' = Append(row, NewRow(q, q.free, "CONFIRMED", TRUE, FALSE))
      /\ RequestIs(w, NoRequest)
      /\ UNCHANGED answers

LoseSlot(w) ==
  /\ request[w].at = "book"
  /\ SlotTaken(request[w].kind, request[w].trainer, request[w].free)
  /\ RequestIs(w, [request[w] EXCEPT !.at = "propose", !.free = NoStart])
  /\ UNCHANGED <<row, answers>>

Propose(w) ==
  LET q == request[w]
  IN  /\ q.at = "propose" /\ Len(row) < MaxRows
      /\ row' = Append(row, NewRow(q, q.other, "PROPOSED", FALSE, TRUE))
      /\ RequestIs(w, NoRequest)
      /\ UNCHANGED answers

RequestDies(w) ==
  /\ request[w] # NoRequest
  /\ RequestIs(w, NoRequest)
  /\ UNCHANGED <<row, answers>>
-----------------------------------------------------------------------------
(* declineAndReschedule, whatever the row's status; it keeps its lock. *)
Decline(w, i, now) ==
  /\ request[w] = NoRequest /\ Answered
  /\ i \in DOMAIN row /\ row[i].kind = "appointment"
  /\ row' = [row EXCEPT ![i].status = "DECLINED"]
  /\ RequestIs(w, Request("search", "appointment", row[i].rep, row[i].trainer, now, 0))

(* markAppointmentOutcome, whatever the row's status and time. *)
Outcome(i, status) ==
  /\ Answered
  /\ i \in DOMAIN row /\ row[i].kind = "appointment"
  /\ row' = [row EXCEPT ![i].status = status]
  /\ UNCHANGED request

(* respondToCoachingSession, by either party and whatever the status. *)
Respond(i, status) ==
  /\ Answered
  /\ i \in DOMAIN row /\ row[i].kind = "session"
  /\ row' = [row EXCEPT ![i].status = status,
                        ![i].revived = @ \/ (status = "CONFIRMED" /\ row[i].status = "DECLINED")]
  /\ UNCHANGED request

BookingNext ==
  \/ \E w \in Requests :
       \/ \E rep \in Reps, trainer \in Trainers, now \in Nows :
            ProposeAppointment(w, rep, trainer, now) \/ ProposeSession(w, rep, trainer, now)
       \/ \E connected \in BOOLEAN : Search(w, connected)
       \/ Book(w) \/ LoseSlot(w) \/ Propose(w) \/ RequestDies(w)
       \/ \E i \in DOMAIN row, now \in Nows : Decline(w, i, now)
  \/ \E i \in DOMAIN row :
       \/ \E status \in {"HELD", "NO_SHOW"} : Outcome(i, status)
       \/ \E status \in {"CONFIRMED", "DECLINED"} : Respond(i, status)

BookingSpec == BookingInit /\ [][BookingNext]_bookingVars
-----------------------------------------------------------------------------
Clash(i, j) ==
  /\ Holds(row[i]) /\ Holds(row[j]) /\ Overlaps(row[i].start, Ends(row[i]), row[j])
  /\ Parties(row[i]) \cap Parties(row[j]) # {}

(* Nobody is in two meetings at once except for one of three reasons: the    *)
(* later request had read the calendars before the earlier row was there, it *)
(* was put on a taken time as a proposal, or the earlier row was declined    *)
(* and then confirmed again.                                                 *)
ClashExplained ==
  \A i, j \in DOMAIN row :
    i < j /\ Clash(i, j) => row[j].seen < i \/ row[j].tentative \/ row[i].revived

(* A rep's sessions that start in the week from t on. *)
InWeek(rep, t) == {i \in SessionsFrom(rep, t) : row[i].start < t + Week}

(* A rep has more coaching sessions than the cap in a week, whichever week,  *)
(* though the check looks back only from its own instant, only when one of   *)
(* them was counted for before another was there, or was revived.            *)
CapExplained ==
  \A rep \in Reps : \A first \in SessionsOf(rep) :
    LET week == InWeek(rep, row[first].start)
    IN  Cardinality(week) > Cap =>
          \E i, j \in week : i < j /\ (row[j].counted < i \/ row[i].revived)

(* slot-lock.ts:7: of two concurrent attempts at a trainer's time one wins:  *)
(* no two confirmed meetings of a trainer that won their lock overlap.       *)
NoDoubleBooking ==
  \A i, j \in DOMAIN row :
    /\ i # j /\ row[i].trainer = row[j].trainer /\ row[i].kind = row[j].kind
    /\ row[i].locked /\ row[j].locked
    /\ row[i].status = "CONFIRMED" /\ row[j].status = "CONFIRMED"
    => ~Overlaps(row[i].start, Ends(row[i]), row[j])
=============================================================================
