---------------------------- MODULE ContactProofs ----------------------------
(***************************************************************************)
(* What holds of a contact's conversation, of the import of a vault and of *)
(* the booking of meetings, for any number of requests, rows and answers.  *)
(* Each part has its inductive invariant: ConversationInv, ImportInv,      *)
(* BookingInv.                                                             *)
(***************************************************************************)
EXTENDS Conversation, ContactImport, Booking, FiniteSetTheorems,
        WellFoundedInduction, SequenceTheorems, TLAPS

(* The conversation. *)

Ranked == DOMAIN Rank

MessageRow ==
  [confirmed : BOOLEAN, status : {"HANDED_OFF", "NOT_SENT"},
   late : BOOLEAN, early : BOOLEAN]

(* What a request holds on to between two awaits: a first touch past the     *)
(* gate began before the opt-out, an advance moves the stage it read         *)
(* forward, an answer to the handoff read it as open.                        *)
Fits(r) ==
  /\ r.at \in {"gate", "compose"} =>
       r \in [at : {"gate", "compose"}, early : BOOLEAN]
  /\ r.at = "compose" => r.early = TRUE
  /\ r.at \in {"advance", "write"} => r.to \in Ranked
  /\ r.at = "write" => r.seen \in Ranked /\ Rank[r.to] > Rank[r.seen]
  /\ r.at \in {"join", "return"} => r.seen = "INVITED"

RequestsFit == \A w \in Workers : Fits(worker[w])

GateFits == \A w \in Workers :
  worker[w].at = "gate" => worker[w].early = TRUE \/ optedOut = TRUE

TouchesEarly == \A i \in DOMAIN message : message[i].early = TRUE

(* Until two answers cross, the flags say what the state says. *)
HandoffFits ==
  ~history.handoffCrossed =>
    /\ handoff.joined => handoff.state = "JOINED"
    /\ handoff.returned => handoff.state = "RETURNED"

StageFits ==
  history.moved \/ history.crossed \/ minor \/
    (stage \in Ranked /\ Rank[stage] = history.furthest)

RowsFit ==
  /\ stage \in Stages /\ dnc \in BOOLEAN /\ minor \in BOOLEAN /\ optedOut \in BOOLEAN
  /\ message \in Seq(MessageRow)
  /\ handoff \in [state : {"none", "INVITED", "JOINED", "RETURNED"}, lapsed : BOOLEAN,
                  joined : BOOLEAN, returned : BOOLEAN]
  /\ history \in [furthest : Nat, moved : BOOLEAN, crossed : BOOLEAN,
                  handoffCrossed : BOOLEAN]
  /\ TouchesEarly /\ HandoffFits /\ StageFits /\ MinorStaysOut

ConversationInv ==
  /\ RowsFit /\ RequestsFit /\ GateFits
  /\ worker = [w \in Workers |-> worker[w]]

-----------------------------------------------------------------------------
LEMMA RankFacts ==
  /\ \A s \in Ranked : Rank[s] \in Nat /\ s \in Stages /\ s # "DO_NOT_CONTACT"
  /\ {"IDENTIFIED", "INTRODUCED", "RESPONDED"} \cup BookingStages \subseteq Ranked
  /\ Rank["IDENTIFIED"] = 0
  /\ "DO_NOT_CONTACT" \in Stages /\ ManualStages \subseteq Stages
<1>1. \A s \in Ranked : Rank[s] \in Nat /\ s # "DO_NOT_CONTACT"
  BY DEF Ranked, Rank
<1>2. {"IDENTIFIED", "INTRODUCED", "RESPONDED", "APPOINTMENT_PROPOSED",
       "APPOINTMENT_CONFIRMED", "MET"} \subseteq Ranked
  BY DEF Ranked, Rank
<1>3. Rank["IDENTIFIED"] = 0
  BY DEF Rank
<1>4. QED
  BY <1>1, <1>2, <1>3, ConversationConstants DEF Stages, Ranked

LEMMA FitRecords ==
  /\ Fits(Idle)
  /\ \A b \in BOOLEAN : Fits([at |-> "gate", early |-> b])
  /\ \A i : Fits([at |-> "confirm", i |-> i]) /\ Fits([at |-> "deny", i |-> i])
  /\ \A s \in Ranked : Fits(Advancing(s))
  /\ Fits([at |-> "register"]) /\ Fits([at |-> "listed"])
  /\ Fits([at |-> "join", seen |-> "INVITED"]) /\ Fits([at |-> "return", seen |-> "INVITED"])
BY DEF Fits, Idle, Advancing

LEMMA OneRequestMoves ==
  ASSUME ConversationInv, NEW w \in Workers, NEW rec, Becomes(w, rec)
  PROVE  /\ worker' = [v \in Workers |-> worker'[v]]
         /\ worker'[w] = rec
         /\ \A v \in Workers : v # w => worker'[v] = worker[v]
BY DEF ConversationInv, Becomes

LEMMA RequestMoves ==
  ASSUME ConversationInv, NEW w \in Workers, NEW rec, Becomes(w, rec), Fits(rec),
         rec.at = "gate" => rec.early = TRUE \/ optedOut' = TRUE,
         optedOut = TRUE => optedOut' = TRUE
  PROVE  RequestsFit' /\ GateFits' /\ worker' = [v \in Workers |-> worker'[v]]
<1>1. /\ worker' = [v \in Workers |-> worker'[v]] /\ worker'[w] = rec
      /\ \A v \in Workers : v # w => worker'[v] = worker[v]
  BY OneRequestMoves DEF ConversationInv
<1>2. RequestsFit'
  BY <1>1 DEF RequestsFit, ConversationInv
<1>3. GateFits'
  BY <1>1 DEF GateFits, ConversationInv
<1>4. QED BY <1>1, <1>2, <1>3

(* A step that leaves the rows alone, but for an opt-out, leaves them fitting. *)
LEMMA RowsStayFit ==
  ASSUME RowsFit, UNCHANGED <<contact, message, handoff, history>>, optedOut' \in BOOLEAN
  PROVE  RowsFit'
BY DEF RowsFit, contact, TouchesEarly, HandoffFits, StageFits, MinorStaysOut

(* The steps that only move the request, and those of the first touch. *)
LEMMA TouchKeeps ==
  ASSUME ConversationInv, NEW w \in Workers,
         Prepare(w) \/ Evaluate(w) \/ Compose(w)
  PROVE  ConversationInv'
<1> USE DEF ConversationInv
<1>1. CASE Prepare(w)
  <2>1. Fits([at |-> "gate", early |-> ~optedOut])
    BY FitRecords DEF RowsFit
  <2>2. RowsFit' /\ optedOut' = optedOut
    BY <1>1, RowsStayFit DEF Prepare, RowsFit
  <2>3. ~optedOut = TRUE \/ optedOut = TRUE
    BY DEF RowsFit
  <2>4. QED
    BY <1>1, <2>1, <2>2, <2>3, RequestMoves DEF Prepare
<1>2. CASE Evaluate(w)
  <2> DEFINE rec == [worker[w] EXCEPT !.at = "compose"]
  <2>1. worker[w] \in [at : {"gate", "compose"}, early : BOOLEAN] /\ worker[w].early = TRUE
    BY <1>2 DEF Evaluate, RequestsFit, GateFits, Fits
  <2>2. /\ rec.at = "compose" /\ rec.early = TRUE
        /\ rec \in [at : {"gate", "compose"}, early : BOOLEAN]
    BY <2>1
  <2>3. Fits(rec)
    BY <2>2 DEF Fits
  <2>4. RowsFit' /\ optedOut' = optedOut
    BY <1>2, RowsStayFit DEF Evaluate, RowsFit
  <2>5. QED
    BY <1>2, <2>2, <2>3, <2>4, RequestMoves DEF Evaluate
<1>3. CASE Compose(w)
  <2> DEFINE m == [confirmed |-> FALSE, status |-> "HANDED_OFF", late |-> optedOut,
                   early |-> worker[w].early]
  <2>1. worker[w].early = TRUE
    BY <1>3 DEF Compose, RequestsFit, Fits
  <2>2. m \in MessageRow /\ m.early = TRUE
    BY <2>1 DEF MessageRow, RowsFit
  <2>3. message \in Seq(MessageRow) /\ message' = Append(message, m)
    BY <1>3 DEF Compose, RowsFit
  <2>4. message' \in Seq(MessageRow) /\ Len(message') = Len(message) + 1
        /\ \A i \in 1..Len(message) : message'[i] = message[i]
        /\ message'[Len(message) + 1] = m
    BY <2>2, <2>3
  <2>5. TouchesEarly'
    BY <2>2, <2>3, <2>4 DEF TouchesEarly, RowsFit
  <2>6. RowsFit'
    BY <1>3, <2>4, <2>5 DEF Compose, RowsFit, contact, HandoffFits, StageFits, MinorStaysOut
  <2>7. QED
    BY <1>3, <2>6, FitRecords, RequestMoves DEF Compose, Idle
<1>4. QED BY <1>1, <1>2, <1>3

(* confirmHandoff's updates leave what the first touch said alone. *)
LEMMA ConfirmKeeps ==
  ASSUME ConversationInv, NEW w \in Workers, ConfirmSent(w) \/ MarkNotSent(w)
  PROVE  ConversationInv'
<1> USE DEF ConversationInv
<1> DEFINE i == worker[w].i
<1>1. /\ message' \in Seq(MessageRow) /\ DOMAIN message' = DOMAIN message
      /\ \A j \in DOMAIN message : message'[j].early = message[j].early
  <2>1. message \in Seq(MessageRow) /\ \A j \in DOMAIN message : message[j] \in MessageRow
    BY DEF RowsFit
  <2>2. CASE i \notin DOMAIN message
    BY <2>1, <2>2 DEF ConfirmSent, MarkNotSent
  <2>3. CASE i \in DOMAIN message
    <3> DEFINE m == message[i]
               sent == [m EXCEPT !.confirmed = TRUE]
               denied == [[m EXCEPT !.confirmed = FALSE] EXCEPT !.status = "NOT_SENT"]
    <3>1. m \in MessageRow
      BY <2>1, <2>3
    <3>2. /\ sent \in MessageRow /\ sent.early = m.early
          /\ denied \in MessageRow /\ denied.early = m.early
      BY <3>1 DEF MessageRow
    <3>3. ConfirmSent(w) => message' = [message EXCEPT ![i] = sent]
      BY DEF ConfirmSent
    <3>4. MarkNotSent(w) => message' = [message EXCEPT ![i] = denied]
      <4>1. SUFFICES ASSUME MarkNotSent(w) PROVE message' = [message EXCEPT ![i] = denied]
        OBVIOUS
      <4>2. message' = [message EXCEPT ![i].confirmed = FALSE, ![i].status = "NOT_SENT"]
        BY <4>1 DEF MarkNotSent
      <4>3. QED BY <2>3, <4>2
    <3> HIDE DEF sent, denied
    <3>5. QED
      BY <2>1, <3>2, <3>3, <3>4
  <2>4. QED BY <2>2, <2>3
<1>2. RowsFit'
  <2>1. UNCHANGED <<stage, dnc, minor, optedOut, handoff, history>>
    BY DEF ConfirmSent, MarkNotSent, contact
  <2>2. RowsFit
    OBVIOUS
  <2>3. QED
    BY <1>1, <2>1, <2>2 DEF RowsFit, TouchesEarly, HandoffFits, StageFits, MinorStaysOut
<1>3. Fits(Idle) /\ Fits(Advancing("INTRODUCED")) /\ Idle.at # "gate"
      /\ Advancing("INTRODUCED").at # "gate"
  BY FitRecords, RankFacts DEF Idle, Advancing
<1>4. QED
  BY <1>2, <1>3, RequestMoves DEF ConfirmSent, MarkNotSent

(* The calls that start without a write to the rows. *)
LEMMA StartKeeps ==
  ASSUME ConversationInv, NEW w \in Workers, NEW rec, Start(w, rec), Fits(rec),
         rec.at # "gate", UNCHANGED <<contact, optedOut, message, handoff, history>>
  PROVE  ConversationInv'
<1>1. RowsFit' /\ optedOut' = optedOut
  BY RowsStayFit DEF ConversationInv, RowsFit
<1>2. QED
  BY <1>1, RequestMoves DEF ConversationInv, Start

LEMMA CallsKeep ==
  ASSUME ConversationInv, NEW w \in Workers,
         \/ \E i \in 1..MaxMessages, sent \in BOOLEAN : ReadMessage(w, i, sent)
         \/ Reply(w) \/ BookingEvent(w) \/ ReadJoin(w) \/ ListLapsed(w)
  PROVE  ConversationInv'
<1>1. ASSUME NEW i \in 1..MaxMessages, NEW sent \in BOOLEAN, ReadMessage(w, i, sent)
      PROVE  ConversationInv'
  <2> DEFINE rec == [at |-> IF sent THEN "confirm" ELSE "deny", i |-> i]
  <2>1. Fits(rec) /\ rec.at # "gate"
    BY FitRecords
  <2>2. QED
    BY <1>1, <2>1, StartKeeps DEF ReadMessage
<1>2. CASE Reply(w)
  BY <1>2, FitRecords, RankFacts, StartKeeps DEF Reply, Advancing
<1>3. ASSUME NEW to \in BookingStages, Start(w, Advancing(to)), BookingEvent(w)
      PROVE  ConversationInv'
  BY <1>3, FitRecords, RankFacts, StartKeeps DEF BookingEvent, Advancing
<1>4. CASE ReadJoin(w)
  BY <1>4, FitRecords, StartKeeps DEF ReadJoin
<1>5. CASE ListLapsed(w)
  BY <1>5, FitRecords, StartKeeps DEF ListLapsed
<1>6. QED
  BY <1>1, <1>2, <1>3, <1>4, <1>5 DEF BookingEvent

(* Reading the stage and skipping leave the stage what the furthest event    *)
(* made it, and so does the write, unless it crossed another.                *)
LEMMA AdvanceKeeps ==
  ASSUME ConversationInv, NEW w \in Workers,
         AdvanceRead(w) \/ AdvanceSkipped(w) \/ RecordOutreach(w)
  PROVE  ConversationInv'
<1> USE DEF ConversationInv
<1>1. Fits(worker[w]) /\ RowsFit
  BY DEF RequestsFit
<1>2. CASE AdvanceRead(w)
  <2> DEFINE rec == [at |-> "write", to |-> worker[w].to, seen |-> stage]
  <2>1. Fits(rec)
    BY <1>1, <1>2 DEF AdvanceRead, CanAutoAdvance, Fits, Ranked
  <2>2. RowsFit' /\ optedOut' = optedOut
    BY <1>2, RowsStayFit DEF AdvanceRead, RowsFit
  <2>3. QED
    BY <1>2, <2>1, <2>2, RequestMoves DEF AdvanceRead
<1>3. CASE AdvanceSkipped(w)
  <2> DEFINE to == worker[w].to
  <2>1. to \in Ranked /\ Rank[to] \in Nat
    BY <1>1, <1>3, RankFacts DEF AdvanceSkipped, Fits
  <2>2. /\ history' \in [furthest : Nat, moved : BOOLEAN, crossed : BOOLEAN,
                         handoffCrossed : BOOLEAN]
        /\ history'.moved = history.moved /\ history'.crossed = history.crossed
        /\ history'.handoffCrossed = history.handoffCrossed
        /\ history'.furthest = IF dnc \/ stage \notin DOMAIN Rank THEN history.furthest
                               ELSE Furthest(to)
    BY <1>1, <1>3, <2>1 DEF AdvanceSkipped, RowsFit, Furthest
  <2>3. UNCHANGED <<stage, dnc, minor, optedOut, message, handoff>>
    BY <1>3 DEF AdvanceSkipped, contact
  <2>4. StageFits'
    <3>1. CASE dnc \/ stage \notin Ranked
      BY <1>1, <2>2, <2>3, <3>1 DEF StageFits, RowsFit, Ranked
    <3>2. CASE ~dnc /\ stage \in Ranked
      <4>1. Rank[stage] \in Nat /\ ~(Rank[to] > Rank[stage])
        BY <1>3, <3>2, RankFacts DEF AdvanceSkipped, CanAutoAdvance, Ranked
      <4>2. Rank[stage] = history.furthest => history'.furthest = history.furthest
        BY <2>1, <2>2, <3>2, <4>1 DEF Furthest, Ranked
      <4>3. QED
        BY <1>1, <2>2, <2>3, <4>2 DEF StageFits, RowsFit
    <3>3. QED BY <3>1, <3>2 DEF RowsFit
  <2>5. RowsFit'
    BY <1>1, <2>2, <2>3, <2>4 DEF RowsFit, TouchesEarly, HandoffFits, MinorStaysOut
  <2>6. QED
    BY <1>3, <2>3, <2>5, FitRecords, RequestMoves DEF AdvanceSkipped, Idle
<1>4. CASE RecordOutreach(w)
  <2> DEFINE to == worker[w].to
             seen == worker[w].seen
  <2>1. /\ to \in Ranked /\ seen \in Ranked /\ Rank[to] > Rank[seen]
        /\ Rank[to] \in Nat /\ Rank[seen] \in Nat
        /\ to \in Stages /\ seen # "DO_NOT_CONTACT"
    BY <1>1, <1>4, RankFacts DEF RecordOutreach, Fits
  <2>2. Furthest(to) \in Nat
    BY <1>1, <2>1 DEF Furthest, RowsFit
  <2>3. /\ history' \in [furthest : Nat, moved : BOOLEAN, crossed : BOOLEAN,
                         handoffCrossed : BOOLEAN]
        /\ history'.moved = history.moved
        /\ history'.crossed = (history.crossed \/ stage # seen)
        /\ history'.handoffCrossed = history.handoffCrossed
        /\ history'.furthest = Furthest(to)
    BY <1>1, <1>4, <2>2 DEF RecordOutreach, RowsFit
  <2>4. stage' = to /\ UNCHANGED <<dnc, minor, optedOut, message, handoff>>
    BY <1>4 DEF RecordOutreach
  <2>5. StageFits'
    <3>1. CASE stage # seen
      BY <2>3, <3>1 DEF StageFits
    <3>2. CASE stage = seen
      <4>1. Rank[stage] = history.furthest => Rank[to] = history'.furthest
        BY <2>1, <2>3, <3>2 DEF Furthest
      <4>2. QED
        BY <1>1, <2>1, <2>3, <2>4, <4>1 DEF StageFits, RowsFit
    <3>3. QED BY <3>1, <3>2
  <2>6. MinorStaysOut'
    BY <1>1, <2>1, <2>3, <2>4 DEF MinorStaysOut, RowsFit
  <2>7. RowsFit'
    BY <1>1, <2>1, <2>3, <2>4, <2>5, <2>6 DEF RowsFit, TouchesEarly, HandoffFits
  <2>8. QED
    BY <1>4, <2>4, <2>7, FitRecords, RequestMoves DEF RecordOutreach, Idle
<1>5. QED BY <1>2, <1>3, <1>4

(* The steps outside the requests and those of an import. *)
LEMMA SameRequests ==
  ASSUME ConversationInv, UNCHANGED worker, optedOut = TRUE => optedOut' = TRUE
  PROVE  RequestsFit' /\ GateFits' /\ worker' = [v \in Workers |-> worker'[v]]
BY DEF ConversationInv, RequestsFit, GateFits

LEMMA ControlsKeep ==
  ASSUME ConversationInv,
         Stop \/ SetDoNotContact \/ \E to \in ManualStages : PostOutreach(to)
  PROVE  ConversationInv'
<1> USE DEF ConversationInv
<1>1. CASE Stop
  BY <1>1, RowsStayFit, SameRequests DEF Stop
<1>2. CASE SetDoNotContact
  <2>1. RowsFit'
    BY <1>2 DEF SetDoNotContact, RowsFit, TouchesEarly, HandoffFits, StageFits, MinorStaysOut
  <2>2. QED BY <1>2, <2>1, SameRequests DEF SetDoNotContact
<1>3. ASSUME NEW to \in ManualStages, PostOutreach(to) PROVE ConversationInv'
  <2>1. /\ history' \in [furthest : Nat, moved : BOOLEAN, crossed : BOOLEAN,
                         handoffCrossed : BOOLEAN]
        /\ history'.moved = TRUE /\ history'.handoffCrossed = history.handoffCrossed
    BY <1>3 DEF PostOutreach, RowsFit
  <2>2. stage' \in Stages /\ UNCHANGED <<dnc, minor, optedOut, message, handoff, worker>>
    BY <1>3, RankFacts DEF PostOutreach
  <2>3. RowsFit'
    BY <2>1, <2>2 DEF RowsFit, TouchesEarly, HandoffFits, StageFits, MinorStaysOut
  <2>4. QED BY <2>2, <2>3, SameRequests
<1>4. QED BY <1>1, <1>2, <1>3

LEMMA ImportKeeps ==
  ASSUME ConversationInv, NEW w \in Workers, MergeMinor(w) \/ RegisterMinorOptOut(w)
  PROVE  ConversationInv'
<1> USE DEF ConversationInv
<1>1. CASE MergeMinor(w)
  <2>1. /\ stage' = "DO_NOT_CONTACT" /\ dnc' = TRUE /\ minor' = TRUE
        /\ UNCHANGED <<optedOut, message, handoff, history>>
    BY <1>1 DEF MergeMinor
  <2>2. RowsFit'
    BY <2>1, RankFacts DEF RowsFit, TouchesEarly, HandoffFits, StageFits, MinorStaysOut
  <2>3. QED
    BY <1>1, <2>1, <2>2, FitRecords, RequestMoves DEF MergeMinor, Start
<1>2. CASE RegisterMinorOptOut(w)
  <2>1. RowsFit'
    BY <1>2, RowsStayFit DEF RegisterMinorOptOut
  <2>2. QED
    BY <1>2, <2>1, FitRecords, RequestMoves DEF RegisterMinorOptOut, Idle
<1>3. QED BY <1>1, <1>2

(* A handoff that is answered while still open is answered once; an answer   *)
(* that finds it answered has crossed.                                       *)
LEMMA AnswerKeeps ==
  ASSUME ConversationInv, NEW w \in Workers, NEW at \in {"join", "return"},
         NEW state \in {"JOINED", "RETURNED"}, Answer(w, at, state)
  PROVE  ConversationInv'
<1> USE DEF ConversationInv
<1>1. RowsFit /\ worker[w].seen = "INVITED"
  BY DEF Answer, RequestsFit, Fits
<1>2. /\ history' \in [furthest : Nat, moved : BOOLEAN, crossed : BOOLEAN,
                       handoffCrossed : BOOLEAN]
      /\ history'.furthest = history.furthest
      /\ history'.moved = history.moved /\ history'.crossed = history.crossed
      /\ history'.handoffCrossed = (history.handoffCrossed \/ handoff.state # "INVITED")
  BY <1>1 DEF Answer, RowsFit
<1>3. /\ handoff' \in [state : {"none", "INVITED", "JOINED", "RETURNED"}, lapsed : BOOLEAN,
                       joined : BOOLEAN, returned : BOOLEAN]
      /\ handoff'.state = state
      /\ handoff'.joined = (handoff.joined \/ state = "JOINED")
      /\ handoff'.returned = (handoff.returned \/ state = "RETURNED")
  BY <1>1 DEF Answer, RowsFit
<1>4. UNCHANGED <<stage, dnc, minor, optedOut, message>>
  BY DEF Answer, contact
<1>5. HandoffFits'
  BY <1>1, <1>2, <1>3 DEF HandoffFits, RowsFit
<1>6. RowsFit'
  BY <1>1, <1>2, <1>3, <1>4, <1>5 DEF RowsFit, TouchesEarly, StageFits, MinorStaysOut
<1>7. QED
  BY <1>4, <1>6, FitRecords, RequestMoves DEF Answer, Idle

LEMMA HandoffKeeps ==
  ASSUME ConversationInv, Trigger \/ Lapse
  PROVE  ConversationInv'
<1> USE DEF ConversationInv
<1>1. UNCHANGED <<stage, dnc, minor, optedOut, message, worker, history>>
  BY DEF Trigger, Lapse, contact
<1>2. /\ handoff' \in [state : {"none", "INVITED", "JOINED", "RETURNED"}, lapsed : BOOLEAN,
                       joined : BOOLEAN, returned : BOOLEAN]
      /\ handoff'.joined = handoff.joined /\ handoff'.returned = handoff.returned
      /\ \/ handoff'.state = handoff.state
         \/ handoff.joined = FALSE /\ handoff.returned = FALSE
  <2>1. RowsFit
    OBVIOUS
  <2>2. CASE Trigger
    <3>1. handoff' = [handoff EXCEPT !.state = "INVITED"]
          /\ handoff.joined = FALSE /\ handoff.returned = FALSE
      BY <2>2 DEF Trigger, NoHandoff
    <3>2. QED BY <2>1, <3>1 DEF RowsFit
  <2>3. CASE Lapse
    BY <2>1, <2>3 DEF Lapse, RowsFit
  <2>4. QED BY <2>2, <2>3
<1>3. HandoffFits'
  BY <1>1, <1>2 DEF HandoffFits, RowsFit
<1>4. RowsFit'
  BY <1>1, <1>2, <1>3 DEF RowsFit, TouchesEarly, StageFits, MinorStaysOut
<1>5. QED BY <1>1, <1>4, SameRequests

LEMMA RequestOnlyKeeps ==
  ASSUME ConversationInv, NEW w \in Workers, ReadLapsed(w) \/ Die(w)
  PROVE  ConversationInv'
<1> USE DEF ConversationInv
<1> DEFINE rec == IF handoff.state = "INVITED" THEN [at |-> "return", seen |-> "INVITED"]
                  ELSE Idle
<1>1. UNCHANGED <<contact, optedOut, message, handoff, history>>
  BY DEF ReadLapsed, Die
<1>2. RowsFit' /\ optedOut' = optedOut
  BY <1>1, RowsStayFit DEF RowsFit
<1>3. Fits(rec) /\ Fits(Idle) /\ rec.at # "gate" /\ Idle.at # "gate"
  BY FitRecords DEF Idle
<1>4. Becomes(w, rec) \/ Becomes(w, Idle)
  BY DEF ReadLapsed, Die
<1> HIDE DEF rec
<1>5. QED BY <1>2, <1>3, <1>4, RequestMoves

-----------------------------------------------------------------------------
LEMMA ConversationStarts ==
  Init => ConversationInv
<1> SUFFICES ASSUME Init PROVE ConversationInv
  OBVIOUS
<1>1. /\ stage = "IDENTIFIED" /\ dnc = FALSE /\ minor = FALSE /\ optedOut = FALSE
      /\ message = <<>> /\ worker = [w \in Workers |-> Idle]
      /\ handoff = [state |-> "none", lapsed |-> FALSE, joined |-> FALSE, returned |-> FALSE]
      /\ history = [furthest |-> 0, moved |-> FALSE, crossed |-> FALSE,
                    handoffCrossed |-> FALSE]
  BY DEF Init, NoHandoff
<1>2. stage \in Ranked /\ Rank[stage] = history.furthest /\ stage \in Stages
  BY <1>1, RankFacts
<1>3. RowsFit
  <2>1. message \in Seq(MessageRow) /\ TouchesEarly
    BY <1>1 DEF TouchesEarly
  <2>2. handoff \in [state : {"none", "INVITED", "JOINED", "RETURNED"}, lapsed : BOOLEAN,
                     joined : BOOLEAN, returned : BOOLEAN]
    BY <1>1
  <2>3. history \in [furthest : Nat, moved : BOOLEAN, crossed : BOOLEAN,
                     handoffCrossed : BOOLEAN]
    BY <1>1
  <2>4. HandoffFits /\ StageFits /\ MinorStaysOut
    BY <1>1, <1>2 DEF HandoffFits, StageFits, MinorStaysOut
  <2>5. QED BY <1>1, <1>2, <2>1, <2>2, <2>3, <2>4 DEF RowsFit
<1>4. \A w \in Workers : worker[w] = Idle
  BY <1>1
<1>5. RequestsFit /\ GateFits
  BY <1>4, FitRecords DEF RequestsFit, GateFits, Idle
<1>6. worker = [w \in Workers |-> worker[w]]
  BY <1>1, <1>4
<1>7. QED BY <1>3, <1>5, <1>6 DEF ConversationInv

LEMMA ConversationStep ==
  ConversationInv /\ [Next]_vars => ConversationInv'
<1> SUFFICES ASSUME ConversationInv, [Next]_vars PROVE ConversationInv'
  OBVIOUS
<1>1. ASSUME NEW w \in Workers, Join(w) \/ Return(w) PROVE ConversationInv'
  BY <1>1, AnswerKeeps DEF Join, Return
<1>2. CASE UNCHANGED vars
  <2>1. UNCHANGED <<contact, message, handoff, history>> /\ UNCHANGED <<optedOut, worker>>
    BY <1>2 DEF vars, contact
  <2>2. RowsFit'
    BY <2>1, RowsStayFit DEF ConversationInv, RowsFit
  <2>3. QED BY <2>1, <2>2, SameRequests DEF ConversationInv
<1>3. QED
  BY <1>1, <1>2, TouchKeeps, ConfirmKeeps, CallsKeep, AdvanceKeeps, ControlsKeep,
     ImportKeeps, HandoffKeeps, RequestOnlyKeeps DEF Next

LEMMA ConversationAlways == Spec => []ConversationInv
BY ConversationStarts, ConversationStep, PTL DEF Spec

(* The stage is the furthest the contact's calls asked for, as long as none  *)
(* was moved by hand and no two advances crossed (pipeline.service.ts:51-59): *)
(* a late or repeated event never pulls a contact back. Events handled under *)
(* do-not-contact are dropped and do not count.                              *)
THEOREM StageIsTheFurthest == Spec => []FurthestEventCounts
<1>1. ConversationInv => FurthestEventCounts
  BY DEF ConversationInv, RowsFit, StageFits, FurthestEventCounts
<1>2. QED BY <1>1, ConversationAlways, PTL

(* A contact an import found to be a minor stays out of the funnel through   *)
(* any replies, bookings and cleared flags, unless someone moved it by hand  *)
(* or an advance had read the row before the import.                         *)
THEOREM MinorsStayOut == Spec => []MinorStaysOut
<1>1. ConversationInv => MinorStaysOut
  BY DEF ConversationInv, RowsFit
<1>2. QED BY <1>1, ConversationAlways, PTL

(* A first touch composed for an opted-out contact is one whose request had  *)
(* begun before the STOP: the gate's read of the registry stops the others.  *)
THEOREM StopsAreHonoured == Spec => []StopBlocksNewTouches
<1>1. ConversationInv => StopBlocksNewTouches
  BY DEF ConversationInv, RowsFit, TouchesEarly, StopBlocksNewTouches
<1>2. QED BY <1>1, ConversationAlways, PTL

(* An invitation is joined or returned, not both, unless two answers to it   *)
(* crossed between the read and the write.                                   *)
THEOREM HandoffIsAnsweredOnce == Spec => []AnsweredOnce
<1>1. ConversationInv => AnsweredOnce
  BY DEF ConversationInv, RowsFit, HandoffFits, AnsweredOnce
<1>2. QED BY <1>1, ConversationAlways, PTL
-----------------------------------------------------------------------------
(* The import. *)

AtARow == {"row", "write", "optOut", "finish"}

Contact == [lines : SUBSET (DOMAIN Row), phone : Keys, email : Keys, minor : BOOLEAN]

Tally == [calls : Nat, faults : Nat, overlapped : BOOLEAN, redone : SUBSET Nat,
          split : SUBSET Nat]

(* A call stands at a row of the payload, or behind the last one. *)
CallFits(r) ==
  \/ r = NoCall
  \/ r = [at |-> "create"]
  \/ /\ r.at \in AtARow /\ r.i \in Nat \ {0}
     /\ r.at # "finish" => r.i \in DOMAIN Row
     /\ r.at = "write" => r.found \in Nat /\ (r.found # 0 => r.was \in Contact)

ImportTypes ==
  /\ batch \in [status : {"none", "IN_PROGRESS", "COMPLETED"}, cursor : Nat \ {0}]
  /\ vault \in Seq(Contact)
  /\ imports \in Tally
  /\ call = [c \in Calls |-> call[c]]
  /\ \A c \in Calls : CallFits(call[c])

(* A contact that holds a minor's line is flagged. *)
VaultFits ==
  \A j \in DOMAIN vault : \A l \in vault[j].lines : Row[l].minor => vault[j].minor = TRUE

(* What has been done of line i: it is stored, and its minor opted out. *)
Stored(i) == Row[i].valid => \E j \in DOMAIN vault : i \in vault[j].lines

Out(i) == Row[i].valid /\ Row[i].minor => Ids(Row[i]) \subseteq registry

DoneBefore(p) == \A i \in DOMAIN Row : i < p => Stored(i) /\ Out(i)

(* Every line before the cursor is done, and every line a call has passed. *)
Progress ==
  /\ DoneBefore(batch.cursor)
  /\ batch.status = "COMPLETED" => batch.cursor > Len(Row)
  /\ \A c \in Calls :
       /\ call[c].at \in AtARow => DoneBefore(call[c].i)
       /\ call[c].at = "write" /\ call[c].found # 0 => call[c].found \in DOMAIN vault
       /\ call[c].at = "optOut" => Stored(call[c].i)

(* A contact has no gap where a line it holds has a phone or an e-mail, and  *)
(* the line would find it again.                                             *)
Kept(x, y) ==
  /\ y.phone # NoKey => x.phone # NoKey
  /\ y.email # NoKey => x.email # NoKey
  /\ Ids(y) # {} => Shares(x, y)

AlsoSplit(j) == \E m \in imports.split : j \in Matches(m)

(* The contacts while no two calls overlapped. *)
People ==
  /\ \A j \in DOMAIN vault : \A l \in vault[j].lines : Kept(vault[j], Row[l])
  /\ \A j, k \in DOMAIN vault : j # k =>
       /\ Shares(vault[j], vault[k]) => Split(j, k)
       /\ \A l \in vault[j].lines \cap vault[k].lines :
            IF Ids(Row[l]) = {} THEN l \in imports.redone ELSE Split(j, k)
  /\ \A i \in DOMAIN Row : \A k \in DOMAIN vault : \A j \in Matches(i) :
       Row[i].minor /\ i \in vault[k].lines =>
         vault[j].minor = TRUE \/ AlsoSplit(j) \/ Turned(i)

(* Of the lines without an identifier only those done again are in the vault *)
(* at line p or behind.                                                      *)
Behind(p) ==
  \A j \in DOMAIN vault : \A l \in vault[j].lines :
    Ids(Row[l]) = {} => l < p \/ l \in imports.redone

(* What a call that is about to write found. *)
WellFound(i, w) ==
  /\ w.found = 0 => Matches(i) = {}
  /\ w.found # 0 => /\ w.found \in Matches(i) /\ w.was = vault[w.found]
                    /\ \A k \in Matches(i) : k # w.found => i \in imports.split

(* While no two calls overlapped there is one at most, and it stands at the  *)
(* cursor or behind it.                                                      *)
OneCall ==
  ~imports.overlapped =>
    /\ \A c, d \in Calls : call[c] # NoCall /\ call[d] # NoCall => c = d
    /\ People
    /\ (\A c \in Calls : call[c] = NoCall) => Behind(batch.cursor)
    /\ \A c \in Calls :
         /\ call[c].at = "create" => batch = NoBatch /\ Behind(1)
         /\ call[c].at \in AtARow => Behind(call[c].i) /\ batch.cursor <= call[c].i
         /\ call[c].at = "write" => WellFound(call[c].i, call[c])

ImportInv == ImportTypes /\ VaultFits /\ Progress /\ OneCall
-----------------------------------------------------------------------------
LEMMA PayloadIsTyped ==
  /\ Len(Row) \in Nat /\ DOMAIN Row = 1..Len(Row)
  /\ \A i \in DOMAIN Row : /\ Row[i].phone \in Keys /\ Row[i].email \in Keys
                           /\ Row[i].valid \in BOOLEAN /\ Row[i].minor \in BOOLEAN
<1> DEFINE L == [phone : Keys, email : Keys, valid : BOOLEAN, minor : BOOLEAN]
<1>1. \A l \in L : /\ l.phone \in Keys /\ l.email \in Keys
                   /\ l.valid \in BOOLEAN /\ l.minor \in BOOLEAN
  OBVIOUS
<1>2. Row \in Seq(L)
  BY ImportConstants
<1> HIDE DEF L
<1>3. Len(Row) \in Nat /\ DOMAIN Row = 1..Len(Row) /\ \A i \in DOMAIN Row : Row[i] \in L
  BY <1>2
<1>4. QED BY <1>1, <1>3

LEMMA VaultIsTyped ==
  ASSUME NEW v \in Seq(Contact)
  PROVE  /\ Len(v) \in Nat /\ DOMAIN v = 1..Len(v)
         /\ \A j \in DOMAIN v :
              /\ v[j] \in Contact /\ v[j].minor \in BOOLEAN
              /\ v[j].phone \in Keys /\ v[j].email \in Keys
              /\ \A l \in v[j].lines : l \in DOMAIN Row /\ l \in Nat \ {0}
<1>1. \A x \in Contact : /\ x.minor \in BOOLEAN /\ x.phone \in Keys /\ x.email \in Keys
                         /\ \A l \in x.lines : l \in DOMAIN Row /\ l \in Nat \ {0}
  BY PayloadIsTyped DEF Contact
<1>2. QED BY <1>1

LEMMA AtRowFits ==
  ASSUME NEW i \in Nat \ {0}
  PROVE  /\ CallFits(AtRow(i)) /\ AtRow(i).i = i /\ AtRow(i).at \in {"row", "finish"}
         /\ CallFits([at |-> "finish", i |-> i])
BY PayloadIsTyped DEF AtRow, CallFits, AtARow

LEMMA ThisCallMoves ==
  ASSUME ImportTypes, NEW c \in Calls, NEW rec, CallIs(c, rec), CallFits(rec)
  PROVE  /\ call' = [d \in Calls |-> call'[d]]
         /\ call'[c] = rec
         /\ \A d \in Calls : d # c => call'[d] = call[d]
         /\ \A d \in Calls : CallFits(call'[d])
BY DEF ImportTypes, CallIs

(* What a step must show of the call it moves for Progress to hold. *)
LEMMA ProgressMoves ==
  ASSUME ImportTypes, Progress,
         NEW c \in Calls, NEW rec, CallIs(c, rec), CallFits(rec),
         \A i : Stored(i) => Stored(i)', \A i : Out(i) => Out(i)',
         DOMAIN vault \subseteq DOMAIN vault',
         DoneBefore(batch.cursor)', batch'.status = "COMPLETED" => batch'.cursor > Len(Row),
         rec.at \in AtARow => DoneBefore(rec.i)',
         rec.at = "write" /\ rec.found # 0 => rec.found \in DOMAIN vault',
         rec.at = "optOut" => Stored(rec.i)'
  PROVE  Progress'
<1>1. /\ call'[c] = rec /\ \A d \in Calls : d # c => call'[d] = call[d]
  BY ThisCallMoves
<1>2. \A p : DoneBefore(p) => DoneBefore(p)'
  BY DEF DoneBefore
<1>3. ASSUME NEW d \in Calls
      PROVE  /\ call'[d].at \in AtARow => DoneBefore(call[d].i)'
             /\ call'[d].at = "write" /\ call'[d].found # 0 => call'[d].found \in DOMAIN vault'
             /\ call'[d].at = "optOut" => Stored(call[d].i)'
  <2>1. CASE d = c
    BY <1>1, <2>1
  <2>2. CASE d # c
    BY <1>1, <1>2, <2>2 DEF Progress
  <2>3. QED BY <2>1, <2>2
<1>4. QED
  BY <1>3 DEF Progress

(* The same for OneCall: while no calls overlapped, the others are idle. *)
LEMMA OneCallMoves ==
  ASSUME ImportTypes, NEW c \in Calls, NEW rec, CallIs(c, rec), CallFits(rec),
         ~imports'.overlapped =>
           /\ \A d \in Calls : d # c => call[d] = NoCall
           /\ People'
           /\ rec = NoCall => Behind(batch.cursor)'
           /\ rec.at = "create" => batch' = NoBatch /\ Behind(1)'
           /\ rec.at \in AtARow => Behind(rec.i)' /\ batch'.cursor <= rec.i
           /\ rec.at = "write" => WellFound(rec.i, rec)'
  PROVE  OneCall'
<1> SUFFICES ASSUME ~imports'.overlapped
             PROVE  /\ \A d, e \in Calls : call'[d] # NoCall /\ call'[e] # NoCall => d = e
                    /\ (\A d \in Calls : call'[d] = NoCall) => Behind(batch.cursor)'
                    /\ \A d \in Calls :
                         /\ call'[d].at = "create" => batch' = NoBatch /\ Behind(1)'
                         /\ call'[d].at \in AtARow =>
                              Behind(call[d].i)' /\ batch'.cursor <= call'[d].i
                         /\ call'[d].at = "write" => WellFound(call[d].i, call[d])'
  BY DEF OneCall
<1>1. call'[c] = rec /\ \A d \in Calls : d # c => call'[d] = NoCall
  BY ThisCallMoves
<1>2. NoCall.at \notin AtARow /\ NoCall.at # "create" /\ NoCall.at # "write"
  BY DEF NoCall, AtARow
<1>3. QED
  BY <1>1, <1>2

(* The steps that leave the vault alone. *)
LEMMA SameVault ==
  ASSUME ImportInv, UNCHANGED vault, registry \subseteq registry', imports' \in Tally,
         imports.overlapped => imports'.overlapped,
         imports.redone \subseteq imports'.redone, imports.split \subseteq imports'.split
  PROVE  /\ VaultFits'
         /\ \A i : Stored(i) => Stored(i)'
         /\ \A i : Out(i) => Out(i)'
         /\ \A i : Matches(i)' = Matches(i)
         /\ \A p : Behind(p) => Behind(p)'
         /\ \A p : DoneBefore(p) => DoneBefore(p)'
         /\ ~imports'.overlapped => ~imports.overlapped /\ People'
<1>1. VaultFits' /\ \A i : Matches(i)' = Matches(i)
  BY DEF ImportInv, VaultFits, Matches
<1>2. /\ \A i : Stored(i) => Stored(i)'
      /\ \A i : Out(i) => Out(i)'
  BY DEF Stored, Out
<1>3. \A p : Behind(p) => Behind(p)'
  BY DEF Behind
<1>4. \A p : DoneBefore(p) => DoneBefore(p)'
  BY <1>2 DEF DoneBefore
<1>5. ASSUME ~imports.overlapped PROVE People'
  <2>1. People
    BY <1>5 DEF ImportInv, OneCall
  <2>2. /\ \A j, k : Split(j, k) => Split(j, k)'
        /\ \A j : AlsoSplit(j) => AlsoSplit(j)'
        /\ \A i : Turned(i) => Turned(i)'
    BY <1>1 DEF Split, AlsoSplit, Turned
  <2>3. \A j \in DOMAIN vault' : \A l \in vault'[j].lines : Kept(vault'[j], Row[l])
    BY <2>1 DEF People
  <2>4. \A j, k \in DOMAIN vault' : j # k =>
          /\ Shares(vault'[j], vault'[k]) => Split(j, k)'
          /\ \A l \in vault'[j].lines \cap vault'[k].lines :
               IF Ids(Row[l]) = {} THEN l \in imports'.redone ELSE Split(j, k)'
    BY <2>1, <2>2 DEF People
  <2>5. \A i \in DOMAIN Row : \A k \in DOMAIN vault' : \A j \in Matches(i)' :
          Row[i].minor /\ i \in vault'[k].lines =>
            vault'[j].minor = TRUE \/ AlsoSplit(j)' \/ Turned(i)'
    BY <1>1, <2>1, <2>2 DEF People
  <2>6. QED BY <2>3, <2>4, <2>5 DEF People
<1>6. QED
  BY <1>1, <1>2, <1>3, <1>4, <1>5 DEF ImportInv, OneCall

LEMMA BeginKeeps ==
  ASSUME ImportInv, NEW c \in Calls, Begin(c)
  PROVE  ImportInv'
<1> DEFINE rec == IF batch = NoBatch THEN [at |-> "create"] ELSE AtRow(batch.cursor)
           met == \E d \in Calls : call[d] # NoCall
<1>1. ImportTypes /\ Progress /\ OneCall
  BY DEF ImportInv
<1>2. CallIs(c, rec) /\ call[c] = NoCall /\ UNCHANGED <<batch, vault, registry>>
  BY DEF Begin
<1>3. /\ imports' \in Tally
      /\ imports'.overlapped = (imports.overlapped \/ met)
      /\ imports'.redone = imports.redone /\ imports'.split = imports.split
  <2>1. (imports.overlapped \/ met) \in BOOLEAN
    OBVIOUS
  <2>2. ASSUME NEW h \in Tally, NEW n \in Nat, NEW b \in BOOLEAN,
               imports' = [h EXCEPT !.calls = n, !.overlapped = b]
        PROVE  /\ imports' \in Tally /\ imports'.overlapped = b
               /\ imports'.redone = h.redone /\ imports'.split = h.split
    BY <2>2 DEF Tally
  <2>3. imports \in Tally /\ imports.calls + 1 \in Nat
    BY <1>1 DEF ImportTypes, Tally
  <2>4. imports' = [imports EXCEPT !.calls = imports.calls + 1,
                                   !.overlapped = imports.overlapped \/ met]
    BY DEF Begin
  <2>5. QED
    BY <2>1, <2>2, <2>3, <2>4
<1>4. batch.cursor \in Nat \ {0} /\ (batch = NoBatch => batch.cursor = 1)
  BY <1>1 DEF ImportTypes, NoBatch
<1>5. /\ CallFits(rec) /\ rec.at \in {"create", "row", "finish"}
      /\ rec.at \in AtARow => rec.i = batch.cursor
      /\ rec.at = "create" => batch = NoBatch
  BY <1>4, AtRowFits DEF CallFits, AtARow, AtRow
<1>6. ~met => \A d \in Calls : call[d] = NoCall
  OBVIOUS
<1> HIDE DEF rec, met
<1>7. ImportTypes'
  BY <1>1, <1>2, <1>3, <1>5, ThisCallMoves DEF ImportTypes
<1>8. Progress'
  BY <1>1, <1>2, <1>3, <1>5, SameVault, ProgressMoves DEF Progress
<1>9. OneCall'
  <2>1. ~imports'.overlapped => ~imports.overlapped /\ \A d \in Calls : call[d] = NoCall
    BY <1>3, <1>6
  <2>2. ~imports'.overlapped => Behind(batch.cursor)'
    BY <1>1, <1>2, <1>3, <2>1, SameVault DEF OneCall
  <2>3. batch' = batch /\ rec # NoCall /\ batch'.cursor <= batch.cursor
    BY <1>2, <1>4, <1>5 DEF NoCall
  <2>4. rec.at = "create" => batch.cursor = 1
    BY <1>4, <1>5
  <2>5. QED
    BY <1>1, <1>2, <1>3, <1>5, <2>1, <2>2, <2>3, <2>4, SameVault, OneCallMoves
<1>10. QED
  BY <1>2, <1>3, <1>7, <1>8, <1>9, SameVault DEF ImportInv

LEMMA CreateBatchKeeps ==
  ASSUME ImportInv, NEW c \in Calls, CreateBatch(c)
  PROVE  ImportInv'
<1>1. ImportTypes /\ Progress /\ OneCall /\ call[c].at = "create"
      /\ UNCHANGED <<vault, registry, imports>>
  BY DEF ImportInv, CreateBatch
<1>2. call[c] # NoCall /\ (~imports.overlapped => \A d \in Calls : d # c => call[d] = NoCall)
  BY <1>1 DEF OneCall, NoCall
<1>3. imports' \in Tally
  BY <1>1 DEF ImportTypes
<1>4. CASE batch = NoBatch
  <2>1. batch' = [status |-> "IN_PROGRESS", cursor |-> 1] /\ CallIs(c, AtRow(1))
    BY <1>4 DEF CreateBatch
  <2>2. CallFits(AtRow(1)) /\ AtRow(1).i = 1 /\ AtRow(1).at \in {"row", "finish"}
    <3>1. 1 \in Nat \ {0}
      OBVIOUS
    <3>2. QED BY <3>1, AtRowFits
  <2>3. batch'.cursor = 1 /\ batch'.status = "IN_PROGRESS" /\ AtRow(1) # NoCall
    BY <2>1, <2>2 DEF NoCall
  <2>4. ImportTypes'
    BY <1>1, <1>3, <2>1, <2>2, ThisCallMoves DEF ImportTypes
  <2>5. DoneBefore(1)' /\ DoneBefore(batch.cursor)'
    BY <2>3, PayloadIsTyped DEF DoneBefore
  <2>6. Progress'
    BY <1>1, <1>3, <2>1, <2>2, <2>3, <2>5, SameVault, ProgressMoves
  <2>7. ~imports'.overlapped => Behind(1)'
    BY <1>1, <1>3, SameVault DEF OneCall
  <2>8. OneCall'
    BY <1>1, <1>2, <1>3, <2>1, <2>2, <2>3, <2>7, SameVault, OneCallMoves
  <2>9. QED
    BY <1>1, <1>3, <2>4, <2>6, <2>8, SameVault DEF ImportInv
<1>5. CASE batch # NoBatch
  <2>1. UNCHANGED batch /\ CallIs(c, NoCall)
    BY <1>5 DEF CreateBatch
  <2>2. CallFits(NoCall) /\ NoCall.at = "idle"
    BY DEF CallFits, NoCall
  <2>3. ImportTypes'
    BY <1>1, <1>3, <2>1, <2>2, ThisCallMoves DEF ImportTypes
  <2>4. Progress'
    BY <1>1, <1>3, <2>1, <2>2, SameVault, ProgressMoves DEF Progress, AtARow
  <2>5. imports'.overlapped
    BY <1>1, <1>5 DEF OneCall
  <2>6. OneCall'
    BY <2>5 DEF OneCall
  <2>7. QED
    BY <1>1, <1>3, <2>3, <2>4, <2>6, SameVault DEF ImportInv
<1>6. QED BY <1>4, <1>5

LEMMA ShortOfOptOut ==
  ASSUME NEW c \in Calls, registry' \in CutShort(c)
  PROVE  registry \subseteq registry'
BY DEF CutShort

(* The steps that pass a line or stop at one, and leave the vault alone. *)
LEMMA RowStepKeeps ==
  ASSUME ImportInv, NEW c \in Calls, RejectRow(c) \/ FindExisting(c) \/ RowFails(c)
  PROVE  ImportInv'
<1>0. PICK i : i = call[c].i
  OBVIOUS
<1>1. /\ ImportTypes /\ Progress /\ OneCall /\ UNCHANGED <<batch, vault>>
      /\ registry \subseteq registry'
      /\ call[c].at \in {"row", "write", "optOut"}
  BY ShortOfOptOut DEF ImportInv, RejectRow, FindExisting, RowFails, Querying
<1>2. /\ i \in Nat \ {0} /\ i \in DOMAIN Row /\ i + 1 \in Nat \ {0}
      /\ call[c] # NoCall
  BY <1>0, <1>1 DEF ImportTypes, CallFits, AtARow, NoCall
<1>3. /\ imports' \in Tally
      /\ imports'.overlapped = imports.overlapped
      /\ imports'.redone = imports.redone
      /\ imports.split \subseteq imports'.split
      /\ FindExisting(c) => \A j, k \in Matches(i) : j # k => i \in imports'.split
  <2> DEFINE several == {m \in {i} : \E j, k \in Matches(i) : j # k}
  <2>1. imports \in Tally
    BY <1>1 DEF ImportTypes
  <2>2. CASE FindExisting(c)
    <3>1. imports' = [imports EXCEPT !.split = imports.split \cup several]
      BY <1>0, <2>2 DEF FindExisting
    <3>2. several \subseteq Nat /\ (\A j, k \in Matches(i) : j # k => i \in several)
      BY <1>2
    <3> HIDE DEF several
    <3>3. QED BY <2>1, <3>1, <3>2 DEF Tally
  <2>3. CASE ~FindExisting(c)
    BY <2>1, <2>3 DEF Tally, RejectRow, RowFails
  <2>4. QED BY <2>2, <2>3
<1>4. DoneBefore(i)' /\ (~imports.overlapped =>
        /\ \A d \in Calls : d # c => call[d] = NoCall
        /\ Behind(i)' /\ batch.cursor <= i /\ People')
  BY <1>0, <1>1, <1>2, <1>3, SameVault DEF Progress, OneCall, AtARow
<1>5. ASSUME NEW rec, CallIs(c, rec), CallFits(rec), rec.at \in {"row", "finish", "write"},
             DoneBefore(rec.i)', rec.i \in {i, i + 1},
             rec.at = "write" => /\ rec.found # 0 => rec.found \in DOMAIN vault'
                                 /\ ~imports.overlapped => WellFound(rec.i, rec)'
      PROVE  ImportInv'
  <2>1. rec # NoCall /\ rec.at \in AtARow /\ batch.cursor \in Nat
    BY <1>1, <1>5 DEF NoCall, AtARow, ImportTypes
  <2>2. ImportTypes'
    BY <1>1, <1>3, <1>5, ThisCallMoves DEF ImportTypes
  <2>3. Progress'
    BY <1>1, <1>3, <1>5, SameVault, ProgressMoves DEF Progress
  <2>4. ~imports.overlapped => Behind(rec.i)' /\ batch.cursor <= rec.i
    <3>1. Behind(i)' => Behind(i + 1)'
      <4>1. \A j \in DOMAIN vault' : \A l \in vault'[j].lines : l \in Nat
        BY <2>2, VaultIsTyped DEF ImportTypes
      <4>2. QED BY <1>2, <4>1 DEF Behind
    <3>2. QED BY <1>2, <1>4, <1>5, <2>1, <3>1
  <2>5. OneCall'
    BY <1>1, <1>3, <1>4, <1>5, <2>1, <2>4, OneCallMoves
  <2>6. QED
    BY <1>1, <1>3, <2>2, <2>3, <2>5, SameVault DEF ImportInv
<1>6. CASE RejectRow(c)
  <2>1. Stored(i)' /\ Out(i)'
    BY <1>0, <1>6 DEF RejectRow, Stored, Out
  <2>2. DoneBefore(i + 1)'
    BY <1>2, <1>4, <2>1, PayloadIsTyped DEF DoneBefore
  <2>3. CallIs(c, AtRow(i + 1))
    BY <1>0, <1>6 DEF RejectRow
  <2>4. QED
    BY <1>2, <1>5, <2>2, <2>3, AtRowFits
<1>7. CASE FindExisting(c)
  <2>1. Matches(i)' = Matches(i) /\ Matches(i) \subseteq DOMAIN vault /\ DOMAIN vault \subseteq Nat
        /\ 0 \notin DOMAIN vault
    BY <1>1 DEF Matches, ImportTypes
  <2>2. CASE Matches(i) = {} /\ CallIs(c, [at |-> "write", i |-> i, found |-> 0])
    <3> DEFINE rec == [at |-> "write", i |-> i, found |-> 0]
    <3>1. rec.at = "write" /\ rec.i = i /\ rec.found = 0 /\ CallFits(rec)
      BY <1>2 DEF CallFits, AtARow
    <3>2. CallIs(c, rec)
      BY <2>2
    <3> HIDE DEF rec
    <3>3. WellFound(i, rec)'
      BY <2>1, <2>2, <3>1 DEF WellFound
    <3>4. QED
      BY <1>4, <1>5, <3>1, <3>2, <3>3
  <2>3. ASSUME NEW j \in Matches(i),
               CallIs(c, [at |-> "write", i |-> i, found |-> j, was |-> vault[j]])
        PROVE  ImportInv'
    <3>0. PICK rec : rec = [at |-> "write", i |-> i, found |-> j, was |-> vault[j]]
      OBVIOUS
    <3>1. j \in DOMAIN vault /\ j \in Nat /\ j # 0 /\ vault[j] \in Contact
      BY <1>1, <2>1, <2>3 DEF ImportTypes
    <3>2. rec.at = "write" /\ rec.i = i /\ rec.found = j /\ rec.was = vault[j] /\ CallFits(rec)
      BY <1>2, <3>0, <3>1 DEF CallFits, AtARow
    <3>3. CallIs(c, rec)
      BY <2>3, <3>0
    <3>4. WellFound(i, rec)'
      BY <1>1, <1>3, <1>7, <2>1, <2>3, <3>1, <3>2, Zenon DEF WellFound
    <3>5. QED
      BY <1>1, <1>4, <1>5, <3>1, <3>2, <3>3, <3>4
  <2>4. QED
    BY <1>0, <1>7, <2>2, <2>3 DEF FindExisting
<1>8. CASE RowFails(c)
  BY <1>2, <1>4, <1>5, <1>8, <1>0, AtRowFits DEF RowFails
<1>9. QED BY <1>6, <1>7, <1>8

(* The row that a write makes or changes: it is f, and x afterwards.         *)
Written(f, x, i) ==
  /\ f \in Nat \ {0} /\ x \in Contact /\ i \in x.lines
  /\ vault' \in Seq(Contact) /\ DOMAIN vault' = DOMAIN vault \cup {f}
  /\ vault'[f] = x /\ \A j \in DOMAIN vault : j # f => vault'[j] = vault[j]
  /\ Row[i].minor => x.minor = TRUE
  /\ f \in DOMAIN vault => /\ x.lines = vault[f].lines \cup {i}
                           /\ vault[f].minor = TRUE => x.minor = TRUE
  /\ f \notin DOMAIN vault => x.lines = {i} /\ x.minor = Row[i].minor

(* What it makes of one of its two identifiers. *)
Takes(old, new, now) ==
  /\ now \in {old, new}
  /\ old # NoKey => now = old
  /\ old = NoKey => now = new

(* While no two calls overlapped, the row lacks nothing that the line has,   *)
(* and every other contact of the line is split off.                         *)
WellWritten(f, x, i) ==
  /\ f \notin DOMAIN vault =>
       Matches(i) = {} /\ x.phone = Row[i].phone /\ x.email = Row[i].email
  /\ f \in DOMAIN vault =>
       /\ f \in Matches(i) /\ \A k \in Matches(i) : k # f => i \in imports.split
       /\ Takes(vault[f].phone, Row[i].phone, x.phone)
       /\ Takes(vault[f].email, Row[i].email, x.email)

LEMMA TheWrite ==
  ASSUME ImportInv, NEW c \in Calls, call[c].at = "write", Writes(c), NEW i, i = call[c].i
  PROVE  \E f, x : Written(f, x, i) /\ (~imports.overlapped => WellWritten(f, x, i))
<1>1. ImportTypes /\ vault \in Seq(Contact)
  BY DEF ImportInv, ImportTypes
<1>2. PICK w : w = call[c]
  OBVIOUS
<1>3. /\ w.i = i /\ i \in DOMAIN Row /\ w.found \in Nat
      /\ w.found # 0 => w.was \in Contact /\ w.found \in DOMAIN vault
      /\ ~imports.overlapped => WellFound(i, w)
  BY <1>1, <1>2 DEF ImportInv, ImportTypes, CallFits, AtARow, NoCall, Progress, OneCall
<1>4. /\ Row[i].phone \in Keys /\ Row[i].email \in Keys /\ Row[i].minor \in BOOLEAN
  BY <1>3, PayloadIsTyped
<1>5. CASE w.found = 0
  <2>1. PICK f, x : f = Len(vault) + 1 /\ x = NewContact(i)
    OBVIOUS
  <2>2. vault' = Append(vault, x)
    BY <1>2, <1>3, <1>5, <2>1 DEF Writes
  <2>3. /\ x \in Contact /\ x.lines = {i} /\ x.phone = Row[i].phone /\ x.email = Row[i].email
        /\ x.minor = Row[i].minor
    BY <1>3, <1>4, <2>1 DEF NewContact, Contact
  <2>4. /\ f \in Nat \ {0} /\ vault' \in Seq(Contact) /\ DOMAIN vault' = DOMAIN vault \cup {f}
        /\ vault'[f] = x /\ \A j \in DOMAIN vault : vault'[j] = vault[j]
        /\ f \notin DOMAIN vault
    <3>1. /\ Len(vault) \in Nat /\ DOMAIN vault = 1..Len(vault)
          /\ vault' \in Seq(Contact) /\ Len(vault') = f /\ DOMAIN vault' = 1..f
          /\ vault'[f] = x /\ \A j \in 1..Len(vault) : vault'[j] = vault[j]
      BY <1>1, <2>1, <2>2, <2>3
    <3>2. QED BY <2>1, <3>1
  <2>5. Written(f, x, i)
    BY <1>4, <2>3, <2>4 DEF Written
  <2>6. ~imports.overlapped => WellWritten(f, x, i)
    BY <1>3, <1>5, <2>3, <2>4 DEF WellFound, WellWritten
  <2>7. QED BY <2>5, <2>6
<1>6. CASE w.found # 0
  <2>1. PICK f : f = w.found
    OBVIOUS
  <2>2. PICK y : y = vault[f]
    OBVIOUS
  <2>3. PICK x : x = Merged(y, w.was, i)
    OBVIOUS
  <2>4. f \in DOMAIN vault /\ f \in Nat \ {0} /\ y \in Contact /\ w.was \in Contact
    BY <1>1, <1>3, <1>6, <2>1, <2>2
  <2>5. vault' = [vault EXCEPT ![f] = x]
    BY <1>2, <1>3, <1>6, <2>1, <2>2, <2>3 DEF Writes
  <2>6. /\ y.phone \in Keys /\ y.email \in Keys /\ y.minor \in BOOLEAN
        /\ y.lines \in SUBSET (DOMAIN Row)
    BY <2>4 DEF Contact
  <2>7. /\ x.lines = y.lines \cup {i} /\ x.phone = Fill(y.phone, w.was.phone, Row[i].phone)
        /\ x.email = Fill(y.email, w.was.email, Row[i].email)
        /\ x.minor = (y.minor \/ Row[i].minor)
    BY <2>3 DEF Merged
  <2>8. x \in Contact
    <3>1. (y.minor \/ Row[i].minor) \in BOOLEAN
      OBVIOUS
    <3>2. /\ Fill(y.phone, w.was.phone, Row[i].phone) \in Keys
          /\ Fill(y.email, w.was.email, Row[i].email) \in Keys
      BY <1>4, <2>6 DEF Fill
    <3>3. y.lines \cup {i} \in SUBSET (DOMAIN Row)
      BY <1>3, <2>6
    <3>4. QED BY <2>3, <3>1, <3>2, <3>3 DEF Merged, Contact
  <2>9. /\ vault' \in Seq(Contact) /\ DOMAIN vault' = DOMAIN vault /\ vault'[f] = x
        /\ \A j \in DOMAIN vault : j # f => vault'[j] = vault[j]
    BY <1>1, <2>4, <2>5, <2>8
  <2>10. Written(f, x, i)
    <3>1. (Row[i].minor => x.minor = TRUE) /\ (y.minor = TRUE => x.minor = TRUE)
      BY <2>7
    <3>2. DOMAIN vault' = DOMAIN vault \cup {f}
      BY <2>4, <2>9
    <3>3. i \in x.lines
      BY <2>7
    <3>4. QED BY <2>2, <2>4, <2>7, <2>8, <2>9, <3>1, <3>2, <3>3, Zenon DEF Written
  <2>11. ~imports.overlapped => WellWritten(f, x, i)
    <3>1. SUFFICES ASSUME ~imports.overlapped PROVE WellWritten(f, x, i)
      OBVIOUS
    <3>2. f \in Matches(i) /\ w.was = y /\ \A k \in Matches(i) : k # f => i \in imports.split
      BY <1>3, <1>6, <2>1, <2>2, <3>1 DEF WellFound
    <3>3. /\ Takes(y.phone, Row[i].phone, x.phone)
          /\ Takes(y.email, Row[i].email, x.email)
      BY <2>7, <3>2 DEF Fill, Takes
    <3>4. QED BY <2>2, <2>4, <3>2, <3>3 DEF WellWritten
  <2>12. QED BY <2>10, <2>11
<1>7. QED BY <1>5, <1>6

(* What is stored stays stored, and so does a flag. *)
LEMMA StoredStays ==
  ASSUME ImportInv, NEW f, NEW x, NEW i, Written(f, x, i)
  PROVE  /\ DOMAIN vault \subseteq DOMAIN vault' /\ VaultFits'
         /\ \A k : Stored(k) => Stored(k)'
         /\ Stored(i)'
<1>1. \A j \in DOMAIN vault : vault[j].lines \subseteq vault'[j].lines
  BY DEF Written
<1>2. DOMAIN vault \subseteq DOMAIN vault' /\ f \in DOMAIN vault' /\ i \in vault'[f].lines
  BY DEF Written
<1>3. \A k : Stored(k) => Stored(k)'
  BY <1>1, <1>2 DEF Stored
<1>4. ASSUME NEW j \in DOMAIN vault', NEW l \in vault'[j].lines, Row[l].minor
      PROVE  vault'[j].minor = TRUE
  <2>1. CASE j # f
    BY <1>4, <2>1 DEF Written, ImportInv, VaultFits
  <2>2. CASE j = f /\ l = i
    BY <1>4, <2>2 DEF Written
  <2>3. CASE j = f /\ l # i
    <3>1. f \in DOMAIN vault /\ l \in vault[f].lines
      BY <1>4, <2>3 DEF Written
    <3>2. vault[f].minor = TRUE
      BY <1>4, <3>1 DEF ImportInv, VaultFits
    <3>3. QED BY <2>3, <3>1, <3>2 DEF Written
  <2>4. QED BY <2>1, <2>2, <2>3
<1>5. QED BY <1>2, <1>3, <1>4 DEF VaultFits, Stored

LEMMA SharingIsMutual ==
  \A x, y : Shares(x, y) <=> Shares(y, x)
BY DEF Shares

(* What the written row shares beyond what it shared before, the line does.  *)
LEMMA TheRowTakes ==
  ASSUME NEW f \in DOMAIN vault, NEW x, NEW i,
         Takes(vault[f].phone, Row[i].phone, x.phone),
         Takes(vault[f].email, Row[i].email, x.email),
         f \in Matches(i)
  PROVE  /\ Kept(x, Row[i])
         /\ \A y : Shares(vault[f], y) => Shares(x, y)
         /\ \A y : Kept(vault[f], y) => Kept(x, y)
         /\ \A y : Shares(x, y) => Shares(vault[f], y) \/ Shares(Row[i], y)
<1>1. Shares(vault[f], Row[i])
  BY DEF Matches
<1>2. \A y : Shares(vault[f], y) => Shares(x, y)
  BY DEF Takes, Shares
<1>3. \A y : Shares(x, y) => Shares(vault[f], y) \/ Shares(Row[i], y)
  BY DEF Takes, Shares
<1>4. \A y : Kept(vault[f], y) => Kept(x, y)
  BY <1>2 DEF Takes, Kept
<1>5. Kept(x, Row[i])
  BY <1>1, <1>2 DEF Takes, Kept
<1>6. QED BY <1>2, <1>3, <1>4, <1>5

(* A write makes two contacts of one person only where its line is found     *)
(* under both, and leaves an unflagged one only where the line is split off  *)
(* or turned away.                                                           *)
LEMMA PeopleStay ==
  ASSUME ImportInv, ~imports.overlapped, People, NEW f, NEW x, NEW i, i \in DOMAIN Row,
         Written(f, x, i), WellWritten(f, x, i), Behind(i),
         imports'.split = imports.split, imports.redone \subseteq imports'.redone
  PROVE  People'
<1>1. /\ f \in DOMAIN vault' /\ DOMAIN vault' = DOMAIN vault \cup {f}
      /\ vault'[f] = x /\ \A j \in DOMAIN vault : j # f => vault'[j] = vault[j]
      /\ i \in x.lines
  BY DEF Written
<1>2. \A y : Shares(x, y) => Shares(Row[i], y) \/ (f \in DOMAIN vault /\ Shares(vault[f], y))
  <2>1. CASE f \in DOMAIN vault
    BY <2>1, TheRowTakes DEF WellWritten
  <2>2. CASE f \notin DOMAIN vault
    BY <2>2 DEF WellWritten, Shares
  <2>3. QED BY <2>1, <2>2
<1>3. Kept(x, Row[i]) /\ (Ids(Row[i]) # {} => f \in Matches(i)')
  <2>1. CASE f \in DOMAIN vault
    BY <1>1, <2>1, TheRowTakes DEF WellWritten, Kept, Matches
  <2>2. CASE f \notin DOMAIN vault
    <3>1. Kept(x, Row[i])
      BY <2>2 DEF WellWritten, Kept, Shares, Ids
    <3>2. QED BY <1>1, <3>1 DEF Kept, Matches
  <2>3. QED BY <2>1, <2>2
<1>4. \A m : Matches(m) \subseteq Matches(m)'
  <2>1. ASSUME NEW m, NEW j \in Matches(m) PROVE j \in Matches(m)'
    <3>1. j \in DOMAIN vault /\ Shares(vault[j], Row[m])
      BY <2>1 DEF Matches
    <3>2. CASE j # f
      BY <1>1, <3>1, <3>2 DEF Matches
    <3>3. CASE j = f
      <4>1. Shares(x, Row[m])
        BY <3>1, <3>3, TheRowTakes DEF WellWritten
      <4>2. QED BY <1>1, <3>1, <3>3, <4>1 DEF Matches
    <3>4. QED BY <3>2, <3>3
  <2>2. QED BY <2>1
<1>5. \A m : \A j \in Matches(m)' : j # f => j \in DOMAIN vault /\ j \in Matches(m)
  BY <1>1 DEF Matches
<1>6. /\ \A j, k : Split(j, k) => Split(j, k)'
      /\ \A j : AlsoSplit(j) => AlsoSplit(j)'
  BY <1>4 DEF Split, AlsoSplit
<1>7. ASSUME NEW j \in Matches(i), j # f
      PROVE  Split(j, f)' /\ Split(f, j)' /\ AlsoSplit(j)'
  <2>1. f \in DOMAIN vault /\ i \in imports.split /\ f \in Matches(i)
    BY <1>7 DEF WellWritten
  <2>2. i \in imports'.split /\ j \in Matches(i)' /\ f \in Matches(i)'
    BY <1>4, <1>7, <2>1
  <2>3. QED BY <2>2 DEF Split, AlsoSplit
<1>8. ASSUME NEW l, Turned(l) PROVE Turned(l)'
  <2>1. PICK k \in DOMAIN vault :
          /\ l \in vault[k].lines
          /\ \/ Row[l].phone # NoKey /\ vault[k].phone \notin {NoKey, Row[l].phone}
             \/ Row[l].email # NoKey /\ vault[k].email \notin {NoKey, Row[l].email}
    BY <1>8 DEF Turned
  <2>2. CASE k # f
    BY <1>1, <2>1, <2>2 DEF Turned
  <2>3. CASE k = f
    <3>1. /\ vault[f].phone # NoKey => x.phone = vault[f].phone
          /\ vault[f].email # NoKey => x.email = vault[f].email
      BY <2>3 DEF WellWritten, Takes
    <3>2. l \in x.lines
      BY <2>1, <2>3 DEF Written
    <3>3. QED BY <1>1, <2>1, <2>3, <3>1, <3>2 DEF Turned
  <2>4. QED BY <2>2, <2>3
<1>9. ASSUME NEW j \in DOMAIN vault', NEW l \in vault'[j].lines
       PROVE  Kept(vault'[j], Row[l])
  <2>1. CASE j # f
    BY <1>1, <1>9, <2>1 DEF People
  <2>2. CASE j = f /\ l = i
    BY <1>1, <1>3, <2>2
  <2>3. CASE j = f /\ l # i
    <3>1. f \in DOMAIN vault /\ l \in vault[f].lines
      BY <1>1, <1>9, <2>3 DEF Written
    <3>2. Kept(vault[f], Row[l])
      BY <3>1 DEF People
    <3>3. QED BY <1>1, <2>3, <3>1, <3>2, TheRowTakes DEF WellWritten
  <2>4. QED BY <2>1, <2>2, <2>3
<1>10. ASSUME NEW j \in DOMAIN vault, j # f, Shares(vault[j], x)
       PROVE  Split(j, f)' /\ Split(f, j)'
  <2>1. CASE Shares(Row[i], vault[j])
    <3>1. j \in Matches(i)
      BY <2>1, SharingIsMutual DEF Matches
    <3>2. QED BY <1>7, <1>10, <3>1
  <2>2. CASE f \in DOMAIN vault /\ Shares(vault[f], vault[j])
    <3>1. Split(f, j)
      BY <1>10, <2>2 DEF People
    <3>2. QED BY <1>6, <3>1 DEF Split
  <2>3. QED BY <1>2, <1>10, <2>1, <2>2, SharingIsMutual
<1>11. ASSUME NEW j \in DOMAIN vault, j # f, NEW l, l \in vault[j].lines, l \in x.lines
       PROVE  IF Ids(Row[l]) = {} THEN l \in imports'.redone
              ELSE Split(j, f)' /\ Split(f, j)'
  <2>1. CASE l = i
    <3>1. Ids(Row[i]) = {} => i \in imports.redone
      <4>1. ~(i < i)
        BY PayloadIsTyped
      <4>2. QED BY <1>11, <2>1, <4>1 DEF Behind
    <3>2. CASE Ids(Row[i]) # {}
      <4>1. Shares(vault[j], Row[i])
        BY <1>11, <2>1, <3>2 DEF People, Kept
      <4>2. j \in Matches(i)
        BY <4>1 DEF Matches
      <4>3. QED BY <1>7, <1>11, <2>1, <3>2, <4>2
    <3>3. QED BY <2>1, <3>1, <3>2
  <2>2. CASE l # i
    <3>1. f \in DOMAIN vault /\ l \in vault[f].lines
      BY <1>11, <2>2 DEF Written
    <3>2. IF Ids(Row[l]) = {} THEN l \in imports.redone ELSE Split(j, f)
      BY <1>11, <3>1 DEF People
    <3>3. QED BY <1>6, <3>2 DEF Split
  <2>3. QED BY <2>1, <2>2
<1>12. ASSUME NEW j \in DOMAIN vault', NEW k \in DOMAIN vault', j # k
       PROVE  /\ Shares(vault'[j], vault'[k]) => Split(j, k)'
              /\ \A l \in vault'[j].lines \cap vault'[k].lines :
                   IF Ids(Row[l]) = {} THEN l \in imports'.redone ELSE Split(j, k)'
  <2>1. CASE j # f /\ k # f
    <3>1. j \in DOMAIN vault /\ k \in DOMAIN vault
          /\ vault'[j] = vault[j] /\ vault'[k] = vault[k]
      BY <1>1, <2>1
    <3>2. /\ Shares(vault[j], vault[k]) => Split(j, k)
          /\ \A l \in vault[j].lines \cap vault[k].lines :
               IF Ids(Row[l]) = {} THEN l \in imports.redone ELSE Split(j, k)
      BY <1>12, <3>1 DEF People
    <3>3. QED BY <1>6, <3>1, <3>2
  <2>2. CASE k = f
    <3>1. j \in DOMAIN vault /\ j # f /\ vault'[j] = vault[j]
      BY <1>1, <1>12, <2>2
    <3>2. QED BY <1>1, <1>10, <1>11, <2>2, <3>1
  <2>3. CASE j = f
    <3>1. k \in DOMAIN vault /\ k # f /\ vault'[k] = vault[k]
      BY <1>1, <1>12, <2>3
    <3>2. QED BY <1>1, <1>10, <1>11, <2>3, <3>1, SharingIsMutual
  <2>4. QED BY <2>1, <2>2, <2>3
<1>13. ASSUME NEW l \in DOMAIN Row, NEW k \in DOMAIN vault', NEW j \in Matches(l)',
              Row[l].minor, l \in vault'[k].lines, vault'[j].minor # TRUE
       PROVE  AlsoSplit(j)' \/ Turned(l)'
  <2>1. l = i => f # j
    BY <1>1, <1>13 DEF Written
  <2>2. CASE l = i
    <3>1. j \in Matches(i) /\ j # f
      BY <1>5, <1>13, <2>1, <2>2
    <3>2. QED BY <1>7, <3>1
  <2>3. CASE l # i
    <3>1. k \in DOMAIN vault /\ l \in vault[k].lines
      BY <1>1, <1>13, <2>3 DEF Written
    <3>2. CASE j \in Matches(l)
      <4>1. j \in DOMAIN vault /\ vault[j].minor # TRUE
        BY <1>1, <1>13, <3>2 DEF Matches, Written
      <4>2. AlsoSplit(j) \/ Turned(l)
        BY <1>13, <3>1, <3>2, <4>1 DEF People
      <4>3. QED BY <1>6, <1>8, <4>2
    <3>3. CASE j \notin Matches(l)
      <4>1. j = f /\ Shares(x, Row[l])
        BY <1>1, <1>5, <1>13, <3>3 DEF Matches
      <4>2. k # f
        <5>1. vault'[k].minor = TRUE
          BY <1>13, StoredStays DEF VaultFits
        <5>2. QED BY <1>13, <4>1, <5>1
      <4>3. CASE k \in Matches(i)
        <5>1. i \in imports.split /\ f \in Matches(i)
          BY <4>2, <4>3 DEF WellWritten
        <5>2. AlsoSplit(f)'
          BY <1>4, <5>1 DEF AlsoSplit
        <5>3. QED BY <4>1, <5>2
      <4>4. CASE k \notin Matches(i)
        <5>1. ~Shares(vault[k], Row[i])
          BY <3>1, <4>4 DEF Matches
        <5>2. Kept(vault[k], Row[l])
          BY <3>1 DEF People
        <5>3. ~(f \in DOMAIN vault /\ Shares(vault[f], Row[l]))
          BY <3>3, <4>1 DEF Matches
        <5>4. Shares(Row[i], Row[l])
          BY <1>2, <4>1, <5>3
        <5>5. \/ Row[l].phone # NoKey /\ vault[k].phone \notin {NoKey, Row[l].phone}
              \/ Row[l].email # NoKey /\ vault[k].email \notin {NoKey, Row[l].email}
          BY <5>1, <5>2, <5>4 DEF Shares, Kept
        <5>6. Turned(l)
          BY <3>1, <5>5 DEF Turned
        <5>7. QED BY <1>8, <5>6
      <4>5. QED BY <4>3, <4>4
    <3>4. QED BY <3>2, <3>3
  <2>4. QED BY <2>2, <2>3
<1>14. \A l \in DOMAIN Row : \A k \in DOMAIN vault' : \A j \in Matches(l)' :
         Row[l].minor /\ l \in vault'[k].lines =>
           vault'[j].minor = TRUE \/ AlsoSplit(j)' \/ Turned(l)'
  BY <1>13
<1>15. QED BY <1>9, <1>12, <1>14 DEF People

(* Behind the line written, only itself is new. *)
LEMMA BehindTheWrite ==
  ASSUME ImportInv, NEW f, NEW x, NEW i, i \in DOMAIN Row, Written(f, x, i), Behind(i),
         imports.redone \subseteq imports'.redone
  PROVE  /\ Behind(i + 1)'
         /\ Ids(Row[i]) # {} \/ i \in imports'.redone => Behind(i)'
<1>1. ASSUME NEW j \in DOMAIN vault', NEW l \in vault'[j].lines, Ids(Row[l]) = {}
      PROVE  /\ l < i \/ l = i \/ l \in imports'.redone
             /\ l \in Nat
  <2>1. l = i \/ (\E k \in DOMAIN vault : l \in vault[k].lines)
    BY <1>1 DEF Written
  <2>2. l \in Nat
    BY <1>1, VaultIsTyped DEF Written
  <2>3. QED BY <1>1, <2>1, <2>2 DEF Behind
<1>2. i \in Nat
  BY PayloadIsTyped
<1>3. QED BY <1>1, <1>2 DEF Behind

(* The call opts its minor out, goes on, or stops at the line. *)
LEMMA WriteKeeps ==
  ASSUME ImportInv, NEW c \in Calls, call[c].at = "write", Writes(c),
         NEW i, i = call[c].i, NEW rec, CallIs(c, rec), CallFits(rec),
         rec.at \in {"optOut", "row", "finish"}, rec.i \in {i, i + 1},
         rec.i = i => Ids(Row[i]) # {} \/ i \in imports'.redone,
         rec.i # i => ~Row[i].minor \/ Ids(Row[i]) = {},
         rec.at = "optOut" => rec.i = i,
         UNCHANGED <<batch, registry>>, imports' \in Tally,
         imports'.overlapped = imports.overlapped,
         imports.redone \subseteq imports'.redone, imports'.split = imports.split
  PROVE  ImportInv'
<1>1. /\ ImportTypes /\ VaultFits /\ Progress /\ OneCall
      /\ i \in Nat \ {0} /\ i \in DOMAIN Row /\ i + 1 \in Nat \ {0} /\ call[c] # NoCall
      /\ batch.cursor \in Nat
  BY DEF ImportInv, ImportTypes, CallFits, AtARow, NoCall
<1>2. PICK f, x : Written(f, x, i) /\ (~imports.overlapped => WellWritten(f, x, i))
  BY TheWrite
<1>3. /\ DOMAIN vault \subseteq DOMAIN vault' /\ VaultFits' /\ Stored(i)'
      /\ \A k : Stored(k) => Stored(k)'
  BY <1>2, StoredStays
<1>4. rec # NoCall /\ rec.at \in AtARow /\ rec.at # "write" /\ rec.at # "create"
  BY DEF NoCall, AtARow
<1>5. ImportTypes'
  BY <1>1, <1>2, ThisCallMoves DEF ImportTypes, Written
<1>6. /\ \A k : Out(k) => Out(k)'
      /\ \A p : DoneBefore(p) => DoneBefore(p)'
  BY <1>3 DEF Out, DoneBefore
<1>7. DoneBefore(rec.i)'
  <2>1. DoneBefore(i)'
    BY <1>1, <1>6 DEF Progress, AtARow
  <2>2. CASE rec.i = i
    BY <2>1, <2>2
  <2>3. CASE rec.i # i
    <3>1. Out(i)'
      BY <2>3 DEF Out
    <3>2. DoneBefore(i + 1)'
      BY <1>1, <1>3, <2>1, <3>1, PayloadIsTyped DEF DoneBefore
    <3>3. QED BY <2>3, <3>2
  <2>4. QED BY <2>2, <2>3
<1>8. Progress'
  <2>1. DoneBefore(batch.cursor)' /\ (batch'.status = "COMPLETED" => batch'.cursor > Len(Row))
    BY <1>1, <1>6 DEF Progress
  <2>2. rec.at = "optOut" => Stored(rec.i)'
    BY <1>3
  <2>3. QED
    BY <1>1, <1>3, <1>4, <1>6, <1>7, <2>1, <2>2, ProgressMoves
<1>9. OneCall'
  <2>1. ASSUME ~imports.overlapped
        PROVE  /\ \A d \in Calls : d # c => call[d] = NoCall
               /\ batch.cursor <= i /\ Behind(i) /\ People
    BY <1>1, <2>1 DEF OneCall, AtARow
  <2>2. ASSUME ~imports.overlapped PROVE People'
    BY <1>1, <1>2, <2>1, <2>2, PeopleStay
  <2>3. ASSUME ~imports.overlapped PROVE Behind(rec.i)' /\ batch'.cursor <= rec.i
    <3>1. Behind(i + 1)' /\ (Ids(Row[i]) # {} \/ i \in imports'.redone => Behind(i)')
      BY <1>1, <1>2, <2>1, <2>3, BehindTheWrite
    <3>2. QED BY <1>1, <2>1, <2>3, <3>1
  <2>4. QED
    BY <1>1, <1>4, <2>1, <2>2, <2>3, OneCallMoves
<1>10. QED BY <1>3, <1>5, <1>8, <1>9 DEF ImportInv

LEMMA StoreKeeps ==
  ASSUME ImportInv, NEW c \in Calls, StoreContact(c)
  PROVE  ImportInv'
<1>1. PICK i : i = call[c].i
  OBVIOUS
<1>2. PICK rec : rec = IF Row[i].minor /\ Ids(Row[i]) # {} THEN [at |-> "optOut", i |-> i]
                       ELSE AtRow(i + 1)
  OBVIOUS
<1>3. /\ call[c].at = "write" /\ Writes(c) /\ CallIs(c, rec)
      /\ UNCHANGED <<batch, registry, imports>>
  BY <1>1, <1>2, Zenon DEF StoreContact
<1>4. i \in Nat \ {0} /\ i \in DOMAIN Row /\ i + 1 \in Nat \ {0}
  BY <1>1, <1>3 DEF ImportInv, ImportTypes, CallFits, AtARow, NoCall
<1>5. /\ CallFits(AtRow(i + 1)) /\ AtRow(i + 1).i = i + 1
      /\ AtRow(i + 1).at \in {"row", "finish"}
  BY <1>4, AtRowFits
<1>6. /\ CallFits(rec) /\ rec.at \in {"optOut", "row", "finish"} /\ rec.i \in {i, i + 1}
      /\ rec.at = "optOut" => rec.i = i
      /\ rec.i = i => Ids(Row[i]) # {}
      /\ rec.i # i => ~Row[i].minor \/ Ids(Row[i]) = {}
  <2>1. CASE Row[i].minor /\ Ids(Row[i]) # {}
    BY <1>2, <1>4, <2>1 DEF CallFits, AtARow
  <2>2. CASE ~(Row[i].minor /\ Ids(Row[i]) # {})
    BY <1>2, <1>4, <1>5, <2>2
  <2>3. QED BY <2>1, <2>2
<1>7. imports' \in Tally
  BY <1>3 DEF ImportInv, ImportTypes
<1>8. QED BY <1>1, <1>3, <1>6, <1>7, WriteKeeps

LEMMA WriteLostKeeps ==
  ASSUME ImportInv, NEW c \in Calls, WriteLost(c)
  PROVE  ImportInv'
<1>1. PICK i, rec : i = call[c].i /\ rec = [at |-> "finish", i |-> i]
  OBVIOUS
<1>2. /\ call[c].at = "write" /\ Writes(c) /\ CallIs(c, rec) /\ UNCHANGED <<batch, registry>>
      /\ imports' = [imports EXCEPT !.faults = @ + 1, !.redone = @ \cup {i}]
  BY <1>1 DEF WriteLost
<1>3. i \in Nat \ {0}
  BY <1>1, <1>2 DEF ImportInv, ImportTypes, CallFits, AtARow, NoCall
<1>4. CallFits(rec) /\ rec.at = "finish" /\ rec.i = i
  BY <1>1, <1>3, AtRowFits
<1>5. /\ imports' \in Tally /\ imports'.overlapped = imports.overlapped
      /\ imports.redone \subseteq imports'.redone /\ i \in imports'.redone
      /\ imports'.split = imports.split
  <2>1. imports \in Tally
    BY DEF ImportInv, ImportTypes
  <2>2. ASSUME NEW h \in Tally, NEW n \in Nat, NEW s \in SUBSET Nat,
               imports' = [h EXCEPT !.faults = n, !.redone = s]
        PROVE  /\ imports' \in Tally /\ imports'.overlapped = h.overlapped
               /\ imports'.redone = s /\ imports'.split = h.split
    BY <2>2 DEF Tally
  <2>3. imports.faults + 1 \in Nat /\ imports.redone \cup {i} \in SUBSET Nat
    BY <1>3, <2>1 DEF Tally
  <2>4. imports' = [imports EXCEPT !.faults = imports.faults + 1,
                                   !.redone = imports.redone \cup {i}]
    BY <1>2
  <2>5. QED BY <2>1, <2>2, <2>3, <2>4
<1>6. QED BY <1>1, <1>2, <1>4, <1>5, WriteKeeps

LEMMA OptOutKeeps ==
  ASSUME ImportInv, NEW c \in Calls, OptOutMinor(c)
  PROVE  ImportInv'
<1>0. PICK i : i = call[c].i
  OBVIOUS
<1>1. /\ ImportTypes /\ Progress /\ OneCall
      /\ call[c].at = "optOut" /\ registry' = registry \cup Ids(Row[i])
      /\ CallIs(c, AtRow(i + 1)) /\ UNCHANGED <<batch, vault, imports>>
  BY <1>0 DEF ImportInv, OptOutMinor
<1>2. /\ i \in DOMAIN Row /\ i \in Nat \ {0} /\ i + 1 \in Nat \ {0} /\ call[c] # NoCall
      /\ imports' \in Tally
  BY <1>0, <1>1 DEF ImportTypes, CallFits, AtARow, NoCall
<1>3. /\ CallFits(AtRow(i + 1)) /\ AtRow(i + 1).i = i + 1
      /\ AtRow(i + 1).at \in {"row", "finish"} /\ AtRow(i + 1) # NoCall
  <2>1. /\ CallFits(AtRow(i + 1)) /\ AtRow(i + 1).i = i + 1
        /\ AtRow(i + 1).at \in {"row", "finish"}
    BY <1>2, AtRowFits
  <2>2. NoCall.at = "idle"
    BY DEF NoCall
  <2>3. QED BY <2>1, <2>2
<1>4. /\ VaultFits' /\ \A k : Stored(k) => Stored(k)'
      /\ \A k : Out(k) => Out(k)'
      /\ \A p : Behind(p) => Behind(p)'
      /\ \A p : DoneBefore(p) => DoneBefore(p)'
      /\ ~imports.overlapped => People'
  BY <1>1, <1>2, SameVault
<1>5. DoneBefore(i + 1)' /\ DoneBefore(batch.cursor)'
  <2>1. DoneBefore(i)' /\ Stored(i)' /\ DoneBefore(batch.cursor)'
    BY <1>0, <1>1, <1>4 DEF Progress, AtARow
  <2>2. Out(i)'
    BY <1>1 DEF Out
  <2>3. QED BY <1>2, <2>1, <2>2, PayloadIsTyped DEF DoneBefore
<1>6. ImportTypes'
  BY <1>1, <1>2, <1>3, ThisCallMoves DEF ImportTypes
<1>7. Progress'
  BY <1>1, <1>3, <1>4, <1>5, ProgressMoves DEF Progress
<1>8. OneCall'
  <2>1. ~imports.overlapped =>
          /\ \A d \in Calls : d # c => call[d] = NoCall
          /\ Behind(i) /\ batch.cursor <= i
    BY <1>0, <1>1, <1>2 DEF OneCall, AtARow
  <2>2. ~imports.overlapped => Behind(i + 1)
    <3>1. \A j \in DOMAIN vault : \A l \in vault[j].lines : l \in Nat
      BY <1>1, VaultIsTyped DEF ImportTypes
    <3>2. QED BY <1>2, <2>1, <3>1 DEF Behind
  <2>3. ~imports.overlapped => batch.cursor <= i + 1
    BY <1>1, <1>2, <2>1 DEF ImportTypes
  <2>4. QED BY <1>1, <1>3, <1>4, <2>1, <2>2, <2>3, OneCallMoves
<1>9. QED BY <1>4, <1>6, <1>7, <1>8 DEF ImportInv

(* The end of a call puts the cursor where it stands, or leaves it and       *)
(* records the rows that are in the vault and will be done again.            *)
LEMMA EndKeeps ==
  ASSUME ImportInv, NEW c \in Calls, Finish(c) \/ CallDies(c)
  PROVE  ImportInv'
<1>0. PICK i : i = call[c].i
  OBVIOUS
<1>1. /\ ImportTypes /\ Progress /\ OneCall /\ CallIs(c, NoCall)
      /\ UNCHANGED vault /\ registry \subseteq registry' /\ call[c] # NoCall
  BY ShortOfOptOut DEF ImportInv, Finish, CallDies, NoCall
<1>2. CallFits(NoCall) /\ NoCall.at = "idle"
  BY DEF CallFits, NoCall
<1>3. /\ imports' \in Tally
      /\ imports'.overlapped = imports.overlapped /\ imports.redone \subseteq imports'.redone
      /\ imports'.split = imports.split
      /\ ~Finish(c) => \A j \in DOMAIN vault : \A l \in vault[j].lines :
           l >= batch.cursor => l \in imports'.redone
  <2>1. CASE Finish(c)
    <3>1. UNCHANGED imports
      BY <2>1 DEF Finish
    <3>2. QED BY <1>1, <2>1, <3>1 DEF ImportTypes
  <2>2. CASE ~Finish(c)
    <3> DEFINE again == {l \in DOMAIN Row : \E j \in DOMAIN vault :
                           l \in vault[j].lines /\ l >= batch.cursor}
    <3>1. imports' = [imports EXCEPT !.faults = @ + 1, !.redone = @ \cup again]
      BY <2>2 DEF CallDies
    <3>2. again \subseteq Nat
      BY PayloadIsTyped
    <3>3. \A j \in DOMAIN vault : \A l \in vault[j].lines : l >= batch.cursor => l \in again
      BY <1>1, VaultIsTyped DEF ImportTypes
    <3> HIDE DEF again
    <3>4. ASSUME NEW h \in Tally, NEW n \in Nat, NEW s \in SUBSET Nat,
                 imports' = [h EXCEPT !.faults = n, !.redone = s]
          PROVE  /\ imports' \in Tally /\ imports'.overlapped = h.overlapped
                 /\ imports'.redone = s /\ imports'.split = h.split
      BY <3>4 DEF Tally
    <3>5. /\ imports \in Tally
          /\ imports.faults + 1 \in Nat /\ imports.redone \cup again \in SUBSET Nat
      BY <1>1, <3>2 DEF ImportTypes, Tally
    <3>6. imports' = [imports EXCEPT !.faults = imports.faults + 1,
                                     !.redone = imports.redone \cup again]
      BY <3>1
    <3>7. /\ imports' \in Tally
          /\ imports'.overlapped = imports.overlapped
          /\ imports'.redone = imports.redone \cup again
          /\ imports'.split = imports.split
      BY <3>4, <3>5, <3>6
    <3>8. QED BY <2>2, <3>3, <3>7
  <2>3. QED BY <2>1, <2>2
<1>4. Finish(c) => /\ batch' = [status |-> IF i > Len(Row) THEN "COMPLETED" ELSE "IN_PROGRESS",
                               cursor |-> i]
                   /\ i \in Nat \ {0} /\ call[c].at \in AtARow
  BY <1>0, <1>1 DEF Finish, ImportTypes, CallFits, AtARow, NoCall
<1>5. ~Finish(c) => UNCHANGED batch
  BY DEF CallDies
<1>6. batch' \in [status : {"none", "IN_PROGRESS", "COMPLETED"}, cursor : Nat \ {0}]
  BY <1>1, <1>4, <1>5 DEF ImportTypes
<1>7. ImportTypes'
  BY <1>1, <1>2, <1>3, <1>6, ThisCallMoves DEF ImportTypes
<1>8. DoneBefore(batch.cursor)' /\ (batch'.status = "COMPLETED" => batch'.cursor > Len(Row))
  <2>1. CASE ~Finish(c)
    BY <1>1, <1>3, <1>5, <2>1, SameVault DEF Progress
  <2>2. CASE Finish(c)
    <3>1. DoneBefore(i)' /\ batch'.cursor = i
      BY <1>0, <1>1, <1>3, <1>4, <2>2, SameVault DEF Progress
    <3>2. batch'.status = "COMPLETED" => i > Len(Row)
      BY <1>4, <2>2
    <3>3. QED BY <3>1, <3>2
  <2>3. QED BY <2>1, <2>2
<1>9. Progress'
  BY <1>1, <1>2, <1>3, <1>8, SameVault, ProgressMoves DEF AtARow
<1>10. ~imports.overlapped => Behind(batch.cursor)'
  <2>1. CASE ~Finish(c)
    <3>1. \A j \in DOMAIN vault : \A l \in vault[j].lines : l \in Nat
      BY <1>1, VaultIsTyped DEF ImportTypes
    <3>2. batch.cursor \in Nat
      BY <1>1 DEF ImportTypes
    <3>3. QED BY <1>1, <1>3, <1>5, <2>1, <3>1, <3>2 DEF Behind
  <2>2. CASE Finish(c)
    <3>1. ~imports.overlapped => Behind(i)
      BY <1>0, <1>1, <1>4, <2>2 DEF OneCall
    <3>2. batch'.cursor = i
      BY <1>4, <2>2
    <3>3. QED BY <1>1, <1>3, <3>1, <3>2, SameVault
  <2>3. QED BY <2>1, <2>2
<1>11. OneCall'
  <2>1. ~imports.overlapped => /\ \A d \in Calls : d # c => call[d] = NoCall
                               /\ People'
    BY <1>1, <1>3, SameVault DEF OneCall
  <2>2. QED BY <1>1, <1>2, <1>3, <1>10, <2>1, OneCallMoves DEF AtARow
<1>12. QED BY <1>1, <1>3, <1>7, <1>9, <1>11, SameVault DEF ImportInv
-----------------------------------------------------------------------------
LEMMA ImportStarts ==
  ImportInit => ImportInv
<1> SUFFICES ASSUME ImportInit PROVE ImportInv
  OBVIOUS
<1>1. /\ batch = [status |-> "none", cursor |-> 1] /\ batch = NoBatch
      /\ vault = <<>> /\ registry = {}
      /\ imports = [calls |-> 0, faults |-> 0, overlapped |-> FALSE, redone |-> {}, split |-> {}]
  BY DEF ImportInit, NoBatch
<1>2. \A c \in Calls : call[c] = NoCall
  BY DEF ImportInit
<1>3. call = [c \in Calls |-> call[c]]
  BY <1>2 DEF ImportInit
<1>4. NoCall.at = "idle" /\ CallFits(NoCall)
  BY DEF NoCall, CallFits
<1>5. vault \in Seq(Contact) /\ DOMAIN vault = {}
  BY <1>1
<1>6. imports \in Tally
  BY <1>1 DEF Tally
<1>7. ImportTypes
  BY <1>1, <1>2, <1>3, <1>4, <1>5, <1>6 DEF ImportTypes
<1>8. VaultFits /\ People
  BY <1>5 DEF VaultFits, People
<1>9. Progress
  BY <1>1, <1>2, <1>4, PayloadIsTyped DEF Progress, DoneBefore, AtARow
<1>10. OneCall
  BY <1>1, <1>2, <1>4, <1>5, <1>8 DEF OneCall, Behind, AtARow
<1>11. QED BY <1>7, <1>8, <1>9, <1>10 DEF ImportInv

LEMMA ImportStep ==
  ImportInv /\ [ImportNext]_importVars => ImportInv'
<1> SUFFICES ASSUME ImportInv, [ImportNext]_importVars PROVE ImportInv'
  OBVIOUS
<1>1. CASE UNCHANGED importVars
  <2>1. /\ UNCHANGED <<batch, vault, registry, call, imports>>
    BY <1>1 DEF importVars
  <2>2. ImportTypes' /\ imports' \in Tally
    BY <2>1 DEF ImportInv, ImportTypes
  <2>3. Progress'
    BY <2>1, <2>2, SameVault DEF ImportInv, Progress
  <2>4. OneCall'
    <3>1. \A i, w : WellFound(i, w) => WellFound(i, w)'
      BY <2>1 DEF WellFound, Matches
    <3>2. QED BY <2>1, <2>2, <3>1, SameVault DEF ImportInv, OneCall
  <2>5. QED BY <2>1, <2>2, <2>3, <2>4, SameVault DEF ImportInv
<1>2. QED
  BY <1>1, BeginKeeps, CreateBatchKeeps, RowStepKeeps, StoreKeeps, WriteLostKeeps,
     OptOutKeeps, EndKeeps DEF ImportNext

LEMMA ImportAlways == ImportSpec => []ImportInv
BY ImportStarts, ImportStep, PTL DEF ImportSpec

(* A COMPLETED batch has every valid line in the vault and every minor       *)
(* flagged and opted out (vault.service.ts:152), for any payload and any     *)
(* number of calls, resumptions, failures, lost answers and overlaps; a      *)
(* contact with a minor's identifier that is not flagged has one of the      *)
(* three reasons the property names.                                         *)
THEOREM CompletedImportIsComplete == ImportSpec => []CompletedIsComplete
<1>1. ImportInv => CompletedIsComplete
  <2>1. SUFFICES ASSUME ImportInv, batch.status = "COMPLETED",
                        NEW i \in DOMAIN Row, Row[i].valid
                 PROVE  /\ \E j \in DOMAIN vault : i \in vault[j].lines
                        /\ Row[i].minor =>
                             /\ Ids(Row[i]) \subseteq registry
                             /\ \A j \in DOMAIN vault : i \in vault[j].lines => vault[j].minor
                             /\ \/ imports.overlapped \/ Turned(i)
                                \/ \A j \in Matches(i) :
                                     vault[j].minor \/ \E m \in imports.split : j \in Matches(m)
    BY DEF CompletedIsComplete
  <2>2. Stored(i) /\ Out(i)
    <3>1. i < batch.cursor
      BY <2>1, PayloadIsTyped DEF ImportInv, ImportTypes, Progress
    <3>2. QED BY <2>1, <3>1 DEF ImportInv, Progress, DoneBefore
  <2>3. PICK k \in DOMAIN vault : i \in vault[k].lines
    BY <2>1, <2>2 DEF Stored
  <2>4. ASSUME Row[i].minor, ~imports.overlapped, ~Turned(i), NEW j \in Matches(i)
        PROVE  vault[j].minor \/ \E m \in imports.split : j \in Matches(m)
    BY <2>1, <2>3, <2>4 DEF ImportInv, OneCall, People, AlsoSplit
  <2>5. ASSUME Row[i].minor PROVE Ids(Row[i]) \subseteq registry
    BY <2>1, <2>2, <2>5 DEF Out
  <2>6. ASSUME Row[i].minor, NEW j \in DOMAIN vault, i \in vault[j].lines PROVE vault[j].minor
    BY <2>1, <2>6 DEF ImportInv, VaultFits
  <2>7. QED BY <2>3, <2>4, <2>5, <2>6
<1>2. QED BY <1>1, ImportAlways, PTL

(* An identifier or a line is in the vault twice only when two calls         *)
(* overlapped, when a line was found under two contacts, or, for a line      *)
(* without identifier, when it was done again after a failure.               *)
THEOREM DuplicatesAreExplained == ImportSpec => []DuplicatesExplained
<1>1. ImportInv => DuplicatesExplained
  BY DEF ImportInv, OneCall, People, DuplicatesExplained
<1>2. QED BY <1>1, ImportAlways, PTL
-----------------------------------------------------------------------------
(* Booking. *)

Statuses == {"PROPOSED", "CONFIRMED", "DECLINED", "HELD", "NO_SHOW"}
Counting == {"PROPOSED", "CONFIRMED"}

BookingRows ==
  [kind : Kinds, rep : Reps, trainer : Trainers, start : Int, status : Statuses,
   locked : BOOLEAN, tentative : BOOLEAN, revived : BOOLEAN, counted : Nat, seen : Nat]

FoundRequests ==
  [at : {"book", "propose"}, kind : Kinds, rep : Reps, trainer : Trainers,
   counted : Nat, seen : Nat, free : Int, other : Int]

(* A time is free of row r, unless r was declined and confirmed again.       *)
Free(kind, rep, trainer, start, r) ==
  Parties(r) \cap {rep, trainer} # {} =>
    \/ ~Holds(r) \/ r.revived = TRUE
    \/ ~Overlaps(start, start + Duration[kind], r)

(* The sessions of a rep from a time on, among the first n rows, that were   *)
(* never declined and confirmed again.                                       *)
CountedOf(v, rep, n, from) ==
  {i \in DOMAIN v : /\ i <= n /\ v[i].kind = "session" /\ v[i].rep = rep
                    /\ v[i].status \in Counting /\ v[i].revived = FALSE
                    /\ v[i].start >= from}

UnderCap(v, rep, n, from) == Cardinality(CountedOf(v, rep, n, from)) < Cap

(* What a request holds on to, over the rows v. *)
RequestFits(v, q) ==
  \/ q = NoRequest
  \/ /\ q.at \in {"search", "book", "propose"}
     /\ q.kind \in Kinds /\ q.rep \in Reps /\ q.trainer \in Trainers
     /\ q.counted \in Nat /\ q.counted <= Len(v)
     /\ q.at = "search" => q.now \in Nat
     /\ q.at # "search" => q \in FoundRequests /\ q.seen <= Len(v)
     /\ q.at = "book" =>
          \A i \in DOMAIN v : i <= q.seen => Free(q.kind, q.rep, q.trainer, q.free, v[i])
     /\ q.kind = "session" =>
          /\ q.at = "search" => UnderCap(v, q.rep, q.counted, q.now - Week)
          /\ q.at = "book" => UnderCap(v, q.rep, q.counted, q.free - Week)
          /\ q.at # "search" => UnderCap(v, q.rep, q.counted, q.other - Week)

(* The same of the row it leaves. *)
RowFits(v, j) ==
  /\ v[j].counted < j
  /\ v[j].kind = "session" => /\ v[j].status \in Counting \cup {"DECLINED"}
                              /\ UnderCap(v, v[j].rep, v[j].counted, v[j].start - Week)
  /\ v[j].tentative = FALSE =>
       \A i \in DOMAIN v : i < j /\ i <= v[j].seen =>
         Free(v[j].kind, v[j].rep, v[j].trainer, v[j].start, v[i])

BookingInv ==
  /\ row \in Seq(BookingRows)
  /\ request = [w \in Requests |-> request[w]]
  /\ \A w \in Requests : RequestFits(row, request[w])
  /\ \A j \in DOMAIN row : RowFits(row, j)
-----------------------------------------------------------------------------
LEMMA RowsAreTyped ==
  ASSUME NEW v \in Seq(BookingRows)
  PROVE  /\ Len(v) \in Nat /\ DOMAIN v = 1..Len(v)
         /\ \A i \in DOMAIN v :
              /\ v[i] \in BookingRows /\ v[i].kind \in Kinds /\ v[i].status \in Statuses
              /\ v[i].revived \in BOOLEAN /\ v[i].tentative \in BOOLEAN
              /\ v[i].counted \in Nat /\ v[i].seen \in Nat
              /\ v[i].rep \in Reps /\ v[i].trainer \in Trainers /\ v[i].start \in Int
<1>1. \A r \in BookingRows :
        /\ r.kind \in Kinds /\ r.status \in Statuses
        /\ r.revived \in BOOLEAN /\ r.tentative \in BOOLEAN
        /\ r.counted \in Nat /\ r.seen \in Nat
        /\ r.rep \in Reps /\ r.trainer \in Trainers /\ r.start \in Int
  BY DEF BookingRows
<1>2. /\ Len(v) \in Nat /\ DOMAIN v = 1..Len(v)
      /\ \A i \in DOMAIN v : v[i] \in BookingRows
  OBVIOUS
<1>3. QED BY <1>1, <1>2

LEMMA LeastOfNaturals ==
  ASSUME NEW S \in SUBSET Nat, S # {}
  PROVE  \E x \in S : \A y \in S : x <= y
<1>1. \A x, y \in Nat : <<x, y>> \in OpToRel(<, Nat) <=> x < y
  BY Zenon DEF OpToRel
<1>2. PICK x \in S : \A y \in S : ~(<<y, x>> \in OpToRel(<, Nat))
  BY NatLessThanWellFounded, WFMin, Zenon
<1>3. \A y \in S : ~(y < x)
  BY <1>1, <1>2, Zenon
<1>4. QED BY <1>3

LEMMA MinIsLeast ==
  ASSUME NEW S \in SUBSET Nat, S # {}
  PROVE  Min(S) \in S
BY LeastOfNaturals DEF Min

(* The last of a nonempty set of positions. *)
LEMMA LastOf ==
  ASSUME NEW n \in Nat, NEW S \in SUBSET (1..n), S # {}
  PROVE  \E m \in S : \A i \in S : i <= m
<1> DEFINE T == {k \in Nat : \E i \in S : k = n - i}
<1>1. T \in SUBSET Nat /\ T # {}
  <2>1. PICK i \in S : TRUE
    OBVIOUS
  <2>2. n - i \in T
    BY <2>1
  <2>3. QED BY <2>2
<1>2. PICK k \in T : \A l \in T : k <= l
  BY <1>1, LeastOfNaturals
<1>3. PICK m \in S : k = n - m
  BY <1>2
<1>4. ASSUME NEW i \in S PROVE i <= m
  <2>1. n - i \in T
    BY <1>4
  <2>2. n - m <= n - i
    BY <1>2, <1>3, <2>1
  <2>3. QED BY <1>3, <1>4, <2>2
<1>5. QED BY <1>4

LEMMA CandidatesAhead ==
  ASSUME NEW now \in Nat
  PROVE  Candidates(now) \subseteq Nat /\ \A s \in Candidates(now) : s >= now
<1>1. ASSUME NEW k \in 0..Horizon PROVE now + k * Grid \in Nat /\ now + k * Grid >= now
  <2>1. k * Grid \in Nat
    BY BookingConstants
  <2>2. QED BY <2>1
<1>2. QED BY <1>1 DEF Candidates

(* The search returns one of the candidates that are free. *)
LEMMA WindowIsFree ==
  ASSUME NEW now \in Nat, NEW kind \in Kinds, NEW busy,
         FreeWindow(now, Duration[kind], busy) # NoStart
  PROVE  /\ FreeWindow(now, Duration[kind], busy) \in Nat
         /\ FreeWindow(now, Duration[kind], busy) >= now
         /\ \A i \in busy :
              ~Overlaps(FreeWindow(now, Duration[kind], busy),
                        FreeWindow(now, Duration[kind], busy) + Duration[kind], row[i])
<1> DEFINE d == Duration[kind]
           free == {s \in Candidates(now) : \A i \in busy : ~Overlaps(s, s + d, row[i])}
<1>1. free # {} /\ FreeWindow(now, d, busy) = Min(free)
  BY DEF FreeWindow
<1>2. free \in SUBSET Nat /\ \A s \in free : s >= now
  BY CandidatesAhead
<1>3. FreeWindow(now, d, busy) \in free
  BY <1>1, <1>2, MinIsLeast
<1>4. QED BY <1>2, <1>3

LEMMA ConflictIsANumber ==
  ASSUME NEW s \in Nat, NEW d \in Nat, NEW busy, IsFiniteSet(busy)
  PROVE  Conflict(s, d, busy) \in Nat
<1> DEFINE C == {c \in busy \X (s..s + d - 1) :
                   row[c[1]].start <= c[2] /\ c[2] < Ends(row[c[1]])}
<1>1. s + d - 1 \in Int
  OBVIOUS
<1>2. IsFiniteSet(s..s + d - 1)
  BY <1>1, FS_Interval
<1>3. IsFiniteSet(busy \X (s..s + d - 1))
  BY <1>2, FS_Product
<1>4. C \subseteq busy \X (s..s + d - 1)
  OBVIOUS
<1>5. IsFiniteSet(C)
  BY <1>3, <1>4, FS_Subset
<1>6. QED BY <1>5, FS_CardinalityType DEF Conflict

(* So does the search for the nearest miss. *)
LEMMA MissIsAhead ==
  ASSUME NEW now \in Nat, NEW kind \in Kinds, NEW busy, IsFiniteSet(busy),
         NearMiss(now, Duration[kind], busy) # NoStart
  PROVE  /\ NearMiss(now, Duration[kind], busy) \in Nat
         /\ NearMiss(now, Duration[kind], busy) >= now
<1> DEFINE d == Duration[kind]
           near == {s \in Candidates(now) : Conflict(s, d, busy) > 0}
           all == {Conflict(s, d, busy) : s \in near}
           least == Min(all)
           best == {s \in near : Conflict(s, d, busy) = least}
<1>1. near # {} /\ NearMiss(now, d, busy) = Min(best)
  BY DEF NearMiss
<1>2. near \in SUBSET Nat /\ \A s \in near : s >= now
  BY CandidatesAhead
<1>3. d \in Nat
  BY BookingConstants
<1>4. \A s \in near : Conflict(s, d, busy) \in Nat
  BY <1>2, <1>3, ConflictIsANumber
<1>5. all \in SUBSET Nat /\ all # {}
  BY <1>1, <1>4
<1>6. least \in all
  BY <1>5, MinIsLeast
<1>7. best # {} /\ best \in SUBSET Nat
  BY <1>2, <1>6
<1>8. Min(best) \in best
  BY <1>7, MinIsLeast
<1>9. QED BY <1>1, <1>2, <1>8

(* What every step leaves of the rows already there: of its columns only the *)
(* status moves, and a row that holds a time again has been revived.         *)
Keeps(v, u) ==
  /\ Len(v) <= Len(u)
  /\ \A i \in DOMAIN v :
       /\ u[i].kind = v[i].kind /\ u[i].rep = v[i].rep /\ u[i].trainer = v[i].trainer
       /\ u[i].start = v[i].start /\ u[i].tentative = v[i].tentative
       /\ u[i].counted = v[i].counted /\ u[i].seen = v[i].seen
       /\ v[i].revived = TRUE => u[i].revived = TRUE
       /\ u[i].status \in Counting => v[i].status \in Counting \/ u[i].revived = TRUE
       /\ v[i].kind = "session" /\ v[i].status \in Counting \cup {"DECLINED"}
            => u[i].status \in Counting \cup {"DECLINED"}

LEMMA FreeStays ==
  ASSUME NEW r, NEW s, NEW kind, NEW rep, NEW trainer, NEW start,
         r.kind = s.kind, r.rep = s.rep, r.trainer = s.trainer, r.start = s.start,
         r.revived = TRUE => s.revived = TRUE,
         s.status \in Counting => r.status \in Counting \/ s.revived = TRUE,
         Free(kind, rep, trainer, start, r)
  PROVE  Free(kind, rep, trainer, start, s)
<1>1. Holds(s) => Holds(r) \/ s.revived = TRUE
  BY DEF Holds, Counting
<1>2. Overlaps(start, start + Duration[kind], s)
        <=> Overlaps(start, start + Duration[kind], r)
  BY DEF Overlaps, Ends
<1>3. Parties(r) = Parties(s)
  BY DEF Parties
<1>4. QED BY <1>1, <1>2, <1>3 DEF Free

LEMMA CountedStay ==
  ASSUME NEW v \in Seq(BookingRows), NEW u \in Seq(BookingRows),
         Keeps(v, u), NEW rep, NEW n \in Nat, n <= Len(v), NEW from
  PROVE  /\ IsFiniteSet(CountedOf(v, rep, n, from))
         /\ CountedOf(u, rep, n, from) \subseteq CountedOf(v, rep, n, from)
         /\ IsFiniteSet(CountedOf(u, rep, n, from))
         /\ Cardinality(CountedOf(u, rep, n, from)) \in Nat
         /\ Cardinality(CountedOf(v, rep, n, from)) \in Nat
         /\ Cardinality(CountedOf(u, rep, n, from)) <= Cardinality(CountedOf(v, rep, n, from))
<1>1. /\ Len(v) \in Nat /\ DOMAIN v = 1..Len(v) /\ Len(u) \in Nat /\ DOMAIN u = 1..Len(u)
      /\ \A i \in DOMAIN v : v[i].revived \in BOOLEAN
      /\ \A i \in DOMAIN u : u[i].revived \in BOOLEAN
  BY RowsAreTyped
<1>2. ASSUME NEW i \in CountedOf(u, rep, n, from) PROVE i \in CountedOf(v, rep, n, from)
  <2>1. i \in DOMAIN v
    BY <1>1, <1>2 DEF CountedOf
  <2>2. v[i].kind = "session" /\ v[i].rep = rep
    BY <1>2, <2>1 DEF CountedOf, Keeps
  <2>5. v[i].start >= from
    BY <1>2, <2>1 DEF CountedOf, Keeps
  <2>3. v[i].status \in Counting /\ v[i].revived = FALSE
    BY <1>1, <1>2, <2>1 DEF CountedOf, Keeps
  <2>4. QED BY <1>2, <2>1, <2>2, <2>3, <2>5 DEF CountedOf
<1>3. CountedOf(v, rep, n, from) \subseteq 1..Len(v)
  BY <1>1 DEF CountedOf
<1>4. IsFiniteSet(CountedOf(v, rep, n, from))
  <2>1. IsFiniteSet(1..Len(v))
    BY <1>1, FS_Interval
  <2>2. QED BY <1>3, <2>1, FS_Subset
<1>5. CountedOf(u, rep, n, from) \subseteq CountedOf(v, rep, n, from)
  BY <1>2
<1>6. QED BY <1>4, <1>5, FS_Subset, FS_CardinalityType

LEMMA UnderCapStays ==
  ASSUME NEW v \in Seq(BookingRows), NEW u \in Seq(BookingRows), Keeps(v, u),
         NEW rep, NEW n \in Nat, n <= Len(v), NEW from, UnderCap(v, rep, n, from)
  PROVE  UnderCap(u, rep, n, from)
<1>1. /\ Cardinality(CountedOf(u, rep, n, from)) \in Nat
      /\ Cardinality(CountedOf(v, rep, n, from)) \in Nat
      /\ Cardinality(CountedOf(u, rep, n, from)) <= Cardinality(CountedOf(v, rep, n, from))
  BY CountedStay
<1>2. Cap \in Nat
  BY BookingConstants
<1>3. QED BY <1>1, <1>2 DEF UnderCap

(* From a later time on there are no more of them. *)
LEMMA UnderCapLater ==
  ASSUME NEW v \in Seq(BookingRows), NEW rep, NEW n \in Nat, n <= Len(v),
         NEW from \in Int, NEW later \in Int, from <= later, UnderCap(v, rep, n, from)
  PROVE  UnderCap(v, rep, n, later)
<1>1. /\ Len(v) \in Nat /\ DOMAIN v = 1..Len(v)
      /\ \A i \in DOMAIN v : v[i].start \in Int
  BY RowsAreTyped
<1>2. ASSUME NEW i \in CountedOf(v, rep, n, later) PROVE i \in CountedOf(v, rep, n, from)
  <2>1. i \in DOMAIN v /\ v[i].start >= from
    BY <1>1, <1>2 DEF CountedOf
  <2>2. QED BY <1>2, <2>1 DEF CountedOf
<1>3. Keeps(v, v)
  BY <1>1 DEF Keeps
<1>4. IsFiniteSet(CountedOf(v, rep, n, from)) /\ Cardinality(CountedOf(v, rep, n, from)) \in Nat
  BY <1>3, CountedStay
<1>5. /\ Cardinality(CountedOf(v, rep, n, later)) <= Cardinality(CountedOf(v, rep, n, from))
      /\ Cardinality(CountedOf(v, rep, n, later)) \in Nat
  BY <1>2, <1>4, FS_Subset, FS_CardinalityType
<1>6. Cap \in Nat
  BY BookingConstants
<1>7. QED BY <1>4, <1>5, <1>6 DEF UnderCap

LEMMA RequestsStay ==
  ASSUME NEW v \in Seq(BookingRows), NEW u \in Seq(BookingRows),
         Keeps(v, u), NEW q, RequestFits(v, q)
  PROVE  RequestFits(u, q)
<1>1. CASE q = NoRequest
  BY <1>1 DEF RequestFits
<1>2. CASE q # NoRequest
  <2>1. /\ Len(v) \in Nat /\ DOMAIN v = 1..Len(v) /\ Len(u) \in Nat /\ DOMAIN u = 1..Len(u)
        /\ Len(v) <= Len(u) /\ Cap \in Nat
    BY RowsAreTyped, BookingConstants DEF Keeps
  <2>2. /\ q.at \in {"search", "book", "propose"}
        /\ q.kind \in Kinds /\ q.rep \in Reps /\ q.trainer \in Trainers
        /\ q.counted \in Nat /\ q.counted <= Len(v)
        /\ q.at = "search" => q.now \in Nat
        /\ q.at # "search" => q \in FoundRequests /\ q.seen <= Len(v)
    BY <1>2 DEF RequestFits
  <2>3. q.at # "search" => q.seen \in Nat
    BY <2>2 DEF FoundRequests
  <2>4. ASSUME q.at = "book", NEW i \in DOMAIN u, i <= q.seen
        PROVE  Free(q.kind, q.rep, q.trainer, q.free, u[i])
    <3>1. i \in DOMAIN v
      BY <2>1, <2>2, <2>3, <2>4
    <3>2. Free(q.kind, q.rep, q.trainer, q.free, v[i])
      BY <1>2, <2>4, <3>1 DEF RequestFits
    <3>3. QED BY <3>1, <3>2, FreeStays DEF Keeps
  <2>5. ASSUME q.kind = "session"
        PROVE  /\ q.at = "search" => UnderCap(u, q.rep, q.counted, q.now - Week)
               /\ q.at = "book" => UnderCap(u, q.rep, q.counted, q.free - Week)
               /\ q.at # "search" => UnderCap(u, q.rep, q.counted, q.other - Week)
    <3>1. /\ q.at = "search" => UnderCap(v, q.rep, q.counted, q.now - Week)
          /\ q.at = "book" => UnderCap(v, q.rep, q.counted, q.free - Week)
          /\ q.at # "search" => UnderCap(v, q.rep, q.counted, q.other - Week)
      BY <1>2, <2>5 DEF RequestFits
    <3>2. \A from : UnderCap(v, q.rep, q.counted, from) => UnderCap(u, q.rep, q.counted, from)
      BY <2>2, UnderCapStays
    <3>3. QED BY <3>1, <3>2
  <2>6. q.counted <= Len(u) /\ (q.at # "search" => q.seen <= Len(u))
    BY <2>1, <2>2, <2>3
  <2>7. QED BY <2>2, <2>4, <2>5, <2>6 DEF RequestFits
<1>3. QED BY <1>1, <1>2

LEMMA BookedRowsStayFit ==
  ASSUME NEW v \in Seq(BookingRows), NEW u \in Seq(BookingRows),
         Keeps(v, u), NEW j \in DOMAIN v, RowFits(v, j)
  PROVE  RowFits(u, j)
<1>1. /\ Len(v) \in Nat /\ DOMAIN v = 1..Len(v) /\ Len(u) \in Nat /\ DOMAIN u = 1..Len(u)
      /\ Len(v) <= Len(u) /\ Cap \in Nat /\ v[j].counted \in Nat
  BY RowsAreTyped, BookingConstants DEF Keeps
<1>2. /\ u[j].kind = v[j].kind /\ u[j].rep = v[j].rep /\ u[j].trainer = v[j].trainer
      /\ u[j].start = v[j].start /\ u[j].tentative = v[j].tentative
      /\ u[j].counted = v[j].counted /\ u[j].seen = v[j].seen
  BY DEF Keeps
<1>3. u[j].counted < j
  BY <1>2 DEF RowFits
<1>4. ASSUME u[j].kind = "session"
      PROVE  /\ u[j].status \in Counting \cup {"DECLINED"}
             /\ UnderCap(u, u[j].rep, u[j].counted, u[j].start - Week)
  <2>1. /\ v[j].status \in Counting \cup {"DECLINED"}
        /\ UnderCap(v, v[j].rep, v[j].counted, v[j].start - Week)
    BY <1>2, <1>4 DEF RowFits
  <2>2. u[j].status \in Counting \cup {"DECLINED"}
    BY <1>2, <1>4, <2>1 DEF Keeps
  <2>3. v[j].counted <= Len(v)
    BY <1>1, <1>2, <1>3
  <2>5. UnderCap(u, v[j].rep, v[j].counted, v[j].start - Week)
    BY <1>1, <2>1, <2>3, UnderCapStays
  <2>6. QED BY <1>2, <2>2, <2>5
<1>5. ASSUME u[j].tentative = FALSE, NEW i \in DOMAIN u, i < j, i <= u[j].seen
      PROVE  Free(u[j].kind, u[j].rep, u[j].trainer, u[j].start, u[i])
  <2>1. i \in DOMAIN v
    BY <1>1, <1>5
  <2>2. Free(v[j].kind, v[j].rep, v[j].trainer, v[j].start, v[i])
    BY <1>2, <1>5, <2>1 DEF RowFits
  <2>3. Free(v[j].kind, v[j].rep, v[j].trainer, v[j].start, u[i])
    BY <2>1, <2>2, FreeStays DEF Keeps
  <2>4. QED BY <1>2, <2>3
<1>6. QED BY <1>3, <1>4, <1>5 DEF RowFits



LEMMA ARequest ==
  ASSUME BookingInv, NEW w \in Requests, NEW q, RequestIs(w, q), RequestFits(row', q),
         \A x \in Requests : RequestFits(row, request[x]) => RequestFits(row', request[x])
  PROVE  /\ request' = [x \in Requests |-> request'[x]]
         /\ \A x \in Requests : RequestFits(row', request'[x])
<1>1. request' = [x \in Requests |-> IF x = w THEN q ELSE request[x]]
  BY DEF BookingInv, RequestIs
<1>2. \A x \in Requests : RequestFits(row, request[x])
  BY DEF BookingInv
<1>3. \A x \in Requests : RequestFits(row', request'[x])
  BY <1>1, <1>2
<1>4. QED BY <1>1, <1>3

(* A step of a request that adds no row. *)
LEMMA ARequestOnly ==
  ASSUME BookingInv, NEW w \in Requests, NEW q, RequestIs(w, q), RequestFits(row, q),
         UNCHANGED row
  PROVE  BookingInv'
<1>1. /\ request' = [x \in Requests |-> request'[x]]
      /\ \A x \in Requests : RequestFits(row', request'[x])
  BY ARequest
<1>2. QED BY <1>1 DEF BookingInv

(* A step of the rows. *)
LEMMA ARowStep ==
  ASSUME BookingInv, row' \in Seq(BookingRows), Keeps(row, row'),
         \A j \in DOMAIN row' : RowFits(row', j),
         \/ UNCHANGED request
         \/ \E w \in Requests : \E q : RequestIs(w, q) /\ RequestFits(row', q)
  PROVE  BookingInv'
<1>1. row \in Seq(BookingRows)
  BY DEF BookingInv
<1>2. \A q : RequestFits(row, q) => RequestFits(row', q)
  BY <1>1, RequestsStay
<1>3. /\ request' = [x \in Requests |-> request'[x]]
      /\ \A x \in Requests : RequestFits(row', request'[x])
  <2>1. CASE UNCHANGED request
    <3>1. /\ request = [x \in Requests |-> request[x]]
          /\ \A x \in Requests : RequestFits(row, request[x])
      BY DEF BookingInv
    <3>2. QED BY <1>2, <2>1, <3>1
  <2>2. ASSUME NEW w \in Requests, NEW q, RequestIs(w, q), RequestFits(row', q)
        PROVE  /\ request' = [x \in Requests |-> request'[x]]
               /\ \A x \in Requests : RequestFits(row', request'[x])
    BY <1>2, <2>2, ARequest
  <2>3. QED BY <2>1, <2>2
<1>4. QED BY <1>3 DEF BookingInv

LEMMA AppendKeeps ==
  ASSUME NEW v \in Seq(BookingRows), \A j \in DOMAIN v : RowFits(v, j),
         NEW r \in BookingRows, r.counted <= Len(v),
         r.kind = "session" => /\ r.status \in Counting \cup {"DECLINED"}
                               /\ UnderCap(v, r.rep, r.counted, r.start - Week),
         r.tentative = FALSE =>
           \A i \in DOMAIN v : i <= r.seen => Free(r.kind, r.rep, r.trainer, r.start, v[i])
  PROVE  /\ Append(v, r) \in Seq(BookingRows) /\ Keeps(v, Append(v, r))
         /\ \A j \in DOMAIN Append(v, r) : RowFits(Append(v, r), j)
<1> DEFINE u == Append(v, r)
<1>1. /\ Len(v) \in Nat /\ DOMAIN v = 1..Len(v) /\ Cap \in Nat
      /\ \A i \in DOMAIN v : v[i] \in BookingRows
      /\ r.counted \in Nat /\ r.seen \in Nat
  BY RowsAreTyped, BookingConstants DEF BookingRows
<1>2. /\ Len(u) = Len(v) + 1 /\ DOMAIN u = 1..Len(v) + 1 /\ u[Len(v) + 1] = r
      /\ \A i \in DOMAIN v : i \in DOMAIN u /\ u[i] = v[i]
  BY <1>1
<1>3. u \in Seq(BookingRows)
  OBVIOUS
<1> HIDE DEF u
<1>4. Keeps(v, u)
  BY <1>1, <1>2 DEF Keeps
<1>5. ASSUME NEW j \in DOMAIN v PROVE RowFits(u, j)
  BY <1>3, <1>4, BookedRowsStayFit
<1>6. RowFits(u, Len(v) + 1)
  <2>1. r.counted < Len(v) + 1
    BY <1>1
  <2>3. r.kind = "session" => UnderCap(u, r.rep, r.counted, r.start - Week)
    BY <1>1, <1>3, <1>4, UnderCapStays
  <2>4. ASSUME r.tentative = FALSE, NEW i \in DOMAIN u, i < Len(v) + 1, i <= r.seen
        PROVE  Free(r.kind, r.rep, r.trainer, r.start, u[i])
    <3>1. i \in DOMAIN v
      BY <1>1, <1>2, <2>4
    <3>2. QED BY <1>2, <2>4, <3>1
  <2>5. QED BY <1>2, <2>1, <2>3, <2>4 DEF RowFits
<1>7. QED BY <1>1, <1>2, <1>3, <1>4, <1>5, <1>6 DEF u

(* The row made of a request, and that such a row can be added.              *)
LEMMA ANewRow ==
  ASSUME BookingInv, NEW w \in Requests, request[w].at \in {"book", "propose"},
         NEW start \in Int, NEW status \in Counting, NEW locked \in BOOLEAN, NEW tentative \in BOOLEAN,
         row' = Append(row, NewRow(request[w], start, status, locked, tentative)),
         RequestIs(w, NoRequest),
         tentative = FALSE => request[w].at = "book" /\ start = request[w].free,
         tentative = TRUE => start = request[w].other
  PROVE  BookingInv'
<1>1. PICK q : q = request[w]
  OBVIOUS
<1>2. PICK r : r = NewRow(q, start, status, locked, tentative)
  OBVIOUS
<1>3. row \in Seq(BookingRows)
  BY DEF BookingInv
<1>4. RequestFits(row, q) /\ q # NoRequest /\ q.at # "search" /\ q.at \in {"book", "propose"}
  BY <1>1 DEF BookingInv, NoRequest
<1>5. /\ q.kind \in Kinds /\ q.rep \in Reps /\ q.trainer \in Trainers
      /\ q.counted \in Nat /\ q.counted <= Len(row) /\ q.seen \in Nat
  BY <1>4 DEF RequestFits, FoundRequests
<1>6. /\ r.kind = q.kind /\ r.rep = q.rep /\ r.trainer = q.trainer /\ r.counted = q.counted
      /\ r.seen = q.seen /\ r.status = status /\ r.tentative = tentative /\ r.start = start
  BY <1>2 DEF NewRow
<1>7. r \in BookingRows
  BY <1>2, <1>5 DEF BookingRows, NewRow, Statuses, Counting
<1>8. r.kind = "session" => UnderCap(row, r.rep, r.counted, r.start - Week)
  <2>1. q.kind = "session" =>
          /\ q.at = "book" => UnderCap(row, q.rep, q.counted, q.free - Week)
          /\ UnderCap(row, q.rep, q.counted, q.other - Week)
    BY <1>4 DEF RequestFits
  <2>2. start = q.other \/ (q.at = "book" /\ start = q.free)
    BY <1>1
  <2>3. QED BY <1>6, <2>1, <2>2
<1>9. r.tentative = FALSE =>
        \A i \in DOMAIN row : i <= r.seen => Free(r.kind, r.rep, r.trainer, r.start, row[i])
  BY <1>1, <1>4, <1>6 DEF RequestFits
<1>10. /\ row' \in Seq(BookingRows) /\ Keeps(row, row')
       /\ \A j \in DOMAIN row' : RowFits(row', j)
  <2>1. row' = Append(row, r)
    BY <1>1, <1>2
  <2>2. \A j \in DOMAIN row : RowFits(row, j)
    BY DEF BookingInv
  <2>3. r.counted <= Len(row) /\ r.status \in Counting \cup {"DECLINED"}
    BY <1>5, <1>6
  <2>4. /\ Append(row, r) \in Seq(BookingRows)
        /\ Keeps(row, Append(row, r))
        /\ \A j \in DOMAIN Append(row, r) : RowFits(Append(row, r), j)
    BY <1>3, <1>7, <1>8, <1>9, <2>2, <2>3, AppendKeeps
  <2>5. QED BY <2>1, <2>4, Zenon
<1>11. RequestFits(row', NoRequest)
  BY DEF RequestFits
<1>12. QED BY <1>10, <1>11, ARowStep



(* Row o with another status.                                                *)
Restated(r, o) ==
  /\ r.kind = o.kind /\ r.rep = o.rep
  /\ r.trainer = o.trainer /\ r.start = o.start /\ r.tentative = o.tentative
  /\ r.counted = o.counted /\ r.seen = o.seen
  /\ o.revived = TRUE => r.revived = TRUE
  /\ r.status \in Counting => o.status \in Counting \/ r.revived = TRUE
  /\ o.kind = "session" => r.status \in Counting \cup {"DECLINED"}

LEMMA StatusKeeps ==
  ASSUME NEW v \in Seq(BookingRows), NEW i \in DOMAIN v,
         NEW r \in BookingRows, Restated(r, v[i]), NEW u, u = [v EXCEPT ![i] = r]
  PROVE  u \in Seq(BookingRows) /\ Keeps(v, u) /\ DOMAIN u = DOMAIN v
<1>1. /\ Len(v) \in Nat /\ DOMAIN v = 1..Len(v) /\ v[i] \in BookingRows
  BY RowsAreTyped
<1>2. /\ r.kind = v[i].kind /\ r.rep = v[i].rep
      /\ r.trainer = v[i].trainer /\ r.start = v[i].start /\ r.tentative = v[i].tentative
      /\ r.counted = v[i].counted /\ r.seen = v[i].seen
      /\ v[i].revived = TRUE => r.revived = TRUE
      /\ r.status \in Counting => v[i].status \in Counting \/ r.revived = TRUE
      /\ v[i].kind = "session" => r.status \in Counting \cup {"DECLINED"}
  BY DEF Restated
<1>3. u = [v EXCEPT ![i] = r]
  OBVIOUS
<1>4. /\ u \in Seq(BookingRows) /\ DOMAIN u = DOMAIN v /\ Len(u) = Len(v) /\ u[i] = r
      /\ \A j \in DOMAIN v : j # i => u[j] = v[j]
  BY <1>1, <1>2, <1>3
<1>5. ASSUME NEW j \in DOMAIN v
      PROVE /\ u[j].kind = v[j].kind /\ u[j].rep = v[j].rep /\ u[j].trainer = v[j].trainer
            /\ u[j].start = v[j].start /\ u[j].tentative = v[j].tentative
            /\ u[j].counted = v[j].counted /\ u[j].seen = v[j].seen
            /\ v[j].revived = TRUE => u[j].revived = TRUE
            /\ u[j].status \in Counting => v[j].status \in Counting \/ u[j].revived = TRUE
            /\ v[j].kind = "session" /\ v[j].status \in Counting \cup {"DECLINED"}
                 => u[j].status \in Counting \cup {"DECLINED"}
  <2>1. CASE j = i
    BY <1>2, <1>4, <2>1
  <2>2. CASE j # i
    BY <1>4, <2>2
  <2>3. QED BY <2>1, <2>2
<1>6. Len(v) <= Len(u)
  BY <1>1, <1>4
<1>7. QED BY <1>4, <1>5, <1>6, Zenon DEF Keeps

LEMMA AStatusStep ==
  ASSUME BookingInv, NEW i \in DOMAIN row,
         NEW r \in BookingRows, Restated(r, row[i]), row' = [row EXCEPT ![i] = r],
         \/ UNCHANGED request
         \/ \E w \in Requests : \E q : RequestIs(w, q) /\ RequestFits(row', q)
  PROVE  BookingInv'
<1>1. row' \in Seq(BookingRows) /\ Keeps(row, row') /\ DOMAIN row' = DOMAIN row
  BY StatusKeeps DEF BookingInv
<1>2. \A j \in DOMAIN row' : RowFits(row', j)
  BY <1>1, BookedRowsStayFit DEF BookingInv
<1>3. QED BY <1>1, <1>2, ARowStep

LEMMA AnAppointment ==
  ASSUME NEW v, NEW rep \in Reps, NEW trainer \in Trainers, NEW now \in Nows, Len(v) \in Nat
  PROVE  RequestFits(v, Request("search", "appointment", rep, trainer, now, 0))
<1> DEFINE q == Request("search", "appointment", rep, trainer, now, 0)
<1>1. /\ q.at = "search" /\ q.kind = "appointment" /\ q.rep = rep /\ q.trainer = trainer
      /\ q.now = now /\ q.counted = 0
  BY DEF Request
<1> HIDE DEF q
<1>2. now \in Nat /\ 0 \in Nat /\ 0 <= Len(v)
  BY BookingConstants
<1>3. RequestFits(v, q)
  BY <1>1, <1>2 DEF RequestFits, Kinds
<1>4. QED BY <1>3 DEF q

LEMMA ProposeAppointmentOK ==
  ASSUME BookingInv, NEW w \in Requests, NEW rep \in Reps, NEW trainer \in Trainers,
         NEW now \in Nows, ProposeAppointment(w, rep, trainer, now)
  PROVE  BookingInv'
<1>1. Len(row) \in Nat
  BY RowsAreTyped DEF BookingInv
<1>2. RequestFits(row, Request("search", "appointment", rep, trainer, now, 0))
  BY <1>1, AnAppointment
<1>3. QED BY <1>2, ARequestOnly DEF ProposeAppointment

LEMMA ProposeSessionOK ==
  ASSUME BookingInv, NEW w \in Requests, NEW rep \in Reps, NEW trainer \in Trainers,
         NEW now \in Nows, ProposeSession(w, rep, trainer, now)
  PROVE  BookingInv'
<1>1. Len(row) \in Nat /\ DOMAIN row = 1..Len(row) /\ Cap \in Nat /\ now \in Nat
  BY RowsAreTyped, BookingConstants DEF BookingInv
<1>2. /\ CountedOf(row, rep, Len(row), now - Week) \subseteq SessionsFrom(rep, now - Week)
      /\ SessionsFrom(rep, now - Week) \subseteq 1..Len(row)
  BY <1>1 DEF CountedOf, SessionsFrom, SessionsOf, Counting
<1>3. /\ Cardinality(SessionsFrom(rep, now - Week)) \in Nat
      /\ Cardinality(CountedOf(row, rep, Len(row), now - Week)) \in Nat
      /\ Cardinality(CountedOf(row, rep, Len(row), now - Week))
           <= Cardinality(SessionsFrom(rep, now - Week))
  <2>1. IsFiniteSet(SessionsFrom(rep, now - Week))
    <3>1. IsFiniteSet(1..Len(row))
      BY <1>1, FS_Interval
    <3>2. QED BY <1>2, <3>1, FS_Subset
  <2>2. QED BY <1>2, <2>1, FS_Subset, FS_CardinalityType
<1>4. UnderCap(row, rep, Len(row), now - Week)
  <2>1. Cardinality(SessionsFrom(rep, now - Week)) < Cap
    BY DEF ProposeSession
  <2>2. QED BY <1>1, <1>3, <2>1 DEF UnderCap
<1>5. PICK n : n = Len(row)
  OBVIOUS
<1>6. PICK q : q = Request("search", "session", rep, trainer, now, n)
  OBVIOUS
<1>7. /\ q.at = "search" /\ q.kind = "session" /\ q.rep = rep /\ q.trainer = trainer
      /\ q.now = now /\ q.counted = n
  BY <1>6 DEF Request
<1>8. RequestFits(row, q)
  BY <1>1, <1>4, <1>5, <1>7 DEF RequestFits, Kinds
<1>9. RequestIs(w, q) /\ UNCHANGED row
  BY <1>5, <1>6 DEF ProposeSession
<1>10. QED BY <1>8, <1>9, ARequestOnly



LEMMA ANewStatus ==
  ASSUME NEW o \in BookingRows, NEW s \in Statuses, NEW r,
         r = [o EXCEPT !.status = s],
         s \in Counting => o.status \in Counting \/ o.revived = TRUE,
         o.kind = "session" => s \in Counting \cup {"DECLINED"}
  PROVE  r \in BookingRows /\ Restated(r, o)
<1>1. /\ r \in BookingRows /\ r.kind = o.kind /\ r.rep = o.rep
      /\ r.trainer = o.trainer /\ r.start = o.start /\ r.tentative = o.tentative
      /\ r.counted = o.counted /\ r.seen = o.seen /\ r.status = s /\ r.revived = o.revived
  BY DEF BookingRows
<1>2. QED BY <1>1 DEF Restated

LEMMA ARevival ==
  ASSUME NEW o \in BookingRows, NEW s \in {"CONFIRMED", "DECLINED"},
         NEW b \in BOOLEAN, NEW r, r = [o EXCEPT !.status = s, !.revived = b],
         o.kind = "session", o.status \in Counting \cup {"DECLINED"},
         o.revived = TRUE => b = TRUE,
         s = "CONFIRMED" /\ o.status = "DECLINED" => b = TRUE
  PROVE  r \in BookingRows /\ Restated(r, o)
<1>1. s \in Statuses
  BY DEF Statuses
<1>2. /\ r \in BookingRows /\ r.kind = o.kind /\ r.rep = o.rep
      /\ r.trainer = o.trainer /\ r.start = o.start /\ r.tentative = o.tentative
      /\ r.counted = o.counted /\ r.seen = o.seen /\ r.status = s /\ r.revived = b
  BY <1>1 DEF BookingRows
<1>3. o.revived = TRUE => r.revived = TRUE
  BY <1>2
<1>4. r.status \in Counting => o.status \in Counting \/ r.revived = TRUE
  BY <1>2 DEF Counting
<1>5. r.status \in Counting \cup {"DECLINED"}
  BY <1>2 DEF Counting
<1>6. QED BY <1>2, <1>3, <1>4, <1>5 DEF Restated

LEMMA DeclineOK ==
  ASSUME BookingInv, NEW w \in Requests, NEW i \in DOMAIN row, NEW now \in Nows,
         Decline(w, i, now)
  PROVE  BookingInv'
<1>1. row \in Seq(BookingRows)
  BY DEF BookingInv
<1>2. PICK o : o = row[i]
  OBVIOUS
<1>3. PICK r : r = [o EXCEPT !.status = "DECLINED"]
  OBVIOUS
<1>4. Len(row) \in Nat /\ o \in BookingRows /\ o.rep \in Reps /\ o.trainer \in Trainers
  BY <1>1, <1>2, RowsAreTyped
<1>5. r \in BookingRows /\ Restated(r, o)
  <2>1. "DECLINED" \in Statuses /\ "DECLINED" \notin Counting
    BY DEF Statuses, Counting
  <2>2. QED BY <1>3, <1>4, <2>1, ANewStatus
<1>6. row' = [row EXCEPT ![i] = r]
  BY <1>2, <1>3 DEF Decline
<1>7. PICK q : q = Request("search", "appointment", o.rep, o.trainer, now, 0)
  OBVIOUS
<1>8. RequestIs(w, q)
  BY <1>2, <1>7 DEF Decline
<1>9. RequestFits(row', q)
  <2>1. Len(row') = Len(row)
    BY <1>1, <1>5, <1>6
  <2>2. PICK v : v = row'
    OBVIOUS
  <2>3. Len(v) \in Nat
    BY <1>4, <2>1, <2>2
  <2>4. RequestFits(v, q)
    BY <1>4, <1>7, <2>3, AnAppointment
  <2>5. QED BY <2>2, <2>4
<1>10. Restated(r, row[i])
  BY <1>2, <1>5
<1>11. QED BY <1>1, <1>5, <1>6, <1>8, <1>9, <1>10, AStatusStep

LEMMA OutcomeOK ==
  ASSUME BookingInv, NEW i \in DOMAIN row, NEW status \in {"HELD", "NO_SHOW"},
         Outcome(i, status)
  PROVE  BookingInv'
<1>1. row \in Seq(BookingRows)
  BY DEF BookingInv
<1>2. PICK o : o = row[i]
  OBVIOUS
<1>3. PICK r : r = [o EXCEPT !.status = status]
  OBVIOUS
<1>4. o \in BookingRows /\ o.kind = "appointment"
  BY <1>1, <1>2, RowsAreTyped DEF Outcome
<1>5. r \in BookingRows /\ Restated(r, o)
  <2>1. status \in Statuses /\ status \notin Counting
    BY DEF Statuses, Counting
  <2>2. QED BY <1>3, <1>4, <2>1, ANewStatus
<1>6. row' = [row EXCEPT ![i] = r] /\ UNCHANGED request
  BY <1>2, <1>3 DEF Outcome
<1>7. Restated(r, row[i])
  BY <1>2, <1>5
<1>8. QED BY <1>1, <1>5, <1>6, <1>7, AStatusStep

LEMMA RespondOK ==
  ASSUME BookingInv, NEW i \in DOMAIN row, NEW status \in {"CONFIRMED", "DECLINED"},
         Respond(i, status)
  PROVE  BookingInv'
<1>1. row \in Seq(BookingRows)
  BY DEF BookingInv
<1>2. PICK o : o = row[i]
  OBVIOUS
<1>3. PICK b : b = (o.revived \/ (status = "CONFIRMED" /\ o.status = "DECLINED"))
  OBVIOUS
<1>4. PICK r : r = [o EXCEPT !.status = status, !.revived = b]
  OBVIOUS
<1>5. /\ o \in BookingRows /\ o.kind = "session" /\ o.revived \in BOOLEAN
      /\ o.status \in Counting \cup {"DECLINED"}
  <2>1. RowFits(row, i)
    BY DEF BookingInv
  <2>2. row[i].kind = "session"
    BY DEF Respond
  <2>3. row[i].status \in Counting \cup {"DECLINED"}
    BY <2>1, <2>2 DEF RowFits
  <2>4. QED BY <1>1, <1>2, <2>2, <2>3, RowsAreTyped
<1>6. /\ b \in BOOLEAN
      /\ o.revived = TRUE => b = TRUE
      /\ status = "CONFIRMED" /\ o.status = "DECLINED" => b = TRUE
  BY <1>3, <1>5, Zenon
<1>7. r \in BookingRows /\ Restated(r, o)
  BY <1>4, <1>5, <1>6, ARevival
<1>8. row' = [row EXCEPT ![i] = r] /\ UNCHANGED request
  BY <1>2, <1>3, <1>4 DEF Respond
<1>9. Restated(r, row[i])
  BY <1>2, <1>7
<1>10. QED BY <1>1, <1>7, <1>8, <1>9, AStatusStep



LEMMA BusyIsFinite ==
  ASSUME BookingInv, NEW rep, NEW trainer
  PROVE  IsFiniteSet(Busy(rep, trainer))
<1>1. Len(row) \in Nat /\ DOMAIN row = 1..Len(row)
  BY RowsAreTyped DEF BookingInv
<1>2. Busy(rep, trainer) \subseteq 1..Len(row)
  BY <1>1 DEF Busy
<1>3. IsFiniteSet(1..Len(row))
  BY <1>1, FS_Interval
<1>4. QED BY <1>2, <1>3, FS_Subset

(* Neither the window nor the proposal of a session is before its request, so *)
(* a week before either the rep was under the cap too.                       *)
LEMMA SearchOK ==
  ASSUME BookingInv, NEW w \in Requests, NEW connected \in BOOLEAN, Search(w, connected)
  PROVE  BookingInv'
<1>1. PICK q : q = request[w]
  OBVIOUS
<1>2. PICK busy : busy = Busy(q.rep, q.trainer)
  OBVIOUS
<1>3. PICK free : free = IF connected THEN FreeWindow(q.now, Duration[q.kind], busy) ELSE NoStart
  OBVIOUS
<1>4. PICK other : other = Proposal(q, busy)
  OBVIOUS
<1>5. PICK at : at = IF free # NoStart THEN "book" ELSE "propose"
  OBVIOUS
<1>6. PICK f : f = Found(at, q, free, other)
  OBVIOUS
<1>7. RequestIs(w, f) /\ UNCHANGED row
  BY <1>1, <1>2, <1>3, <1>4, <1>5, <1>6, Zenon DEF Search
<1>8. at \in {"book", "propose"} /\ (at = "book" => free # NoStart)
  BY <1>5
<1>9. PICK n : n = Len(row)
  OBVIOUS
<1>10. f = [at |-> at, kind |-> q.kind, rep |-> q.rep, trainer |-> q.trainer,
            counted |-> q.counted, seen |-> n, free |-> free, other |-> other]
  BY <1>6, <1>9 DEF Found
<1>11. /\ f.kind = q.kind /\ f.rep = q.rep /\ f.trainer = q.trainer /\ f.counted = q.counted
       /\ f.seen = n /\ f.free = free /\ f.other = other /\ f.at = at
  BY <1>10
<1>12. /\ q.kind \in Kinds /\ q.rep \in Reps /\ q.trainer \in Trainers
       /\ q.counted \in Nat /\ q.counted <= Len(row) /\ q.now \in Nat
       /\ q.kind = "session" => UnderCap(row, q.rep, q.counted, q.now - Week)
  <2>1. RequestFits(row, q) /\ q.at = "search"
    BY <1>1 DEF BookingInv, Search
  <2>2. q # NoRequest
    BY <2>1 DEF NoRequest
  <2>3. QED BY <2>1, <2>2 DEF RequestFits
<1>13. n \in Nat /\ DOMAIN row = 1..n /\ row \in Seq(BookingRows) /\ Week \in Nat /\ Day \in Nat
  BY <1>9, RowsAreTyped, BookingConstants DEF BookingInv
<1>14. /\ free \in Int
       /\ free # NoStart =>
            free >= q.now /\ \A k \in busy : ~Overlaps(free, free + Duration[q.kind], row[k])
  <2>1. CASE free = NoStart
    BY <2>1 DEF NoStart
  <2>2. CASE free # NoStart
    <3>1. free = FreeWindow(q.now, Duration[q.kind], busy)
      BY <1>3, <2>2
    <3>2. FreeWindow(q.now, Duration[q.kind], busy) # NoStart
      BY <2>2, <3>1
    <3>3. /\ FreeWindow(q.now, Duration[q.kind], busy) \in Nat
          /\ FreeWindow(q.now, Duration[q.kind], busy) >= q.now
          /\ \A k \in busy : ~Overlaps(FreeWindow(q.now, Duration[q.kind], busy),
                 FreeWindow(q.now, Duration[q.kind], busy) + Duration[q.kind], row[k])
      BY <1>12, <3>2, WindowIsFree
    <3>4. QED BY <3>1, <3>3
  <2>3. QED BY <2>1, <2>2
<1>15. other \in Int /\ (q.kind = "session" => other >= q.now)
  <2>1. CASE q.kind = "appointment"
    BY <1>4, <2>1 DEF Proposal, NoStart
  <2>2. CASE q.kind = "session"
    <3>1. PICK near : near = NearMiss(q.now, Duration[q.kind], busy)
      OBVIOUS
    <3>2. other = IF near # NoStart THEN near ELSE q.now + Day
      BY <1>4, <2>2, <3>1 DEF Proposal
    <3>3. near # NoStart => near \in Nat /\ near >= q.now
      BY <1>2, <1>12, <3>1, BusyIsFinite, MissIsAhead
    <3>4. QED BY <1>12, <1>13, <3>2, <3>3
  <2>3. QED BY <1>12, <2>1, <2>2 DEF Kinds
<1>16. f \in FoundRequests
  BY <1>8, <1>10, <1>12, <1>13, <1>14, <1>15 DEF FoundRequests
<1>17. ASSUME f.at = "book", NEW i \in DOMAIN row
       PROVE  Free(q.kind, q.rep, q.trainer, free, row[i])
  <2>1. \A k \in busy : ~Overlaps(free, free + Duration[q.kind], row[k])
    BY <1>8, <1>11, <1>14, <1>17
  <2>2. Holds(row[i]) /\ Parties(row[i]) \cap {q.rep, q.trainer} # {} => i \in busy
    BY <1>2 DEF Busy
  <2>3. QED BY <2>1, <2>2 DEF Free
<1>18. f.kind = "session" =>
         /\ f.at = "book" => UnderCap(row, f.rep, f.counted, f.free - Week)
         /\ UnderCap(row, f.rep, f.counted, f.other - Week)
  <2>1. SUFFICES ASSUME q.kind = "session"
                 PROVE  /\ free # NoStart => UnderCap(row, q.rep, q.counted, free - Week)
                        /\ UnderCap(row, q.rep, q.counted, other - Week)
    BY <1>8, <1>11
  <2>2. UnderCap(row, q.rep, q.counted, q.now - Week) /\ q.now - Week \in Int
    BY <1>12, <1>13, <2>1
  <2>3. ASSUME free # NoStart PROVE UnderCap(row, q.rep, q.counted, free - Week)
    <3>1. free - Week \in Int /\ q.now - Week <= free - Week
      BY <1>12, <1>13, <1>14, <2>3
    <3>2. QED BY <1>12, <1>13, <2>2, <3>1, UnderCapLater
  <2>4. UnderCap(row, q.rep, q.counted, other - Week)
    <3>1. other - Week \in Int /\ q.now - Week <= other - Week
      BY <1>12, <1>13, <1>15, <2>1
    <3>2. QED BY <1>12, <1>13, <2>2, <3>1, UnderCapLater
  <2>5. QED BY <2>3, <2>4
<1>19. RequestFits(row, f)
  <2>1. f.at = "book" =>
          \A i \in DOMAIN row : i <= f.seen => Free(f.kind, f.rep, f.trainer, f.free, row[i])
    BY <1>11, <1>17
  <2>2. /\ f.kind \in Kinds /\ f.rep \in Reps /\ f.trainer \in Trainers
        /\ f.counted \in Nat /\ f.counted <= Len(row) /\ f.seen <= Len(row)
        /\ f.at \in {"search", "book", "propose"} /\ f.at # "search"
    BY <1>8, <1>9, <1>11, <1>12, <1>13
  <2>3. QED BY <1>16, <1>18, <2>1, <2>2 DEF RequestFits
<1>20. QED BY <1>7, <1>19, ARequestOnly

LEMMA FoundStarts ==
  ASSUME BookingInv, NEW w \in Requests, request[w].at \in {"book", "propose"}
  PROVE  /\ request[w] \in FoundRequests
         /\ request[w].free \in Int /\ request[w].other \in Int
<1>1. PICK q : q = request[w]
  OBVIOUS
<1>2. RequestFits(row, q) /\ q # NoRequest /\ q.at # "search"
  BY <1>1 DEF BookingInv, NoRequest
<1>3. q \in FoundRequests
  BY <1>2 DEF RequestFits
<1>4. QED BY <1>1, <1>3 DEF FoundRequests

LEMMA BookOK ==
  ASSUME BookingInv, NEW w \in Requests, Book(w)
  PROVE  BookingInv'
<1>1. PICK free : free = request[w].free
  OBVIOUS
<1>2. /\ request[w].at = "book" /\ RequestIs(w, NoRequest)
      /\ row' = Append(row, NewRow(request[w], free, "CONFIRMED", TRUE, FALSE))
  BY <1>1 DEF Book
<1>3. "CONFIRMED" \in Counting /\ free \in Int
  BY <1>1, <1>2, FoundStarts DEF Counting
<1>4. QED BY <1>1, <1>2, <1>3, ANewRow

LEMMA ProposeOK ==
  ASSUME BookingInv, NEW w \in Requests, Propose(w)
  PROVE  BookingInv'
<1>1. PICK start : start = request[w].other
  OBVIOUS
<1>2. /\ request[w].at = "propose" /\ RequestIs(w, NoRequest)
      /\ row' = Append(row, NewRow(request[w], start, "PROPOSED", FALSE, TRUE))
  BY <1>1 DEF Propose
<1>3. "PROPOSED" \in Counting /\ start \in Int
  BY <1>1, <1>2, FoundStarts DEF Counting
<1>4. QED BY <1>1, <1>2, <1>3, ANewRow

LEMMA LoseSlotOK ==
  ASSUME BookingInv, NEW w \in Requests, LoseSlot(w)
  PROVE  BookingInv'
<1>1. PICK q : q = request[w]
  OBVIOUS
<1>2. PICK f : f = [q EXCEPT !.at = "propose", !.free = NoStart]
  OBVIOUS
<1>3. RequestFits(row, q) /\ q.at = "book" /\ q # NoRequest
  BY <1>1 DEF BookingInv, LoseSlot, NoRequest
<1>4. q \in FoundRequests
  BY <1>3 DEF RequestFits
<1>5. /\ f.kind = q.kind /\ f.rep = q.rep /\ f.trainer = q.trainer /\ f.counted = q.counted
      /\ f.seen = q.seen /\ f.other = q.other /\ f.at = "propose"
      /\ f \in FoundRequests
  <2>1. NoStart \in Int
    BY DEF NoStart
  <2> HIDE DEF NoStart
  <2>2. PICK h : h = [q EXCEPT !.at = "propose"]
    OBVIOUS
  <2>3. f = [h EXCEPT !.free = NoStart]
    BY <1>2, <2>2
  <2>4. /\ h \in FoundRequests /\ h.at = "propose" /\ h.kind = q.kind /\ h.rep = q.rep
        /\ h.trainer = q.trainer /\ h.counted = q.counted /\ h.seen = q.seen
        /\ h.other = q.other
    BY <1>4, <2>2 DEF FoundRequests
  <2>5. /\ f.kind = h.kind /\ f.rep = h.rep /\ f.trainer = h.trainer
        /\ f.counted = h.counted /\ f.seen = h.seen /\ f.other = h.other /\ f.at = h.at
        /\ f \in FoundRequests
    BY <2>1, <2>3, <2>4 DEF FoundRequests
  <2>6. QED BY <2>4, <2>5
<1>6. RequestFits(row, f)
  BY <1>3, <1>5 DEF RequestFits
<1>7. RequestIs(w, f) /\ UNCHANGED row
  BY <1>1, <1>2 DEF LoseSlot
<1>8. QED BY <1>6, <1>7, ARequestOnly

LEMMA RequestDiesOK ==
  ASSUME BookingInv, NEW w \in Requests, RequestDies(w)
  PROVE  BookingInv'
<1>1. RequestFits(row, NoRequest)
  BY DEF RequestFits
<1>2. QED BY <1>1, ARequestOnly DEF RequestDies

LEMMA BookingStarts == BookingInit => BookingInv
<1> SUFFICES ASSUME BookingInit PROVE BookingInv
  OBVIOUS
<1>1. row = <<>> /\ request = [w \in Requests |-> NoRequest]
  BY DEF BookingInit
<1>2. row \in Seq(BookingRows) /\ DOMAIN row = {}
  BY <1>1
<1>3. \A w \in Requests : RequestFits(row, request[w])
  BY <1>1 DEF RequestFits
<1>4. request = [w \in Requests |-> request[w]]
  BY <1>1
<1>5. QED BY <1>2, <1>3, <1>4 DEF BookingInv

LEMMA BookingStep == BookingInv /\ [BookingNext]_bookingVars => BookingInv'
<1> SUFFICES ASSUME BookingInv, [BookingNext]_bookingVars PROVE BookingInv'
  OBVIOUS
<1>1. ASSUME NEW w \in Requests, NEW rep \in Reps, NEW trainer \in Trainers, NEW now \in Nows,
             ProposeAppointment(w, rep, trainer, now) \/ ProposeSession(w, rep, trainer, now)
      PROVE  BookingInv'
  BY <1>1, ProposeAppointmentOK, ProposeSessionOK
<1>2. ASSUME NEW w \in Requests, NEW connected \in BOOLEAN, Search(w, connected)
      PROVE  BookingInv'
  BY <1>2, SearchOK
<1>3. ASSUME NEW w \in Requests, Book(w) \/ LoseSlot(w) \/ Propose(w) \/ RequestDies(w)
      PROVE  BookingInv'
  BY <1>3, BookOK, LoseSlotOK, ProposeOK, RequestDiesOK
<1>4. ASSUME NEW w \in Requests, NEW i \in DOMAIN row, NEW now \in Nows, Decline(w, i, now)
      PROVE  BookingInv'
  BY <1>4, DeclineOK
<1>5. ASSUME NEW i \in DOMAIN row, NEW status \in {"HELD", "NO_SHOW"}, Outcome(i, status)
      PROVE  BookingInv'
  BY <1>5, OutcomeOK
<1>6. ASSUME NEW i \in DOMAIN row, NEW status \in {"CONFIRMED", "DECLINED"}, Respond(i, status)
      PROVE  BookingInv'
  BY <1>6, RespondOK
<1>7. CASE UNCHANGED bookingVars
  BY <1>7 DEF bookingVars, BookingInv
<1>8. QED BY <1>1, <1>2, <1>3, <1>4, <1>5, <1>6, <1>7 DEF BookingNext

LEMMA BookingAlways == BookingSpec => []BookingInv
<1>1. QED BY BookingStarts, BookingStep, PTL DEF BookingSpec

LEMMA InvExplainsClashes == BookingInv => ClashExplained
<1> SUFFICES ASSUME BookingInv, NEW i \in DOMAIN row, NEW j \in DOMAIN row, i < j, Clash(i, j)
             PROVE  row[j].seen < i \/ row[j].tentative \/ row[i].revived
  BY DEF ClashExplained
<1>1. /\ Len(row) \in Nat /\ DOMAIN row = 1..Len(row) /\ row[j].seen \in Nat
      /\ row[j].tentative \in BOOLEAN /\ row[i].revived \in BOOLEAN /\ row[j].kind \in Kinds
  BY RowsAreTyped DEF BookingInv
<1>2. SUFFICES ASSUME i <= row[j].seen, row[j].tentative = FALSE PROVE row[i].revived = TRUE
  <2>1. row[j].seen < i \/ i <= row[j].seen
    BY <1>1
  <2>2. /\ row[j].tentative = FALSE \/ row[j].tentative
        /\ row[i].revived = TRUE => row[i].revived
    BY <1>1, Zenon
  <2>3. QED BY <2>1, <2>2, Zenon
<1>3. Free(row[j].kind, row[j].rep, row[j].trainer, row[j].start, row[i])
  <2>1. RowFits(row, j)
    BY DEF BookingInv
  <2>2. QED BY <1>2, <2>1 DEF RowFits
<1>4. /\ Holds(row[i]) /\ Parties(row[i]) \cap {row[j].rep, row[j].trainer} # {}
      /\ Overlaps(row[i].start, Ends(row[i]), row[j])
  BY DEF Clash, Parties
<1>5. Overlaps(row[j].start, row[j].start + Duration[row[j].kind], row[i])
  BY <1>4 DEF Overlaps, Ends
<1>6. QED BY <1>3, <1>4, <1>5 DEF Free



LEMMA InvExplainsTheCap == BookingInv => CapExplained
<1> SUFFICES ASSUME BookingInv, NEW rep \in Reps, NEW first \in SessionsOf(rep),
                    Cardinality(InWeek(rep, row[first].start)) > Cap
             PROVE  \E i, j \in InWeek(rep, row[first].start) :
                      i < j /\ (row[j].counted < i \/ row[i].revived)
  BY DEF CapExplained
<1> DEFINE t == row[first].start
           S == InWeek(rep, t)
<1>1. /\ Len(row) \in Nat /\ DOMAIN row = 1..Len(row) /\ Cap \in Nat /\ Week \in Nat
      /\ \A i \in DOMAIN row : row[i].revived \in BOOLEAN /\ row[i].counted \in Nat
                               /\ row[i].start \in Int
      /\ t \in Int
  BY RowsAreTyped, BookingConstants DEF BookingInv, SessionsOf
<1> HIDE DEF t
<1>2. /\ S \subseteq 1..Len(row) /\ IsFiniteSet(S) /\ Cardinality(S) \in Nat
      /\ IsFiniteSet(1..Len(row))
  <2>1. S \subseteq 1..Len(row)
    BY <1>1 DEF InWeek, SessionsFrom, SessionsOf
  <2>2. IsFiniteSet(1..Len(row))
    <3>1. 1 \in Int /\ Len(row) \in Int
      BY <1>1
    <3>2. QED BY <3>1, FS_Interval
  <2>3. QED BY <2>1, <2>2, FS_Subset, FS_CardinalityType
<1>3. S # {}
  <2>1. Cardinality({}) = 0
    BY FS_EmptySet
  <2>2. Cardinality(S) # 0
    <3>1. Cardinality(S) > Cap
      BY DEF S, t
    <3>2. QED BY <1>1, <1>2, <3>1
  <2>3. QED BY <2>1, <2>2, Zenon
<1>4. PICK m \in S : \A i \in S : i <= m
  BY <1>1, <1>2, <1>3, LastOf
<1>5. ASSUME \A i \in S : i < m => i <= row[m].counted /\ row[i].revived = FALSE
      PROVE  FALSE
  <2> DEFINE C == CountedOf(row, rep, row[m].counted, row[m].start - Week)
  <2>1. /\ m \in DOMAIN row /\ row[m].kind = "session" /\ row[m].rep = rep
        /\ row[m].counted \in Nat /\ row[m].start \in Int /\ row[m].start < t + Week
    BY <1>1, <1>2, <1>4 DEF InWeek, SessionsFrom, SessionsOf
  <2>2. RowFits(row, m)
    BY <2>1 DEF BookingInv
  <2>3. Cardinality(C) < Cap /\ row[m].counted < m
    BY <2>1, <2>2 DEF RowFits, UnderCap
  <2>4. S \subseteq C \cup {m}
    <3>1. ASSUME NEW i \in S, i # m PROVE i \in C
      <4>1. i < m
        BY <1>2, <1>4, <3>1
      <4>2. i <= row[m].counted /\ row[i].revived = FALSE
        BY <1>5, <4>1
      <4>3. row[i].start \in Int /\ row[i].start >= t
        BY <1>1, <1>2, <3>1 DEF InWeek, SessionsFrom
      <4>4. row[i].start >= row[m].start - Week
        BY <1>1, <2>1, <4>3
      <4>5. i \in SessionsOf(rep)
        BY <3>1 DEF InWeek, SessionsFrom
      <4>6. QED BY <4>2, <4>4, <4>5 DEF SessionsOf, CountedOf, Counting
    <3>2. QED BY <3>1
  <2>5. C \subseteq 1..Len(row)
    BY <1>1 DEF CountedOf
  <2>6. IsFiniteSet(C) /\ Cardinality(C) \in Nat
    <3>1. IsFiniteSet(C)
      BY <1>2, <2>5, FS_Subset
    <3>2. QED BY <3>1, FS_CardinalityType
  <2>7. IsFiniteSet(C \cup {m}) /\ Cardinality(C \cup {m}) <= Cardinality(C) + 1
    <3>1. IsFiniteSet(C \cup {m})
          /\ Cardinality(C \cup {m}) = IF m \in C THEN Cardinality(C) ELSE Cardinality(C) + 1
      BY <2>6, FS_AddElement
    <3>2. CASE m \in C
      BY <2>6, <3>1, <3>2
    <3>3. CASE m \notin C
      BY <2>6, <3>1, <3>3
    <3>4. QED BY <3>2, <3>3
  <2>8. Cardinality(S) <= Cardinality(C \cup {m}) /\ Cardinality(C \cup {m}) \in Nat
    BY <2>4, <2>7, FS_Subset, FS_CardinalityType
  <2> HIDE DEF C, S
  <2>9. Cardinality(S) > Cap
    BY DEF S, t
  <2>10. QED BY <1>1, <1>2, <2>3, <2>6, <2>7, <2>8, <2>9
<1>6. PICK i \in S : i < m /\ ~(i <= row[m].counted /\ row[i].revived = FALSE)
  BY <1>5, Zenon
<1>7. row[m].counted < i \/ row[i].revived
  <2>1. i \in DOMAIN row /\ m \in DOMAIN row /\ i \in Nat /\ row[m].counted \in Nat
    BY <1>1, <1>2, <1>4
  <2>2. row[m].counted < i \/ i <= row[m].counted
    BY <2>1
  <2>3. row[i].revived = FALSE \/ row[i].revived
    BY <1>1, <2>1, Zenon
  <2>4. QED BY <1>6, <2>2, <2>3, Zenon
<1>8. QED BY <1>4, <1>6, <1>7, Zenon DEF t

(* For any calendars, grids, durations and number of requests: nobody is in  *)
(* two meetings at once but for a row the search could not have seen, a      *)
(* proposal on a taken time or a revived session (booking.service.ts).       *)
THEOREM ClashesAreExplained == BookingSpec => []ClashExplained
<1>1. QED BY BookingAlways, InvExplainsClashes, PTL

(* Whatever the cap and the week: a rep has more sessions in one than the    *)
(* cap only where a count was stale or a declined session was confirmed      *)
(* again, though each check counts back from its own instant only.           *)
THEOREM TheCapIsExplained == BookingSpec => []CapExplained
<1>1. QED BY BookingAlways, InvExplainsTheCap, PTL
=============================================================================
