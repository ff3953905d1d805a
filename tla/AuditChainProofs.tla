-------------------------- MODULE AuditChainProofs --------------------------
(***************************************************************************)
(* What holds of AuditChain for any number of writers, checkpointers and   *)
(* verifiers: the chain never forks, the store implements the append-only  *)
(* log, a saved checkpoint stays true, and a verification reports what the *)
(* store holds, or an alarm only when it read the anchors out of order.    *)
(***************************************************************************)
EXTENDS AuditChain, FiniteSetTheorems, TLAPS

Real(tail) ==
    \/ tail = NoTail
    \/ tail.sequence \in DOMAIN rows /\ tail.hash = rows[tail.sequence].hash

(* Rows are numbered from 1, so a free place is the one after the last row *)
(* and a tail that leads to it is still the tail.                          *)
Numbered == \E n \in Nat : DOMAIN rows = 1..n

Shape ==
    /\ Numbered
    /\ \A s \in DOMAIN rows : rows[s].id \in Events
    /\ DOMAIN pc = Calls
    /\ DOMAIN tailOf = Events \cup Checkpointers

TailsReal == \A e \in Events : pc[e] = "tailRead" => Real(tailOf[e])

(* An event has a row only once its call has inserted one, and one only.   *)
OnceInserted ==
    /\ \A s \in DOMAIN rows : pc[rows[s].id] \in {"recorded", "threw"}
    /\ \A e \in Events : pc[e] = "recorded" => \E s \in DOMAIN rows : rows[s].id = e

Chain == Shape /\ TailsReal /\ OnceInserted /\ ChainLinked

LEMMA LastOfInterval ==
    ASSUME NEW n \in Nat, n # 0
    PROVE  Max(1..n) = n
<1>1. n \in 1..n /\ \A y \in 1..n : n >= y
  OBVIOUS
<1>2. \A x \in 1..n : (\A y \in 1..n : x >= y) => x = n
  OBVIOUS
<1>3. QED
  BY <1>1, <1>2 DEF Max

(* The tail a call reads is the last row.                                  *)
LEMMA TailIsLast ==
    ASSUME NEW n \in Nat, DOMAIN rows = 1..n
    PROVE  /\ ChainTail.sequence = n
           /\ ChainTail.sequence \in Nat
           /\ Real(ChainTail)
           /\ (ChainTail = NoTail) <=> (n = 0)
<1>1. CASE n = 0
  BY <1>1 DEF ChainTail, NoTail, Real
<1>2. CASE n # 0
  <2>1. Max(DOMAIN rows) = n /\ DOMAIN rows # {} /\ n \in DOMAIN rows
    BY <1>2, LastOfInterval
  <2>2. ChainTail = [sequence |-> n, hash |-> rows[n].hash]
    BY <2>1 DEF ChainTail
  <2>3. ChainTail # NoTail
    BY <2>2, <1>2 DEF NoTail
  <2>4. QED
    BY <2>1, <2>2, <2>3, <1>2 DEF Real
<1>3. QED
  BY <1>1, <1>2

(* What an insert does, given the invariant: it adds the row after the     *)
(* last, linked to the last.                                               *)
LEMMA InsertAtEnd ==
    ASSUME Chain, NEW e \in Events, Insert(e),
           NEW n \in Nat, DOMAIN rows = 1..n
    PROVE  /\ Place(e) = n + 1
           /\ DOMAIN rows' = 1..(n + 1)
           /\ rows'[n + 1] = NewRow(e)
           /\ \A s \in 1..n : rows'[s] = rows[s]
           /\ tailOf[e].hash = IF n = 0 THEN Genesis ELSE rows[n].hash
<1>1. Real(tailOf[e])
  BY DEF Chain, TailsReal, Insert
<1>2. tailOf[e].sequence \in 0..n
  BY <1>1 DEF Real, NoTail
<1>3. tailOf[e].sequence + 1 \notin 1..n
  BY DEF Insert, Free, Place
<1>4. tailOf[e].sequence = n
  BY <1>2, <1>3
<1>5. Place(e) = n + 1
  BY <1>4 DEF Place
<1>6. rows' = [s \in 1..(n + 1) |-> IF s = n + 1 THEN NewRow(e) ELSE rows[s]]
  <2>1. 1..n \cup {n + 1} = 1..(n + 1)
    OBVIOUS
  <2>2. QED
    BY <1>5, <2>1 DEF Insert
<1>7. tailOf[e].hash = IF n = 0 THEN Genesis ELSE rows[n].hash
  BY <1>1, <1>4 DEF Real, NoTail
<1>8. QED
  BY <1>5, <1>6, <1>7

LEMMA InsertKeepsChain ==
    ASSUME Chain, NEW e \in Events, Insert(e), NEW place,
           place \in {"recorded", "threw"}, Goto(e, place)
    PROVE  Chain'
<1>1. PICK n \in Nat : DOMAIN rows = 1..n
  BY DEF Chain, Shape, Numbered
<1>2. /\ DOMAIN rows' = 1..(n + 1)
      /\ rows'[n + 1] = NewRow(e)
      /\ \A s \in 1..n : rows'[s] = rows[s]
      /\ tailOf[e].hash = IF n = 0 THEN Genesis ELSE rows[n].hash
      /\ tailOf[e].sequence + 1 = n + 1
  BY <1>1, InsertAtEnd DEF Place
<1>3. /\ pc' = [pc EXCEPT ![e] = place]
      /\ tailOf' = tailOf
      /\ channelOf' = channelOf
  BY DEF Goto, Insert, writerUnchanged
<1>4. e \in Calls /\ DOMAIN pc = Calls
  BY DEF Calls, Chain, Shape
<1>5. Shape'
  <2>1. n + 1 \in Nat
    OBVIOUS
  <2>2. \A s \in DOMAIN rows' : rows'[s].id \in Events
    BY <1>1, <1>2 DEF NewRow, Chain, Shape
  <2>3. QED
    BY <1>2, <1>3, <2>1, <2>2 DEF Chain, Shape, Numbered
<1>6. TailsReal'
  BY <1>1, <1>2, <1>3, <1>4 DEF Chain, TailsReal, Real
<1>7. OnceInserted'
  <2>1. \A s \in DOMAIN rows' : pc'[rows'[s].id] \in {"recorded", "threw"}
    BY <1>1, <1>2, <1>3, <1>4 DEF Chain, OnceInserted, Shape, NewRow, Calls
  <2>2. \A f \in Events : pc'[f] = "recorded" => \E s \in DOMAIN rows' : rows'[s].id = f
    <3>1. rows'[n + 1].id = e /\ n + 1 \in DOMAIN rows'
      BY <1>2 DEF NewRow
    <3>2. ASSUME NEW f \in Events, f # e, pc'[f] = "recorded"
          PROVE  \E s \in DOMAIN rows' : rows'[s].id = f
      <4>1. pc[f] = "recorded"
        BY <3>2, <1>3, <1>4 DEF Calls
      <4>2. PICK s \in DOMAIN rows : rows[s].id = f
        BY <4>1 DEF Chain, OnceInserted
      <4>3. QED
        BY <4>2, <1>1, <1>2
    <3>3. QED
      BY <3>1, <3>2
  <2>3. QED
    BY <2>1, <2>2 DEF OnceInserted
<1>8. ChainLinked'
  <2>1. ASSUME NEW s \in 1..n
        PROVE  /\ rows'[s].prev = IF s = 1 THEN Genesis ELSE rows'[s - 1].hash
               /\ rows'[s].hash = Hash(rows'[s].id, s, channelOf'[rows'[s].id], rows'[s].prev)
    <3>1. s = 1 \/ s - 1 \in 1..n
      OBVIOUS
    <3>2. QED
      BY <1>1, <1>2, <1>3, <3>1 DEF Chain, ChainLinked
  <2>2. /\ rows'[n + 1].prev = IF n + 1 = 1 THEN Genesis ELSE rows'[n].hash
        /\ rows'[n + 1].hash =
              Hash(rows'[n + 1].id, n + 1, channelOf'[rows'[n + 1].id], rows'[n + 1].prev)
    <3>1. n # 0 => n \in 1..n
      OBVIOUS
    <3>2. QED
      BY <1>2, <1>3, <3>1 DEF NewRow
  <2>3. \A s \in 1..(n + 1) : s \in 1..n \/ s = n + 1
    OBVIOUS
  <2>4. QED
    BY <1>2, <2>1, <2>2, <2>3 DEF ChainLinked
<1>9. QED
  BY <1>5, <1>6, <1>7, <1>8 DEF Chain

(* Steps that leave the rows alone and move no writer into "recorded".     *)
LEMMA OthersKeepChain ==
    ASSUME Chain, UNCHANGED <<rows, channelOf>>, DOMAIN pc' = Calls, DOMAIN tailOf' = DOMAIN tailOf,
           \A e \in Events : pc'[e] = pc[e] /\ tailOf'[e] = tailOf[e]
    PROVE  Chain'
  BY DEF Chain, Shape, Numbered, TailsReal, Real, OnceInserted, ChainLinked

LEMMA ChainInit == Init => Chain
<1> SUFFICES ASSUME Init PROVE Chain
  OBVIOUS
<1>1. DOMAIN rows = 1..0
  BY DEF Init
<1>2. DOMAIN rows = {}
  BY <1>1
<1>3. Shape
  BY <1>1, <1>2 DEF Init, Shape, Numbered
<1>4. QED
  BY <1>2, <1>3 DEF Init, Chain, TailsReal, OnceInserted, ChainLinked, Calls

LEMMA ChainStep == Chain /\ [Next]_vars => Chain'
<1> SUFFICES ASSUME Chain, [Next]_vars PROVE Chain'
  OBVIOUS
<1> USE DEF Goto, writerUnchanged
<1>0. DOMAIN pc = Calls /\ DOMAIN tailOf = Events \cup Checkpointers
  BY DEF Chain, Shape
<1>1. ASSUME NEW e \in Events, ReadTail(e) PROVE Chain'
  <2>1. /\ rows' = rows /\ channelOf' = channelOf
        /\ pc' = [pc EXCEPT ![e] = "tailRead"]
        /\ tailOf' = [tailOf EXCEPT ![e] = ChainTail]
        /\ pc[e] = "idle"
    BY <1>1 DEF ReadTail
  <2>2. e \in Calls
    BY DEF Calls
  <2>3. Real(ChainTail)
    BY TailIsLast DEF Chain, Shape, Numbered
  <2>4. TailsReal'
    BY <2>1, <2>2, <2>3, <1>0 DEF Chain, TailsReal, Real, Calls
  <2>5. OnceInserted'
    BY <2>1, <2>2, <1>0 DEF Chain, OnceInserted, Calls, Shape
  <2>6. QED
    BY <2>1, <2>4, <2>5, <1>0 DEF Chain, Shape, Numbered, ChainLinked
<1>2. ASSUME NEW e \in Events, AppendRow(e) PROVE Chain'
  BY <1>2, InsertKeepsChain DEF AppendRow
<1>3. ASSUME NEW e \in Events, AppendUnanswered(e) PROVE Chain'
  BY <1>3, InsertKeepsChain DEF AppendUnanswered
<1>4. ASSUME NEW e \in Events, RecordThrows(e) PROVE Chain'
  <2>1. /\ rows' = rows /\ channelOf' = channelOf /\ tailOf' = tailOf
        /\ pc' = [pc EXCEPT ![e] = "threw"]
        /\ pc[e] \in {"idle", "tailRead"}
    BY <1>4 DEF RecordThrows
  <2>2. e \in Calls
    BY DEF Calls
  <2>3. TailsReal'
    BY <2>1, <2>2, <1>0 DEF Chain, TailsReal, Real, Calls
  <2>4. OnceInserted'
    BY <2>1, <2>2, <1>0 DEF Chain, OnceInserted, Calls, Shape
  <2>5. QED
    BY <2>1, <2>3, <2>4, <1>0 DEF Chain, Shape, Numbered, ChainLinked
<1>5. ASSUME NEW k \in Checkpointers, ReadHead(k) \/ CountRows(k) \/ Stamp(k) \/ Save(k)
      PROVE  Chain'
  <2>1. k \notin Events
    BY AuditAssumption
  <2>2. UNCHANGED <<rows, channelOf>>
    BY <1>5 DEF ReadHead, CountRows, Stamp, Save
  <2>3. DOMAIN pc' = Calls /\ \A e \in Events : pc'[e] = pc[e]
    BY <1>5, <1>0, <2>1 DEF ReadHead, CountRows, Stamp, Save, Calls
  <2>4. DOMAIN tailOf' = DOMAIN tailOf /\ \A e \in Events : tailOf'[e] = tailOf[e]
    BY <1>5, <1>0, <2>1 DEF ReadHead, CountRows, Stamp, Save
  <2>5. QED
    BY <2>2, <2>3, <2>4, OthersKeepChain
<1>6. ASSUME NEW v \in Verifiers,
             VerifyStoredChain(v) \/ GetCheckpoint(v) \/ GetRows(v) \/ GetTail(v)
      PROVE  Chain'
  <2>1. v \notin Events
    BY AuditAssumption
  <2>2. UNCHANGED <<rows, channelOf, tailOf>>
    BY <1>6 DEF VerifyStoredChain, GetCheckpoint, GetRows, GetTail, Progress
  <2>3. DOMAIN pc' = Calls /\ \A e \in Events : pc'[e] = pc[e]
    BY <1>6, <1>0, <2>1
       DEF VerifyStoredChain, GetCheckpoint, GetRows, GetTail, Progress, Calls
  <2>4. QED
    BY <2>2, <2>3, OthersKeepChain
<1>7. CASE Tick
  BY <1>7, <1>0, OthersKeepChain DEF Tick
<1>8. CASE UNCHANGED vars
  BY <1>8, <1>0, OthersKeepChain DEF vars
<1>9. QED
  BY <1>1, <1>2, <1>3, <1>4, <1>5, <1>6, <1>7, <1>8 DEF Next

LEMMA ChainAlways == Spec => []Chain
  BY ChainInit, ChainStep, PTL DEF Spec

(* Whatever writers interleave, fail or lose their answers, each row is    *)
(* hashed over its predecessor: no two rows continue the same chain.       *)
THEOREM ChainNeverForks == Spec => []ChainLinked
<1>1. Chain => ChainLinked
  BY DEF Chain
<1>2. QED
  BY <1>1, ChainAlways, PTL

-----------------------------------------------------------------------------
(* The log and the answers, as AppendOnlyLog sees them.                    *)

LogOf == [s \in DOMAIN rows |-> rows[s].id]
ReturnedOf == {e \in Events : pc[e] = "recorded"}

LEMMA InsertRecords ==
    ASSUME Chain, NEW e \in Events, AppendRow(e) \/ AppendUnanswered(e)
    PROVE  Log!Record(e)
<1>1. PICK n \in Nat : DOMAIN rows = 1..n
  BY DEF Chain, Shape, Numbered
<1>2. Insert(e)
  BY DEF AppendRow, AppendUnanswered
<1>3. /\ DOMAIN rows' = 1..(n + 1)
      /\ rows'[n + 1] = NewRow(e)
      /\ \A s \in 1..n : rows'[s] = rows[s]
  BY <1>1, <1>2, InsertAtEnd
<1>4. \A s \in DOMAIN LogOf : LogOf[s] # e
  <2>1. pc[e] = "tailRead"
    BY <1>2 DEF Insert
  <2>2. \A s \in DOMAIN rows : rows[s].id # e
    BY <2>1 DEF Chain, OnceInserted
  <2>3. QED
    BY <2>2 DEF LogOf
<1>5. LogOf' = Append(LogOf, e)
  <2>1. LogOf = [s \in 1..n |-> rows[s].id] /\ LogOf \in Seq(Events) /\ Len(LogOf) = n
    <3>1. LogOf = [s \in 1..n |-> rows[s].id]
      BY <1>1 DEF LogOf
    <3>2. LogOf \in [1..n -> Events]
      BY <1>1, <3>1 DEF Chain, Shape
    <3>3. QED
      BY <3>1, <3>2
  <2>2. Append(LogOf, e) = [s \in 1..(n + 1) |-> IF s = n + 1 THEN e ELSE LogOf[s]]
    BY <2>1
  <2>3. LogOf' = [s \in 1..(n + 1) |-> rows'[s].id]
    BY <1>3 DEF LogOf
  <2>4. ASSUME NEW s \in 1..(n + 1)
        PROVE  rows'[s].id = IF s = n + 1 THEN e ELSE LogOf[s]
    <3>1. s = n + 1 \/ s \in 1..n
      OBVIOUS
    <3>2. QED
      BY <1>3, <2>1, <3>1 DEF NewRow
  <2>5. QED
    BY <2>2, <2>3, <2>4
<1>6. ReturnedOf' \in {ReturnedOf, ReturnedOf \cup {e}}
  <2>1. DOMAIN pc = Calls /\ e \in Calls /\ Events \subseteq Calls
    BY DEF Chain, Shape, Calls
  <2>2. CASE AppendRow(e)
    <3>1. pc' = [pc EXCEPT ![e] = "recorded"]
      BY <2>2 DEF AppendRow, Goto
    <3>2. ReturnedOf' = ReturnedOf \cup {e}
      BY <2>1, <3>1 DEF ReturnedOf
    <3>3. QED
      BY <3>2
  <2>3. CASE AppendUnanswered(e)
    <3>1. pc' = [pc EXCEPT ![e] = "threw"] /\ pc[e] = "tailRead"
      BY <2>3, <1>2 DEF AppendUnanswered, Goto, Insert
    <3>2. ReturnedOf' = ReturnedOf
      BY <2>1, <3>1 DEF ReturnedOf
    <3>3. QED
      BY <3>2
  <2>4. QED
    BY <2>2, <2>3
<1>7. QED
  BY <1>4, <1>5, <1>6 DEF Log!Record, Log!Logged, LogOf, ReturnedOf

(* Every other step leaves the log and the answers as they were.           *)
LEMMA OthersStutter ==
    ASSUME DOMAIN pc = Calls, rows' = rows,
           \A e \in Events : pc'[e] = "recorded" <=> pc[e] = "recorded"
    PROVE  LogOf' = LogOf /\ ReturnedOf' = ReturnedOf
  BY DEF LogOf, ReturnedOf

LEMMA LogStep == Chain /\ [Next]_vars => [Log!Next]_<<LogOf, ReturnedOf>>
<1> SUFFICES ASSUME Chain, [Next]_vars PROVE [Log!Next]_<<LogOf, ReturnedOf>>
  OBVIOUS
<1> USE DEF Goto, writerUnchanged
<1>0. DOMAIN pc = Calls
  BY DEF Chain, Shape
<1>1. ASSUME NEW e \in Events, AppendRow(e) \/ AppendUnanswered(e)
      PROVE  Log!Next
  BY <1>1, InsertRecords DEF Log!Next
<1>2. ASSUME NEW e \in Events, ReadTail(e) \/ RecordThrows(e)
      PROVE  UNCHANGED <<LogOf, ReturnedOf>>
  BY <1>2, <1>0, OthersStutter DEF ReadTail, RecordThrows, Calls
<1>3. ASSUME NEW k \in Checkpointers, ReadHead(k) \/ CountRows(k) \/ Stamp(k) \/ Save(k)
      PROVE  UNCHANGED <<LogOf, ReturnedOf>>
  <2>1. k \notin Events
    BY AuditAssumption
  <2>2. rows' = rows /\ \A e \in Events : pc'[e] = pc[e]
    BY <1>3, <1>0, <2>1 DEF ReadHead, CountRows, Stamp, Save, Calls
  <2>3. QED
    BY <2>2, <1>0, OthersStutter
<1>4. ASSUME NEW v \in Verifiers,
             VerifyStoredChain(v) \/ GetCheckpoint(v) \/ GetRows(v) \/ GetTail(v)
      PROVE  UNCHANGED <<LogOf, ReturnedOf>>
  <2>1. v \notin Events
    BY AuditAssumption
  <2>2. rows' = rows /\ \A e \in Events : pc'[e] = pc[e]
    BY <1>4, <1>0, <2>1
       DEF VerifyStoredChain, GetCheckpoint, GetRows, GetTail, Progress, Calls
  <2>3. QED
    BY <2>2, <1>0, OthersStutter
<1>5. CASE Tick \/ UNCHANGED vars
  BY <1>5, <1>0, OthersStutter DEF Tick, vars
<1>6. QED
  BY <1>1, <1>2, <1>3, <1>4, <1>5 DEF Next

(* Every step of the store is an Append of the abstract log or changes     *)
(* nothing it can see: rows go in at the end, once per event, and a call   *)
(* returns only for an event that is in.                                   *)
THEOREM StoreIsAppendOnlyLog == Spec => ImplementsLog
<1>1. Init => Log!Init
  <2>1. ASSUME Init PROVE DOMAIN rows = {} /\ \A e \in Events : pc[e] # "recorded"
    BY <2>1 DEF Init, Calls
  <2>2. ASSUME Init PROVE LogOf = << >> /\ ReturnedOf = {}
    BY <2>1, <2>2 DEF LogOf, ReturnedOf
  <2>3. QED
    BY <2>2 DEF Log!Init, LogOf, ReturnedOf
<1>2. Chain /\ [Next]_vars =>
         [Log!Next]_<<[s \in DOMAIN rows |-> rows[s].id], {e \in Events : pc[e] = "recorded"}>>
  BY LogStep DEF LogOf, ReturnedOf
<1>3. QED
  BY <1>1, <1>2, ChainAlways, PTL DEF Spec, ImplementsLog, Log!Spec

-----------------------------------------------------------------------------
(* What a checkpointer holds is already true of the store, which only      *)
(* grows: its tail is a row, and the rows it counted are at least as many  *)
(* as the tail's sequence because it counted them afterwards.              *)

Stands(sequence, head, count) ==
    /\ sequence \in DOMAIN rows
    /\ rows[sequence].hash = head
    /\ count \in Nat /\ sequence <= count
    /\ 1..count \subseteq DOMAIN rows

HeadsReal ==
    \A k \in Checkpointers :
        /\ pc[k] = "tailRead" => tailOf[k] # NoTail /\ Real(tailOf[k])
        /\ pc[k] \in {"counted", "stamped"} =>
              Stands(tailOf[k].sequence, tailOf[k].hash, draftOf[k].count)

Saved == \A c \in checkpoints : Stands(c.sequence, c.head, c.count)

Drafts == draftOf \in [Checkpointers -> [count : Nat, at : Nat]] /\ now \in Nat

Anchors == HeadsReal /\ Saved /\ Drafts

LEMMA RowsGrow ==
    Chain /\ [Next]_vars =>
        /\ DOMAIN rows \subseteq DOMAIN rows'
        /\ \A s \in DOMAIN rows : rows'[s] = rows[s]
<1> SUFFICES ASSUME Chain, [Next]_vars
             PROVE  /\ DOMAIN rows \subseteq DOMAIN rows'
                    /\ \A s \in DOMAIN rows : rows'[s] = rows[s]
  OBVIOUS
<1>1. ASSUME NEW e \in Events, Insert(e)
      PROVE  /\ DOMAIN rows \subseteq DOMAIN rows'
             /\ \A s \in DOMAIN rows : rows'[s] = rows[s]
  BY <1>1 DEF Insert, Free
<1>2. CASE rows' = rows
  BY <1>2
<1>3. rows' = rows \/ \E e \in Events : Insert(e)
  BY DEF Next, vars, ReadTail, AppendRow, AppendUnanswered, RecordThrows, ReadHead,
         CountRows, Stamp, Save, VerifyStoredChain, GetCheckpoint, GetRows, GetTail,
         Progress, Tick
<1>4. QED
  BY <1>1, <1>2, <1>3

LEMMA StandsOn ==
    ASSUME NEW sequence, NEW head, NEW count, Stands(sequence, head, count),
           DOMAIN rows \subseteq DOMAIN rows',
           \A s \in DOMAIN rows : rows'[s] = rows[s]
    PROVE  /\ sequence \in DOMAIN rows'
           /\ rows'[sequence].hash = head
           /\ count \in Nat /\ sequence <= count
           /\ 1..count \subseteq DOMAIN rows'
  BY DEF Stands

LEMMA AnchorsInit == Init => Anchors
  BY DEF Init, Anchors, HeadsReal, Saved, Drafts, Calls, AuditAssumption

LEMMA AnchorsStep == Chain /\ Anchors /\ [Next]_vars => Anchors'
<1> SUFFICES ASSUME Chain, Anchors, [Next]_vars PROVE Anchors'
  OBVIOUS
<1> USE DEF Goto, writerUnchanged
<1>0. DOMAIN pc = Calls /\ DOMAIN tailOf = Events \cup Checkpointers
  BY DEF Chain, Shape
<1>1. PICK n \in Nat : DOMAIN rows = 1..n
  BY DEF Chain, Shape, Numbered
<1>2. DOMAIN rows \subseteq DOMAIN rows' /\ \A s \in DOMAIN rows : rows'[s] = rows[s]
  BY RowsGrow
<1>3. ASSUME UNCHANGED <<checkpoints>> PROVE Saved'
  <2>1. ASSUME NEW c \in checkpoints
        PROVE  /\ c.sequence \in DOMAIN rows'
               /\ rows'[c.sequence].hash = c.head
               /\ c.count \in Nat /\ c.sequence <= c.count
               /\ 1..c.count \subseteq DOMAIN rows'
    BY <1>2, StandsOn DEF Anchors, Saved
  <2>2. QED
    BY <1>3, <2>1 DEF Saved, Stands
<1>4. ASSUME NEW k \in Checkpointers,
             pc'[k] = pc[k], tailOf'[k] = tailOf[k], draftOf'[k].count = draftOf[k].count
      PROVE  /\ pc'[k] = "tailRead" => tailOf'[k] # NoTail /\ Real(tailOf[k])'
             /\ pc'[k] \in {"counted", "stamped"} =>
                   Stands(tailOf[k].sequence, tailOf[k].hash, draftOf[k].count)'
  <2>1. ASSUME pc[k] = "tailRead"
        PROVE  tailOf'[k] # NoTail /\ Real(tailOf[k])'
    BY <1>2, <1>4, <2>1 DEF Anchors, HeadsReal, Real
  <2>2. ASSUME pc[k] \in {"counted", "stamped"}
        PROVE  Stands(tailOf[k].sequence, tailOf[k].hash, draftOf[k].count)'
    <3>1. Stands(tailOf[k].sequence, tailOf[k].hash, draftOf[k].count)
      BY <2>2 DEF Anchors, HeadsReal
    <3>2. QED
      BY <1>2, <1>4, <3>1 DEF Stands
  <2>3. QED
    BY <1>4, <2>1, <2>2
<1>5. ASSUME UNCHANGED <<checkpoints, draftOf>>, now' \in Nat,
             \A k \in Checkpointers : pc'[k] = pc[k] /\ tailOf'[k] = tailOf[k]
      PROVE  Anchors'
  <2>1. HeadsReal'
    BY <1>4, <1>5 DEF HeadsReal
  <2>2. Drafts'
    BY <1>5 DEF Anchors, Drafts
  <2>3. QED
    BY <1>3, <1>5, <2>1, <2>2 DEF Anchors
<1>6. ASSUME NEW e \in Events,
             ReadTail(e) \/ AppendRow(e) \/ AppendUnanswered(e) \/ RecordThrows(e)
      PROVE  Anchors'
  <2>1. e \notin Checkpointers
    BY AuditAssumption
  <2>2. QED
    BY <1>5, <1>6, <1>0, <2>1
       DEF ReadTail, AppendRow, AppendUnanswered, RecordThrows, Insert, Calls, Anchors, Drafts
<1>7. ASSUME NEW v \in Verifiers,
             VerifyStoredChain(v) \/ GetCheckpoint(v) \/ GetRows(v) \/ GetTail(v)
      PROVE  Anchors'
  <2>1. v \notin Checkpointers
    BY AuditAssumption
  <2>2. UNCHANGED <<checkpoints, draftOf, tailOf, now>>
    BY <1>7 DEF VerifyStoredChain, GetCheckpoint, GetRows, GetTail, Progress
  <2>3. \A k \in Checkpointers : pc'[k] = pc[k]
    BY <1>7, <1>0, <2>1
       DEF VerifyStoredChain, GetCheckpoint, GetRows, GetTail, Progress, Calls
  <2>4. QED
    BY <1>5, <2>2, <2>3 DEF Anchors, Drafts
<1>8. ASSUME NEW k \in Checkpointers, ReadHead(k) PROVE Anchors'
  <2>1. ChainTail # NoTail => Real(ChainTail)
    BY <1>1, TailIsLast
  <2>2. /\ UNCHANGED <<rows, checkpoints, draftOf, now>>
        /\ pc' = [pc EXCEPT ![k] = IF ChainTail = NoTail THEN "done" ELSE "tailRead"]
        /\ tailOf' = [tailOf EXCEPT ![k] = ChainTail]
    BY <1>8 DEF ReadHead
  <2>3. HeadsReal'
    BY <2>1, <2>2, <1>0 DEF Anchors, HeadsReal, Calls, Real, Stands
  <2>4. QED
    BY <1>3, <2>2, <2>3 DEF Anchors, Drafts
<1>9. ASSUME NEW k \in Checkpointers, CountRows(k) PROVE Anchors'
  <2>1. Cardinality(DOMAIN rows) = n
    BY <1>1, FS_Interval
  <2>2. /\ UNCHANGED <<rows, checkpoints, tailOf, now>>
        /\ pc[k] = "tailRead"
        /\ pc' = [pc EXCEPT ![k] = "counted"]
        /\ draftOf' = [draftOf EXCEPT ![k] = [draftOf[k] EXCEPT !.count = n]]
    BY <1>9, <2>1 DEF CountRows
  <2>3. [draftOf[k] EXCEPT !.count = n] = [count |-> n, at |-> draftOf[k].at]
    BY DEF Anchors, Drafts
  <2>4. Drafts'
    BY <2>2, <2>3 DEF Anchors, Drafts
  <2>5. draftOf'[k].count = n
    BY <2>2, <2>3 DEF Anchors, Drafts
  <2>6. Stands(tailOf[k].sequence, tailOf[k].hash, draftOf[k].count)'
    BY <2>2, <2>5, <1>1 DEF Anchors, HeadsReal, Stands, Real
  <2>7. HeadsReal'
    BY <2>2, <2>6, <1>0 DEF Anchors, HeadsReal, Calls, Drafts, Stands, Real
  <2>8. QED
    BY <1>3, <2>2, <2>4, <2>7 DEF Anchors
<1>10. ASSUME NEW k \in Checkpointers, Stamp(k) PROVE Anchors'
  <2>1. /\ UNCHANGED <<rows, checkpoints, tailOf, now>>
        /\ pc[k] = "counted"
        /\ pc' = [pc EXCEPT ![k] = "stamped"]
        /\ draftOf' = [draftOf EXCEPT ![k] = [draftOf[k] EXCEPT !.at = now]]
    BY <1>10 DEF Stamp
  <2>2. [draftOf[k] EXCEPT !.at = now] = [count |-> draftOf[k].count, at |-> now]
    BY DEF Anchors, Drafts
  <2>3. Drafts'
    BY <2>1, <2>2 DEF Anchors, Drafts
  <2>4. \A j \in Checkpointers : draftOf'[j].count = draftOf[j].count
    BY <2>1, <2>2 DEF Anchors, Drafts
  <2>5. HeadsReal'
    BY <2>1, <2>4, <1>0 DEF Anchors, HeadsReal, Calls, Stands, Real
  <2>6. QED
    BY <1>3, <2>1, <2>3, <2>5 DEF Anchors
<1>11. ASSUME NEW k \in Checkpointers, Save(k) PROVE Anchors'
  <2>1. /\ UNCHANGED <<rows, tailOf, draftOf, now>>
        /\ pc[k] = "stamped"
        /\ pc' = [pc EXCEPT ![k] = "done"]
        /\ checkpoints' = checkpoints \cup
              {[sequence |-> tailOf[k].sequence, head |-> tailOf[k].hash,
                count |-> draftOf[k].count, at |-> draftOf[k].at]}
    BY <1>11 DEF Save
  <2>2. Stands(tailOf[k].sequence, tailOf[k].hash, draftOf[k].count)
    BY <2>1 DEF Anchors, HeadsReal
  <2>3. Saved'
    BY <2>1, <2>2 DEF Anchors, Saved, Stands
  <2>4. HeadsReal'
    BY <2>1, <1>0 DEF Anchors, HeadsReal, Calls, Stands, Real
  <2>5. QED
    BY <2>1, <2>3, <2>4 DEF Anchors, Drafts
<1>12. CASE Tick
  BY <1>12, <1>5 DEF Tick, Anchors, Drafts
<1>13. CASE UNCHANGED vars
  BY <1>13, <1>5 DEF vars, Anchors, Drafts
<1>14. QED
  BY <1>6, <1>7, <1>8, <1>9, <1>10, <1>11, <1>12, <1>13 DEF Next

(* A saved checkpoint never comes to disagree with the store, so an alarm  *)
(* can only come from the order in which the verifier read.                *)
THEOREM CheckpointsAreHonest == Spec => []CheckpointsStand
<1>1. Chain /\ Anchors => CheckpointsStand
  <2> SUFFICES ASSUME Chain, Anchors, NEW c \in checkpoints
               PROVE  /\ c.sequence \in DOMAIN rows
                      /\ rows[c.sequence].hash = c.head
                      /\ c.count \in c.sequence..Cardinality(DOMAIN rows)
    BY DEF CheckpointsStand
  <2>1. PICK n \in Nat : DOMAIN rows = 1..n
    BY DEF Chain, Shape, Numbered
  <2>2. Cardinality(DOMAIN rows) = n
    BY <2>1, FS_Interval
  <2>3. Stands(c.sequence, c.head, c.count)
    BY DEF Anchors, Saved
  <2>4. c.count <= n
    <3>1. c.count = 0 \/ c.count \in 1..c.count
      BY <2>3 DEF Stands
    <3>2. QED
      BY <2>1, <2>3, <3>1 DEF Stands
  <2>5. QED
    BY <2>1, <2>2, <2>3, <2>4 DEF Stands
<1>2. QED
  BY <1>1, ChainAlways, AnchorsInit, AnchorsStep, PTL DEF Spec

-----------------------------------------------------------------------------
(* What a verifier has found of the chain is about rows that do not change *)
(* any more, so it stays the truth about them.                             *)

Renamed(size) == {s \in 1..size : rows[s].channel # channelOf[rows[s].id]}

FirstOf(set) == IF set = {} THEN 0 ELSE Min(set)

Verified ==
    /\ DOMAIN report = Verifiers
    /\ \A v \in Verifiers : pc[v] # "idle" =>
          /\ report[v].size \in Nat
          /\ 1..report[v].size \subseteq DOMAIN rows
          /\ report[v].brokenAt = FirstOf(Renamed(report[v].size))

(* A record with the fields of a verifier's report. *)
IsReport(r) ==
    r = [brokenAt |-> r.brokenAt, size |-> r.size, got |-> r.got,
         checkpoint |-> r.checkpoint, hashes |-> r.hashes, tail |-> r.tail]

Reports == \A v \in Verifiers : IsReport(report[v])

SameVerdict(r, s) == r.size = s.size /\ r.brokenAt = s.brokenAt

LEMMA FirstOfInterval ==
    ASSUME NEW n \in Nat, n # 0
    PROVE  Min(1..n) = 1
<1>1. 1 \in 1..n /\ \A y \in 1..n : 1 <= y
  OBVIOUS
<1>2. \A x \in 1..n : (\A y \in 1..n : x <= y) => x = 1
  OBVIOUS
<1>3. QED
  BY <1>1, <1>2 DEF Min

(* verifyChain finds a fault in a row only for its channel. *)
LEMMA BrokenIsRenamed ==
    ASSUME Chain, NEW n \in Nat, DOMAIN rows = 1..n
    PROVE  BrokenAt = FirstOf(Renamed(n))
<1>1. ASSUME NEW s \in 1..n
      PROVE  BreaksChain(s) <=> rows[s].channel # channelOf[rows[s].id]
  <2>1. Min(DOMAIN rows) = 1
    BY FirstOfInterval
  <2>2. s # 1 => s - 1 \in DOMAIN rows
    OBVIOUS
  <2>3. /\ rows[s].prev = IF s = 1 THEN Genesis ELSE rows[s - 1].hash
        /\ rows[s].hash = Hash(rows[s].id, s, channelOf[rows[s].id], rows[s].prev)
    BY DEF Chain, ChainLinked
  <2>4. \A c, d : Hash(rows[s].id, s, c, rows[s].prev) = Hash(rows[s].id, s, d, rows[s].prev)
                    <=> c = d
    BY DEF Hash
  <2>5. QED
    BY <2>1, <2>2, <2>3, <2>4 DEF BreaksChain
<1>2. {s \in DOMAIN rows : BreaksChain(s)} = Renamed(n)
  BY <1>1 DEF Renamed
<1>3. QED
  BY <1>2 DEF BrokenAt, FirstOf

LEMMA VerifiedInit == Init => Verified /\ Reports
  BY DEF Init, Verified, Reports, IsReport, Calls

LEMMA VerifiedStep == Chain /\ Verified /\ Reports /\ [Next]_vars => Verified' /\ Reports'
<1> SUFFICES ASSUME Chain, Verified, Reports, [Next]_vars PROVE Verified' /\ Reports'
  OBVIOUS
<1> USE DEF Goto, writerUnchanged
<1>0. DOMAIN pc = Calls
  BY DEF Chain, Shape
<1>1. DOMAIN rows \subseteq DOMAIN rows' /\ \A s \in DOMAIN rows : rows'[s] = rows[s]
  BY RowsGrow
<1>2. channelOf' = channelOf
  BY DEF Next, vars, ReadTail, AppendRow, AppendUnanswered, Insert, RecordThrows, ReadHead,
         CountRows, Stamp, Save, VerifyStoredChain, GetCheckpoint, GetRows, GetTail,
         Progress, Tick
<1>3. ASSUME NEW size \in Nat, 1..size \subseteq DOMAIN rows
      PROVE  Renamed(size)' = Renamed(size)
  BY <1>1, <1>2, <1>3 DEF Renamed
<1>4. ASSUME DOMAIN report' = Verifiers,
             \A v \in Verifiers : pc'[v] # "idle" =>
                 /\ pc[v] # "idle"
                 /\ report'[v].size = report[v].size
                 /\ report'[v].brokenAt = report[v].brokenAt
      PROVE  Verified'
  <2>1. ASSUME NEW v \in Verifiers, pc'[v] # "idle"
        PROVE  /\ report'[v].size \in Nat
               /\ 1..report'[v].size \subseteq DOMAIN rows'
               /\ report'[v].brokenAt = FirstOf(Renamed(report[v].size)')
    <3>1. /\ report[v].size \in Nat
          /\ 1..report[v].size \subseteq DOMAIN rows
          /\ report[v].brokenAt = FirstOf(Renamed(report[v].size))
      BY <1>4, <2>1 DEF Verified
    <3>2. Renamed(report[v].size)' = Renamed(report[v].size)
      <4>1. report'[v].size = report[v].size
        BY <1>4, <2>1
      <4>2. QED
        BY <1>1, <1>2, <3>1, <4>1 DEF Renamed
    <3>3. QED
      BY <1>1, <1>4, <2>1, <3>1, <3>2
  <2>2. QED
    BY <1>4, <2>1 DEF Verified, FirstOf
<1>5. ASSUME report' = report, \A v \in Verifiers : pc'[v] = pc[v]
      PROVE  Verified' /\ Reports'
  BY <1>4, <1>5 DEF Verified, Reports
<1>6. ASSUME NEW e \in Events,
             ReadTail(e) \/ AppendRow(e) \/ AppendUnanswered(e) \/ RecordThrows(e)
      PROVE  Verified' /\ Reports'
  <2>1. e \notin Verifiers
    BY AuditAssumption
  <2>2. QED
    BY <1>5, <1>6, <1>0, <2>1
       DEF ReadTail, AppendRow, AppendUnanswered, RecordThrows, Insert, Calls
<1>7. ASSUME NEW k \in Checkpointers, ReadHead(k) \/ CountRows(k) \/ Stamp(k) \/ Save(k)
      PROVE  Verified' /\ Reports'
  <2>1. k \notin Verifiers
    BY AuditAssumption
  <2>2. report' = report /\ \A v \in Verifiers : pc'[v] = pc[v]
    BY <1>7, <1>0, <2>1 DEF ReadHead, CountRows, Stamp, Save, Calls
  <2>3. QED
    BY <1>5, <2>2
<1>8. ASSUME NEW v \in Verifiers, VerifyStoredChain(v) PROVE Verified' /\ Reports'
  <2>1. PICK n \in Nat : DOMAIN rows = 1..n
    BY DEF Chain, Shape, Numbered
  <2>2. Cardinality(DOMAIN rows) = n /\ BrokenAt = FirstOf(Renamed(n))
    BY <2>1, FS_Interval, BrokenIsRenamed
  <2>3. /\ UNCHANGED <<rows, channelOf>>
        /\ pc' = [pc EXCEPT ![v] = "anchoring"]
        /\ report' = [report EXCEPT ![v].brokenAt = BrokenAt, ![v].size = n]
    BY <1>8, <2>2 DEF VerifyStoredChain
  <2>4. /\ DOMAIN report' = Verifiers
        /\ \A u \in Verifiers : u # v => report'[u] = report[u] /\ pc'[u] = pc[u]
        /\ report'[v] = [report[v] EXCEPT !.brokenAt = BrokenAt, !.size = n]
    BY <2>3, <1>0 DEF Verified, Calls
  <2>5. report'[v].brokenAt = BrokenAt /\ report'[v].size = n /\ IsReport(report'[v])
    BY <2>4 DEF Reports, IsReport
  <2>7. Verified'
    <3>1. ASSUME NEW u \in Verifiers, pc'[u] # "idle"
          PROVE  /\ report'[u].size \in Nat
                 /\ 1..report'[u].size \subseteq DOMAIN rows'
                 /\ report'[u].brokenAt = FirstOf(Renamed(report[u].size)')
      <4>1. /\ report'[u].size \in Nat
            /\ 1..report'[u].size \subseteq DOMAIN rows
            /\ report'[u].brokenAt = FirstOf(Renamed(report'[u].size))
        <5>1. CASE u = v
          BY <2>1, <2>2, <2>5, <5>1
        <5>2. CASE u # v
          BY <2>4, <3>1, <5>2 DEF Verified
        <5>3. QED
          BY <5>1, <5>2
      <4>2. Renamed(report[u].size)' = Renamed(report'[u].size)
        BY <2>3 DEF Renamed
      <4>3. QED
        BY <2>3, <4>1, <4>2
    <3>2. QED
      BY <2>4, <3>1 DEF Verified, FirstOf
  <2>8. QED
    BY <2>4, <2>5, <2>7 DEF Reports
<1>9. ASSUME NEW v \in Verifiers, GetCheckpoint(v) \/ GetRows(v) \/ GetTail(v)
      PROVE  Verified' /\ Reports'
  <2>1. /\ pc[v] = "anchoring"
        /\ DOMAIN pc' = DOMAIN pc /\ \A u \in Verifiers : u # v => pc'[u] = pc[u]
    BY <1>9, <1>0 DEF GetCheckpoint, GetRows, GetTail, Progress, Unread, Calls
  <2>2. /\ DOMAIN report' = Verifiers
        /\ \A u \in Verifiers : u # v => report'[u] = report[u]
    BY <1>9 DEF GetCheckpoint, GetRows, GetTail, Verified
  <2>3. IsReport(report'[v]) /\ SameVerdict(report'[v], report[v])
    <3>0. IsReport(report[v])
      BY DEF Reports
    <3>1. CASE GetCheckpoint(v)
      <4>1. PICK c : report'[v] = [report[v] EXCEPT !.checkpoint = c,
                                     !.got = Append(report[v].got, "checkpoint")]
        BY <3>1 DEF GetCheckpoint, Verified
      <4>2. QED
        BY <3>0, <4>1 DEF IsReport, SameVerdict
    <3>2. CASE GetRows(v)
      <4>1. report'[v] = [report[v] EXCEPT
                             !.hashes = [s \in DOMAIN rows |-> rows[s].hash],
                             !.got = Append(report[v].got, "rows")]
        BY <3>2 DEF GetRows, Verified
      <4>2. QED
        BY <3>0, <4>1 DEF IsReport, SameVerdict
    <3>3. CASE GetTail(v)
      <4>1. report'[v] = [report[v] EXCEPT !.tail = ChainTail,
                                           !.got = Append(report[v].got, "tail")]
        BY <3>3 DEF GetTail, Verified
      <4>2. QED
        BY <3>0, <4>1 DEF IsReport, SameVerdict
    <3>4. QED
      BY <1>9, <3>1, <3>2, <3>3
  <2>4. QED
    BY <1>4, <2>1, <2>2, <2>3 DEF Reports, SameVerdict
<1>10. CASE Tick
  BY <1>10, <1>5 DEF Tick
<1>11. CASE UNCHANGED vars
  BY <1>11, <1>5 DEF vars
<1>12. QED
  BY <1>6, <1>7, <1>8, <1>9, <1>10, <1>11 DEF Next

LEMMA VerifiedAlways == Spec => [](Verified /\ Reports)
  BY ChainAlways, VerifiedInit, VerifiedStep, PTL DEF Spec

(* For any number of writers, the first row a verification names is the    *)
(* first one whose channel was stored under another name.                  *)
THEOREM ChainReportIsExact == Spec => []ChainReportExact
<1>1. Verified => ChainReportExact
  BY DEF Verified, ChainReportExact, FirstOf, Renamed
<1>2. QED
  BY <1>1, VerifiedAlways, PTL

-----------------------------------------------------------------------------
(* A checkpoint that is read first stands, and goes on standing: what is   *)
(* read after it can only confirm it.                                      *)

Queries == {"checkpoint", "rows", "tail"}

Has(r, what) == \E i \in DOMAIN r.got : r.got[i] = what

CheckpointFirst(r) == Len(r.got) >= 1 /\ r.got[1] = "checkpoint"

ReadOnce(r) ==
    /\ r.got \in Seq(Queries)
    /\ \A i, j \in DOMAIN r.got : r.got[i] = r.got[j] => i = j
    /\ ~Has(r, "tail") => r.tail = NoTail

RowsConfirm(r) ==
    \E m \in Nat : /\ DOMAIN r.hashes = 1..m
                   /\ r.checkpoint.count <= m
                   /\ r.checkpoint.sequence \in 1..m
                   /\ r.hashes[r.checkpoint.sequence] = r.checkpoint.head

Confirmed(r) ==
    CheckpointFirst(r) /\ r.checkpoint # NoCheckpoint =>
        /\ Stands(r.checkpoint.sequence, r.checkpoint.head, r.checkpoint.count)
        /\ Has(r, "rows") => RowsConfirm(r)
        /\ r.tail # NoTail => r.checkpoint.sequence <= r.tail.sequence

Readings ==
    \A v \in Verifiers :
        /\ ReadOnce(report[v]) /\ Confirmed(report[v])
        /\ pc[v] = "done" => Len(report[v].got) = 3

LEMMA ReadingsInit == Init => Readings
<1> SUFFICES ASSUME Init, NEW v \in Verifiers
             PROVE  /\ ReadOnce(report[v]) /\ Confirmed(report[v])
                    /\ pc[v] = "done" => Len(report[v].got) = 3
  BY DEF Readings
<1>1. /\ report[v].got = << >> /\ report[v].tail = NoTail
      /\ pc[v] = "idle"
  BY DEF Init, Calls
<1>2. /\ << >> \in Seq(Queries) /\ Len(<< >>) = 0 /\ DOMAIN << >> = {}
  OBVIOUS
<1>3. ReadOnce(report[v])
  BY <1>1, <1>2 DEF ReadOnce
<1>4. ~CheckpointFirst(report[v])
  BY <1>1, <1>2 DEF CheckpointFirst
<1>5. QED
  BY <1>1, <1>3, <1>4 DEF Confirmed

(* One more query: its answer is appended, and a checkpoint that was first *)
(* stays first.                                                            *)
LEMMA OneMoreQuery ==
    ASSUME NEW r, NEW q, NEW what \in Queries, ReadOnce(r), ~Has(r, what),
           q.got = Append(r.got, what),
           what # "tail" => q.tail = r.tail
    PROVE  /\ ReadOnce(q)
           /\ Len(q.got) = Len(r.got) + 1
           /\ \A other : Has(q, other) <=> Has(r, other) \/ other = what
           /\ CheckpointFirst(q) <=>
                 IF what = "checkpoint" THEN r.got = << >> ELSE CheckpointFirst(r)
<1>1. /\ q.got \in Seq(Queries)
      /\ Len(q.got) = Len(r.got) + 1
      /\ DOMAIN q.got = 1..(Len(r.got) + 1) /\ DOMAIN r.got = 1..Len(r.got)
      /\ Len(r.got) \in Nat
      /\ q.got[Len(r.got) + 1] = what
      /\ \A i \in 1..Len(r.got) : q.got[i] = r.got[i]
  BY DEF ReadOnce
<1>2. \A i \in 1..(Len(r.got) + 1) : i \in 1..Len(r.got) \/ i = Len(r.got) + 1
  BY <1>1
<1>3. \A other : Has(q, other) <=> Has(r, other) \/ other = what
  BY <1>1, <1>2 DEF Has
<1>4. \A i, j \in DOMAIN q.got : q.got[i] = q.got[j] => i = j
  BY <1>1, <1>2 DEF ReadOnce, Has
<1>5. ~Has(q, "tail") => q.tail = NoTail
  BY <1>3 DEF ReadOnce
<1>6. CheckpointFirst(q) <=>
         IF what = "checkpoint" THEN r.got = << >> ELSE CheckpointFirst(r)
  <2>1. CASE Len(r.got) = 0
    <3>1. r.got = << >> /\ q.got[1] = what
      BY <1>1, <2>1 DEF ReadOnce
    <3>2. QED
      BY <1>1, <2>1, <3>1 DEF CheckpointFirst
  <2>2. CASE Len(r.got) # 0
    <3>1. 1 \in 1..Len(r.got) /\ q.got[1] = r.got[1] /\ r.got # << >>
      BY <1>1, <2>2
    <3>2. what = "checkpoint" => r.got[1] # "checkpoint"
      BY <1>1, <3>1 DEF Has
    <3>3. QED
      BY <1>1, <2>2, <3>1, <3>2 DEF CheckpointFirst
  <2>3. QED
    BY <2>1, <2>2
<1>7. QED
  BY <1>1, <1>3, <1>4, <1>5, <1>6 DEF ReadOnce

LEMMA ReadingsStep ==
    Chain /\ Anchors /\ Verified /\ Reports /\ Readings /\ [Next]_vars => Readings'
<1> SUFFICES ASSUME Chain, Anchors, Verified, Reports, Readings, [Next]_vars
             PROVE  Readings'
  OBVIOUS
<1> USE DEF Goto, writerUnchanged
<1>0. DOMAIN pc = Calls /\ DOMAIN report = Verifiers
  BY DEF Chain, Shape, Verified
<1>1. DOMAIN rows \subseteq DOMAIN rows' /\ \A s \in DOMAIN rows : rows'[s] = rows[s]
  BY RowsGrow
<1>2. ASSUME NEW v \in Verifiers, report'[v] = report[v], pc'[v] = "done" => pc[v] = "done"
      PROVE  /\ ReadOnce(report[v])' /\ Confirmed(report[v])'
             /\ pc'[v] = "done" => Len(report'[v].got) = 3
  <2>1. /\ ReadOnce(report[v]) /\ Confirmed(report[v])
        /\ pc[v] = "done" => Len(report[v].got) = 3
    BY DEF Readings
  <2>2. ReadOnce(report[v])'
    BY <1>2, <2>1 DEF ReadOnce, Has
  <2>3. Confirmed(report[v])'
    <3> DEFINE c == report[v].checkpoint
    <3>1. Stands(c.sequence, c.head, c.count) =>
             /\ c.sequence \in DOMAIN rows'
             /\ rows'[c.sequence].hash = c.head
             /\ c.count \in Nat /\ c.sequence <= c.count
             /\ 1..c.count \subseteq DOMAIN rows'
      BY <1>1, StandsOn
    <3>2. QED
      BY <1>2, <2>1, <3>1 DEF Confirmed, Stands, CheckpointFirst, Has, RowsConfirm
  <2>4. QED
    BY <1>2, <2>1, <2>2, <2>3
<1>3. ASSUME report' = report, \A v \in Verifiers : pc'[v] = "done" => pc[v] = "done"
      PROVE  Readings'
  BY <1>2, <1>3 DEF Readings
<1>4. ASSUME NEW e \in Events,
             ReadTail(e) \/ AppendRow(e) \/ AppendUnanswered(e) \/ RecordThrows(e)
      PROVE  Readings'
  <2>1. e \notin Verifiers
    BY AuditAssumption
  <2>2. QED
    BY <1>3, <1>4, <1>0, <2>1
       DEF ReadTail, AppendRow, AppendUnanswered, RecordThrows, Insert, Calls
<1>5. ASSUME NEW k \in Checkpointers, ReadHead(k) \/ CountRows(k) \/ Stamp(k) \/ Save(k)
      PROVE  Readings'
  <2>1. k \notin Verifiers
    BY AuditAssumption
  <2>2. report' = report /\ \A v \in Verifiers : pc'[v] = pc[v]
    BY <1>5, <1>0, <2>1 DEF ReadHead, CountRows, Stamp, Save, Calls
  <2>3. QED
    BY <1>3, <2>2
<1>6. ASSUME NEW v \in Verifiers, VerifyStoredChain(v) PROVE Readings'
  <2>1. /\ rows' = rows
        /\ pc' = [pc EXCEPT ![v] = "anchoring"]
        /\ \A u \in Verifiers : u # v => report'[u] = report[u]
        /\ report'[v] = [report[v] EXCEPT !.brokenAt = BrokenAt,
                                          !.size = Cardinality(DOMAIN rows)]
    BY <1>6, <1>0 DEF VerifyStoredChain
  <2>2. /\ report'[v].got = report[v].got /\ report'[v].checkpoint = report[v].checkpoint
        /\ report'[v].hashes = report[v].hashes /\ report'[v].tail = report[v].tail
    BY <2>1 DEF Reports, IsReport
  <2>3. ReadOnce(report[v])' /\ Confirmed(report[v])'
    <3>1. ReadOnce(report[v]) /\ Confirmed(report[v])
      BY DEF Readings
    <3>2. ReadOnce(report[v])'
      BY <2>2, <3>1 DEF ReadOnce, Has
    <3>3. Confirmed(report[v])'
      BY <2>1, <2>2, <3>1 DEF Confirmed, Stands, CheckpointFirst, Has, RowsConfirm
    <3>4. QED
      BY <3>2, <3>3
  <2>4. pc'[v] # "done" /\ \A u \in Verifiers : u # v => pc'[u] = pc[u]
    BY <2>1, <1>0 DEF Calls
  <2>5. QED
    BY <1>2, <2>1, <2>3, <2>4 DEF Readings
<1>7. ASSUME NEW v \in Verifiers, NEW what \in Queries, Unread(v, what), Progress(v),
             DOMAIN report' = Verifiers,
             \A u \in Verifiers : u # v => report'[u] = report[u],
             report'[v].got = Append(report[v].got, what),
             what # "tail" => report'[v].tail = report[v].tail,
             Confirmed(report'[v])
      PROVE  Readings'
  <2>1. ReadOnce(report[v]) /\ ~Has(report[v], what)
    BY <1>7 DEF Readings, Unread, Has
  <2>2. ReadOnce(report'[v]) /\ Len(report'[v].got) = Len(report[v].got) + 1
    BY <1>7, <2>1, OneMoreQuery
  <2>3. /\ rows' = rows
        /\ \A u \in Verifiers : u # v => pc'[u] = pc[u]
        /\ pc'[v] = "done" => Len(report'[v].got) = 3
    <3>1. CASE Len(report[v].got) = 2
      <4>1. /\ rows' = rows /\ pc' = [pc EXCEPT ![v] = "done"]
        BY <1>7, <3>1 DEF Progress
      <4>2. \A u \in Verifiers : u # v => pc'[u] = pc[u]
        BY <4>1, <1>0 DEF Calls
      <4>3. QED
        BY <4>1, <4>2, <3>1, <2>2
    <3>2. CASE Len(report[v].got) # 2
      <4>1. /\ rows' = rows /\ pc' = pc /\ pc[v] = "anchoring"
        BY <1>7, <3>2 DEF Progress, Unread
      <4>2. QED
        BY <4>1
    <3>3. QED
      BY <3>1, <3>2
  <2>4. ReadOnce(report[v])' /\ Confirmed(report[v])'
    <3>1. ReadOnce(report[v])'
      BY <2>2 DEF ReadOnce, Has
    <3>2. Confirmed(report[v])'
      BY <1>7, <2>3 DEF Confirmed, Stands, CheckpointFirst, Has, RowsConfirm
    <3>3. QED
      BY <3>1, <3>2
  <2>5. QED
    BY <1>2, <1>7, <2>3, <2>4 DEF Readings
<1>8. PICK n \in Nat : DOMAIN rows = 1..n
  BY DEF Chain, Shape, Numbered
<1>9. ASSUME NEW v \in Verifiers, GetCheckpoint(v) PROVE Readings'
  <2>1. PICK c \in Latest : report'[v] = [report[v] EXCEPT !.checkpoint = c,
                               !.got = Append(report[v].got, "checkpoint")]
    BY <1>9, <1>0 DEF GetCheckpoint
  <2>2. /\ report'[v].checkpoint = c
        /\ report'[v].got = Append(report[v].got, "checkpoint")
        /\ report'[v].tail = report[v].tail
    BY <2>1 DEF Reports, IsReport
  <2>3. c # NoCheckpoint => Stands(c.sequence, c.head, c.count)
    BY DEF Latest, Anchors, Saved
  <2>4. ReadOnce(report[v]) /\ ~Has(report[v], "checkpoint")
    BY <1>9 DEF Readings, GetCheckpoint, Unread, Has
  <2>5. ASSUME CheckpointFirst(report'[v])
        PROVE  ~Has(report'[v], "rows") /\ report'[v].tail = NoTail
    <3>1. report[v].got = << >>
      BY <2>2, <2>4, <2>5, OneMoreQuery DEF Queries
    <3>2. ~Has(report[v], "rows") /\ ~Has(report[v], "tail")
      BY <3>1 DEF Has
    <3>3. ~Has(report'[v], "rows")
      BY <2>2, <2>4, <3>2, OneMoreQuery DEF Queries
    <3>4. QED
      BY <2>2, <2>4, <3>2, <3>3 DEF ReadOnce
  <2>6. Confirmed(report'[v])
    BY <2>2, <2>3, <2>5 DEF Confirmed
  <2>7. /\ DOMAIN report' = Verifiers
        /\ \A u \in Verifiers : u # v => report'[u] = report[u]
    BY <1>9, <1>0 DEF GetCheckpoint
  <2>8. QED
    BY <1>7, <1>9, <2>2, <2>6, <2>7 DEF GetCheckpoint, Queries
<1>10. ASSUME NEW v \in Verifiers, GetRows(v) PROVE Readings'
  <2>1. report'[v] = [report[v] EXCEPT !.hashes = [s \in DOMAIN rows |-> rows[s].hash],
                                       !.got = Append(report[v].got, "rows")]
    BY <1>10, <1>0 DEF GetRows
  <2>2. /\ report'[v].hashes = [s \in DOMAIN rows |-> rows[s].hash]
        /\ report'[v].got = Append(report[v].got, "rows")
        /\ report'[v].checkpoint = report[v].checkpoint
        /\ report'[v].tail = report[v].tail
    BY <2>1 DEF Reports, IsReport
  <2>3. ReadOnce(report[v]) /\ ~Has(report[v], "rows") /\ Confirmed(report[v])
    BY <1>10 DEF Readings, GetRows, Unread, Has
  <2>4. CheckpointFirst(report'[v]) => CheckpointFirst(report[v])
    BY <2>2, <2>3, OneMoreQuery DEF Queries
  <2>5. ASSUME CheckpointFirst(report'[v]), report'[v].checkpoint # NoCheckpoint
        PROVE  RowsConfirm(report'[v])
    <3> DEFINE c == report[v].checkpoint
    <3>1. Stands(c.sequence, c.head, c.count)
      BY <2>2, <2>3, <2>4, <2>5 DEF Confirmed
    <3>2. c.count <= n /\ c.sequence \in 1..n /\ rows[c.sequence].hash = c.head
      <4>1. c.count = 0 \/ c.count \in 1..c.count
        BY <3>1 DEF Stands
      <4>2. QED
        BY <1>8, <3>1, <4>1 DEF Stands
    <3>3. QED
      BY <1>8, <2>2, <3>2 DEF RowsConfirm
  <2>6. Confirmed(report'[v])
    BY <2>2, <2>3, <2>4, <2>5 DEF Confirmed
  <2>7. /\ DOMAIN report' = Verifiers
        /\ \A u \in Verifiers : u # v => report'[u] = report[u]
    BY <1>10, <1>0 DEF GetRows
  <2>8. QED
    BY <1>7, <1>10, <2>2, <2>6, <2>7 DEF GetRows, Queries
<1>11. ASSUME NEW v \in Verifiers, GetTail(v) PROVE Readings'
  <2>1. report'[v] = [report[v] EXCEPT !.tail = ChainTail,
                                       !.got = Append(report[v].got, "tail")]
    BY <1>11, <1>0 DEF GetTail
  <2>2. /\ report'[v].tail = ChainTail
        /\ report'[v].got = Append(report[v].got, "tail")
        /\ report'[v].checkpoint = report[v].checkpoint
        /\ report'[v].hashes = report[v].hashes
    BY <2>1 DEF Reports, IsReport
  <2>3. ReadOnce(report[v]) /\ ~Has(report[v], "tail") /\ Confirmed(report[v])
    BY <1>11 DEF Readings, GetTail, Unread, Has
  <2>4. /\ CheckpointFirst(report'[v]) => CheckpointFirst(report[v])
        /\ Has(report'[v], "rows") => Has(report[v], "rows")
    BY <2>2, <2>3, OneMoreQuery DEF Queries
  <2>5. ChainTail.sequence = n
    BY <1>8, TailIsLast
  <2>6. Confirmed(report'[v])
    <3>1. ASSUME CheckpointFirst(report'[v]), report'[v].checkpoint # NoCheckpoint
          PROVE  report'[v].checkpoint.sequence <= n
      BY <1>8, <2>2, <2>3, <2>4, <3>1 DEF Confirmed, Stands
    <3>2. RowsConfirm(report[v]) => RowsConfirm(report'[v])
      BY <2>2 DEF RowsConfirm
    <3>3. QED
      BY <2>2, <2>3, <2>4, <2>5, <3>1, <3>2 DEF Confirmed
  <2>7. /\ DOMAIN report' = Verifiers
        /\ \A u \in Verifiers : u # v => report'[u] = report[u]
    BY <1>11, <1>0 DEF GetTail
  <2>8. QED
    BY <1>7, <1>11, <2>2, <2>6, <2>7 DEF GetTail, Queries
<1>12. CASE Tick
  BY <1>12, <1>3 DEF Tick
<1>13. CASE UNCHANGED vars
  BY <1>13, <1>3 DEF vars
<1>14. QED
  BY <1>4, <1>5, <1>6, <1>9, <1>10, <1>11, <1>12, <1>13 DEF Next

(* For any number of writers and checkpointers, a verification of an       *)
(* untouched store reports a truncation only if something was read before  *)
(* the checkpoint.                                                         *)
THEOREM AlarmsAreOutOfOrder == Spec => []AlarmOnlyOutOfOrder
<1>1. Readings => AlarmOnlyOutOfOrder
  <2> SUFFICES ASSUME Readings, NEW v \in Verifiers, pc[v] = "done",
                      report[v].got[1] = "checkpoint"
               PROVE  Anchored(report[v])
    BY DEF AlarmOnlyOutOfOrder
  <2> DEFINE r == report[v]
  <2>1. ReadOnce(r) /\ Confirmed(r) /\ Len(r.got) = 3
    BY DEF Readings
  <2>2. Has(r, "rows") /\ CheckpointFirst(r)
    <3>1. 1 \in DOMAIN r.got /\ 2 \in DOMAIN r.got /\ 3 \in DOMAIN r.got
      BY <2>1 DEF ReadOnce
    <3>2. r.got[2] \in Queries /\ r.got[3] \in Queries
      BY <2>1, <3>1 DEF ReadOnce
    <3>3. r.got[2] # r.got[3] /\ r.got[2] # "checkpoint" /\ r.got[3] # "checkpoint"
      BY <2>1, <3>1 DEF ReadOnce
    <3>4. QED
      BY <2>1, <3>1, <3>2, <3>3 DEF Queries, Has, CheckpointFirst
  <2>3. ASSUME r.checkpoint # NoCheckpoint
        PROVE  /\ Cardinality(DOMAIN r.hashes) >= r.checkpoint.count
               /\ r.checkpoint.sequence \in DOMAIN r.hashes
               /\ r.hashes[r.checkpoint.sequence] = r.checkpoint.head
               /\ r.tail # NoTail => r.tail.sequence >= r.checkpoint.sequence
    <3>1. /\ RowsConfirm(r)
          /\ r.tail # NoTail => r.checkpoint.sequence <= r.tail.sequence
      BY <2>1, <2>2, <2>3 DEF Confirmed
    <3>2. PICK m \in Nat : /\ DOMAIN r.hashes = 1..m
                           /\ r.checkpoint.count <= m
                           /\ r.checkpoint.sequence \in 1..m
                           /\ r.hashes[r.checkpoint.sequence] = r.checkpoint.head
      BY <3>1 DEF RowsConfirm
    <3>3. Cardinality(DOMAIN r.hashes) = m
      BY <3>2, FS_Interval
    <3>4. QED
      BY <3>1, <3>2, <3>3
  <2>4. QED
    BY <2>3 DEF Anchored
<1>2. QED
  BY <1>1, ChainAlways, AnchorsInit, AnchorsStep, VerifiedAlways, ReadingsInit, ReadingsStep,
     PTL DEF Spec

=============================================================================
