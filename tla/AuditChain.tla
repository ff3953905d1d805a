----------------------------- MODULE AuditChain -----------------------------
(***************************************************************************)
(* The hash-chained audit store: AuditService.recordAuditEvent over the    *)
(* Prisma repository, createCheckpoint, and verifyIntegrity.               *)
(*                                                                         *)
(* Every database call is a step.  A writer reads the tail of the chain    *)
(* and then inserts the row that follows it; the unique index on sequence  *)
(* is all that keeps two writers apart, and nothing retries.  The          *)
(* migration's triggers refuse updates and deletes, so there are none.     *)
(***************************************************************************)
EXTENDS Naturals, Sequences, FiniteSets, FiniteSetsExt

CONSTANTS
    Events,        \* calls of recordAuditEvent, each named by its own uuid
    Channels,      \* channels the callers pass
    Checkpointers, \* calls of createCheckpoint
    Verifiers,     \* calls of verifyIntegrity
    MaxTime        \* bound: the clock that stamps checkpoints

(* A call is of one kind: each is named by its own uuid.                   *)
ASSUME AuditAssumption ==
    /\ Events \cap Checkpointers = {}
    /\ Events \cap Verifiers = {}
    /\ Checkpointers \cap Verifiers = {}
    /\ MaxTime \in Nat

VARIABLES
    rows,        \* AuditEntry rows by their unique sequence
    channelOf,   \* the channel each call was given
    pc,          \* where each call stands
    tailOf,      \* the tail a writer or a checkpointer read
    checkpoints, \* AuditCheckpoint rows
    draftOf,     \* entry_count and created_at a checkpointer will save
    now,
    report       \* what each verifier has read and found

vars == <<rows, channelOf, pc, tailOf, checkpoints, draftOf, now, report>>

Calls == Events \cup Checkpointers \cup Verifiers

(***************************************************************************)
(* Hashing is injective, so the hash of a row is what was hashed: its      *)
(* fields, of which id, sequence and channel matter here, and the hash of  *)
(* its predecessor.                                                        *)
(***************************************************************************)
Genesis == << >>

Hash(id, sequence, channel, prev) == <<id, sequence, channel, prev>>

NoChannel == "null"
MessageChannels == {"SMS_HANDOFF", "SMS_PLATFORM", "EMAIL", "SOCIAL_DM", "IN_APP"}

(* mapChannelForPersistence: the column is an enum that lacks the          *)
(* compliance engine's names.                                              *)
StoredChannel(channel) ==
    CASE channel \in MessageChannels -> channel
      [] channel = "SMS" -> "SMS_HANDOFF"
      [] channel = "SOCIAL" -> "SOCIAL_DM"
      [] OTHER -> NoChannel

NoTail == [sequence |-> 0, hash |-> Genesis]

ChainTail ==
    IF DOMAIN rows = {}
    THEN NoTail
    ELSE LET last == Max(DOMAIN rows)
         IN [sequence |-> last, hash |-> rows[last].hash]

Goto(c, place) == pc' = [pc EXCEPT ![c] = place]

-----------------------------------------------------------------------------
(* recordAuditEvent.                                                       *)

writerUnchanged == <<channelOf, checkpoints, draftOf, now, report>>

ReadTail(e) ==
    /\ pc[e] = "idle"
    /\ tailOf' = [tailOf EXCEPT ![e] = ChainTail]
    /\ Goto(e, "tailRead")
    /\ UNCHANGED <<rows, writerUnchanged>>

(* Seeded fault: the row is hashed under its predecessor's sequence.       *)
NewRowMisnumbered(e) ==
    [id |-> e,
     channel |-> StoredChannel(channelOf[e]),
     prev |-> tailOf[e].hash,
     hash |-> Hash(e, tailOf[e].sequence, channelOf[e], tailOf[e].hash)]

(* The hash covers the channel as given; the row keeps the mapped one.     *)
NewRow(e) ==
    [id |-> e,
     channel |-> StoredChannel(channelOf[e]),
     prev |-> tailOf[e].hash,
     hash |-> Hash(e, tailOf[e].sequence + 1, channelOf[e], tailOf[e].hash)]

Place(e) == tailOf[e].sequence + 1

(* Seeded fault: an upsert in place of the insert.                         *)
FreeAlways(s) == TRUE

Free(s) == s \notin DOMAIN rows

Insert(e) ==
    /\ pc[e] = "tailRead"
    /\ Free(Place(e))
    /\ rows' = [s \in DOMAIN rows \cup {Place(e)} |->
                    IF s = Place(e) THEN NewRow(e) ELSE rows[s]]
    /\ UNCHANGED <<tailOf, writerUnchanged>>

AppendRow(e) == Insert(e) /\ Goto(e, "recorded")

(* The row is in, the answer is lost: recordAuditEvent throws all the same. *)
AppendUnanswered(e) == Insert(e) /\ Goto(e, "threw")

(* The unique index refuses a place that is taken, or a call fails; a      *)
(* checkpointer or verifier whose call fails takes no further step.        *)
RecordThrows(e) ==
    /\ pc[e] \in {"idle", "tailRead"}
    /\ Goto(e, "threw")
    /\ UNCHANGED <<rows, tailOf, writerUnchanged>>

-----------------------------------------------------------------------------
(* createCheckpoint: the tail, the rows, the stamp, the insert.            *)

ReadHead(k) ==
    /\ pc[k] = "idle"
    /\ tailOf' = [tailOf EXCEPT ![k] = ChainTail]
    /\ Goto(k, IF ChainTail = NoTail THEN "done" ELSE "tailRead")
    /\ UNCHANGED <<rows, channelOf, checkpoints, draftOf, now, report>>

(* Seeded fault: the rows are counted first and the tail is read second.   *)
CountRowsFirst(k) ==
    /\ pc[k] = "tailRead"
    /\ draftOf' = [draftOf EXCEPT ![k].count = tailOf[k].sequence]
    /\ tailOf' = [tailOf EXCEPT ![k] = ChainTail]
    /\ Goto(k, "counted")
    /\ UNCHANGED <<rows, channelOf, checkpoints, now, report>>

CountRows(k) ==
    /\ pc[k] = "tailRead"
    /\ draftOf' = [draftOf EXCEPT ![k].count = Cardinality(DOMAIN rows)]
    /\ Goto(k, "counted")
    /\ UNCHANGED <<rows, channelOf, tailOf, checkpoints, now, report>>

Stamp(k) ==
    /\ pc[k] = "counted"
    /\ draftOf' = [draftOf EXCEPT ![k].at = now]
    /\ Goto(k, "stamped")
    /\ UNCHANGED <<rows, channelOf, tailOf, checkpoints, now, report>>

Save(k) ==
    /\ pc[k] = "stamped"
    /\ checkpoints' = checkpoints \cup
          {[sequence |-> tailOf[k].sequence, head |-> tailOf[k].hash,
            count |-> draftOf[k].count, at |-> draftOf[k].at]}
    /\ Goto(k, "done")
    /\ UNCHANGED <<rows, channelOf, tailOf, draftOf, now, report>>

-----------------------------------------------------------------------------
(* verifyIntegrity: the chain first; then the latest checkpoint, the rows  *)
(* and the tail, read together in whatever order the database answers.     *)

(* Seeded fault: only the links are checked, no hash is computed again.    *)
BreaksLink(s) ==
    IF s = Min(DOMAIN rows)
    THEN rows[s].prev # Genesis
    ELSE s - 1 \notin DOMAIN rows \/ rows[s].prev # rows[s - 1].hash

(* verifyChain, of a row: a gap, a broken link, or a hash that the row's   *)
(* present content does not give.                                          *)
BreaksChain(s) ==
    LET first == s = Min(DOMAIN rows)
    IN \/ ~first /\ s - 1 \notin DOMAIN rows
       \/ rows[s].prev # (IF first THEN Genesis ELSE rows[s - 1].hash)
       \/ rows[s].hash # Hash(rows[s].id, s, rows[s].channel, rows[s].prev)

(* The sequence of the first row that breaks the chain, 0 if none does.    *)
BrokenAt ==
    LET broken == {s \in DOMAIN rows : BreaksChain(s)}
    IN IF broken = {} THEN 0 ELSE Min(broken)

VerifyStoredChain(v) ==
    /\ pc[v] = "idle"
    /\ report' = [report EXCEPT ![v].brokenAt = BrokenAt,
                                ![v].size = Cardinality(DOMAIN rows)]
    /\ Goto(v, "anchoring")
    /\ UNCHANGED <<rows, channelOf, tailOf, checkpoints, draftOf, now>>

NoCheckpoint == [sequence |-> 0, head |-> Genesis, count |-> 0, at |-> 0]

(* getLatest orders by created_at; the database breaks ties as it likes.   *)
Latest ==
    IF checkpoints = {}
    THEN {NoCheckpoint}
    ELSE {c \in checkpoints : \A d \in checkpoints : d.at <= c.at}

Unread(v, what) == pc[v] = "anchoring" /\ \A i \in DOMAIN report[v].got : report[v].got[i] # what

Progress(v) ==
    /\ pc' = IF Len(report[v].got) = 2 THEN [pc EXCEPT ![v] = "done"] ELSE pc
    /\ UNCHANGED <<rows, channelOf, tailOf, checkpoints, draftOf, now>>

GetCheckpoint(v) ==
    /\ Unread(v, "checkpoint")
    /\ \E c \in Latest :
          report' = [report EXCEPT ![v].checkpoint = c, ![v].got = Append(@, "checkpoint")]
    /\ Progress(v)

GetRows(v) ==
    /\ Unread(v, "rows")
    /\ report' = [report EXCEPT ![v].hashes = [s \in DOMAIN rows |-> rows[s].hash],
                                ![v].got = Append(@, "rows")]
    /\ Progress(v)

GetTail(v) ==
    /\ Unread(v, "tail")
    /\ report' = [report EXCEPT ![v].tail = ChainTail, ![v].got = Append(@, "tail")]
    /\ Progress(v)

(* Seeded fault: a store that has not grown since counts as truncated.     *)
AnchoredIfGrown(r) ==
    r.checkpoint # NoCheckpoint => Cardinality(DOMAIN r.hashes) > r.checkpoint.count

(* verifyAnchoring's verdict on what was read.                             *)
Anchored(r) ==
    r.checkpoint # NoCheckpoint =>
        /\ Cardinality(DOMAIN r.hashes) >= r.checkpoint.count
        /\ r.checkpoint.sequence \in DOMAIN r.hashes
        /\ r.hashes[r.checkpoint.sequence] = r.checkpoint.head
        /\ r.tail # NoTail => r.tail.sequence >= r.checkpoint.sequence

-----------------------------------------------------------------------------
Tick ==
    /\ now < MaxTime
    /\ now' = now + 1
    /\ UNCHANGED <<rows, channelOf, pc, tailOf, checkpoints, draftOf, report>>

Init ==
    /\ rows = << >>
    /\ channelOf \in [Events -> Channels]
    /\ pc = [c \in Calls |-> "idle"]
    /\ tailOf = [c \in Events \cup Checkpointers |-> NoTail]
    /\ checkpoints = {}
    /\ draftOf = [k \in Checkpointers |-> [count |-> 0, at |-> 0]]
    /\ now = 0
    /\ report = [v \in Verifiers |->
          [brokenAt |-> 0, size |-> 0, got |-> << >>, checkpoint |-> NoCheckpoint,
           hashes |-> << >>, tail |-> NoTail]]

Next ==
    \/ \E e \in Events :
          ReadTail(e) \/ AppendRow(e) \/ AppendUnanswered(e) \/ RecordThrows(e)
    \/ \E k \in Checkpointers : ReadHead(k) \/ CountRows(k) \/ Stamp(k) \/ Save(k)
    \/ \E v \in Verifiers :
          VerifyStoredChain(v) \/ GetCheckpoint(v) \/ GetRows(v) \/ GetTail(v)
    \/ Tick

Spec == Init /\ [][Next]_vars

-----------------------------------------------------------------------------
(* However the calls of recordAuditEvent interleave, fail or lose their    *)
(* answers, every row carries the hash of the row before it and its own    *)
(* hash is of what its caller gave: two writers that read one tail cannot  *)
(* fork the chain.                                                         *)
ChainLinked ==
    \A s \in DOMAIN rows :
        /\ rows[s].prev = IF s = 1 THEN Genesis ELSE rows[s - 1].hash
        /\ rows[s].hash = Hash(rows[s].id, s, channelOf[rows[s].id], rows[s].prev)

(* The store implements AppendOnlyLog: rows are only added, at the end, an *)
(* event once, and an event whose call returned is among them.             *)
Log == INSTANCE AppendOnlyLog WITH
    log <- [s \in DOMAIN rows |-> rows[s].id],
    returned <- {e \in Events : pc[e] = "recorded"}

ImplementsLog == Log!Spec

(* verifyStoredChain, which the admin's audit page shows, names as broken  *)
(* exactly the first row whose channel was stored under another name than  *)
(* the hash was computed from, at whatever moment it reads.                *)
ChainReportExact ==
    \A v \in Verifiers : pc[v] # "idle" =>
        LET renamed == {s \in 1..report[v].size : rows[s].channel # channelOf[rows[s].id]}
        IN report[v].brokenAt = IF renamed = {} THEN 0 ELSE Min(renamed)

(* A saved checkpoint stays true of the store: its row is there with its   *)
(* hash, and as many rows as it counted, although the tail and the count   *)
(* are two reads with writers in between.                                  *)
CheckpointsStand ==
    \A c \in checkpoints :
        /\ c.sequence \in DOMAIN rows
        /\ rows[c.sequence].hash = c.head
        /\ c.count \in c.sequence..Cardinality(DOMAIN rows)

(* Nothing is ever deleted, so verifyAnchoring should never report a       *)
(* truncation; it does only when it read the rows or the tail before the   *)
(* checkpoint it compares them with.                                       *)
AlarmOnlyOutOfOrder ==
    \A v \in Verifiers :
        pc[v] = "done" /\ ~Anchored(report[v]) => report[v].got[1] # "checkpoint"

(* Said of the code by verifyStoredChain's comment: an invalid chain means *)
(* a row was mutated or deleted.  Here none ever is.                       *)
UntouchedChainVerifies ==
    \A v \in Verifiers : report[v].brokenAt = 0

=============================================================================
