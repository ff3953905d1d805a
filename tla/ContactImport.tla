---------------------------- MODULE ContactImport ----------------------------
(* VaultService.importBatch: a list of contacts is put in the vault row by   *)
(* row, under an idempotency key that a client reuses when it retries. The   *)
(* batch's cursor is written once, when a call ends; a row is found by its   *)
(* hashed phone or e-mail in one await and written in the next, and a minor  *)
(* is opted out in a third. The calls of one batch, of which several may run *)
(* at once, are modelled for one rep and one payload; encryption, CSV        *)
(* parsing and the merged columns besides the phone, the e-mail and the      *)
(* minor flag are left out.                                                  *)
EXTENDS Integers, Sequences, FiniteSets

CONSTANTS
  Calls,   \* requests in progress
  Row,     \* the payload: phone and e-mail, or NoKey, the validity and the age
  NoKey,   \* no phone, or no e-mail
  MaxImports, MaxFaults \* importBatch calls, and failures, of a behaviour

Keys == {Row[i].phone : i \in DOMAIN Row} \cup {Row[i].email : i \in DOMAIN Row}

ASSUME ImportConstants ==
  /\ Row \in Seq([phone : Keys, email : Keys, valid : BOOLEAN, minor : BOOLEAN])
  /\ MaxImports \in Nat /\ MaxFaults \in Nat

VARIABLES
  batch,   \* the ImportBatch row
  vault,   \* the Contact rows, in creation order, each with the lines it holds
  registry, \* the identifiers in the OptOutRegistry
  call,
  imports  \* calls and failures so far, whether two calls overlapped, the
            \* rows in the vault that no cursor tells the next call to skip,
            \* and the rows that were found under several contacts

importVars == <<batch, vault, registry, call, imports>>

NoCall == [at |-> "idle"]
NoBatch == [status |-> "none", cursor |-> 1]

ImportInit ==
  /\ batch = NoBatch /\ vault = <<>> /\ registry = {}
  /\ call = [c \in Calls |-> NoCall]
  /\ imports = [calls |-> 0, faults |-> 0, overlapped |-> FALSE, redone |-> {}, split |-> {}]

CallIs(c, rec) == call' = [call EXCEPT ![c] = rec]
AtRow(i) == [at |-> IF i > Len(Row) THEN "finish" ELSE "row", i |-> i]

(* Of two rows, of the payload or the vault. *)
Ids(x) == {x.phone, x.email} \ {NoKey}
Shares(x, y) ==
  \/ x.phone = y.phone /\ x.phone # NoKey
  \/ x.email = y.email /\ x.email # NoKey
-----------------------------------------------------------------------------
(* The batch is looked up by its key; a completed one answers at once. *)
Begin(c) ==
  /\ call[c] = NoCall /\ imports.calls < MaxImports /\ batch.status # "COMPLETED"
  /\ imports' = [imports EXCEPT !.calls = @ + 1,
                                !.overlapped = @ \/ \E d \in Calls : call[d] # NoCall]
  /\ CallIs(c, IF batch = NoBatch THEN [at |-> "create"] ELSE AtRow(batch.cursor))
  /\ UNCHANGED <<batch, vault, registry>>

(* The key is unique: a second creation is refused and the call fails. *)
CreateBatch(c) ==
  /\ call[c].at = "create"
  /\ IF batch = NoBatch
     THEN batch' = [status |-> "IN_PROGRESS", cursor |-> 1] /\ CallIs(c, AtRow(1))
     ELSE UNCHANGED batch /\ CallIs(c, NoCall)
  /\ UNCHANGED <<vault, registry, imports>>

(* A row without a name is recorded as an error and passed. *)
RejectRow(c) ==
  /\ call[c].at = "row" /\ ~Row[call[c].i].valid
  /\ CallIs(c, AtRow(call[c].i + 1))
  /\ UNCHANGED <<batch, vault, registry, imports>>

Matches(i) == {j \in DOMAIN vault : Shares(vault[j], Row[i])}

(* upsertRow: the contact with the row's phone or e-mail, any of them when   *)
(* there are several.                                                        *)
FindExisting(c) ==
  LET i == call[c].i
  IN  /\ call[c].at = "row" /\ Row[i].valid
      /\ \/ Matches(i) = {} /\ CallIs(c, [at |-> "write", i |-> i, found |-> 0])
         \/ \E j \in Matches(i) :
              CallIs(c, [at |-> "write", i |-> i, found |-> j, was |-> vault[j]])
      /\ imports' = [imports EXCEPT !.split =
                       @ \cup {m \in {i} : \E j, k \in Matches(i) : j # k}]
      /\ UNCHANGED <<batch, vault, registry>>

NewContact(i) ==
  [lines |-> {i}, phone |-> Row[i].phone, email |-> Row[i].email, minor |-> Row[i].minor]

(* A merge fills in what the contact lacked when it was read, flags a minor, *)
(* and never clears the flag.                                                *)
Fill(now, read, new) == IF read = NoKey /\ new # NoKey THEN new ELSE now
Merged(x, was, i) ==
  [lines |-> x.lines \cup {i}, phone |-> Fill(x.phone, was.phone, Row[i].phone),
   email |-> Fill(x.email, was.email, Row[i].email), minor |-> x.minor \/ Row[i].minor]

Writes(c) ==
  LET w == call[c]
  IN  vault' = IF w.found = 0 THEN Append(vault, NewContact(w.i))
               ELSE [vault EXCEPT ![w.found] = Merged(@, w.was, w.i)]

(* contact.create or contact.update, with the note of a merge. *)
StoreContact(c) ==
  LET i == call[c].i
  IN  /\ call[c].at = "write" /\ Writes(c)
      /\ CallIs(c, IF Row[i].minor /\ Ids(Row[i]) # {} THEN [at |-> "optOut", i |-> i]
                   ELSE AtRow(i + 1))
      /\ UNCHANGED <<batch, registry, imports>>

(* registerMinorOptOut: the phone, then the e-mail, each by its own upsert. *)
OptOutMinor(c) ==
  /\ call[c].at = "optOut"
  /\ registry' = registry \cup Ids(Row[call[c].i])
  /\ CallIs(c, AtRow(call[c].i + 1))
  /\ UNCHANGED <<batch, vault, imports>>

(* What an opt-out that stops halfway leaves. *)
CutShort(c) ==
  IF call[c].at = "optOut"
  THEN {registry, registry \cup ({Row[call[c].i].phone} \ {NoKey}),
        registry \cup Ids(Row[call[c].i])}
  ELSE {registry}

Querying(c) ==
  call[c].at \in {"row", "write", "optOut"} /\ Row[call[c].i].valid

(* Seeded fault: the cursor passes the row that failed. *)
RowFailsPast(c) ==
  /\ Querying(c) /\ imports.faults < MaxFaults
  /\ imports' = [imports EXCEPT !.faults = @ + 1]
  /\ CallIs(c, [at |-> "finish", i |-> call[c].i + 1])
  /\ UNCHANGED <<batch, vault, registry>>

(* A query of a row rejects: the call stops there. The row is done again by  *)
(* the next one, also when only its opt-out was missing.                     *)
RowFails(c) ==
  /\ Querying(c) /\ imports.faults < MaxFaults
  /\ imports' = [imports EXCEPT !.faults = @ + 1]
  /\ CallIs(c, [at |-> "finish", i |-> call[c].i])
  /\ registry' \in CutShort(c)
  /\ UNCHANGED <<batch, vault>>

(* The row's write is done and yet rejects, or the note of a merge does: the *)
(* call stops at a row that is in the vault.                                 *)
WriteLost(c) ==
  /\ call[c].at = "write" /\ imports.faults < MaxFaults /\ Writes(c)
  /\ imports' = [imports EXCEPT !.faults = @ + 1, !.redone = @ \cup {call[c].i}]
  /\ CallIs(c, [at |-> "finish", i |-> call[c].i])
  /\ UNCHANGED <<batch, registry>>

(* Seeded fault: a batch that is not completed keeps the cursor it had. *)
FinishKeepsCursor(c) ==
  /\ call[c].at = "finish"
  /\ batch' = IF call[c].i > Len(Row) THEN [status |-> "COMPLETED", cursor |-> call[c].i]
              ELSE batch
  /\ CallIs(c, NoCall)
  /\ UNCHANGED <<vault, registry, imports>>

(* The one update of the batch, whatever another call has made of it. *)
Finish(c) ==
  /\ call[c].at = "finish"
  /\ batch' = [status |-> IF call[c].i > Len(Row) THEN "COMPLETED" ELSE "IN_PROGRESS",
               cursor |-> call[c].i]
  /\ CallIs(c, NoCall)
  /\ UNCHANGED <<vault, registry, imports>>

(* The process of a call ends, or its last update is refused: every row since *)
(* the cursor is done again by the next one.                                  *)
CallDies(c) ==
  /\ call[c] # NoCall /\ imports.faults < MaxFaults
  /\ imports' = [imports EXCEPT !.faults = @ + 1,
       !.redone = @ \cup {i \in DOMAIN Row : \E j \in DOMAIN vault :
                            i \in vault[j].lines /\ i >= batch.cursor}]
  /\ CallIs(c, NoCall)
  /\ registry' \in CutShort(c)
  /\ UNCHANGED <<batch, vault>>

ImportNext ==
  \E c \in Calls :
    \/ Begin(c) \/ CreateBatch(c) \/ RejectRow(c) \/ FindExisting(c) \/ StoreContact(c)
    \/ OptOutMinor(c) \/ RowFails(c) \/ WriteLost(c) \/ Finish(c) \/ CallDies(c)

ImportSpec == ImportInit /\ [][ImportNext]_importVars
-----------------------------------------------------------------------------
(* The contacts j and k have a phone or e-mail of a row that was found under *)
(* both: only one of them took the row in.                                   *)
Split(j, k) == \E m \in imports.split : j \in Matches(m) /\ k \in Matches(m)

(* A contact that took row i in had another phone, or e-mail, already and so *)
(* did not take that of the row.                                             *)
Turned(i) ==
  \E k \in DOMAIN vault :
    /\ i \in vault[k].lines
    /\ \/ Row[i].phone # NoKey /\ vault[k].phone \notin {NoKey, Row[i].phone}
       \/ Row[i].email # NoKey /\ vault[k].email \notin {NoKey, Row[i].email}

(* vault.service.ts:152: partial failure leaves a resumable state, not       *)
(* corruption. A batch that says COMPLETED has every valid row in the vault; *)
(* every minor among them is flagged where it went and is opted out by each  *)
(* identifier. Every other contact with such an identifier is flagged too,   *)
(* with three exceptions: two calls overlapped, the contact's identifiers    *)
(* are also another's because a row was found under both, or the identifier  *)
(* was not taken in with the minor because the contact had another.          *)
CompletedIsComplete ==
  batch.status = "COMPLETED" =>
    \A i \in DOMAIN Row : Row[i].valid =>
      /\ \E j \in DOMAIN vault : i \in vault[j].lines
      /\ Row[i].minor =>
           /\ Ids(Row[i]) \subseteq registry
           /\ \A j \in DOMAIN vault : i \in vault[j].lines => vault[j].minor
           /\ \/ imports.overlapped \/ Turned(i)
              \/ \A j \in Matches(i) : vault[j].minor \/ \E m \in imports.split : j \in Matches(m)

(* A person is in the vault twice only when two calls overlapped, when a row *)
(* with a phone and an e-mail found the one in one contact and the other in  *)
(* another, or for a row with neither that was done again because a call had *)
(* ended, or lost the answer to its write, before the cursor passed it.      *)
DuplicatesExplained ==
  ~imports.overlapped =>
    \A j, k \in DOMAIN vault : j # k =>
      /\ Shares(vault[j], vault[k]) => Split(j, k)
      /\ \A i \in vault[j].lines \cap vault[k].lines :
           Split(j, k) \/ (Ids(Row[i]) = {} /\ i \in imports.redone)

(* vault.service.ts:150: a retry resumes at the row that failed, never       *)
(* re-creating the rows before it.                                           *)
NoRowTwice ==
  ~imports.overlapped =>
    \A j, k \in DOMAIN vault : \A i \in vault[j].lines \cap vault[k].lines :
      Ids(Row[i]) = {} => j = k

(* harvest-qc-checklist.md:59: no duplicate contacts after import: one call  *)
(* that nothing disturbs leaves no phone or e-mail with two contacts.        *)
NoDuplicateContacts ==
  imports.calls <= 1 /\ imports.faults = 0 =>
    \A j, k \in DOMAIN vault : Shares(vault[j], vault[k]) => j = k
=============================================================================
