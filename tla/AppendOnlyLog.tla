--------------------------- MODULE AppendOnlyLog ---------------------------
(***************************************************************************)
(* What the audit store promises: a log that only grows at its end, holds  *)
(* an event at most once, and holds every event whose call returned.       *)
(***************************************************************************)
EXTENDS Sequences

CONSTANT Events

VARIABLES log, returned

Logged == {log[i] : i \in DOMAIN log}

Init == log = << >> /\ returned = {}

(* The caller may not learn that its event was appended.                   *)
Record(e) ==
    /\ e \notin Logged
    /\ log' = Append(log, e)
    /\ returned' \in {returned, returned \cup {e}}

Next == \E e \in Events : Record(e)

Spec == Init /\ [][Next]_<<log, returned>>

=============================================================================
