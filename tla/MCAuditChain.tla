---------------------------- MODULE MCAuditChain ----------------------------
(* Finite instances of AuditChain: the channels are one the enum has, one  *)
(* it has under another name, and none.                                    *)
EXTENDS AuditChain, TLC

CallSymmetry == Permutations(Events) \cup Permutations(Checkpointers)

=============================================================================
