-------------------------- MODULE MCDraftLifecycle --------------------------
(* Finite instances of DraftLifecycle.  The calls are interchangeable: each *)
(* may be of any kind, so permuting them changes nothing.                   *)
EXTENDS DraftLifecycle, TLC

RequestSymmetry == Permutations(Requests)

AllKinds == KnownKinds

=============================================================================
