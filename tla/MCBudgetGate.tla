---------------------------- MODULE MCBudgetGate ----------------------------
(***************************************************************************)
(* Small instances of BudgetGate: a metered rep, an enterprise rep (corp)  *)
(* and one whose row is gone (ghost).                                      *)
(***************************************************************************)
EXTENDS BudgetGate, TLC

CONSTANTS r1, r2, r3, c1, g1, k1, p1, rep, corp, ghost

(* An ordinary job, a scheduler probe and a critical job of a metered rep, *)
(* beside a job of an enterprise rep and one of a rep with no row.         *)
MixedRepOf == (r1 :> rep) @@ (p1 :> rep) @@ (k1 :> rep)
                @@ (c1 :> corp) @@ (g1 :> ghost)
MixedCeiling == (rep :> 1) @@ (corp :> 0) @@ (ghost :> 0)

(* Three metered jobs of one rep, whose budget pays for two of them.       *)
BurstRepOf == (r1 :> rep) @@ (r2 :> rep) @@ (r3 :> rep)
BurstCeiling == (rep :> 2)

=============================================================================
