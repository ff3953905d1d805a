--------------------------- MODULE MCContactImport ---------------------------
(* A small instance of ContactImport for TLC: a row with no identifier, one  *)
(* with no name, a phone and an e-mail that a minor then has both, a minor   *)
(* with that phone and another e-mail, which is then met alone.              *)
EXTENDS ContactImport, TLC

CONSTANTS P, E, F

Line(phone, email, valid, minor) ==
  [phone |-> phone, email |-> email, valid |-> valid, minor |-> minor]

Payload ==
  <<Line(NoKey, NoKey, TRUE, FALSE), Line(P, NoKey, FALSE, FALSE), Line(P, NoKey, TRUE, FALSE),
    Line(NoKey, E, TRUE, FALSE), Line(P, E, TRUE, TRUE), Line(P, F, TRUE, TRUE),
    Line(NoKey, F, TRUE, FALSE)>>

Symmetry == Permutations(Calls)
=============================================================================
