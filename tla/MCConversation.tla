--------------------------- MODULE MCConversation ---------------------------
(* A small instance of Conversation for TLC: interchangeable requests.       *)
EXTENDS Conversation, TLC

Symmetry == Permutations(Workers)
=============================================================================
