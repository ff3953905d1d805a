--------------------------- MODULE MCAgentRuntime ---------------------------
(* Finite instances of AgentRuntime. *)
EXTENDS AgentRuntime, TLC

EventSymmetry == Permutations(Events)

=============================================================================
