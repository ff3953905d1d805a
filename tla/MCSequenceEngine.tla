-------------------------- MODULE MCSequenceEngine --------------------------
(* Finite instances of SequenceEngine: a cadence whose first step is due at *)
(* once and the others a day later, and one whose last step the client's    *)
(* interval days put before the middle one.                                 *)
EXTENDS SequenceEngine, TLC

RisingDueAt == [i \in Steps |-> IF i = 0 THEN 0 ELSE 1]

ChosenDueAt == [i \in Steps |-> IF i = 0 THEN 0 ELSE N - i]

TickerSymmetry == Permutations(Tickers)

=============================================================================
