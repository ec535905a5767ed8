----------------------------- MODULE MCOrderBook -----------------------------
(* Model checking of the order book on its own.                            *)
EXTENDS OrderBook, TLC

CONSTANTS o1, o2, o3, o4

\* Ids are only compared for equality, so they may be permuted.
Ids == {o1, o2, o3, o4}
IdSymmetry == Permutations(Ids)
=============================================================================
