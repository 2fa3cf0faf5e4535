----------------------------- MODULE MCLimiter -----------------------------
(* An instance of Limiter for TLC: two goroutines and the counters they    *)
(* can need, one each, one in the map and one to be free.                  *)
EXTENDS Limiter

TwoWorkers == {"w1", "w2"}
CellsForTwo == 1 .. Cardinality(TwoWorkers) + 1
=============================================================================
