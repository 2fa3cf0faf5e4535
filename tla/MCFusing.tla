------------------------------ MODULE MCFusing ------------------------------
(* Instances of Fusing for TLC: the goroutines and the counters they can   *)
(* need, one each, one in the map under each path and one to be free.      *)
EXTENDS Fusing

OneWorker == {"w1"}
TwoWorkers == {"w1", "w2"}

CellsFor(W) == 1 .. Cardinality(W) + 2
CellsForOne == CellsFor(OneWorker)
CellsForTwo == CellsFor(TwoWorkers)
=============================================================================
