---------------------------- MODULE MCRoutesSync ----------------------------
(* Instances of RoutesSync for TLC.                                        *)
EXTENDS RoutesSync, TLC

Symmetry == Permutations(Nodes) \cup Permutations(Services)
=============================================================================
