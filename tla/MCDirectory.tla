---------------------------- MODULE MCDirectory ----------------------------
(* Instances of Directory for TLC.                                         *)
EXTENDS Directory

TwoServers == {"s1", "s2"}
OneStranger == {"k1"}
=============================================================================
