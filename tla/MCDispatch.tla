----------------------------- MODULE MCDispatch -----------------------------
(* Instances of Dispatch for TLC.                                          *)
EXTENDS Dispatch, TLC

CONSTANTS a1, a2, c1, c2

TwoNodes == <<a1, a2>>
OneNode == <<a1>>

(* A gateway for http routes and a service that calls rpc routes: what the *)
(* generated project templates do.                                         *)
HttpCalls == {[from |-> "gateway", type |-> "http"]}
ProperCalls == HttpCalls \cup {[from |-> "gateway", type |-> "rpc"],
                               [from |-> "callrpc", type |-> "rpc"],
                               [from |-> "gateway", type |-> "none"]}
(* CallRpc pointed at an http route: callService lets it through.           *)
MixedCalls == {[from |-> "gateway", type |-> "http"],
               [from |-> "gateway", type |-> "rpc"],
               [from |-> "callrpc", type |-> "http"]}

CallSymmetry == Permutations(Calls)
=============================================================================
