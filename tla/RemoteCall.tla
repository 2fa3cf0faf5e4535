----------------------------- MODULE RemoteCall -----------------------------
(***************************************************************************)
(* What a client of a gateway may count on. A refusal means that the       *)
(* remote handler has not run and never will, a served request that it     *)
(* has. A failure means nothing: the handler may have run, or may run yet. *)
(* A single request, one that nothing but the gateway repeats, makes the   *)
(* handler run at most Attempts times; any other may make it run more      *)
(* often.                                                                  *)
(***************************************************************************)
EXTENDS Naturals

CONSTANT Attempts

VARIABLES
  single,  \* whether the request is a single one, for good
  runs,    \* how often the handler was run
  answer   \* what the client was told

cvars == <<single, runs, answer>>

Init == single \in BOOLEAN /\ runs = 0 /\ answer = "none"

Run == /\ answer # "refused" /\ (single => runs < Attempts)
       /\ runs' = runs + 1
       /\ UNCHANGED <<single, answer>>

Refuse == /\ answer = "none" /\ runs = 0
          /\ answer' = "refused"
          /\ UNCHANGED <<single, runs>>

Serve == /\ answer = "none" /\ runs > 0
         /\ answer' = "served"
         /\ UNCHANGED <<single, runs>>

Fail == /\ answer = "none"
        /\ answer' = "failed"
        /\ UNCHANGED <<single, runs>>

Next == Run \/ Refuse \/ Serve \/ Fail

Spec == Init /\ [][Next]_cvars
=============================================================================
