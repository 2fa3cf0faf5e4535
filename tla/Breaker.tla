------------------------------ MODULE Breaker ------------------------------
(***************************************************************************)
(* What a "second/quantity" circuit breaker promises a single caller:      *)
(* windows of at least Second seconds follow one another, each counting    *)
(* the failed attempts made in it; a request is let through to Attempts of *)
(* them only while there are fewer than Quantity, and refused only by a    *)
(* full window that was not over when the request came.                    *)
(***************************************************************************)
EXTENDS Naturals

CONSTANTS Second, Quantity, Attempts

VARIABLES
  errors,   \* failed attempts in the standing window
  age,      \* its age in seconds, at most Second
  request,  \* the last request: "asked", found the window "standing" or
            \* "over", is "through", "broken" (refused) or done ("idle")
  tries     \* attempts it has left

bvars == <<errors, age, request, tries>>

Init == errors = 0 /\ age = Second /\ request = "idle" /\ tries = 0

Ask == /\ request \in {"idle", "broken"}
       /\ request' = "asked"
       /\ UNCHANGED <<errors, age, tries>>

Look == /\ request = "asked"
        /\ request' = IF age >= Second THEN "over" ELSE "standing"
        /\ UNCHANGED <<errors, age, tries>>

(* Opening a window takes time, which counts towards it. It may be looked  *)
(* at like any other.                                                      *)
Open == /\ request = "over"
        /\ errors' = 0
        /\ age' \in 0 .. Second
        /\ request' \in {"asked", "standing"}
        /\ UNCHANGED tries

Admit == /\ request = "standing" /\ errors < Quantity
         /\ request' = "through" /\ tries' = Attempts
         /\ UNCHANGED <<errors, age>>

Refuse == /\ request = "standing" /\ errors >= Quantity
          /\ request' = "broken"
          /\ UNCHANGED <<errors, age, tries>>

Fail == /\ request = "through"
        /\ errors' = errors + 1
        /\ \/ tries > 1 /\ tries' = tries - 1 /\ UNCHANGED request
           \/ request' = "idle" /\ tries' = 0
        /\ UNCHANGED age

Succeed == /\ request = "through"
           /\ request' = "idle" /\ tries' = 0
           /\ UNCHANGED <<errors, age>>

Elapse == /\ age < Second
          /\ age' = age + 1
          /\ UNCHANGED <<errors, request, tries>>

Next == Ask \/ Look \/ Open \/ Admit \/ Refuse \/ Fail \/ Succeed \/ Elapse

Spec == Init /\ [][Next]_bvars
=============================================================================
