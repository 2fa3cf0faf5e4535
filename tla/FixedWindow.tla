---------------------------- MODULE FixedWindow ----------------------------
(***************************************************************************)
(* What a "second/quantity" limiter promises a single caller: windows of   *)
(* at least Second seconds follow one another, at most Quantity requests   *)
(* are admitted in each, and a request is refused only when the standing   *)
(* window is full.                                                         *)
(***************************************************************************)
EXTENDS Naturals

CONSTANTS Second, Quantity

VARIABLES
  count,    \* requests admitted in the standing window
  age,      \* its age in seconds, at most Second
  answer    \* the answer to the last request, "asked" while it is open

wvars == <<count, age, answer>>

Init == count = 0 /\ age = Second /\ answer = "idle"

Ask == /\ answer # "asked"
       /\ answer' = "asked"
       /\ UNCHANGED <<count, age>>

(* A window opens only when the one before is over. Opening takes time,    *)
(* which counts towards the new window.                                    *)
Open == /\ age >= Second
        /\ count' = 0
        /\ age' \in 0 .. Second
        /\ UNCHANGED answer

Admit == /\ answer = "asked" /\ count < Quantity
         /\ count' = count + 1
         /\ answer' = "admitted"
         /\ UNCHANGED age

Refuse == /\ answer = "asked" /\ count >= Quantity
          /\ answer' = "refused"
          /\ UNCHANGED <<count, age>>

Elapse == /\ age < Second
          /\ age' = age + 1
          /\ UNCHANGED <<count, answer>>

Next == Ask \/ Open \/ Admit \/ Refuse \/ Elapse

Spec == Init /\ [][Next]_wvars
=============================================================================
