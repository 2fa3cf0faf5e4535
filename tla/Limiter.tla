------------------------------ MODULE Limiter ------------------------------
(***************************************************************************)
(* limiterInspect for one path. The request goroutines share limiterMap (a *)
(* sync.Map from path to *limiterData) without a lock: each call loads the *)
(* pointer, may replace the entry by a fresh counter, and works on the     *)
(* counter it holds even after another call has replaced it.               *)
(*                                                                         *)
(* A counter is a cell; one that neither the map nor a call refers to is   *)
(* garbage and its cell is used again. Time is kept as the age of each     *)
(* counter in seconds, which stops at Second: limiterInspect only compares *)
(* it with Second.                                                         *)
(***************************************************************************)
EXTENDS Integers, FiniteSets

CONSTANTS
  Workers,   \* the request goroutines
  Cells,     \* the counters there is room for
  NoCell,    \* "no such entry"
  Second,    \* the two numbers of the route's limiter field; one below 0
  Quantity   \* does what 0 does

ASSUME LimiterAssumption ==
  /\ IsFiniteSet(Workers) /\ Workers # {}
  /\ IsFiniteSet(Cells) /\ Cardinality(Cells) > Cardinality(Workers)
  /\ NoCell \notin Cells
  /\ Second \in Nat /\ Quantity \in Nat

VARIABLES
  index,     \* the limiterMap entry of the path
  age,       \* seconds since StartTimestamp, per counter
  quantity,  \* limiterData.Quantity, per counter
  pc,        \* where a goroutine is in limiterInspect
  ld         \* the counter it holds

vars == <<index, age, quantity, pc, ld>>

(* Between calls a goroutine remembers the answer of its last one; one     *)
(* that is absent never calls.                                             *)
Resting == {"idle", "admitted", "refused"}
Points == Resting \cup {"absent"} \cup
            {"init", "initStore", "clock", "reset", "resetStore", "check", "add"}

Goto(w, p) == pc' = [pc EXCEPT ![w] = p]

-----------------------------------------------------------------------------
(* limiterMap.Load. Slip: a missing entry is not noticed.                  *)
LoadUnchecked(w) ==
  /\ pc[w] \in Resting
  /\ Goto(w, "clock")
  /\ ld' = [ld EXCEPT ![w] = index]
  /\ UNCHANGED <<index, age, quantity>>

Load(w) ==
  /\ pc[w] \in Resting
  /\ Goto(w, IF index = NoCell THEN "init" ELSE "clock")
  /\ ld' = [ld EXCEPT ![w] = index]
  /\ UNCHANGED <<index, age, quantity>>

(* resetLimiterIndex: a fresh counter that starts now, and then, in a step *)
(* of its own, the entry of the map.                                       *)
InUse(w) == {index} \cup {ld[v] : v \in Workers \ {w}}

(* Which of the free cells it gets makes no difference.                    *)
Fresh(w) == LET free == Cells \ InUse(w)
            IN {x \in free : x = CHOOSE y \in free : TRUE}

Alloc(w) ==
  /\ pc[w] \in {"init", "reset"}
  /\ \E x \in Fresh(w) :
       /\ ld' = [ld EXCEPT ![w] = x]
       /\ age' = [age EXCEPT ![x] = 0]
       /\ quantity' = [quantity EXCEPT ![x] = 0]
  /\ Goto(w, IF pc[w] = "init" THEN "initStore" ELSE "resetStore")
  /\ UNCHANGED index

Store(w) ==
  /\ pc[w] \in {"initStore", "resetStore"}
  /\ index' = ld[w]
  /\ Goto(w, IF pc[w] = "initStore" THEN "clock" ELSE "check")
  /\ UNCHANGED <<age, quantity, ld>>

(* time.Now against the start of the counter held.                         *)
(* Slip: the window is closed a second early.                              *)
ClockEarly(w) ==
  /\ pc[w] = "clock"
  /\ Goto(w, IF age[ld[w]] + 1 >= Second THEN "reset" ELSE "check")
  /\ UNCHANGED <<index, age, quantity, ld>>

Clock(w) ==
  /\ pc[w] = "clock"
  /\ Goto(w, IF age[ld[w]] >= Second THEN "reset" ELSE "check")
  /\ UNCHANGED <<index, age, quantity, ld>>

(* Slips: one call too many is let in; a refusal restarts the window.      *)
CheckOneMore(w) ==
  /\ pc[w] = "check"
  /\ Goto(w, IF quantity[ld[w]] > Quantity THEN "refused" ELSE "add")
  /\ UNCHANGED <<index, age, quantity, ld>>

CheckRestarts(w) ==
  /\ pc[w] = "check"
  /\ Goto(w, IF quantity[ld[w]] >= Quantity THEN "refused" ELSE "add")
  /\ age' = IF quantity[ld[w]] >= Quantity THEN [age EXCEPT ![ld[w]] = 0]
                                           ELSE age
  /\ UNCHANGED <<index, quantity, ld>>

Check(w) ==
  /\ pc[w] = "check"
  /\ Goto(w, IF quantity[ld[w]] >= Quantity THEN "refused" ELSE "add")
  /\ UNCHANGED <<index, age, quantity, ld>>

Add(w) ==
  /\ pc[w] = "add"
  /\ quantity' = [quantity EXCEPT ![ld[w]] = @ + 1]
  /\ Goto(w, "admitted")
  /\ UNCHANGED <<index, age, ld>>

(* A second passes.                                                        *)
Tick ==
  /\ \E x \in Cells : age[x] < Second
  /\ age' = [x \in Cells |-> IF age[x] < Second THEN age[x] + 1 ELSE age[x]]
  /\ UNCHANGED <<index, quantity, pc, ld>>

Inspect(w) == Load(w) \/ Alloc(w) \/ Store(w) \/ Clock(w) \/ Check(w) \/ Add(w)

(* Some of the goroutines take part: one, so that the calls come one at a  *)
(* time, or more.                                                          *)
Init ==
  /\ \E present \in SUBSET Workers \ {{}} :
       pc = [w \in Workers |-> IF w \in present THEN "idle" ELSE "absent"]
  /\ index = NoCell
  /\ age = [x \in Cells |-> 0]
  /\ quantity = [x \in Cells |-> 0]
  /\ ld = [w \in Workers |-> NoCell]

Next == Tick \/ \E w \in Workers : Inspect(w)

Spec == Init /\ [][Next]_vars

(* Goroutines run, requests keep coming, and time passes.                  *)
FairSpec == /\ Spec
            /\ WF_vars(Tick)
            /\ \A w \in Workers : WF_vars(Inspect(w))

-----------------------------------------------------------------------------
(* Properties.                                                             *)

(* The variables have their types; in particular a goroutine past Load     *)
(* always holds a counter.                                                 *)
TypeOK ==
  /\ index \in Cells \cup {NoCell}
  /\ age \in [Cells -> 0 .. Second]
  /\ quantity \in [Cells -> Nat]
  /\ pc \in [Workers -> Points]
  /\ ld \in [Workers -> Cells \cup {NoCell}]
  /\ \A w \in Workers :
       pc[w] \notin Resting \cup {"absent", "init"} => ld[w] \in Cells

(* Check and add are two steps, yet one counter never admits more than     *)
(* Quantity plus the goroutines that can be between the two besides the    *)
(* one that found the last place, also when its window was replaced        *)
(* meanwhile.                                                              *)
OvershootBounded ==
  \A x \in Cells : quantity[x] <= Quantity + Cardinality(Workers) - 1

(* A limited path is not limited for ever: as long as requests keep        *)
(* coming, some request is admitted again and again.                       *)
LimiterReopens == []<>(\E w \in Workers : pc[w] = "add")

(* Calls that come one at a time: to them limiterInspect is a fixed-window *)
(* limiter. Where several goroutines call, the window is left untouched    *)
(* and nothing is claimed.                                                 *)
Present == {w \in Workers : pc[w] # "absent"}
Serial == Cardinality(Present) = 1
TheWorker == CHOOSE w \in Workers : w \in Present

Window == INSTANCE FixedWindow WITH
  Second <- Second,
  Quantity <- Quantity,
  count <- IF Serial /\ index # NoCell THEN quantity[index] ELSE 0,
  age <- IF Serial /\ index # NoCell THEN age[index] ELSE Second,
  answer <- IF ~Serial THEN "idle"
            ELSE IF pc[TheWorker] \in Resting THEN pc[TheWorker] ELSE "asked"

ImplementsFixedWindow == Window!Spec
=============================================================================
