------------------------------- MODULE Fusing -------------------------------
(***************************************************************************)
(* The circuit breaker of one route at one node: fusingInspect before the  *)
(* call and addFusingQuantity after each failed attempt, by the request    *)
(* goroutines that share fusingMap. Counters are cells and time is age, as *)
(* in Limiter.                                                             *)
(*                                                                         *)
(* The two halves build the map key separately. callService inspects       *)
(* addr/service/action; retryGo charges addr/service/action too, but for   *)
(* an rpc route it has capitalised action by then.                         *)
(***************************************************************************)
EXTENDS Integers, FiniteSets

CONSTANTS
  Workers,    \* the request goroutines
  Cells,      \* the counters there is room for
  NoCell,     \* "no such entry"
  Second,     \* the two numbers of the route's fusing field; one below
  Quantity,   \* 0 does what 0 does
  Attempts,   \* length of the retry slice
  RouteType,  \* "http" or "rpc"
  MaxErrors   \* bound: attempts stop failing when a counter reaches it

ASSUME FusingAssumption ==
  /\ IsFiniteSet(Workers) /\ Workers # {}
  /\ IsFiniteSet(Cells) /\ Cardinality(Cells) > Cardinality(Workers) + 1
  /\ NoCell \notin Cells
  /\ Second \in Nat /\ Quantity \in Nat
  /\ Attempts \in Nat \ {0} /\ MaxErrors \in Nat
  /\ RouteType \in {"http", "rpc"}

Paths == {"action", "Action"}

VARIABLES
  index,     \* fusingMap: the counter of each path
  age,       \* seconds since StartTimestamp, per counter
  quantity,  \* fusingData.Quantity, per counter
  pc, fd,    \* where a goroutine is, the counter it holds
  try        \* the number of its attempt

vars == <<index, age, quantity, pc, fd, try>>

Resting == {"idle", "broken"}
Points == Resting \cup
            {"absent", "init", "initStore", "clock", "reset", "resetStore", "check",
             "call", "charge", "chargeInit", "chargeStore", "count"}

Goto(w, p) == pc' = [pc EXCEPT ![w] = p]

(* The path retryGo charges.                                               *)
ChargedPath == IF RouteType = "rpc" THEN "Action" ELSE "action"

-----------------------------------------------------------------------------
(* fusingInspect.                                                          *)
Load(w) ==
  /\ pc[w] \in Resting
  /\ Goto(w, IF index["action"] = NoCell THEN "init" ELSE "clock")
  /\ fd' = [fd EXCEPT ![w] = index["action"]]
  /\ UNCHANGED <<index, age, quantity, try>>

(* resetFusingIndex: a fresh counter, then the entry of the map.           *)
InUse(w) == {index[p] : p \in Paths} \cup {fd[v] : v \in Workers \ {w}}

(* Which of the free cells it gets makes no difference.                    *)
Fresh(w) == LET free == Cells \ InUse(w)
            IN {x \in free : x = CHOOSE y \in free : TRUE}

Alloc(w) ==
  /\ pc[w] \in {"init", "reset", "chargeInit"}
  /\ \E x \in Fresh(w) :
       /\ fd' = [fd EXCEPT ![w] = x]
       /\ age' = [age EXCEPT ![x] = 0]
       /\ quantity' = [quantity EXCEPT ![x] = 0]
  /\ Goto(w, CASE pc[w] = "init" -> "initStore"
               [] pc[w] = "reset" -> "resetStore"
               [] pc[w] = "chargeInit" -> "chargeStore")
  /\ UNCHANGED <<index, try>>

Store(w) ==
  /\ pc[w] \in {"initStore", "resetStore", "chargeStore"}
  /\ index' = [index EXCEPT ![IF pc[w] = "chargeStore" THEN ChargedPath
                                                       ELSE "action"] = fd[w]]
  /\ Goto(w, CASE pc[w] = "initStore" -> "clock"
               [] pc[w] = "resetStore" -> "check"
               [] pc[w] = "chargeStore" -> "count")
  /\ UNCHANGED <<age, quantity, fd, try>>

(* Slip: an open breaker is asked for its errors before its time.          *)
ClockOnlyClosed(w) ==
  /\ pc[w] = "clock"
  /\ Goto(w, IF age[fd[w]] >= Second /\ quantity[fd[w]] < Quantity
             THEN "reset" ELSE "check")
  /\ UNCHANGED <<index, age, quantity, fd, try>>

(* Slip: a window ends a second early.                                     *)
ClockEarly(w) ==
  /\ pc[w] = "clock"
  /\ Goto(w, IF age[fd[w]] + 1 >= Second THEN "reset" ELSE "check")
  /\ UNCHANGED <<index, age, quantity, fd, try>>

Clock(w) ==
  /\ pc[w] = "clock"
  /\ Goto(w, IF age[fd[w]] >= Second THEN "reset" ELSE "check")
  /\ UNCHANGED <<index, age, quantity, fd, try>>

(* Slip: the breaker opens one error late.                                 *)
CheckOneMore(w) ==
  /\ pc[w] = "check"
  /\ Goto(w, IF quantity[fd[w]] > Quantity THEN "broken" ELSE "call")
  /\ fd' = [fd EXCEPT ![w] = NoCell]
  /\ try' = [try EXCEPT ![w] = 1]
  /\ UNCHANGED <<index, age, quantity>>

Check(w) ==
  /\ pc[w] = "check"
  /\ Goto(w, IF quantity[fd[w]] >= Quantity THEN "broken" ELSE "call")
  /\ fd' = [fd EXCEPT ![w] = NoCell]
  /\ try' = [try EXCEPT ![w] = 1]
  /\ UNCHANGED <<index, age, quantity>>

(* One attempt of retryGo.                                                 *)
Call(w) ==
  /\ pc[w] = "call"
  /\ \/ Goto(w, "idle")
     \/ /\ \A x \in Cells : quantity[x] < MaxErrors
        /\ Goto(w, "charge")
  /\ UNCHANGED <<index, age, quantity, fd, try>>

(* addFusingQuantity: the clock is not looked at here.                     *)
Charge(w) ==
  /\ pc[w] = "charge"
  /\ Goto(w, IF index[ChargedPath] = NoCell THEN "chargeInit" ELSE "count")
  /\ fd' = [fd EXCEPT ![w] = index[ChargedPath]]
  /\ UNCHANGED <<index, age, quantity, try>>

(* A timeout or a 404 ends the call, and so does the last attempt.         *)
(* Slip: one attempt too many.                                             *)
CountOneMore(w) ==
  /\ pc[w] = "count"
  /\ quantity' = [quantity EXCEPT ![fd[w]] = @ + 1]
  /\ fd' = [fd EXCEPT ![w] = NoCell]
  /\ \/ /\ Goto(w, "idle")
        /\ UNCHANGED try
     \/ /\ try[w] <= Attempts
        /\ Goto(w, "call")
        /\ try' = [try EXCEPT ![w] = @ + 1]
  /\ UNCHANGED <<index, age>>

Count(w) ==
  /\ pc[w] = "count"
  /\ quantity' = [quantity EXCEPT ![fd[w]] = @ + 1]
  /\ fd' = [fd EXCEPT ![w] = NoCell]
  /\ \/ /\ Goto(w, "idle")
        /\ UNCHANGED try
     \/ /\ try[w] < Attempts
        /\ Goto(w, "call")
        /\ try' = [try EXCEPT ![w] = @ + 1]
  /\ UNCHANGED <<index, age>>

Tick ==
  /\ \E x \in Cells : age[x] < Second
  /\ age' = [x \in Cells |-> IF age[x] < Second THEN age[x] + 1 ELSE age[x]]
  /\ UNCHANGED <<index, quantity, pc, fd, try>>

Inspect(w) == Load(w) \/ Alloc(w) \/ Store(w) \/ Clock(w) \/ Check(w)
Attempt(w) == Call(w) \/ Charge(w) \/ Count(w)

(* As in Limiter, some of the goroutines take part: one, so that requests  *)
(* come one at a time, or more.                                            *)
Init ==
  /\ \E present \in SUBSET Workers \ {{}} :
       pc = [w \in Workers |-> IF w \in present THEN "idle" ELSE "absent"]
  /\ index = [p \in Paths |-> NoCell]
  /\ age = [x \in Cells |-> 0]
  /\ quantity = [x \in Cells |-> 0]
  /\ fd = [w \in Workers |-> NoCell]
  /\ try = [w \in Workers |-> 0]

Next == Tick \/ \E w \in Workers : Inspect(w) \/ Attempt(w)

Spec == Init /\ [][Next]_vars

(* Goroutines run, requests keep coming, attempts end, and time passes.    *)
FairSpec == /\ Spec
            /\ WF_vars(Tick)
            /\ \A w \in Workers : WF_vars(Inspect(w) \/ Attempt(w))

-----------------------------------------------------------------------------
(* Properties.                                                             *)

(* The variables have their types; a goroutine about to use a counter      *)
(* holds one.                                                              *)
TypeOK ==
  /\ index \in [Paths -> Cells \cup {NoCell}]
  /\ age \in [Cells -> 0 .. Second]
  /\ quantity \in [Cells -> Nat]
  /\ pc \in [Workers -> Points]
  /\ fd \in [Workers -> Cells \cup {NoCell}]
  /\ try \in [Workers -> 0 .. Attempts]
  /\ \A w \in Workers :
       pc[w] \in {"initStore", "resetStore", "chargeStore", "clock", "reset",
                  "check", "count"} => fd[w] \in Cells

(* With the keys equal, what a counter can hold when all requests pass the *)
(* inspection just before it is full and then fail every attempt, also     *)
(* when the entry was replaced in between: the errors a broken node costs  *)
(* before the breaker stops it.                                            *)
ErrorsBounded ==
  \A x \in Cells : quantity[x] <= Quantity - 1 + Cardinality(Workers) * Attempts

(* An open breaker closes again: as long as requests keep coming, some     *)
(* request is let through to the node again and again.                     *)
BreakerRecloses == []<>(\E w \in Workers : pc[w] = "call")

(* The key mismatch at its full extent: however many errors an rpc route   *)
(* has, with any number of requests, the breaker never refuses one. (With  *)
(* a quantity of 0 every breaker refuses all.)                             *)
RpcNeverBroken ==
  RouteType = "rpc" /\ Quantity > 0 => \A w \in Workers : pc[w] # "broken"

(* fusing.go: at most quantity errors are allowed in second seconds,       *)
(* "beyond that the breaker opens": no request is let through while the    *)
(* errors charged in the standing window are Quantity already.             *)
TrippedWindow ==
  LET x == index[ChargedPath]
  IN x # NoCell /\ age[x] < Second /\ quantity[x] >= Quantity

TripsAtQuantity ==
  [][\A w \in Workers :
       pc[w] = "check" /\ pc'[w] = "call" => ~TrippedWindow]_vars

(* Requests that come one at a time, to an http route: to them the breaker *)
(* is what Breaker says. Otherwise nothing is claimed.                     *)
Present == {w \in Workers : pc[w] # "absent"}
Claimed == RouteType = "http" /\ Cardinality(Present) = 1
TheWorker == CHOOSE w \in Workers : w \in Present
Entry == IF Claimed THEN index["action"] ELSE NoCell

Asking(p) == CASE p \in {"init", "clock"} -> "asked"
               [] p \in {"initStore", "reset", "resetStore"} -> "over"
               [] p = "check" -> "standing"
               [] p \in Resting -> p
               [] OTHER -> "through"

Route == INSTANCE Breaker WITH
  Second <- Second, Quantity <- Quantity, Attempts <- Attempts,
  errors <- IF Entry = NoCell THEN 0 ELSE quantity[Entry],
  age <- IF Entry = NoCell THEN Second ELSE age[Entry],
  request <- IF Claimed THEN Asking(pc[TheWorker]) ELSE "idle",
  tries <- IF Claimed /\ Asking(pc[TheWorker]) = "through"
           THEN Attempts - try[TheWorker] + 1 ELSE 0

ImplementsBreaker == Route!Spec
=============================================================================
