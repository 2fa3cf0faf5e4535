---------------------------- MODULE FusingProofs ----------------------------
(* What holds of the breaker for every number of requests and retries.     *)
EXTENDS Fusing, FiniteSetTheorems, TLAPS

(* No step leaves the types: no attempt passes the end of the retry slice. *)
THEOREM TypeCorrect == Spec => []TypeOK
<1> USE FusingAssumption
<1>1. Init => TypeOK
  BY DEF Init, TypeOK, Points, Resting
<1>2. TypeOK /\ [Next]_vars => TypeOK'
  <2> SUFFICES ASSUME TypeOK, [Next]_vars PROVE TypeOK'
    OBVIOUS
  <2> USE DEF TypeOK, Points, Resting, Goto
  <2>1. CASE Tick
    BY <2>1 DEF Tick
  <2>2. ASSUME NEW w \in Workers, Load(w) PROVE TypeOK'
    BY <2>2 DEF Load, Paths
  <2>3. ASSUME NEW w \in Workers, Alloc(w) PROVE TypeOK'
    BY <2>3 DEF Alloc, Fresh
  <2>4. ASSUME NEW w \in Workers, Store(w) PROVE TypeOK'
    BY <2>4 DEF Store, Paths, ChargedPath
  <2>5. ASSUME NEW w \in Workers, Clock(w) PROVE TypeOK'
    BY <2>5 DEF Clock
  <2>6. ASSUME NEW w \in Workers, Check(w) PROVE TypeOK'
    BY <2>6 DEF Check
  <2>7. ASSUME NEW w \in Workers, Call(w) PROVE TypeOK'
    BY <2>7 DEF Call
  <2>8. ASSUME NEW w \in Workers, Charge(w) PROVE TypeOK'
    BY <2>8 DEF Charge, Paths, ChargedPath
  <2>9. ASSUME NEW w \in Workers, Count(w) PROVE TypeOK'
    BY <2>9 DEF Count
  <2>10. CASE UNCHANGED vars
    BY <2>10 DEF vars
  <2> QED
    BY <2>1, <2>2, <2>3, <2>4, <2>5, <2>6, <2>7, <2>8, <2>9, <2>10
       DEF Next, Inspect, Attempt
<1> QED
  BY <1>1, <1>2, PTL DEF Spec

-----------------------------------------------------------------------------
(* For an rpc route the counters that are inspected and the counters that  *)
(* are charged are never the same one, so the inspected ones stay at zero. *)
Inspecting == {"initStore", "clock", "reset", "resetStore", "check"}
Charging == {"chargeStore", "count"}

ApartInv ==
  /\ index["action"] \in Cells => /\ quantity[index["action"]] = 0
                                  /\ index["action"] # index["Action"]
  /\ \A w \in Workers : pc[w] \in Inspecting
       => /\ quantity[fd[w]] = 0
          /\ fd[w] # index["Action"]
          /\ \A v \in Workers : pc[v] \in Charging => fd[v] # fd[w]
  /\ \A v \in Workers : pc[v] \in Charging => fd[v] # index["action"]
  /\ \A w \in Workers : pc[w] # "broken"

LEMMA ApartStep ==
  ASSUME RouteType = "rpc", Quantity > 0, TypeOK, TypeOK', ApartInv,
         NEW w \in Workers, Inspect(w) \/ Attempt(w)
  PROVE  ApartInv'
<1>1. /\ pc \in [Workers -> Points] /\ fd \in [Workers -> Cells \cup {NoCell}]
      /\ index \in [Paths -> Cells \cup {NoCell}]
      /\ quantity \in [Cells -> Nat]
      /\ "action" \in Paths /\ "Action" \in Paths
  BY DEF TypeOK, Paths
<1>2. NoCell \notin Cells /\ Quantity > 0 /\ Quantity \in Nat
  BY FusingAssumption
<1>3. ChargedPath = "Action"
  BY DEF ChargedPath
<1> USE <1>1, <1>2 DEF Goto, Inspecting, Charging, ApartInv
<1>4. CASE Load(w)
  BY <1>4 DEF Load, Resting
<1>5. CASE Alloc(w)
  <2>1. PICK x \in Fresh(w) :
          /\ fd' = [fd EXCEPT ![w] = x]
          /\ quantity' = [quantity EXCEPT ![x] = 0]
    BY <1>5 DEF Alloc
  <2>2. /\ x # index["action"] /\ x # index["Action"]
        /\ \A v \in Workers \ {w} : fd[v] # x
    BY <2>1 DEF Fresh, InUse
  <2>3. /\ index' = index /\ fd'[w] = x /\ quantity'[x] = 0
        /\ pc'[w] \in {"initStore", "resetStore", "chargeStore"}
        /\ \A v \in Workers \ {w} : fd'[v] = fd[v] /\ pc'[v] = pc[v]
        /\ \A y \in Cells : y # x => quantity'[y] = quantity[y]
    BY <1>5, <2>1 DEF Alloc, Fresh
  <2>4. \A v \in Workers \ {w} : pc[v] \in Inspecting => fd[v] \in Cells
    BY DEF TypeOK
  <2> QED BY <2>2, <2>3, <2>4
<1>6. CASE Store(w)
  <2>1. CASE pc[w] = "chargeStore"
    BY <1>3, <1>6, <2>1 DEF Store
  <2>2. CASE pc[w] # "chargeStore"
    BY <1>3, <1>6, <2>2 DEF Store
  <2> QED BY <2>1, <2>2
<1>7. CASE Clock(w)
  BY <1>7 DEF Clock
<1>8. CASE Check(w)
  BY <1>8 DEF Check
<1>9. CASE Call(w)
  BY <1>9 DEF Call
<1>10. CASE Charge(w)
  BY <1>3, <1>10 DEF Charge
<1>11. CASE Count(w)
  <2>1. /\ fd[w] \in Cells /\ pc[w] = "count" /\ index' = index
        /\ quantity' = [quantity EXCEPT ![fd[w]] = @ + 1]
        /\ \A v \in Workers \ {w} : fd'[v] = fd[v] /\ pc'[v] = pc[v]
        /\ pc'[w] \in {"idle", "call"}
    BY <1>11 DEF Count, TypeOK
  <2>2. \A y \in Cells : y # fd[w] => quantity'[y] = quantity[y]
    BY <2>1
  <2>3. \A v \in Workers : pc[v] \in Inspecting
                             => fd[v] \in Cells /\ fd[v] # fd[w]
    BY <2>1 DEF TypeOK
  <2> QED BY <2>1, <2>2, <2>3
<1> QED
  BY <1>4, <1>5, <1>6, <1>7, <1>8, <1>9, <1>10, <1>11 DEF Inspect, Attempt

(* The breaker of an rpc route never opens, whatever the errors, unless    *)
(* its quantity is 0.                                                      *)
THEOREM RpcBreakerNeverOpens == Spec => []RpcNeverBroken
<1>1. CASE RouteType = "rpc" /\ Quantity > 0
  <2>1. Init => ApartInv
    BY FusingAssumption
       DEF Init, ApartInv, Paths, Inspecting, Charging
  <2>2. TypeOK /\ TypeOK' /\ ApartInv /\ [Next]_vars => ApartInv'
    <3> SUFFICES ASSUME TypeOK, TypeOK', ApartInv, [Next]_vars PROVE ApartInv'
      OBVIOUS
    <3>1. CASE \E w \in Workers : Inspect(w) \/ Attempt(w)
      BY <1>1, <3>1, ApartStep
    <3>2. CASE Tick \/ UNCHANGED vars
      BY <3>2 DEF Tick, vars, ApartInv
    <3> QED BY <3>1, <3>2 DEF Next
  <2>3. ApartInv => RpcNeverBroken
    BY DEF ApartInv, RpcNeverBroken
  <2> QED
    BY <2>1, <2>2, <2>3, TypeCorrect, PTL DEF Spec
<1>2. CASE ~(RouteType = "rpc" /\ Quantity > 0)
  <2>1. RpcNeverBroken
    BY <1>2 DEF RpcNeverBroken
  <2> QED BY <2>1, PTL
<1> QED
  BY <1>1, <1>2
-----------------------------------------------------------------------------
(* Of an http route, the errors a counter may still get once it is full:   *)
(* attempt a of request w is ahead of counter x if it may be charged to x  *)
(* without w passing an inspection of x first. A request that inspects a   *)
(* replaced counter has all its attempts ahead of the one in the map; one  *)
(* that holds a counter that is no longer in the map has one.              *)
Calling == {"call", "charge", "chargeInit", "chargeStore", "count"}

IsAhead(w, a, x) ==
  IF x = index["action"]
  THEN \/ pc[w] \in Calling /\ a >= try[w]
       \/ pc[w] \in {"clock", "check"} /\ fd[w] # x
  ELSE pc[w] = "count" /\ fd[w] = x /\ a = try[w]

AllAttempts == Workers \X (1 .. Attempts)
Ahead(x) == {t \in AllAttempts : IsAhead(t[1], t[2], x)}

AheadInv ==
  /\ \A w \in Workers : pc[w] \in Calling => try[w] >= 1
  /\ \A w \in Workers : pc[w] \in {"initStore", "resetStore", "chargeStore"}
       => /\ quantity[fd[w]] = 0 /\ fd[w] # index["action"]
          /\ \A v \in Workers \ {w} : fd[v] # fd[w]
  /\ \A x \in Cells : quantity[x] >= Quantity
       => quantity[x] + Cardinality(Ahead(x)) <= Quantity - 1 + Cardinality(AllAttempts)

LEMMA AheadFinite ==
  /\ IsFiniteSet(AllAttempts) /\ Cardinality(AllAttempts) \in Nat
  /\ Cardinality(AllAttempts) = Cardinality(Workers) * Attempts
  /\ \A x : IsFiniteSet(Ahead(x)) /\ Cardinality(Ahead(x)) \in Nat
<1>1. /\ IsFiniteSet(1 .. Attempts) /\ Cardinality(1 .. Attempts) = Attempts
      /\ IsFiniteSet(Workers)
  BY FusingAssumption, FS_Interval
<1>2. /\ IsFiniteSet(AllAttempts)
      /\ Cardinality(AllAttempts) = Cardinality(Workers) * Attempts
  BY <1>1, FS_Product DEF AllAttempts
<1>3. \A x : Ahead(x) \in SUBSET AllAttempts
  BY DEF Ahead
<1> QED BY <1>2, <1>3, FS_Subset, FS_CardinalityType

(* A fresh counter is nobody else's.                                       *)
LEMMA UnstoredStep ==
  ASSUME RouteType = "http", TypeOK, TypeOK', AheadInv,
         NEW w \in Workers, Inspect(w) \/ Attempt(w)
  PROVE  /\ \A v \in Workers : pc'[v] \in Calling => try'[v] >= 1
         /\ \A v \in Workers : pc'[v] \in {"initStore", "resetStore", "chargeStore"}
              => /\ quantity'[fd'[v]] = 0 /\ fd'[v] # index'["action"]
                 /\ \A u \in Workers \ {v} : fd'[u] # fd'[v]
<1>1. /\ pc \in [Workers -> Points] /\ fd \in [Workers -> Cells \cup {NoCell}]
      /\ try \in [Workers -> 0 .. Attempts] /\ quantity \in [Cells -> Nat]
      /\ index \in [Paths -> Cells \cup {NoCell}] /\ "action" \in Paths
      /\ \A v \in Workers : pc[v] \in {"initStore", "resetStore", "chargeStore", "count"}
           => fd[v] \in Cells
  BY DEF TypeOK, Paths
<1>2. NoCell \notin Cells /\ Attempts \in Nat \ {0} /\ ChargedPath = "action"
  BY FusingAssumption DEF ChargedPath
<1> USE <1>1, <1>2 DEF Goto, Calling, AheadInv
<1>3. CASE Load(w)
  BY <1>3 DEF Load, Resting
<1>4. CASE Alloc(w)
  <2>1. PICK x \in Fresh(w) :
          /\ fd' = [fd EXCEPT ![w] = x]
          /\ quantity' = [quantity EXCEPT ![x] = 0]
    BY <1>4 DEF Alloc
  <2>2. /\ x \in Cells /\ x # index["action"]
        /\ \A v \in Workers \ {w} : fd[v] # x
    BY <2>1 DEF Fresh, InUse
  <2>3. /\ index' = index /\ try' = try
        /\ pc[w] = "init" => pc'[w] = "initStore"
        /\ pc[w] = "reset" => pc'[w] = "resetStore"
        /\ pc[w] = "chargeInit" => pc'[w] = "chargeStore"
        /\ pc[w] \in {"init", "reset", "chargeInit"}
        /\ \A v \in Workers \ {w} : pc'[v] = pc[v]
    BY <1>4 DEF Alloc
  <2> QED BY <2>1, <2>2, <2>3
<1>5. CASE Store(w)
  <2>1. CASE pc[w] = "chargeStore"
    BY <1>5, <2>1 DEF Store
  <2>2. CASE pc[w] # "chargeStore"
    BY <1>5, <2>2 DEF Store
  <2> QED BY <2>1, <2>2
<1>6. CASE Clock(w)
  BY <1>6 DEF Clock
<1>7. CASE Check(w)
  BY <1>7 DEF Check
<1>8. CASE Call(w)
  BY <1>8 DEF Call
<1>9. CASE Charge(w)
  BY <1>9 DEF Charge
<1>10. CASE Count(w)
  BY <1>10 DEF Count
<1> QED
  BY <1>3, <1>4, <1>5, <1>6, <1>7, <1>8, <1>9, <1>10 DEF Inspect, Attempt

(* No step but Count brings a full counter nearer to its bound.            *)
LEMMA AheadShrinks ==
  ASSUME RouteType = "http", TypeOK, AheadInv, NEW w \in Workers,
         Inspect(w) \/ Call(w) \/ Charge(w), NEW x \in Cells, quantity'[x] >= Quantity,
         Quantity > 0
  PROVE  quantity'[x] = quantity[x] /\ Ahead(x)' \subseteq Ahead(x)
<1>1. /\ pc \in [Workers -> Points] /\ fd \in [Workers -> Cells \cup {NoCell}]
      /\ try \in [Workers -> 0 .. Attempts] /\ quantity \in [Cells -> Nat]
      /\ index \in [Paths -> Cells \cup {NoCell}] /\ "action" \in Paths
      /\ \A v \in Workers : pc[v] \in {"initStore", "resetStore", "chargeStore", "count"}
           => fd[v] \in Cells
  BY DEF TypeOK, Paths
<1>2. /\ NoCell \notin Cells /\ Attempts \in Nat \ {0} /\ ChargedPath = "action"
      /\ Quantity \in Nat \ {0}
  BY FusingAssumption DEF ChargedPath
<1>3. SUFFICES /\ quantity'[x] = quantity[x]
               /\ \A v \in Workers, a \in 1 .. Attempts : IsAhead(v, a, x)' => IsAhead(v, a, x)
  BY DEF Ahead, AllAttempts
<1> USE <1>1, <1>2 DEF Goto, Calling, IsAhead
<1>4. CASE Load(w)
  BY <1>4 DEF Load, Resting
<1>5. CASE Alloc(w)
  <2>1. PICK z \in Fresh(w) :
          /\ fd' = [fd EXCEPT ![w] = z]
          /\ quantity' = [quantity EXCEPT ![z] = 0]
    BY <1>5 DEF Alloc
  <2>2. z \in Cells /\ z # x
    BY <2>1 DEF Fresh
  <2>3. /\ index' = index /\ try' = try
        /\ pc[w] = "init" => pc'[w] = "initStore"
        /\ pc[w] = "reset" => pc'[w] = "resetStore"
        /\ pc[w] = "chargeInit" => pc'[w] = "chargeStore"
        /\ pc[w] \in {"init", "reset", "chargeInit"}
        /\ \A v \in Workers \ {w} : pc'[v] = pc[v]
    BY <1>5 DEF Alloc
  <2> QED BY <2>1, <2>2, <2>3
<1>6. CASE Store(w)
  <2>1. /\ UNCHANGED <<quantity, fd, try>> /\ index' = [index EXCEPT !["action"] = fd[w]]
        /\ fd[w] \in Cells /\ quantity[fd[w]] = 0
    BY <1>6 DEF Store, AheadInv
  <2>2. x # fd[w]
    BY <2>1
  <2>3. /\ pc[w] = "initStore" => pc'[w] = "clock"
        /\ pc[w] = "resetStore" => pc'[w] = "check"
        /\ pc[w] = "chargeStore" => pc'[w] = "count"
        /\ pc[w] \in {"initStore", "resetStore", "chargeStore"}
        /\ \A v \in Workers \ {w} : pc'[v] = pc[v]
    BY <1>6 DEF Store
  <2> QED BY <2>1, <2>2, <2>3
<1>7. CASE Clock(w)
  BY <1>7 DEF Clock
<1>8. CASE Check(w)
  BY <1>8 DEF Check
<1>9. CASE Call(w)
  BY <1>9 DEF Call
<1>10. CASE Charge(w)
  BY <1>10 DEF Charge
<1> QED
  BY <1>4, <1>5, <1>6, <1>7, <1>8, <1>9, <1>10 DEF Inspect

(* Count takes the attempt it charges from those ahead.                    *)
LEMMA AheadCount ==
  ASSUME RouteType = "http", TypeOK, AheadInv, NEW w \in Workers, Count(w),
         NEW x \in Cells, quantity'[x] >= Quantity, Quantity > 0
  PROVE  quantity'[x] + Cardinality(Ahead(x)')
           <= Quantity - 1 + Cardinality(AllAttempts)
<1>1. /\ pc \in [Workers -> Points] /\ fd \in [Workers -> Cells \cup {NoCell}]
      /\ try \in [Workers -> 0 .. Attempts] /\ quantity \in [Cells -> Nat]
      /\ fd[w] \in Cells /\ pc[w] = "count"
  BY DEF TypeOK, Count
<1>2. /\ NoCell \notin Cells /\ Attempts \in Nat \ {0} /\ Quantity \in Nat \ {0}
  BY FusingAssumption
<1>3. /\ index' = index /\ quantity' = [quantity EXCEPT ![fd[w]] = @ + 1]
      /\ fd' = [fd EXCEPT ![w] = NoCell]
      /\ \A v \in Workers \ {w} : pc'[v] = pc[v] /\ try'[v] = try[v]
      /\ pc'[w] = "idle" \/ (pc'[w] = "call" /\ try'[w] = try[w] + 1)
      /\ try[w] >= 1
  BY <1>1 DEF Count, Goto, AheadInv, Calling
<1> DEFINE t == <<w, try[w]>>
<1>4. t \in AllAttempts
  BY <1>1, <1>2, <1>3 DEF AllAttempts
<1>5. \A v \in Workers, a \in 1 .. Attempts :
        IsAhead(v, a, x)' => IsAhead(v, a, x) /\ ~(v = w /\ a = try[w])
  BY <1>1, <1>2, <1>3 DEF IsAhead, Calling
<1>6. Ahead(x)' \subseteq Ahead(x) \ {t} /\ Ahead(x)' \subseteq AllAttempts \ {t}
  BY <1>5 DEF Ahead, AllAttempts
<1>7. CASE x = fd[w]
  <2>1. t \in Ahead(x)
    BY <1>1, <1>4, <1>7 DEF Ahead, IsAhead, Calling
  <2>2. /\ Cardinality(Ahead(x)') <= Cardinality(Ahead(x) \ {t})
        /\ Cardinality(Ahead(x) \ {t}) = Cardinality(Ahead(x)) - 1
    BY <1>6, <2>1, AheadFinite, FS_RemoveElement, FS_Subset
  <2>3. /\ Cardinality(Ahead(x)') <= Cardinality(AllAttempts \ {t})
        /\ Cardinality(AllAttempts \ {t}) = Cardinality(AllAttempts) - 1
    BY <1>4, <1>6, AheadFinite, FS_RemoveElement, FS_Subset
  <2>4. quantity'[x] = quantity[x] + 1 /\ quantity[x] \in Nat
    BY <1>1, <1>3, <1>7
  <2>5. Cardinality(Ahead(x)') \in Nat
    BY <1>6, AheadFinite, FS_Subset, FS_CardinalityType
  <2>6. CASE quantity[x] >= Quantity
    BY <1>2, <2>2, <2>4, <2>5, <2>6, AheadFinite DEF AheadInv
  <2>7. CASE quantity[x] = Quantity - 1
    BY <1>2, <2>3, <2>4, <2>5, <2>7, AheadFinite
  <2> QED BY <1>2, <2>4, <2>6, <2>7
<1>8. CASE x # fd[w]
  <2>1. quantity'[x] = quantity[x] /\ quantity[x] \in Nat
    BY <1>1, <1>3, <1>8
  <2>2. /\ Cardinality(Ahead(x)') <= Cardinality(Ahead(x))
        /\ Cardinality(Ahead(x)') \in Nat
    BY <1>6, AheadFinite, FS_Subset, FS_CardinalityType
  <2> QED BY <1>2, <2>1, <2>2, AheadFinite DEF AheadInv
<1> QED BY <1>7, <1>8

(* With a quantity of 0 no request is ever let through, so none fails.     *)
ClosedInv == /\ \A w \in Workers : pc[w] \notin Calling
             /\ \A x \in Cells : quantity[x] = 0

LEMMA ClosedIsBounded == Quantity = 0 => (Spec => []ErrorsBounded)
<1> SUFFICES ASSUME Quantity = 0 PROVE Spec => []ErrorsBounded
  OBVIOUS
<1>1. Init => ClosedInv
  BY DEF Init, ClosedInv, Calling
<1>2. TypeOK /\ ClosedInv /\ [Next]_vars => ClosedInv'
  <2> SUFFICES ASSUME TypeOK, ClosedInv, [Next]_vars PROVE ClosedInv'
    OBVIOUS
  <2> USE FusingAssumption DEF TypeOK, ClosedInv, Calling, Goto
  <2>1. CASE Tick \/ UNCHANGED vars
    BY <2>1 DEF Tick, vars
  <2>2. ASSUME NEW w \in Workers, Load(w) PROVE ClosedInv'
    BY <2>2 DEF Load, Resting
  <2>3. ASSUME NEW w \in Workers, Alloc(w) PROVE ClosedInv'
    BY <2>3 DEF Alloc, Fresh
  <2>4. ASSUME NEW w \in Workers, Store(w) PROVE ClosedInv'
    BY <2>4 DEF Store
  <2>5. ASSUME NEW w \in Workers, Clock(w) PROVE ClosedInv'
    BY <2>5 DEF Clock
  <2>6. ASSUME NEW w \in Workers, Check(w) PROVE ClosedInv'
    BY <2>6 DEF Check
  <2>7. ASSUME NEW w \in Workers PROVE ~Attempt(w)
    BY DEF Attempt, Call, Charge, Count
  <2> QED BY <2>1, <2>2, <2>3, <2>4, <2>5, <2>6, <2>7 DEF Next, Inspect
<1>3. ClosedInv => ErrorsBounded
  <2>1. Cardinality(Workers) \in Nat \ {0} /\ Attempts \in Nat \ {0}
    BY FusingAssumption, FS_CardinalityType, FS_EmptySet
  <2>2. \A m, n \in Nat \ {0} : 0 - 1 + m * n >= 0
    <3> SUFFICES ASSUME NEW m \in Nat \ {0}, NEW n \in Nat \ {0} PROVE m * n >= 1
      OBVIOUS
    <3>1. m * n >= 1 * n
      OBVIOUS
    <3> QED BY <3>1
  <2>3. Quantity - 1 + Cardinality(Workers) * Attempts >= 0
    BY <2>1, <2>2
  <2> QED BY <2>3 DEF ClosedInv, ErrorsBounded
<1> QED
  BY <1>1, <1>2, <1>3, TypeCorrect, PTL DEF Spec

(* On an http route no counter ever holds more than Quantity - 1 errors    *)
(* and all the attempts of all the requests, for any number of them and    *)
(* however often the entry of the map is replaced meanwhile.               *)
THEOREM ErrorsAreBounded == RouteType = "http" => (Spec => []ErrorsBounded)
<1> SUFFICES ASSUME RouteType = "http", Quantity > 0 PROVE Spec => []ErrorsBounded
  BY ClosedIsBounded, FusingAssumption
<1>1. Init => AheadInv
  <2> SUFFICES ASSUME Init PROVE AheadInv
    OBVIOUS
  <2>1. \A x \in Cells : ~(quantity[x] >= Quantity)
    BY FusingAssumption DEF Init
  <2> QED BY <2>1 DEF Init, AheadInv, Calling
<1>2. TypeOK /\ TypeOK' /\ AheadInv /\ [Next]_vars => AheadInv'
  <2> SUFFICES ASSUME TypeOK, TypeOK', AheadInv, [Next]_vars PROVE AheadInv'
    OBVIOUS
  <2>1. ASSUME NEW w \in Workers, Inspect(w) \/ Attempt(w) PROVE AheadInv'
    <3>1. ASSUME NEW x \in Cells, quantity'[x] >= Quantity
          PROVE  quantity'[x] + Cardinality(Ahead(x)')
                   <= Quantity - 1 + Cardinality(AllAttempts)
      <4>1. CASE Count(w)
        BY <3>1, <4>1, AheadCount
      <4>2. CASE Inspect(w) \/ Call(w) \/ Charge(w)
        <5>1. quantity'[x] = quantity[x] /\ Ahead(x)' \subseteq Ahead(x)
          BY <3>1, <4>2, AheadShrinks
        <5>2. /\ Cardinality(Ahead(x)') <= Cardinality(Ahead(x))
              /\ Cardinality(Ahead(x)') \in Nat
          BY <5>1, AheadFinite, FS_Subset, FS_CardinalityType
        <5>3. quantity[x] \in Nat /\ Quantity \in Nat
          BY FusingAssumption DEF TypeOK
        <5> QED BY <3>1, <5>1, <5>2, <5>3, AheadFinite DEF AheadInv
      <4> QED BY <2>1, <4>1, <4>2 DEF Attempt
    <3> QED BY <2>1, <3>1, UnstoredStep DEF AheadInv, AllAttempts
  <2>2. CASE Tick \/ UNCHANGED vars
    BY <2>2 DEF Tick, vars, AheadInv, Ahead, IsAhead
  <2> QED BY <2>1, <2>2 DEF Next
<1>3. TypeOK /\ AheadInv => ErrorsBounded
  <2> SUFFICES ASSUME TypeOK, AheadInv, NEW x \in Cells
               PROVE  quantity[x] <= Quantity - 1 + Cardinality(Workers) * Attempts
    BY DEF ErrorsBounded
  <2>1. quantity[x] \in Nat /\ Quantity \in Nat \ {0}
    BY FusingAssumption DEF TypeOK
  <2>2. CASE quantity[x] >= Quantity
    BY <2>1, <2>2, AheadFinite DEF AheadInv
  <2>3. CASE quantity[x] < Quantity
    BY <2>1, <2>3, AheadFinite
  <2> QED BY <2>1, <2>2, <2>3
<1> QED
  BY <1>1, <1>2, <1>3, TypeCorrect, PTL DEF Spec
-----------------------------------------------------------------------------
(* One request at a time inspects the standing entry.                      *)
OneAtATime == \A v, w \in Workers : v = w

HoldsEntryInv ==
  \A w \in Workers : pc[w] \in {"clock", "check"} => fd[w] = index["action"]

(* Where the two keys are equal and requests come one at a time, the       *)
(* breaker does what fusing.go says. Each condition is needed: an rpc      *)
(* route does not trip (RpcBreakerNeverOpens), and a second request may    *)
(* inspect a counter that the first has replaced.                          *)
THEOREM HttpBreakerTrips ==
  RouteType = "http" /\ OneAtATime => (Spec => TripsAtQuantity)
<1> SUFFICES ASSUME RouteType = "http", OneAtATime PROVE Spec => TripsAtQuantity
  OBVIOUS
<1>1. Init => HoldsEntryInv
  BY DEF Init, HoldsEntryInv
<1>2. TypeOK /\ HoldsEntryInv /\ [Next]_vars => HoldsEntryInv'
  <2> SUFFICES ASSUME TypeOK, HoldsEntryInv, [Next]_vars PROVE HoldsEntryInv'
    OBVIOUS
  <2> USE DEF HoldsEntryInv, TypeOK, Paths, Goto
  <2>1. ASSUME NEW w \in Workers, Inspect(w) \/ Attempt(w)
        PROVE  pc'[w] \in {"clock", "check"} => fd'[w] = index'["action"]
    <3>1. CASE Load(w)
      BY <3>1 DEF Load
    <3>2. CASE Alloc(w)
      BY <3>2 DEF Alloc
    <3>3. CASE Store(w)
      BY <3>3 DEF Store
    <3>4. CASE Clock(w) \/ Check(w) \/ Call(w) \/ Charge(w) \/ Count(w)
      BY <3>4 DEF Clock, Check, Call, Charge, Count
    <3> QED BY <2>1, <3>1, <3>2, <3>3, <3>4 DEF Inspect, Attempt
  <2>2. CASE Tick \/ UNCHANGED vars
    BY <2>2 DEF Tick, vars
  <2> QED BY <2>1, <2>2 DEF Next, OneAtATime
<1>3. TypeOK /\ HoldsEntryInv /\ [Next]_vars
        => [\A w \in Workers :
              pc[w] = "check" /\ pc'[w] = "call" => ~TrippedWindow]_vars
  <2> SUFFICES ASSUME TypeOK, HoldsEntryInv, [Next]_vars,
                      NEW w \in Workers, pc[w] = "check", pc'[w] = "call"
               PROVE  ~TrippedWindow
    OBVIOUS
  <2>1. \E v \in Workers : Inspect(v) \/ Attempt(v)
    BY DEF Next, Tick, vars
  <2>2. Inspect(w) \/ Attempt(w)
    BY <2>1 DEF OneAtATime
  <2>3. Check(w)
    BY <2>2 DEF Inspect, Attempt, Load, Alloc, Store, Clock, Call, Charge, Count, Resting
  <2>4. ~(quantity[fd[w]] >= Quantity)
    BY <2>3 DEF Check, Goto, TypeOK
  <2> QED BY <2>4 DEF TrippedWindow, ChargedPath, HoldsEntryInv
<1> QED
  BY <1>1, <1>2, <1>3, TypeCorrect, PTL DEF Spec, TripsAtQuantity

-----------------------------------------------------------------------------
(* Who takes part does not change.                                         *)
LEMMA PresentStays ==
  ASSUME TypeOK, [Next]_vars
  PROVE  Present' = Present /\ Claimed' = Claimed /\ TheWorker' = TheWorker
<1>1. ASSUME NEW w \in Workers, Inspect(w) \/ Attempt(w), NEW v \in Workers
      PROVE  pc'[v] # "absent" <=> pc[v] # "absent"
  BY <1>1 DEF TypeOK, Goto, Resting, Inspect, Attempt, Load, Alloc, Store, Clock, Check,
     Call, Charge, Count
<1>2. \A v \in Workers : pc'[v] # "absent" <=> pc[v] # "absent"
  BY <1>1 DEF Next, Tick, vars
<1>3. Present' = Present
  BY <1>2 DEF Present
<1> QED BY <1>3 DEF Claimed, TheWorker

LEMMA OneWorker ==
  ASSUME Claimed
  PROVE  Present = {TheWorker} /\ TheWorker \in Workers
<1>1. IsFiniteSet(Present)
  BY FusingAssumption, FS_Subset DEF Present
<1>2. \E x : Present = {x}
  BY <1>1, FS_Singleton DEF Claimed
<1> QED BY <1>2 DEF TheWorker, Present

LEMMA OnlyWorkerMoves ==
  ASSUME NEW w \in Workers, Present = {w}, NEW v \in Workers, Inspect(v) \/ Attempt(v)
  PROVE  v = w
BY DEF Present, Inspect, Attempt, Resting, Load, Alloc, Store, Clock, Check, Call,
   Charge, Count

(* The counter the only worker holds is the one in the map, which it       *)
(* replaces only when its window is over; a charge always finds one.       *)
HoldsEntry(w) ==
  LET x == index["action"] IN
  /\ pc[w] \in {"init", "initStore"} => x = NoCell
  /\ pc[w] \in {"clock", "reset", "resetStore", "check", "call", "charge", "count"}
       => x \in Cells
  /\ pc[w] \in {"clock", "reset", "check", "count"} => fd[w] = x
  /\ pc[w] \in {"initStore", "resetStore"} => fd[w] \in Cells /\ quantity[fd[w]] = 0
  /\ pc[w] \in {"reset", "resetStore"} => age[x] = Second
  /\ pc[w] \notin {"chargeInit", "chargeStore"}

SerialInv == Claimed => HoldsEntry(TheWorker)

LEMMA HoldsEntryStep ==
  ASSUME RouteType = "http", NEW w \in Workers, Present = {w}, TypeOK, HoldsEntry(w),
         [Next]_vars
  PROVE  HoldsEntry(w)'
<1> USE FusingAssumption DEF TypeOK, Paths, Resting, Goto, HoldsEntry
<1>1. CASE Tick
  BY <1>1 DEF Tick
<1>2. CASE Load(w)
  BY <1>2 DEF Load
<1>3. CASE Alloc(w)
  BY <1>3 DEF Alloc, Fresh, InUse
<1>4. CASE Store(w)
  BY <1>4 DEF Store
<1>5. CASE Clock(w)
  BY <1>5 DEF Clock
<1>6. CASE Check(w)
  BY <1>6 DEF Check
<1>7. CASE Call(w)
  BY <1>7 DEF Call
<1>8. CASE Charge(w)
  BY <1>8 DEF Charge, ChargedPath
<1>9. CASE Count(w)
  BY <1>9 DEF Count
<1>10. CASE UNCHANGED vars
  BY <1>10 DEF vars
<1> QED
  BY <1>1, <1>2, <1>3, <1>4, <1>5, <1>6, <1>7, <1>8, <1>9, <1>10, OnlyWorkerMoves
  DEF Next, Inspect, Attempt

LEMMA SerialInvariant == Spec => []SerialInv
<1>1. Init => SerialInv
  <2> SUFFICES ASSUME Init, Claimed PROVE HoldsEntry(TheWorker)
    BY DEF SerialInv
  <2>1. pc[TheWorker] \in {"idle", "absent"}
    BY OneWorker DEF Init
  <2> QED BY <2>1 DEF HoldsEntry
<1>2. TypeOK /\ SerialInv /\ [Next]_vars => SerialInv'
  <2> SUFFICES ASSUME TypeOK, Claimed, HoldsEntry(TheWorker), [Next]_vars PROVE SerialInv'
    BY PresentStays DEF SerialInv
  <2>1. PICK w \in Workers : w = TheWorker
    BY OneWorker
  <2>2. Present = {w} /\ HoldsEntry(w) /\ RouteType = "http"
    BY <2>1, OneWorker DEF Claimed
  <2>3. HoldsEntry(w)' /\ TheWorker' = w
    BY <2>1, <2>2, HoldsEntryStep, PresentStays
  <2> QED BY <2>3 DEF SerialInv, HoldsEntry
<1> QED BY <1>1, <1>2, TypeCorrect, PTL DEF Spec

(* Each step of the only worker is a step of the abstract breaker.         *)
LEMMA WorkerRefines ==
  ASSUME TypeOK, TypeOK', Claimed, Claimed', NEW w \in Workers, TheWorker = w, TheWorker' = w,
         HoldsEntry(w), [Next]_vars
  PROVE  [Route!Next]_(Route!bvars)
<1> DEFINE x == index["action"]
<1>1. /\ RouteType = "http" /\ Entry = x /\ Entry' = x' /\ Present = {w}
      /\ Second \in Nat /\ Quantity \in Nat /\ Attempts \in Nat /\ NoCell \notin Cells
      /\ x \in Cells \cup {NoCell}
  BY OneWorker, FusingAssumption DEF Claimed, Entry, TypeOK, Paths
<1>2. CASE Tick
  <2>1. x' = x /\ pc' = pc /\ try' = try /\ quantity' = quantity
    BY <1>2 DEF Tick
  <2>2. CASE x # NoCell /\ age[x] < Second
    <3>1. age'[x] = age[x] + 1
      BY <1>1, <1>2, <2>2 DEF Tick
    <3>2. Route!Elapse
      BY <1>1, <2>1, <2>2, <3>1 DEF Route!Elapse
    <3> QED BY <3>2 DEF Route!Next
  <2>3. CASE ~(x # NoCell /\ age[x] < Second)
    <3>1. x # NoCell => age'[x] = age[x]
      BY <1>1, <1>2, <2>3 DEF Tick
    <3> QED BY <1>1, <2>1, <3>1 DEF Route!bvars
  <2> QED BY <2>2, <2>3
<1>3. CASE Load(w)
  <2>1. /\ Asking(pc[w]) \in {"idle", "broken"} /\ Asking(pc'[w]) = "asked"
        /\ UNCHANGED <<index, age, quantity, try>>
    BY <1>3 DEF Load, Goto, Asking, Resting, TypeOK
  <2>2. Route!Ask
    BY <1>1, <2>1 DEF Route!Ask
  <2> QED BY <2>2 DEF Route!Next
<1>4. CASE Alloc(w)
  <2>1. PICK y \in Cells : /\ y # x /\ age' = [age EXCEPT ![y] = 0]
                           /\ quantity' = [quantity EXCEPT ![y] = 0]
    BY <1>4 DEF Alloc, Fresh, InUse, Paths
  <2>2. /\ UNCHANGED <<index, try>>
        /\ x # NoCell => quantity'[x] = quantity[x] /\ age'[x] = age[x]
    BY <1>1, <1>4, <2>1 DEF Alloc, TypeOK
  <2>3. CASE pc[w] = "init"
    <3>1. x = NoCell /\ Asking(pc[w]) = "asked" /\ Asking(pc'[w]) = "over"
      BY <1>4, <2>3 DEF Alloc, Goto, HoldsEntry, Asking, Resting, TypeOK
    <3>2. Route!Look
      BY <1>1, <2>2, <3>1 DEF Route!Look
    <3> QED BY <3>2 DEF Route!Next
  <2>4. CASE pc[w] = "reset"
    <3>1. Asking(pc[w]) = "over" /\ Asking(pc'[w]) = "over"
      BY <1>4, <2>4 DEF Alloc, Goto, Asking, Resting, TypeOK
    <3> QED BY <1>1, <2>2, <3>1 DEF Route!bvars
  <2> QED BY <1>4, <2>3, <2>4 DEF Alloc, HoldsEntry
<1>5. CASE Store(w)
  <2>1. /\ x' = fd[w] /\ fd[w] \in Cells /\ quantity[fd[w]] = 0
        /\ UNCHANGED <<age, quantity, try>>
    BY <1>1, <1>5 DEF Store, HoldsEntry, TypeOK, Paths
  <2>2. Asking(pc[w]) = "over" /\ Asking(pc'[w]) \in {"asked", "standing"}
    BY <1>5 DEF Store, Goto, HoldsEntry, Asking, Resting, TypeOK
  <2>3. age[fd[w]] \in 0 .. Second /\ fd[w] # NoCell
    BY <1>1, <2>1 DEF TypeOK
  <2>4. Route!Open
    BY <1>1, <2>1, <2>2, <2>3 DEF Route!Open
  <2> QED BY <2>4 DEF Route!Next
<1>6. CASE Clock(w)
  <2>1. /\ x \in Cells /\ pc[w] = "clock"
        /\ pc'[w] = IF age[x] >= Second THEN "reset" ELSE "check"
        /\ UNCHANGED <<index, age, quantity, try>>
    BY <1>6 DEF Clock, Goto, HoldsEntry, TypeOK
  <2>2. /\ Asking(pc[w]) = "asked"
        /\ Asking(pc'[w]) = IF age[x] >= Second THEN "over" ELSE "standing"
    BY <2>1 DEF Asking, Resting
  <2>3. Route!Look
    BY <1>1, <2>1, <2>2 DEF Route!Look
  <2> QED BY <2>3 DEF Route!Next
<1>7. CASE Check(w)
  <2>1. /\ x \in Cells /\ pc[w] = "check" /\ try'[w] = 1
        /\ pc'[w] = IF quantity[x] >= Quantity THEN "broken" ELSE "call"
        /\ UNCHANGED <<index, age, quantity>>
    BY <1>7 DEF Check, Goto, HoldsEntry, TypeOK
  <2>2. /\ Asking(pc[w]) = "standing"
        /\ Asking(pc'[w]) = IF quantity[x] >= Quantity THEN "broken" ELSE "through"
    BY <2>1 DEF Asking, Resting
  <2>3. quantity[x] \in Nat
    BY <2>1 DEF TypeOK
  <2>4. CASE quantity[x] >= Quantity
    <3>1. Route!Refuse
      BY <1>1, <2>1, <2>2, <2>4 DEF Route!Refuse
    <3> QED BY <3>1 DEF Route!Next
  <2>5. CASE ~(quantity[x] >= Quantity)
    <3>1. Route!Admit
      BY <1>1, <2>1, <2>2, <2>3, <2>5 DEF Route!Admit
    <3> QED BY <3>1 DEF Route!Next
  <2> QED BY <2>4, <2>5
<1>8. CASE Call(w)
  <2>1. /\ pc[w] = "call" /\ pc'[w] \in {"idle", "charge"}
        /\ UNCHANGED <<index, age, quantity, try>>
    BY <1>8 DEF Call, Goto, TypeOK
  <2>2. Asking(pc[w]) = "through" /\ Asking("idle") = "idle" /\ Asking("charge") = "through"
    BY <2>1 DEF Asking, Resting
  <2>3. CASE pc'[w] = "idle"
    <3>1. Route!Succeed
      BY <1>1, <2>1, <2>2, <2>3 DEF Route!Succeed
    <3> QED BY <3>1 DEF Route!Next
  <2>4. CASE pc'[w] = "charge"
    BY <1>1, <2>1, <2>2, <2>4 DEF Route!bvars
  <2> QED BY <2>1, <2>3, <2>4
<1>9. CASE Charge(w)
  <2>1. /\ pc[w] = "charge" /\ pc'[w] = "count"
        /\ UNCHANGED <<index, age, quantity, try>>
    BY <1>1, <1>9 DEF Charge, ChargedPath, Goto, HoldsEntry, TypeOK
  <2>2. Asking(pc[w]) = "through" /\ Asking(pc'[w]) = "through"
    BY <2>1 DEF Asking, Resting
  <2> QED BY <1>1, <2>1, <2>2 DEF Route!bvars
<1>10. CASE Count(w)
  <2>1. /\ x \in Cells /\ pc[w] = "count" /\ quantity'[x] = quantity[x] + 1
        /\ UNCHANGED <<index, age>>
    BY <1>10 DEF Count, HoldsEntry, TypeOK
  <2>2. \/ pc'[w] = "idle"
        \/ pc'[w] = "call" /\ try[w] < Attempts /\ try'[w] = try[w] + 1
    BY <1>10 DEF Count, Goto, TypeOK
  <2>3. Asking(pc[w]) = "through" /\ Asking("idle") = "idle" /\ Asking("call") = "through"
    BY <2>1 DEF Asking, Resting
  <2>4. try[w] \in Nat
    BY DEF TypeOK
  <2>5. Route!Fail
    BY <1>1, <2>1, <2>2, <2>3, <2>4 DEF Route!Fail
  <2> QED BY <2>5 DEF Route!Next
<1>11. CASE UNCHANGED vars
  BY <1>1, <1>11 DEF vars, Route!bvars
<1> QED
  BY <1>1, <1>2, <1>3, <1>4, <1>5, <1>6, <1>7, <1>8, <1>9, <1>10, <1>11, OnlyWorkerMoves
  DEF Next, Inspect, Attempt

(* Requests that come one at a time, to an http route, get exactly what    *)
(* Breaker promises; above all, none is refused by a window that was over  *)
(* when it came, so that an open breaker closes.                           *)
THEOREM SerialBreaker == Spec => ImplementsBreaker
<1>1. Init => Route!Init
  <2> SUFFICES ASSUME Init PROVE Route!Init
    OBVIOUS
  <2>1. Claimed => pc[TheWorker] = "idle"
    BY OneWorker DEF Init, Present
  <2>2. Entry = NoCell /\ Asking("idle") = "idle"
    BY DEF Init, Entry, Paths, Asking, Resting
  <2> QED BY <2>1, <2>2 DEF Route!Init
<1>2. TypeOK /\ TypeOK' /\ SerialInv /\ [Next]_vars => [Route!Next]_(Route!bvars)
  <2> SUFFICES ASSUME TypeOK, TypeOK', SerialInv, [Next]_vars
               PROVE  [Route!Next]_(Route!bvars)
    OBVIOUS
  <2>1. CASE ~Claimed
    BY <2>1, PresentStays DEF Entry, Route!bvars
  <2>2. CASE Claimed
    <3>1. PICK w \in Workers : w = TheWorker
      BY <2>2, OneWorker
    <3>2. TheWorker = w /\ TheWorker' = w /\ Claimed' /\ HoldsEntry(w)
      BY <2>2, <3>1, PresentStays DEF SerialInv
    <3> QED BY <2>2, <3>2, WorkerRefines
  <2> QED BY <2>1, <2>2
<1> QED
  BY <1>1, <1>2, TypeCorrect, SerialInvariant, PTL DEF Spec, ImplementsBreaker, Route!Spec
=============================================================================
