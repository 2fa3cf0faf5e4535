--------------------------- MODULE LimiterProofs ---------------------------
(***************************************************************************)
(* What holds of limiterInspect for every number of goroutines and every   *)
(* limiter, and that calls that come one at a time get a fixed-window      *)
(* limiter.                                                                *)
(***************************************************************************)
EXTENDS Limiter, FiniteSetTheorems, TLAPS

(* No step leaves the types, and a goroutine past Load holds a counter.    *)
THEOREM TypeCorrect == Spec => []TypeOK
<1> USE LimiterAssumption
<1>1. Init => TypeOK
  BY DEF Init, TypeOK, Points, Resting
<1>2. TypeOK /\ [Next]_vars => TypeOK'
  <2> SUFFICES ASSUME TypeOK, [Next]_vars PROVE TypeOK'
    OBVIOUS
  <2> USE DEF TypeOK, Points, Resting, Goto
  <2>1. CASE Tick
    BY <2>1 DEF Tick
  <2>2. ASSUME NEW w \in Workers, Load(w) PROVE TypeOK'
    BY <2>2 DEF Load
  <2>3. ASSUME NEW w \in Workers, Alloc(w) PROVE TypeOK'
    BY <2>3 DEF Alloc, Fresh
  <2>4. ASSUME NEW w \in Workers, Store(w) PROVE TypeOK'
    BY <2>4 DEF Store
  <2>5. ASSUME NEW w \in Workers, Clock(w) PROVE TypeOK'
    BY <2>5 DEF Clock
  <2>6. ASSUME NEW w \in Workers, Check(w) PROVE TypeOK'
    BY <2>6 DEF Check
  <2>7. ASSUME NEW w \in Workers, Add(w) PROVE TypeOK'
    BY <2>7 DEF Add
  <2>8. CASE UNCHANGED vars
    BY <2>8 DEF vars
  <2> QED
    BY <2>1, <2>2, <2>3, <2>4, <2>5, <2>6, <2>7, <2>8 DEF Next, Inspect
<1> QED
  BY <1>1, <1>2, PTL DEF Spec

-----------------------------------------------------------------------------
(* The bound is not inductive: a goroutine between its check and its add   *)
(* is an admission already decided. Counted with the counter, it is.       *)
Adders(x) == {w \in Workers : pc[w] = "add" /\ ld[w] = x}
Decided(x) == quantity[x] + Cardinality(Adders(x))
DecidedInv ==
  \A x \in Cells : Decided(x) <= Quantity + Cardinality(Workers) - 1

LEMMA AddersFinite ==
  ASSUME NEW x
  PROVE  /\ IsFiniteSet(Adders(x)) /\ Cardinality(Adders(x)) \in Nat
         /\ Cardinality(Workers) \in Nat \ {0}
         /\ Cardinality(Adders(x)) <= Cardinality(Workers)
         /\ \A w \in Workers \ Adders(x) :
              Cardinality(Adders(x)) + 1 <= Cardinality(Workers)
<1>1. Adders(x) \subseteq Workers
  BY DEF Adders
<1>2. IsFiniteSet(Workers) /\ Cardinality(Workers) \in Nat \ {0}
  BY LimiterAssumption, FS_CardinalityType, FS_EmptySet
<1>3. /\ IsFiniteSet(Adders(x)) /\ Cardinality(Adders(x)) \in Nat
      /\ Cardinality(Adders(x)) <= Cardinality(Workers)
  BY <1>1, <1>2, FS_Subset, FS_CardinalityType
<1>4. ASSUME NEW w \in Workers \ Adders(x)
      PROVE  Cardinality(Adders(x)) + 1 <= Cardinality(Workers)
  <2>1. Cardinality(Adders(x) \cup {w}) = Cardinality(Adders(x)) + 1
    BY <1>3, <1>4, FS_AddElement
  <2>2. Adders(x) \cup {w} \in SUBSET Workers
    BY <1>1
  <2> QED BY <1>2, <2>1, <2>2, FS_Subset
<1> QED
  BY <1>2, <1>3, <1>4

(* A step that changes neither a counter nor who is about to add to it.    *)
LEMMA DecidedFrame ==
  ASSUME NEW x \in Cells, quantity'[x] = quantity[x],
         Adders(x)' = Adders(x)
  PROVE  Decided(x)' = Decided(x)
BY DEF Decided

LEMMA DecidedStep ==
  ASSUME TypeOK, DecidedInv, NEW w \in Workers, Inspect(w)
  PROVE  DecidedInv'
<1>1. pc \in [Workers -> Points] /\ quantity \in [Cells -> Nat]
  BY DEF TypeOK
<1>2. ld \in [Workers -> Cells \cup {NoCell}]
  BY DEF TypeOK
<1>3. Quantity \in Nat
  BY LimiterAssumption
<1> USE DEF Goto
<1>4. CASE Alloc(w)
  <2>1. PICK y \in Fresh(w) :
          /\ ld' = [ld EXCEPT ![w] = y]
          /\ quantity' = [quantity EXCEPT ![y] = 0]
    BY <1>4 DEF Alloc
  <2>2. pc[w] # "add" /\ pc'[w] # "add"
    BY <1>1, <1>4 DEF Alloc
  <2>3. \A x : Adders(x)' = Adders(x)
    BY <1>1, <1>2, <1>4, <2>1, <2>2 DEF Alloc, Fresh, Adders
  <2>4. ASSUME NEW x \in Cells
        PROVE  Decided(x)' <= Quantity + Cardinality(Workers) - 1
    <3>1. CASE x = y
      <4>1. Adders(x) = {}
        BY <2>1, <2>2, <3>1 DEF Adders, Fresh, InUse
      <4>2. Decided(x)' = 0
        BY <1>1, <2>1, <2>3, <3>1, <4>1, FS_EmptySet DEF Decided
      <4> QED BY <1>3, <4>2, AddersFinite
    <3>2. CASE x # y
      BY <1>1, <2>1, <2>3, <2>4, <3>2, DecidedFrame DEF DecidedInv
    <3> QED BY <3>1, <3>2
  <2> QED BY <2>4 DEF DecidedInv
<1>5. CASE Check(w) /\ pc'[w] = "add"
  <2>1. /\ quantity' = quantity /\ ld' = ld /\ pc[w] = "check"
        /\ ld[w] \in Cells /\ quantity[ld[w]] < Quantity
    BY <1>1, <1>3, <1>5 DEF Check, TypeOK, Resting
  <2>2. /\ Adders(ld[w])' = Adders(ld[w]) \cup {w}
        /\ w \in Workers \ Adders(ld[w])
    BY <1>1, <1>5, <2>1 DEF Check, Adders
  <2>3. \A x : x # ld[w] => Adders(x)' = Adders(x)
    BY <1>1, <1>5, <2>1 DEF Check, Adders
  <2>4. ASSUME NEW x \in Cells
        PROVE  Decided(x)' <= Quantity + Cardinality(Workers) - 1
    <3>1. CASE x = ld[w]
      <4>1. Adders(x)' = Adders(x) \cup {w} /\ w \in Workers \ Adders(x)
        BY <2>1, <2>2, <3>1
      <4>2. Cardinality(Adders(x)') = Cardinality(Adders(x)) + 1
        BY <4>1, AddersFinite, FS_AddElement
      <4>3. Cardinality(Adders(x)') <= Cardinality(Workers)
        BY <4>1, <4>2, AddersFinite
      <4>4. Cardinality(Adders(x)') \in Nat
        BY <4>2, AddersFinite
      <4>5. quantity[x] \in Nat /\ quantity[x] < Quantity
        BY <1>1, <2>1, <3>1
      <4> QED BY <1>3, <2>1, <4>1, <4>3, <4>4, <4>5, AddersFinite DEF Decided
    <3>2. CASE x # ld[w]
      BY <2>1, <2>3, <2>4, <3>2, DecidedFrame DEF DecidedInv
    <3> QED BY <3>1, <3>2
  <2> QED BY <2>4 DEF DecidedInv
<1>6. CASE Add(w)
  <2>1. /\ quantity' = [quantity EXCEPT ![ld[w]] = @ + 1] /\ ld' = ld
        /\ pc[w] = "add" /\ pc'[w] = "admitted" /\ ld[w] \in Cells
    BY <1>1, <1>6 DEF Add, TypeOK, Resting
  <2>2. Adders(ld[w])' = Adders(ld[w]) \ {w} /\ w \in Adders(ld[w])
    BY <1>1, <1>6, <2>1 DEF Add, Adders
  <2>3. \A x : x # ld[w] => Adders(x)' = Adders(x)
    BY <1>1, <1>6, <2>1 DEF Add, Adders
  <2>4. ASSUME NEW x \in Cells
        PROVE  Decided(x)' <= Quantity + Cardinality(Workers) - 1
    <3>1. CASE x = ld[w]
      <4>1. Adders(x)' = Adders(x) \ {w} /\ w \in Adders(x)
        BY <2>1, <2>2, <3>1
      <4>2. Cardinality(Adders(x)') = Cardinality(Adders(x)) - 1
        <5>1. IsFiniteSet(Adders(x))
          BY AddersFinite
        <5> QED BY <4>1, <5>1, FS_RemoveElement
      <4>3. quantity'[x] = quantity[x] + 1 /\ quantity[x] \in Nat
        BY <1>1, <2>1, <3>1
      <4>4. Decided(x)' = Decided(x)
        BY <4>2, <4>3, AddersFinite DEF Decided
      <4> QED BY <4>4 DEF DecidedInv
    <3>2. CASE x # ld[w]
      BY <1>1, <2>1, <2>3, <2>4, <3>2, DecidedFrame DEF DecidedInv
    <3> QED BY <3>1, <3>2
  <2> QED BY <2>4 DEF DecidedInv
<1>7. CASE Load(w) \/ Store(w) \/ Clock(w) \/ (Check(w) /\ pc'[w] # "add")
  <2>1. quantity' = quantity
    BY <1>7 DEF Load, Store, Clock, Check
  <2>2. pc[w] # "add" /\ pc'[w] # "add"
    BY <1>1, <1>7 DEF Load, Store, Clock, Check, Resting
  <2>3. \A v \in Workers \ {w} : pc'[v] = pc[v] /\ ld'[v] = ld[v]
    BY <1>1, <1>2, <1>7 DEF Load, Store, Clock, Check
  <2>4. \A x : Adders(x)' = Adders(x)
    BY <2>2, <2>3 DEF Adders
  <2> QED BY <2>1, <2>4, DecidedFrame DEF DecidedInv
<1> QED
  BY <1>4, <1>5, <1>6, <1>7 DEF Inspect

(* However many goroutines race on a path, one counter admits at most      *)
(* Quantity plus one less than their number.                               *)
THEOREM OvershootIsBounded == Spec => []OvershootBounded
<1>1. Init => DecidedInv
  <2> SUFFICES ASSUME Init, NEW x \in Cells
               PROVE  Decided(x) <= Quantity + Cardinality(Workers) - 1
    BY DEF DecidedInv
  <2>1. Adders(x) = {}
    BY DEF Init, Adders
  <2>2. Decided(x) = 0
    BY <2>1, FS_EmptySet DEF Init, Decided
  <2> QED BY <2>2, AddersFinite, LimiterAssumption
<1>2. TypeOK /\ DecidedInv /\ [Next]_vars => DecidedInv'
  <2> SUFFICES ASSUME TypeOK, DecidedInv, [Next]_vars PROVE DecidedInv'
    OBVIOUS
  <2>1. CASE \E w \in Workers : Inspect(w)
    BY <2>1, DecidedStep
  <2>2. CASE Tick \/ UNCHANGED vars
    BY <2>2 DEF Tick, vars, DecidedInv, Decided, Adders
  <2> QED BY <2>1, <2>2 DEF Next
<1>3. TypeOK /\ DecidedInv => OvershootBounded
  <2> SUFFICES ASSUME TypeOK, DecidedInv, NEW x \in Cells
               PROVE  quantity[x] <= Quantity + Cardinality(Workers) - 1
    BY DEF OvershootBounded
  <2>1. quantity[x] \in Nat /\ Quantity \in Nat
    BY LimiterAssumption DEF TypeOK
  <2> QED BY <2>1, AddersFinite DEF DecidedInv, Decided
<1> QED
  BY <1>1, <1>2, <1>3, TypeCorrect, PTL DEF Spec

-----------------------------------------------------------------------------
(* The counters of a 0-second limiter are over as soon as they are made:   *)
(* past the clock a goroutine holds one of its own, and finds it empty.    *)
Own == {"resetStore", "check", "add"}
OwnCounters ==
  \A w \in Workers :
    /\ pc[w] # "refused"
    /\ pc[w] \in Own =>
         /\ ld[w] \in Cells /\ quantity[ld[w]] = 0
         /\ \A v \in Workers \ {w} : pc[v] \in Own => ld[v] # ld[w]

(* "0/n" is no limit for n of 1 and more: limiterInspect refuses nothing,  *)
(* however many requests there are. ("0/0", like every "s/0", refuses all  *)
(* of them: a counter never is below 0.)                                   *)
THEOREM ZeroSecondsNeverRefuses ==
  ASSUME Second = 0, Quantity > 0
  PROVE  Spec => [](\A w \in Workers : pc[w] # "refused")
<1>1. Init => OwnCounters
  BY DEF Init, OwnCounters, Own
<1>2. TypeOK /\ OwnCounters /\ [Next]_vars => OwnCounters'
  <2> SUFFICES ASSUME TypeOK, OwnCounters, [Next]_vars PROVE OwnCounters'
    OBVIOUS
  <2> USE LimiterAssumption
      DEF TypeOK, Points, Resting, OwnCounters, Own, Goto
  <2>1. CASE Tick \/ UNCHANGED vars
    BY <2>1 DEF Tick, vars
  <2>2. ASSUME NEW w \in Workers, Load(w) PROVE OwnCounters'
    BY <2>2 DEF Load
  <2>3. ASSUME NEW w \in Workers, Alloc(w) PROVE OwnCounters'
    <3>1. PICK y \in Fresh(w) :
            /\ ld' = [ld EXCEPT ![w] = y]
            /\ quantity' = [quantity EXCEPT ![y] = 0]
      BY <2>3 DEF Alloc
    <3>2. y \in Cells /\ \A v \in Workers \ {w} : ld[v] # y
      BY <3>1 DEF Fresh, InUse
    <3> QED BY <2>3, <3>1, <3>2 DEF Alloc
  <2>4. ASSUME NEW w \in Workers, Store(w) PROVE OwnCounters'
    BY <2>4 DEF Store
  <2>5. ASSUME NEW w \in Workers, Clock(w) PROVE OwnCounters'
    <3>1. pc[w] = "clock" /\ ld[w] \in Cells /\ age[ld[w]] >= Second
      BY <2>5 DEF Clock
    <3>2. pc' = [pc EXCEPT ![w] = "reset"]
      BY <2>5, <3>1 DEF Clock
    <3> QED BY <2>5, <3>2 DEF Clock
  <2>6. ASSUME NEW w \in Workers, Check(w) PROVE OwnCounters'
    <3>1. pc[w] = "check" /\ ~(quantity[ld[w]] >= Quantity)
      BY <2>6 DEF Check
    <3>2. pc' = [pc EXCEPT ![w] = "add"]
      BY <2>6, <3>1 DEF Check
    <3> QED BY <2>6, <3>1, <3>2 DEF Check
  <2>7. ASSUME NEW w \in Workers, Add(w) PROVE OwnCounters'
    BY <2>7 DEF Add
  <2> QED
    BY <2>1, <2>2, <2>3, <2>4, <2>5, <2>6, <2>7 DEF Next, Inspect
<1>3. OwnCounters => \A w \in Workers : pc[w] # "refused"
  BY DEF OwnCounters
<1> QED
  BY <1>1, <1>2, <1>3, TypeCorrect, PTL DEF Spec

-----------------------------------------------------------------------------
(* Who takes part does not change, so calls that come one at a time stay   *)
(* so.                                                                     *)
LEMMA PresentStays ==
  ASSUME TypeOK, [Next]_vars
  PROVE  /\ Present' = Present
         /\ Serial' <=> Serial
         /\ TheWorker' = TheWorker
<1> USE DEF TypeOK, Points, Resting, Goto
<1>1. \A w \in Workers : pc'[w] # "absent" <=> pc[w] # "absent"
  <2>1. ASSUME NEW w \in Workers, Inspect(w), NEW v \in Workers
        PROVE  pc'[v] # "absent" <=> pc[v] # "absent"
    BY <2>1 DEF Inspect, Load, Alloc, Store, Clock, Check, Add
  <2> QED BY <2>1 DEF Next, Tick, vars
<1>2. Present' = Present
  BY <1>1 DEF Present
<1> QED
  BY <1>2 DEF Serial, TheWorker

LEMMA OneWorker ==
  ASSUME Serial
  PROVE  Present = {TheWorker} /\ TheWorker \in Workers
<1>1. IsFiniteSet(Present)
  BY LimiterAssumption, FS_Subset DEF Present
<1>2. \E x : Present = {x}
  BY <1>1, FS_Singleton DEF Serial
<1> QED
  BY <1>2 DEF TheWorker, Present

LEMMA OnlyWorkerMoves ==
  ASSUME NEW w \in Workers, Present = {w}, NEW v \in Workers, Inspect(v)
  PROVE  v = w
BY DEF Present, Inspect, Resting, Load, Alloc, Store, Clock, Check, Add

(* The counter it holds is the one in the map, and it replaces only a      *)
(* counter whose window is over.                                           *)
HoldsEntry(w) ==
  /\ pc[w] \in {"init", "initStore"} => index = NoCell
  /\ pc[w] \in {"clock", "reset", "resetStore", "check", "add"}
       => index \in Cells
  /\ pc[w] \in {"clock", "reset", "check", "add"} => ld[w] = index
  /\ pc[w] \in {"initStore", "resetStore"}
       => ld[w] \in Cells /\ quantity[ld[w]] = 0
  /\ pc[w] \in {"reset", "resetStore"} => age[index] = Second
  /\ pc[w] = "add" => quantity[index] < Quantity
SerialInv == Serial => HoldsEntry(TheWorker)

LEMMA HoldsEntryStep ==
  ASSUME NEW w \in Workers, Present = {w}, TypeOK, TypeOK', HoldsEntry(w),
         [Next]_vars
  PROVE  HoldsEntry(w)'
<1> USE LimiterAssumption DEF TypeOK, Points, Resting, Goto, HoldsEntry
<1>1. CASE Tick
  BY <1>1 DEF Tick
<1>2. CASE Load(w)
  BY <1>2 DEF Load
<1>3. CASE Alloc(w)
  BY <1>3 DEF Alloc, Fresh, InUse
<1>4. CASE Store(w)
  <2>1. quantity[ld[w]] = 0 /\ ld[w] \in Cells
    BY <1>4 DEF Store
  <2> QED BY <1>4, <2>1 DEF Store
<1>5. CASE Clock(w)
  BY <1>5 DEF Clock
<1>6. CASE Check(w)
  BY <1>6 DEF Check
<1>7. CASE Add(w)
  BY <1>7 DEF Add
<1>8. CASE UNCHANGED vars
  BY <1>8 DEF vars
<1> QED
  BY <1>1, <1>2, <1>3, <1>4, <1>5, <1>6, <1>7, <1>8, OnlyWorkerMoves
     DEF Next, Inspect

LEMMA SerialInvariant == Spec => []SerialInv
<1>1. Init => SerialInv
  <2> SUFFICES ASSUME Init, Serial PROVE HoldsEntry(TheWorker)
    BY DEF SerialInv
  <2> QED BY OneWorker DEF Init, HoldsEntry
<1>2. TypeOK /\ TypeOK' /\ SerialInv /\ [Next]_vars => SerialInv'
  <2> SUFFICES ASSUME TypeOK, TypeOK', Serial, HoldsEntry(TheWorker),
                      [Next]_vars
               PROVE  SerialInv'
    BY PresentStays DEF SerialInv
  <2>1. PICK w \in Workers : w = TheWorker
    BY OneWorker
  <2>2. Present = {w} /\ HoldsEntry(w)
    BY <2>1, OneWorker
  <2>3. HoldsEntry(w)'
    BY <2>2, HoldsEntryStep
  <2>4. TheWorker' = w
    BY <2>1, PresentStays
  <2> QED BY <2>3, <2>4 DEF SerialInv, HoldsEntry
<1> QED
  BY <1>1, <1>2, TypeCorrect, PTL DEF Spec

(* Requests that come one at a time get exactly what FixedWindow promises: *)
(* the limiter's heap, its double initialisation and its late reads are    *)
(* invisible to them.                                                      *)
THEOREM SerialLimiterIsFixedWindow == Spec => ImplementsFixedWindow
<1>1. Init => Window!Init
  <2> SUFFICES ASSUME Init PROVE Window!Init
    OBVIOUS
  <2>1. Serial => pc[TheWorker] = "idle"
    BY OneWorker DEF Init, Present
  <2> QED BY <2>1 DEF Init, Window!Init, Resting
<1>2. TypeOK /\ TypeOK' /\ SerialInv /\ [Next]_vars
        => [Window!Next]_(Window!wvars)
  <2> SUFFICES ASSUME TypeOK, TypeOK', SerialInv, [Next]_vars
               PROVE  [Window!Next]_(Window!wvars)
    OBVIOUS
  <2>n. CASE ~Serial
    BY <2>n, PresentStays DEF Window!wvars
  <2> SUFFICES ASSUME Serial PROVE [Window!Next]_(Window!wvars)
    BY <2>n
  <2>r. PICK w \in Workers : w = TheWorker
    BY OneWorker
  <2>0. /\ w \in Workers /\ Second \in Nat /\ Quantity \in Nat
        /\ NoCell \notin Cells /\ Present = {w}
        /\ Serial' /\ TheWorker = w /\ TheWorker' = w
    BY <2>r, OneWorker, LimiterAssumption, PresentStays
  <2>w. HoldsEntry(w)
    BY <2>r DEF SerialInv
  <2> USE <2>0 DEF TypeOK, Points, Resting, Goto
  <2>1. CASE Tick
    <3>1. CASE index # NoCell /\ age[index] < Second
      <4>1. age'[index] = age[index] + 1 /\ index' = index
        BY <2>1, <3>1 DEF Tick
      <4>2. Window!Elapse
        BY <2>1, <3>1, <4>1 DEF Tick, Window!Elapse
      <4> QED BY <4>2 DEF Window!Next
    <3>2. CASE ~(index # NoCell /\ age[index] < Second)
      BY <2>1, <3>2 DEF Tick, Window!wvars
    <3> QED BY <3>1, <3>2
  <2>2. CASE Load(w)
    <3>1. Window!Ask
      BY <2>2 DEF Load, Window!Ask
    <3> QED BY <3>1 DEF Window!Next
  <2>3. CASE Alloc(w)
    BY <2>3, <2>w DEF Alloc, Fresh, InUse, Window!wvars, HoldsEntry
  <2>4. CASE Store(w)
    <3>1. /\ index' = ld[w] /\ ld[w] \in Cells /\ quantity'[ld[w]] = 0
          /\ age'[ld[w]] \in 0 .. Second
          /\ index = NoCell \/ age[index] = Second
          /\ pc[w] \notin Resting /\ pc'[w] \notin Resting
      BY <2>4, <2>w DEF Store, HoldsEntry
    <3>2. Window!Open
      BY <3>1 DEF Window!Open
    <3> QED BY <3>2 DEF Window!Next
  <2>5. CASE Clock(w)
    BY <2>5 DEF Clock, Window!wvars
  <2>6. CASE Check(w)
    <3>1. pc[w] = "check" /\ ld[w] = index /\ index \in Cells
      BY <2>6, <2>w DEF Check, HoldsEntry
    <3>2. CASE quantity[index] >= Quantity
      <4>1. Window!Refuse
        BY <2>6, <3>1, <3>2 DEF Check, Window!Refuse
      <4> QED BY <4>1 DEF Window!Next
    <3>3. CASE ~(quantity[index] >= Quantity)
      BY <2>6, <3>1, <3>3 DEF Check, Window!wvars
    <3> QED BY <3>2, <3>3
  <2>7. CASE Add(w)
    <3>1. /\ pc[w] = "add" /\ ld[w] = index /\ index \in Cells
          /\ quantity[index] < Quantity
      BY <2>7, <2>w DEF Add, HoldsEntry
    <3>2. Window!Admit
      BY <2>7, <3>1 DEF Add, Window!Admit
    <3> QED BY <3>2 DEF Window!Next
  <2>8. CASE UNCHANGED vars
    BY <2>8 DEF vars, Window!wvars
  <2> QED
    BY <2>1, <2>2, <2>3, <2>4, <2>5, <2>6, <2>7, <2>8, OnlyWorkerMoves
       DEF Next, Inspect
<1> QED
  BY <1>1, <1>2, TypeCorrect, SerialInvariant, PTL
     DEF Spec, ImplementsFixedWindow, Window!Spec
=============================================================================
