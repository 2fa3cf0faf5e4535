--------------------------- MODULE DispatchProofs ---------------------------
(***************************************************************************)
(* What holds of Dispatch for every number of requests, nodes and retries. *)
(***************************************************************************)
EXTENDS Dispatch, LeastElement, FiniteSetTheorems, TLAPS

-----------------------------------------------------------------------------
(* Sequences and node records, in the form the steps below use them.       *)
LEMMA SeqFacts ==
  ASSUME NEW S, NEW s \in Seq(S)
  PROVE  /\ Len(s) \in Nat /\ DOMAIN s = 1 .. Len(s)
         /\ \A i \in DOMAIN s : i \in Nat \ {0} /\ s[i] \in S
  OBVIOUS

LEMMA SeqUpdate ==
  ASSUME NEW S, NEW s \in Seq(S), NEW i \in DOMAIN s, NEW e \in S
  PROVE  LET new == [s EXCEPT ![i] = e]
         IN /\ new \in Seq(S)
            /\ Len(new) = Len(s) /\ DOMAIN new = DOMAIN s
            /\ new[i] = e
            /\ \A j \in DOMAIN s \ {i} : new[j] = s[j]
  OBVIOUS

LEMMA NodeUpdate ==
  ASSUME NEW n \in Node
  PROVE  /\ n.addr \in Addrs /\ n.waiting \in Int /\ n.finish \in Nat
         /\ \A d \in Int :
              LET m == [n EXCEPT !.waiting = @ + d]
              IN m \in Node /\ m.addr = n.addr /\ m.waiting = n.waiting + d
         /\ LET m == [n EXCEPT !.finish = @ + 1]
            IN m \in Node /\ m.addr = n.addr /\ m.waiting = n.waiting
  BY DEF Node

(* A counter of one entry changes; the list, its addresses and the other   *)
(* entries do not.                                                         *)
LEMMA WaitingUpdate ==
  ASSUME NEW ns \in Seq(Node), NEW i \in DOMAIN ns, NEW d \in Int
  PROVE  LET new == AddWaiting(ns, i, d)
         IN /\ new \in Seq(Node)
            /\ Len(new) = Len(ns) /\ DOMAIN new = DOMAIN ns
            /\ \A j \in DOMAIN ns : new[j].addr = ns[j].addr
            /\ new[i].waiting = ns[i].waiting + d
            /\ \A j \in DOMAIN ns \ {i} : new[j] = ns[j]
<1> DEFINE e == [ns[i] EXCEPT !.waiting = @ + d]
<1>1. ns[i] \in Node
  BY SeqFacts
<1>2. e \in Node /\ e.addr = ns[i].addr /\ e.waiting = ns[i].waiting + d
  BY <1>1, NodeUpdate
<1> HIDE DEF e
<1>3. AddWaiting(ns, i, d) = [ns EXCEPT ![i] = e]
  BY DEF e, AddWaiting
<1> DEFINE u == [ns EXCEPT ![i] = e]
<1>4. /\ u \in Seq(Node) /\ Len(u) = Len(ns) /\ DOMAIN u = DOMAIN ns
      /\ u[i] = e /\ \A j \in DOMAIN ns \ {i} : u[j] = ns[j]
  BY <1>2, SeqUpdate
<1> HIDE DEF u
<1>5. \A j \in DOMAIN ns : u[j].addr = ns[j].addr
  BY <1>2, <1>4
<1> QED
  BY <1>2, <1>3, <1>4, <1>5 DEF u

LEMMA FinishUpdate ==
  ASSUME NEW ns \in Seq(Node), NEW i \in DOMAIN ns
  PROVE  LET new == AddFinish(ns, i)
         IN /\ new \in Seq(Node)
            /\ Len(new) = Len(ns) /\ DOMAIN new = DOMAIN ns
            /\ \A j \in DOMAIN ns : /\ new[j].addr = ns[j].addr
                                    /\ new[j].waiting = ns[j].waiting
<1> DEFINE e == [ns[i] EXCEPT !.finish = @ + 1]
<1>1. ns[i] \in Node
  BY SeqFacts
<1>2. e \in Node /\ e.addr = ns[i].addr /\ e.waiting = ns[i].waiting
  BY <1>1, NodeUpdate
<1> HIDE DEF e
<1>3. AddFinish(ns, i) = [ns EXCEPT ![i] = e]
  BY DEF e, AddFinish
<1> QED
  BY <1>2, <1>3, SeqUpdate

-----------------------------------------------------------------------------
LEMMA ListTypes ==
  ASSUME TypeOK
  PROVE  /\ nodes \in Seq(Node) /\ Len(nodes) \in Nat
         /\ DOMAIN nodes = 1 .. Len(nodes)
         /\ \A i \in DOMAIN nodes : /\ i \in Nat \ {0}
                                    /\ nodes[i] \in Node
                                    /\ nodes[i].addr \in Addrs
<1>1. nodes \in Seq(Node)
  BY DEF TypeOK
<1> QED
  BY <1>1, SeqFacts, NodeUpdate

(* A step of a request keeps the types of the per-request variables and of *)
(* the list it counts in.                                                  *)
LEMMA StepType ==
  ASSUME TypeOK, NEW c \in Calls, Step(c)
  PROVE  TypeOK'
<1> USE DispatchAssumption DEF TypeOK, Goto, GotoIfInList, managerVars, gauges
<1>1. CASE Begin(c)
  <2>1. pc' \in [Calls -> Points]
    BY <1>1 DEF Begin, Points
  <2>2. req' \in [Calls -> RequestKinds]
    BY <1>1 DEF Begin
  <2>3. requestProcess' \in Int
    BY <1>1 DEF Begin
  <2> QED BY <1>1, <2>1, <2>2, <2>3 DEF Begin
<1>2. CASE Select(c)
  <2>1. pc' \in [Calls -> Points]
    BY <1>2, ZenonT(30) DEF Select, Points
  <2>2. idx' \in [Calls -> Nat]
    BY <1>2, ListTypes DEF Select, Selectable
  <2>3. UNCHANGED <<nodes, cap, managerVars, req, chosen, try, outcome, hit,
                    blamed, gauges>>
    BY <1>2 DEF Select
  <2> QED BY <2>1, <2>2, <2>3
<1>3. CASE Pick(c)
  <2>1. pc' \in [Calls -> Points]
    BY <1>3 DEF Pick, Points
  <2>2. chosen' \in [Calls -> Addrs \cup {NoAddr}]
    BY <1>3, ListTypes DEF Pick, InList
  <2> QED BY <1>3, <2>1, <2>2 DEF Pick
<1>4. CASE Gate(c)
  <2>1. pc' \in [Calls -> Points]
    BY <1>4 DEF Gate, Points
  <2>2. try' \in [Calls -> 0 .. Attempts]
    BY <1>4 DEF Gate
  <2> QED BY <1>4, <2>1, <2>2 DEF Gate
<1>5. CASE Acquire(c)
  <2>1. pc' \in [Calls -> Points]
    BY <1>5 DEF Acquire, Points
  <2>2. nodes' \in Seq(Node)
    BY <1>5, WaitingUpdate DEF Acquire, InList
  <2> QED BY <1>5, <2>1, <2>2 DEF Acquire
<1>6. CASE Address(c)
  BY <1>6 DEF Address, Points
<1>7. CASE Lookup(c)
  <2>1. pc' \in [Calls -> Points]
    BY <1>7 DEF Lookup, Points
  <2>2. hit' \in [Calls -> Addrs \cup {NoAddr}]
    BY <1>7, ListTypes DEF Lookup, Reachable, InList
  <2> QED BY <1>7, <2>1, <2>2 DEF Lookup
<1>8. CASE Request(c)
  <2>1. pc' \in [Calls -> Points]
    BY <1>8 DEF Request, Points
  <2>2. outcome' \in [Calls -> Outcomes]
    BY <1>8 DEF Request, OutcomesOf
  <2> QED BY <1>8, <2>1, <2>2 DEF Request
<1>9. CASE Release(c)
  <2>1. pc' \in [Calls -> Points]
    BY <1>9 DEF Release, Points
  <2>2. nodes' \in Seq(Node)
    BY <1>9, WaitingUpdate DEF Release, InList
  <2> QED BY <1>9, <2>1, <2>2 DEF Release
<1>10. CASE Charge(c)
  <2>1. pc' \in [Calls -> Points]
    BY <1>10 DEF Charge, Points
  <2>2. blamed' \in [Calls -> Addrs \cup {NoAddr}]
    BY <1>10, ListTypes DEF Charge, InList
  <2>3. try' \in [Calls -> 0 .. Attempts]
    BY <1>10 DEF Charge, GivesUp
  <2> QED BY <1>10, <2>1, <2>2, <2>3 DEF Charge
<1>11. CASE Finish(c)
  <2>1. pc' \in [Calls -> Points]
    BY <1>11 DEF Finish, Points
  <2>2. nodes' \in Seq(Node)
    BY <1>11, FinishUpdate DEF Finish, InList
  <2> QED BY <1>11, <2>1, <2>2 DEF Finish
<1>12. CASE Reply(c)
  BY <1>12 DEF Reply, Points
<1>13. CASE Count(c)
  BY <1>13 DEF Count, Points
<1> QED
  BY <1>1, <1>2, <1>3, <1>4, <1>5, <1>6, <1>7, <1>8, <1>9, <1>10, <1>11, <1>12,
     <1>13 DEF Step

(* Shifting the tail down and shortening the slice give node lists.        *)
LEMMA ManagerType ==
  ASSUME TypeOK, Manage \/ Receive
  PROVE  TypeOK'
<1> USE DispatchAssumption DEF TypeOK, managerVars, gauges, callVars
<1>1. \A a \in Addrs : Append(nodes, NewNode(a)) \in Seq(Node)
  BY DEF NewNode, Node
<1>2. ASSUME NEW a \in Addrs, AddInPlace(a)
      PROVE  TypeOK'
  BY <1>1, <1>2 DEF AddInPlace
<1>3. ASSUME NEW a \in Addrs, AddCopy(a)
      PROVE  TypeOK'
  BY <1>1, <1>3 DEF AddCopy
<1>4. ASSUME NEW a \in Addrs, DelBegin(a)
      PROVE  TypeOK'
  BY <1>4 DEF DelBegin
<1>5. CASE AddPublish
  <2>1. <<>> \in Seq(Node)
    OBVIOUS
  <2> QED BY <1>5, <2>1 DEF AddPublish
<1>6. CASE DelShift
  <2>1. PICK i \in DOMAIN nodes :
          /\ nodes' = [j \in DOMAIN nodes |->
                         IF j >= i /\ j < Len(nodes) THEN nodes[j + 1]
                                                     ELSE nodes[j]]
          /\ pos' = i
    BY <1>6 DEF DelShift
  <2>2. \A j \in DOMAIN nodes : nodes'[j] \in Node
    BY <2>1, ListTypes
  <2>3. nodes' \in [1 .. Len(nodes) -> Node] /\ Len(nodes) \in Nat
    BY <2>1, <2>2, ListTypes
  <2>4. \A n \in Nat : [1 .. n -> Node] \subseteq Seq(Node)
    OBVIOUS
  <2>5. nodes' \in Seq(Node)
    BY <2>3, <2>4
  <2> QED BY <1>6, <2>1, <2>5, ListTypes DEF DelShift
<1>7. CASE DelTruncate
  <2>1. SubSeq(nodes, 1, Len(nodes) - 1) \in Seq(Node)
    BY ListTypes
  <2> QED BY <1>7, <2>1 DEF DelTruncate
<1>8. CASE DelEnd
  BY <1>8 DEF DelEnd
<1> QED
  BY <1>2, <1>3, <1>4, <1>5, <1>6, <1>7, <1>8 DEF Manage, Receive

(* Every behaviour keeps the types, whatever the directory does.           *)
THEOREM TypeCorrect == Spec => []TypeOK
<1>1. Init => TypeOK
  <2> SUFFICES ASSUME Init PROVE TypeOK
    OBVIOUS
  <2>1. \A i \in 1 .. Len(Boot) : NewNode(Boot[i]) \in Node
    BY DispatchAssumption DEF NewNode, Node
  <2>2. nodes \in Seq(Node)
    BY <2>1, DispatchAssumption DEF Init
  <2> QED
    BY <2>2, DispatchAssumption
       DEF Init, TypeOK, Points, Outcomes, RequestKinds
<1>2. TypeOK /\ [Next]_vars => TypeOK'
  <2> SUFFICES ASSUME TypeOK, [Next]_vars PROVE TypeOK'
    OBVIOUS
  <2>1. CASE \E c \in Calls : Step(c)
    BY <2>1, StepType
  <2>2. CASE Receive \/ Manage
    BY <2>2, ManagerType
  <2>3. CASE Quiet \/ UNCHANGED vars
    BY <2>3 DEF Quiet, vars, managerVars, gauges, TypeOK
  <2> QED BY <2>1, <2>2, <2>3 DEF Next
<1> QED
  BY <1>1, <1>2, PTL DEF Spec
-----------------------------------------------------------------------------
(* While nodes only join, an index once in the list stays in it and keeps  *)
(* naming the same address, so what selectService chose is what every      *)
(* later lookup finds. Two lookups outside this argument panic: of an      *)
(* address without its ports, and the http attempt of a CallRpc.           *)
BadRequest == [from |-> "callrpc", type |-> "http"]
OnlyJoins ==
  "delNode" \notin Churn /\ BadRequest \notin Requests /\ Portless = {}

Extends(ns, ms) == /\ DOMAIN ns \subseteq DOMAIN ms
                   /\ \A i \in DOMAIN ns : ms[i].addr = ns[i].addr

Fixed == {"gate", "acquire", "address", "lookup", "request", "release",
          "charge", "finish"}

CallInv(c) ==
  /\ pc[c] # "panicked" /\ req[c] # BadRequest
  /\ pc[c] = "pick" \/ pc[c] \in Fixed => idx[c] \in DOMAIN nodes
  /\ pc[c] \in Fixed => chosen[c] = nodes[idx[c]].addr
  /\ pc[c] \in {"request", "release", "charge"} => hit[c] = chosen[c]
  /\ pc[c] \in {"idle", "select", "pick"} => hit[c] = NoAddr
  /\ hit[c] \in {NoAddr, chosen[c]}
  /\ blamed[c] \in {NoAddr, hit[c]}

JoinInv ==
  /\ TypeOK
  /\ mpc \in {"recv", "publish"}
  /\ mpc = "publish" => Extends(nodes, fresh)
  /\ \A c \in Calls : CallInv(c)

LEMMA ExtendsTransitive ==
  ASSUME NEW ns, NEW ms, NEW ls, Extends(ns, ms), Extends(ms, ls)
  PROVE  Extends(ns, ls)
BY DEF Extends

(* A growing list disturbs no request it does not belong to.               *)
LEMMA CallInvFrame ==
  ASSUME TypeOK, NEW c \in Calls, CallInv(c), Extends(nodes, nodes'),
         pc'[c] = pc[c], req'[c] = req[c], idx'[c] = idx[c],
         chosen'[c] = chosen[c], hit'[c] = hit[c], blamed'[c] = blamed[c]
  PROVE  CallInv(c)'
BY DEF CallInv, Extends

(* No step of a request lengthens, shortens or readdresses the list, and   *)
(* none touches another request's variables.                               *)
LEMMA StepFrame ==
  ASSUME TypeOK, NEW c \in Calls, Step(c)
  PROVE  /\ Extends(nodes, nodes') /\ Extends(nodes', nodes)
         /\ UNCHANGED <<cap, managerVars>>
         /\ \A d \in Calls \ {c} :
              /\ pc'[d] = pc[d] /\ req'[d] = req[d] /\ idx'[d] = idx[d]
              /\ chosen'[d] = chosen[d] /\ hit'[d] = hit[d]
              /\ blamed'[d] = blamed[d]
<1>1. Extends(nodes, nodes') /\ Extends(nodes', nodes)
  <2>1. CASE UNCHANGED nodes
    BY <2>1 DEF Extends
  <2>2. CASE InList(c) /\ \E d \in Int : nodes' = AddWaiting(nodes, idx[c], d)
    BY <2>2, ListTypes, WaitingUpdate DEF Extends, InList
  <2>3. CASE InList(c) /\ nodes' = AddFinish(nodes, idx[c])
    BY <2>3, ListTypes, FinishUpdate DEF Extends, InList
  <2>4. \/ UNCHANGED nodes
        \/ InList(c) /\ \E d \in Int : nodes' = AddWaiting(nodes, idx[c], d)
        \/ InList(c) /\ nodes' = AddFinish(nodes, idx[c])
    BY DEF Step, Begin, Select, Pick, Gate, Acquire, Address, Lookup, Request,
           Release, Charge, Finish, Reply, Count
  <2> QED BY <2>1, <2>2, <2>3, <2>4
<1>2. UNCHANGED <<cap, managerVars>>
  BY DEF Step, Begin, Select, Pick, Gate, Acquire, Address, Lookup, Request,
         Release, Charge, Finish, Reply, Count
<1>3. ASSUME NEW d \in Calls \ {c}
      PROVE  /\ pc'[d] = pc[d] /\ req'[d] = req[d] /\ idx'[d] = idx[d]
             /\ chosen'[d] = chosen[d] /\ hit'[d] = hit[d]
             /\ blamed'[d] = blamed[d]
  BY <1>3 DEF TypeOK, Goto, GotoIfInList, Step, Begin, Select, Pick, Gate,
     Acquire, Address, Lookup, Request, Release, Charge, Finish, Reply, Count, gauges
<1> QED
  BY <1>1, <1>2, <1>3

(* A request's own step keeps what it knows of its node.                   *)
LEMMA CallInvStep ==
  ASSUME OnlyJoins, TypeOK, TypeOK', NEW c \in Calls, CallInv(c), Step(c)
  PROVE  CallInv(c)'
<1>1. /\ pc \in [Calls -> Points] /\ req \in [Calls -> RequestKinds]
      /\ idx \in [Calls -> Nat] /\ chosen \in [Calls -> Addrs \cup {NoAddr}]
      /\ hit \in [Calls -> Addrs \cup {NoAddr}]
      /\ blamed \in [Calls -> Addrs \cup {NoAddr}]
  BY DEF TypeOK
<1>2. Extends(nodes, nodes')
  BY StepFrame
<1> USE <1>1, <1>2 DEF CallInv, Fixed, Goto, GotoIfInList, InList, gauges,
                       Extends
<1>3. CASE Begin(c)
  BY <1>3 DEF Begin, OnlyJoins
<1>4. CASE Select(c)
  BY <1>4 DEF Select, Selectable
<1>5. CASE Pick(c)
  BY <1>5 DEF Pick
<1>6. CASE Gate(c)
  BY <1>6 DEF Gate
<1>7. CASE Acquire(c)
  BY <1>7 DEF Acquire
<1>8. CASE Address(c)
  BY <1>8 DEF Address
<1>9. CASE Lookup(c)
  BY <1>9 DEF Lookup, Reachable, BadRequest, OnlyJoins
<1>10. CASE Request(c)
  BY <1>10 DEF Request
<1>11. CASE Release(c)
  BY <1>11 DEF Release
<1>12. CASE Charge(c)
  BY <1>12 DEF Charge
<1>13. CASE Finish(c)
  BY <1>13 DEF Finish
<1>14. CASE Reply(c)
  BY <1>14 DEF Reply
<1>15. CASE Count(c)
  BY <1>15 DEF Count
<1> QED
  BY <1>3, <1>4, <1>5, <1>6, <1>7, <1>8, <1>9, <1>10, <1>11, <1>12, <1>13, <1>14,
     <1>15 DEF Step

LEMMA JoinInvStep ==
  ASSUME OnlyJoins, JoinInv, TypeOK', NEW c \in Calls, Step(c)
  PROVE  JoinInv'
<1>1. mpc' \in {"recv", "publish"}
  BY StepFrame DEF JoinInv, managerVars
<1>2. mpc' = "publish" => Extends(nodes', fresh')
  <2>1. mpc = "publish" => Extends(nodes, fresh)
    BY DEF JoinInv
  <2>2. mpc' = mpc /\ fresh' = fresh /\ Extends(nodes', nodes)
    BY StepFrame DEF JoinInv, managerVars
  <2> QED BY <2>1, <2>2, ExtendsTransitive
<1>3. CallInv(c)'
  BY CallInvStep DEF JoinInv
<1>4. ASSUME NEW d \in Calls \ {c}
      PROVE  CallInv(d)'
  BY <1>4, StepFrame, CallInvFrame DEF JoinInv
<1> QED
  BY <1>1, <1>2, <1>3, <1>4 DEF JoinInv

LEMMA JoinInvManager ==
  ASSUME OnlyJoins, JoinInv, TypeOK', Manage \/ Receive
  PROVE  JoinInv'
<1>1. nodes \in Seq(Node) /\ fresh \in Seq(Node)
  BY DEF JoinInv, TypeOK
<1>2. \A a \in Addrs : Extends(nodes, Append(nodes, NewNode(a)))
  <2> TAKE a \in Addrs
  <2>1. NewNode(a) \in Node
    BY DEF NewNode, Node
  <2> DEFINE e == NewNode(a)
  <2> HIDE DEF e
  <2>2. \A i \in DOMAIN nodes : /\ i \in DOMAIN Append(nodes, e)
                                /\ Append(nodes, e)[i] = nodes[i]
    BY <1>1, <2>1 DEF e
  <2> QED BY <2>2 DEF Extends, e
<1>3. Extends(nodes, nodes)
  BY DEF Extends
<1>4. /\ Extends(nodes, nodes')
      /\ mpc' \in {"recv", "publish"}
      /\ mpc' = "publish" => Extends(nodes', fresh')
      /\ UNCHANGED <<pc, req, idx, chosen, hit, blamed>>
  <2>1. ASSUME NEW a \in Addrs, AddInPlace(a)
        PROVE  <1>4!:
    BY <1>2, <2>1 DEF AddInPlace, managerVars, callVars
  <2>2. ASSUME NEW a \in Addrs, AddCopy(a)
        PROVE  <1>4!:
    BY <1>2, <1>3, <2>2 DEF AddCopy, callVars
  <2>3. CASE AddPublish
    BY <2>3 DEF AddPublish, JoinInv, callVars
  <2> QED
    BY <2>1, <2>2, <2>3 DEF Manage, Receive, OnlyJoins, JoinInv, DelBegin,
       DelShift, DelTruncate, DelEnd
<1>5. ASSUME NEW c \in Calls
      PROVE  CallInv(c)'
  BY <1>4, <1>5, CallInvFrame DEF JoinInv
<1> QED
  BY <1>4, <1>5 DEF JoinInv

LEMMA JoinInvariant == OnlyJoins => (Spec => []JoinInv)
<1> SUFFICES ASSUME OnlyJoins PROVE Spec => []JoinInv
  OBVIOUS
<1>1. Init /\ TypeOK => JoinInv
  BY DEF Init, JoinInv, CallInv, Fixed, BadRequest
<1>2. TypeOK /\ TypeOK' /\ JoinInv /\ [Next]_vars => JoinInv'
  <2> SUFFICES ASSUME TypeOK, TypeOK', JoinInv, [Next]_vars PROVE JoinInv'
    OBVIOUS
  <2>1. CASE \E c \in Calls : Step(c)
    BY <2>1, JoinInvStep
  <2>2. CASE Receive \/ Manage
    BY <2>2, JoinInvManager
  <2>3. CASE Quiet \/ UNCHANGED vars
    BY <2>3 DEF Quiet, vars, managerVars, JoinInv, CallInv, Extends
  <2> QED BY <2>1, <2>2, <2>3 DEF Next
<1> QED
  BY <1>1, <1>2, TypeCorrect, PTL DEF Spec

(* While no node leaves, no address lacks its ports and no CallRpc names   *)
(* an http route, no request panics in selectService or retryGo, however   *)
(* many nodes join, reallocate the list or are listed twice.               *)
THEOREM NoPanicWhileNodesJoin == OnlyJoins => (Spec => []NoPanic)
<1>1. JoinInv => NoPanic
  BY DEF JoinInv, CallInv, NoPanic, Panicked
<1> QED
  BY <1>1, JoinInvariant, PTL

(* Under the same conditions the node contacted and the node charged are   *)
(* the one that was chosen and admitted.                                   *)
THEOREM ServedByChosenWhileNodesJoin == OnlyJoins => (Spec => []ServedByChosen)
<1>1. JoinInv => ServedByChosen
  BY DEF JoinInv, CallInv, ServedByChosen
<1> QED
  BY <1>1, JoinInvariant, PTL

-----------------------------------------------------------------------------
(* Until the list is moved to a larger array the waiting counts are exact. *)
(* The invariant is inductive together with JoinInv: that no request       *)
(* leaves retryGo by the error path that keeps its place, and none is      *)
(* already at an index that addNode is about to use, is what JoinInv       *)
(* contributes; a capacity that only grows never returns to BootCap.       *)
Exact == \A i \in DOMAIN nodes : nodes[i].waiting = Cardinality(HoldersOf(i))

UnmovedInv == /\ cap >= BootCap
              /\ cap = BootCap => Exact

LEMMA HoldersFinite ==
  ASSUME NEW i
  PROVE  IsFiniteSet(HoldersOf(i)) /\ Cardinality(HoldersOf(i)) \in Nat
BY DispatchAssumption, FS_Subset, FS_CardinalityType DEF HoldersOf

LEMMA ExactStep ==
  ASSUME OnlyJoins, JoinInv, JoinInv', Exact, NEW c \in Calls, Step(c)
  PROVE  Exact'
<1>1. TypeOK /\ TypeOK' /\ CallInv(c)
  BY DEF JoinInv
<1>2. /\ pc \in [Calls -> Points] /\ idx \in [Calls -> Nat]
      /\ nodes \in Seq(Node)
  BY <1>1 DEF TypeOK
<1>4. \A i \in DOMAIN nodes :
        nodes[i].waiting \in Int /\ nodes[i].waiting = Cardinality(HoldersOf(i))
  BY <1>1, ListTypes, NodeUpdate DEF Exact
<1>5. \A d \in Calls \ {c} : pc'[d] = pc[d] /\ idx'[d] = idx[d]
  BY <1>1, StepFrame
<1>6. CASE Acquire(c)
  <2>1. InList(c) /\ pc[c] = "acquire"
    BY <1>1, <1>6 DEF Acquire, CallInv, Fixed, InList
  <2>2. pc'[c] = "address" /\ idx'[c] = idx[c]
    BY <1>2, <1>6, <2>1 DEF Acquire, GotoIfInList, Goto
  <2>3. nodes' = AddWaiting(nodes, idx[c], 1)
    BY <1>6, <2>1 DEF Acquire
  <2>4. HoldersOf(idx[c])' = HoldersOf(idx[c]) \cup {c}
    BY <1>5, <2>2 DEF HoldersOf, Holding
  <2>5. c \notin HoldersOf(idx[c])
    BY <2>1 DEF HoldersOf, Holding
  <2>6. \A i : i # idx[c] => HoldersOf(i)' = HoldersOf(i)
    BY <1>5, <2>2 DEF HoldersOf, Holding
  <2>7. Cardinality(HoldersOf(idx[c])') = Cardinality(HoldersOf(idx[c])) + 1
    BY <2>4, <2>5, HoldersFinite, FS_AddElement
  <2>8. ASSUME NEW i \in DOMAIN nodes'
        PROVE  nodes'[i].waiting = Cardinality(HoldersOf(i)')
    <3>1. /\ i \in DOMAIN nodes
          /\ i = idx[c] => nodes'[i].waiting = nodes[i].waiting + (1)
          /\ i # idx[c] => nodes'[i] = nodes[i]
      BY <1>2, <2>1, <2>3, <2>8, WaitingUpdate, 1 \in Int DEF InList
    <3>2. CASE i = idx[c]
      BY <1>4, <2>2, <2>7, <3>1, <3>2, HoldersFinite
    <3>3. CASE i # idx[c]
      BY <1>4, <2>6, <3>1, <3>3
    <3> QED BY <3>2, <3>3
  <2> QED BY <2>8 DEF Exact
<1>7. CASE Release(c)
  <2>1. InList(c) /\ pc[c] = "release"
    BY <1>1, <1>7 DEF Release, CallInv, Fixed, InList
  <2>2. pc'[c] \in {"finish", "charge"} /\ idx'[c] = idx[c]
    BY <1>2, <1>7, <2>1 DEF Release, GotoIfInList, Goto
  <2>3. nodes' = AddWaiting(nodes, idx[c], -1)
    BY <1>7, <2>1 DEF Release
  <2>4. HoldersOf(idx[c])' = HoldersOf(idx[c]) \ {c}
    BY <1>5, <2>2 DEF HoldersOf, Holding
  <2>5. c \in HoldersOf(idx[c])
    BY <2>1 DEF HoldersOf, Holding
  <2>6. \A i : i # idx[c] => HoldersOf(i)' = HoldersOf(i)
    BY <1>5, <2>2 DEF HoldersOf, Holding
  <2>7. Cardinality(HoldersOf(idx[c])') = Cardinality(HoldersOf(idx[c])) - 1
    BY <2>4, <2>5, HoldersFinite, FS_RemoveElement
  <2>8. ASSUME NEW i \in DOMAIN nodes'
        PROVE  nodes'[i].waiting = Cardinality(HoldersOf(i)')
    <3>1. /\ i \in DOMAIN nodes
          /\ i = idx[c] => nodes'[i].waiting = nodes[i].waiting + (-1)
          /\ i # idx[c] => nodes'[i] = nodes[i]
      BY <1>2, <2>1, <2>3, <2>8, WaitingUpdate, -1 \in Int DEF InList
    <3>2. CASE i = idx[c]
      BY <1>4, <2>2, <2>7, <3>1, <3>2, HoldersFinite
    <3>3. CASE i # idx[c]
      BY <1>4, <2>6, <3>1, <3>3
    <3> QED BY <3>2, <3>3
  <2> QED BY <2>8 DEF Exact
<1>8. CASE ~Acquire(c) /\ ~Release(c)
  <2>1. pc'[c] \in Holding <=> pc[c] \in Holding
    <3>1. Lookup(c) => Reachable(c)
      BY <1>1 DEF Lookup, Reachable, CallInv, Fixed, InList, BadRequest, OnlyJoins
    <3> QED
      BY <1>1, <1>2, <1>8, <3>1
         DEF Step, Begin, Select, Pick, Gate, Address, Lookup, Request, Charge,
             Finish, Reply, Count, Goto, GotoIfInList, Holding, CallInv, Fixed,
             InList
  <2>2. pc[c] \in Holding => idx'[c] = idx[c]
    BY <1>8
       DEF Step, Begin, Select, Pick, Gate, Address, Lookup, Request, Charge, Finish,
           Reply, Count, Holding
  <2>3. \A i : HoldersOf(i)' = HoldersOf(i)
    BY <1>5, <2>1, <2>2 DEF HoldersOf
  <2>4. UNCHANGED nodes \/ (InList(c) /\ nodes' = AddFinish(nodes, idx[c]))
    BY <1>8
       DEF Step, Begin, Select, Pick, Gate, Address, Lookup, Request, Charge, Finish,
           Reply, Count
  <2>5. /\ DOMAIN nodes' = DOMAIN nodes
        /\ \A i \in DOMAIN nodes : nodes'[i].waiting = nodes[i].waiting
    BY <1>2, <2>4, FinishUpdate DEF InList
  <2> QED BY <1>4, <2>3, <2>5 DEF Exact
<1> QED
  BY <1>6, <1>7, <1>8

(* A node that joins in place has no request at it yet.                    *)
LEMMA ExactJoin ==
  ASSUME JoinInv, JoinInv', Exact, NEW a \in Addrs, AddInPlace(a)
  PROVE  Exact'
<1>1. nodes \in Seq(Node) /\ NewNode(a) \in Node
  BY DEF JoinInv, TypeOK, NewNode, Node
<1>2. nodes' = Append(nodes, NewNode(a)) /\ UNCHANGED <<pc, idx>>
  BY DEF AddInPlace, callVars
<1>3. NewNode(a).waiting = 0
  BY DEF NewNode
<1> DEFINE e == NewNode(a)
<1> HIDE DEF e
<1>4. /\ DOMAIN nodes' = 1 .. Len(nodes) + 1 /\ Len(nodes) \in Nat
      /\ DOMAIN nodes = 1 .. Len(nodes)
      /\ nodes'[Len(nodes) + 1] = e
      /\ \A i \in DOMAIN nodes : nodes'[i] = nodes[i]
  BY <1>1, <1>2 DEF e
<1>5. \A i : HoldersOf(i)' = HoldersOf(i)
  BY <1>2 DEF HoldersOf
<1>6. HoldersOf(Len(nodes) + 1) = {}
  <2>1. \A d \in Calls : pc[d] \in Holding => idx[d] \in DOMAIN nodes
    BY DEF JoinInv, CallInv, Fixed, Holding
  <2> QED BY <1>4, <2>1 DEF HoldersOf
<1>7. ASSUME NEW i \in DOMAIN nodes'
      PROVE  nodes'[i].waiting = Cardinality(HoldersOf(i)')
  <2>1. CASE i \in DOMAIN nodes
    BY <1>4, <1>5, <2>1 DEF Exact
  <2>2. CASE i = Len(nodes) + 1
    BY <1>3, <1>4, <1>5, <1>6, <2>2, FS_EmptySet DEF e
  <2> QED BY <1>4, <1>7, <2>1, <2>2
<1> QED
  BY <1>7 DEF Exact

(* Under the same conditions, and until the list is moved, a node's        *)
(* waiting count is the number of attempts under way at it, for every      *)
(* number of requests, nodes and retries.                                  *)
THEOREM WaitingIsInFlightUntilMoved == OnlyJoins => (Spec => []WaitingIsInFlight)
<1> SUFFICES ASSUME OnlyJoins PROVE Spec => []WaitingIsInFlight
  OBVIOUS
<1> USE DispatchAssumption
<1>1. Init => UnmovedInv
  <2> SUFFICES ASSUME Init PROVE UnmovedInv
    OBVIOUS
  <2>1. \A i : HoldersOf(i) = {}
    BY DEF Init, HoldersOf, Holding
  <2>2. \A i \in DOMAIN nodes : nodes[i].waiting = 0
    BY DEF Init, NewNode
  <2>3. Exact
    BY <2>1, <2>2, FS_EmptySet DEF Exact
  <2>4. cap >= BootCap
    BY DEF Init
  <2> QED BY <2>3, <2>4 DEF UnmovedInv
<1>2. JoinInv /\ JoinInv' /\ UnmovedInv /\ [Next]_vars => UnmovedInv'
  <2> SUFFICES ASSUME JoinInv, JoinInv', UnmovedInv, [Next]_vars
               PROVE  UnmovedInv'
    OBVIOUS
  <2>1. ASSUME NEW c \in Calls, Step(c) PROVE UnmovedInv'
    <3>1. cap' = cap
      BY <2>1, StepFrame DEF JoinInv
    <3>2. Exact => Exact'
      BY <2>1, ExactStep
    <3> QED BY <3>1, <3>2 DEF UnmovedInv
  <2>2. ASSUME NEW a \in Addrs, AddInPlace(a) PROVE UnmovedInv'
    <3>1. cap' = cap
      BY <2>2 DEF AddInPlace
    <3>2. Exact => Exact'
      BY <2>2, ExactJoin
    <3> QED BY <3>1, <3>2 DEF UnmovedInv
  <2>3. ASSUME NEW a \in Addrs, AddCopy(a) PROVE UnmovedInv'
    BY <2>3 DEF AddCopy, callVars, UnmovedInv, Exact, HoldersOf
  <2>4. CASE AddPublish
    <3>1. cap \in Nat /\ cap' = IF cap = 0 THEN 1 ELSE 2 * cap
      BY <2>4 DEF AddPublish, JoinInv, TypeOK
    <3>2. cap' > cap
      BY <3>1
    <3> QED BY <3>1, <3>2 DEF UnmovedInv
  <2>5. CASE Quiet \/ UNCHANGED vars
    BY <2>5 DEF Quiet, vars, UnmovedInv, Exact, HoldersOf
  <2> QED
    BY <2>1, <2>2, <2>3, <2>4, <2>5 DEF Next, Receive, Manage, OnlyJoins,
       JoinInv, DelBegin, DelShift, DelTruncate, DelEnd
<1>3. UnmovedInv => WaitingIsInFlight
  BY DEF UnmovedInv, Exact, WaitingIsInFlight
<1> QED
  BY <1>1, <1>2, <1>3, JoinInvariant, PTL DEF Spec

-----------------------------------------------------------------------------
(* The gauge of requests in processing, panics included.                   *)
InHandlerSet == {c \in Calls : pc[c] \in InHandler}

LEMMA CallSetsFinite ==
  /\ IsFiniteSet(InHandlerSet) /\ Cardinality(InHandlerSet) \in Nat
  /\ IsFiniteSet(Panicked) /\ Cardinality(Panicked) \in Nat
BY DispatchAssumption, FS_Subset, FS_CardinalityType
   DEF InHandlerSet, Panicked

LEMMA GaugeStep ==
  ASSUME TypeOK, GaugeCountsPanics, NEW c \in Calls, Step(c)
  PROVE  GaugeCountsPanics'
<1>1. pc \in [Calls -> Points] /\ requestProcess \in Int
  BY DEF TypeOK
<1>2. requestProcess = Cardinality(InHandlerSet) + Cardinality(Panicked)
  BY DEF GaugeCountsPanics, InHandlerSet
<1>3. \A d \in Calls \ {c} : pc'[d] = pc[d]
  BY StepFrame
<1>4. CASE Begin(c)
  <2>1. pc[c] = "idle" /\ pc'[c] \in {"select", "reply"}
    BY <1>1, <1>4 DEF Begin, Goto
  <2>2. /\ InHandlerSet' = InHandlerSet \cup {c}
        /\ c \notin InHandlerSet /\ Panicked' = Panicked
    BY <1>3, <2>1 DEF InHandlerSet, InHandler, Panicked, Points
  <2>3. Cardinality(InHandlerSet') = Cardinality(InHandlerSet) + 1
    BY <2>2, CallSetsFinite, FS_AddElement
  <2> QED BY <1>1, <1>2, <1>4, <2>2, <2>3, CallSetsFinite
          DEF Begin, GaugeCountsPanics, InHandlerSet
<1>5. CASE Reply(c)
  <2>1. pc[c] = "reply" /\ pc'[c] = "count"
    BY <1>1, <1>5 DEF Reply, Goto
  <2>2. /\ InHandlerSet' = InHandlerSet \ {c}
        /\ c \in InHandlerSet /\ Panicked' = Panicked
    BY <1>3, <2>1 DEF InHandlerSet, InHandler, Panicked, Points
  <2>3. Cardinality(InHandlerSet') = Cardinality(InHandlerSet) - 1
    BY <2>2, CallSetsFinite, FS_RemoveElement
  <2> QED BY <1>1, <1>2, <1>5, <2>2, <2>3, CallSetsFinite
          DEF Reply, GaugeCountsPanics, InHandlerSet
<1>6. CASE ~Begin(c) /\ ~Reply(c)
  <2>1. requestProcess' = requestProcess
    BY <1>6 DEF Step, Select, Pick, Gate, Acquire, Address, Lookup, Request, Release,
       Charge, Finish, Count, gauges
  <2>2. \/ pc[c] \in InHandler /\ pc'[c] \in InHandler
        \/ pc[c] \in InHandler /\ pc'[c] = "panicked"
        \/ pc[c] = "count" /\ pc'[c] = "done"
    BY <1>1, <1>6 DEF Step, Select, Pick, Gate, Acquire, Address, Lookup, Request,
       Release, Charge, Finish, Count, Goto, GotoIfInList, InHandler, Points
  <2>3. CASE pc[c] \in InHandler /\ pc'[c] = "panicked"
    <3>1. /\ InHandlerSet' = InHandlerSet \ {c} /\ c \in InHandlerSet
          /\ Panicked' = Panicked \cup {c} /\ c \notin Panicked
      BY <1>3, <2>3 DEF InHandlerSet, InHandler, Panicked, Points
    <3>2. Cardinality(InHandlerSet') = Cardinality(InHandlerSet) - 1
      BY <3>1, CallSetsFinite, FS_RemoveElement
    <3>3. Cardinality(Panicked') = Cardinality(Panicked) + 1
      BY <3>1, CallSetsFinite, FS_AddElement
    <3> QED BY <1>1, <1>2, <2>1, <3>2, <3>3, CallSetsFinite
            DEF GaugeCountsPanics, InHandlerSet
  <2>4. CASE ~(pc[c] \in InHandler /\ pc'[c] = "panicked")
    <3>1. InHandlerSet' = InHandlerSet /\ Panicked' = Panicked
      BY <1>3, <2>2, <2>4 DEF InHandlerSet, InHandler, Panicked, Points
    <3> QED BY <1>2, <2>1, <3>1 DEF GaugeCountsPanics, InHandlerSet
  <2> QED BY <2>3, <2>4
<1> QED
  BY <1>4, <1>5, <1>6

(* The gauge is the requests under way plus all that ever panicked, with   *)
(* any churn of the directory.                                             *)
THEOREM GaugeIsInFlightPlusPanics == Spec => []GaugeCountsPanics
<1>1. Init => GaugeCountsPanics
  <2> SUFFICES ASSUME Init PROVE GaugeCountsPanics
    OBVIOUS
  <2>1. InHandlerSet = {} /\ Panicked = {} /\ requestProcess = 0
    BY DEF Init, InHandlerSet, InHandler, Panicked, Points
  <2> QED BY <2>1, FS_EmptySet DEF GaugeCountsPanics, InHandlerSet
<1>2. TypeOK /\ GaugeCountsPanics /\ [Next]_vars => GaugeCountsPanics'
  <2> SUFFICES ASSUME TypeOK, GaugeCountsPanics, [Next]_vars
               PROVE  GaugeCountsPanics'
    OBVIOUS
  <2>1. CASE \E c \in Calls : Step(c)
    BY <2>1, GaugeStep
  <2>2. CASE UNCHANGED <<pc, requestProcess>>
    BY <2>2 DEF GaugeCountsPanics, Panicked
  <2>3. Receive \/ Manage \/ Quiet \/ UNCHANGED vars
          => UNCHANGED <<pc, requestProcess>>
    BY DEF Receive, Manage, AddInPlace, AddCopy, AddPublish, DelBegin,
       DelShift, DelTruncate, DelEnd, Quiet, vars, callVars, gauges
  <2> QED BY <2>1, <2>2, <2>3 DEF Next
<1> QED
  BY <1>1, <1>2, TypeCorrect, PTL DEF Spec
-----------------------------------------------------------------------------
(* A final outcome ends the call. retryGo leaves its loop at "ok" without  *)
(* charging anyone, so at a charge only a plain failure may go on.         *)
ChargeInv == \A c \in Calls : pc[c] = "charge" => outcome[c] # "ok"

LEMMA ManagerFrame ==
  ASSUME Receive \/ Manage
  PROVE  UNCHANGED callVars
BY DEF Receive, Manage, AddInPlace, AddCopy, AddPublish, DelBegin, DelShift,
   DelTruncate, DelEnd

(* A timeout and a 404 are never tried again, with any churn of the        *)
(* directory and any number of attempts.                                   *)
THEOREM FinalOutcomesAreFinal == Spec => NoRetryAfterFinalOutcome
<1>1. Init => ChargeInv
  BY DEF Init, ChargeInv
<1>2. TypeOK /\ ChargeInv /\ [Next]_vars => ChargeInv'
  <2> SUFFICES ASSUME TypeOK, ChargeInv, [Next]_vars PROVE ChargeInv'
    OBVIOUS
  <2>1. ASSUME NEW c \in Calls, Step(c) PROVE ChargeInv'
    <3>1. \A d \in Calls \ {c} : pc'[d] = pc[d] /\ outcome'[d] = outcome[d]
      BY <2>1 DEF TypeOK, Goto, GotoIfInList, Step, Begin, Select, Pick, Gate,
         Acquire, Address, Lookup, Request, Release, Charge, Finish, Reply, Count, gauges
    <3>2. pc'[c] = "charge" => Release(c) /\ outcome[c] # "ok" /\ outcome' = outcome
      BY <2>1 DEF TypeOK, Goto, GotoIfInList, Step, Begin, Select, Pick, Gate,
         Acquire, Address, Lookup, Request, Release, Charge, Finish, Reply, Count, RouteFound
    <3> QED BY <3>1, <3>2 DEF ChargeInv
  <2>2. CASE UNCHANGED <<pc, outcome>>
    BY <2>2 DEF ChargeInv
  <2>3. Receive \/ Manage \/ Quiet \/ UNCHANGED vars => UNCHANGED <<pc, outcome>>
    BY ManagerFrame DEF callVars, Quiet, vars
  <2> QED BY <2>1, <2>2, <2>3 DEF Next
<1>3. TypeOK /\ ChargeInv /\ [Next]_vars
        => [\A c \in Calls : pc'[c] = "acquire" /\ pc[c] # "acquire"
              => \/ pc[c] = "gate"
                 \/ outcome[c] = "fail"]_vars
  <2> SUFFICES ASSUME TypeOK, ChargeInv, [Next]_vars,
                      NEW c \in Calls, pc'[c] = "acquire", pc[c] # "acquire",
                      pc[c] # "gate"
               PROVE  outcome[c] = "fail"
    OBVIOUS
  <2>1. PICK d \in Calls : Step(d)
    BY ManagerFrame DEF Next, callVars, Quiet, vars
  <2>2. d = c
    BY <2>1, StepFrame
  <2>3. Charge(c) /\ ~GivesUp(c)
    BY <2>1, <2>2 DEF TypeOK, Goto, GotoIfInList, Step, Begin, Select, Pick, Gate,
       Acquire, Address, Lookup, Request, Release, Charge, Finish, Reply, Count
  <2> QED BY <2>3 DEF Charge, GivesUp, ChargeInv, TypeOK, Outcomes
<1> QED
  BY <1>1, <1>2, <1>3, TypeCorrect, PTL DEF Spec, NoRetryAfterFinalOutcome

-----------------------------------------------------------------------------
(* What the loop of delNode has passed does not have the address.          *)
PassedInv ==
  mpc \in {"delete", "truncate"} =>
    \A i \in DOMAIN nodes : i < pos => nodes[i].addr # target

LEMMA ShiftPasses ==
  ASSUME TypeOK, PassedInv, DelShift
  PROVE  PassedInv'
<1>1. PICK i \in DOMAIN nodes :
        /\ MatchAt(i) /\ pos' = i
        /\ nodes' = [j \in DOMAIN nodes |->
                       IF j >= i /\ j < Len(nodes) THEN nodes[j + 1] ELSE nodes[j]]
  BY DEF DelShift
<1>2. mpc = "delete" /\ target' = target
  BY DEF DelShift
<1>3. pos \in Nat /\ \A j \in DOMAIN nodes : j \in Nat
  BY ListTypes DEF TypeOK
<1>4. ASSUME NEW j \in DOMAIN nodes', j < pos' PROVE nodes'[j].addr # target'
  <2>1. j \in DOMAIN nodes /\ nodes'[j] = nodes[j] /\ j < i
    BY <1>1, <1>3, <1>4
  <2>2. CASE j < pos
    BY <1>2, <2>1, <2>2 DEF PassedInv
  <2>3. CASE j >= pos
    <3>1. j \in pos .. i - 1
      BY <1>3, <2>1, <2>3
    <3> QED BY <1>1, <1>2, <2>1, <3>1 DEF MatchAt
  <2> QED BY <1>3, <2>1, <2>2, <2>3
<1> QED BY <1>4 DEF PassedInv

LEMMA TruncatePasses ==
  ASSUME TypeOK, PassedInv, DelTruncate
  PROVE  PassedInv'
<1>1. nodes \in Seq(Node) /\ nodes' = SubSeq(nodes, 1, Len(nodes) - 1)
  BY DEF DelTruncate, TypeOK
<1>2. \A i \in DOMAIN nodes' : i \in DOMAIN nodes /\ nodes'[i] = nodes[i]
  BY <1>1
<1> QED BY <1>2 DEF DelTruncate, PassedInv

(* The loop ends only past the end of the list.                            *)
LEMMA NoMatchLeft ==
  ASSUME TypeOK, PassedInv, mpc = "delete", \A i \in DOMAIN nodes : ~MatchAt(i)
  PROVE  \A i \in DOMAIN nodes : nodes[i].addr # target
<1> DEFINE T == {i \in DOMAIN nodes : i >= pos /\ nodes[i].addr = target}
<1>1. pos \in Nat /\ \A j \in DOMAIN nodes : j \in Nat
  BY ListTypes DEF TypeOK
<1>2. DOMAIN nodes = 1 .. Len(nodes) /\ Len(nodes) \in Nat
  BY ListTypes
<1>3. T = {}
  <2> SUFFICES ASSUME T # {} PROVE FALSE
    OBVIOUS
  <2>1. T \in SUBSET Nat
    BY <1>1
  <2>2. PICK m \in T : \A k \in T : m <= k
    <3> HIDE DEF T
    <3> QED BY <2>1, LeastNat
  <2>3. ASSUME NEW j \in pos .. m - 1 PROVE nodes[j].addr # target
    <3>1. j \in Nat /\ j >= pos /\ ~(m <= j) /\ j <= m
      BY <1>1, <2>2
    <3>2. CASE j \in DOMAIN nodes
      BY <2>2, <3>1, <3>2
    <3>3. CASE j = 0
      BY <2>3, <3>3, <1>1 DEF TypeOK
    <3> QED BY <1>2, <2>2, <3>1, <3>2, <3>3
  <2>4. MatchAt(m)
    BY <2>2, <2>3 DEF MatchAt
  <2> QED BY <2>4
<1>4. \A i \in DOMAIN nodes : i < pos \/ i \notin T => nodes[i].addr # target
  BY <1>1 DEF PassedInv
<1> QED BY <1>3, <1>4

(* A delete removes every entry of its address, whatever the list held and *)
(* whatever the requests wrote to it between the steps of the loop.        *)
THEOREM DeletesAreComplete == Spec => DeleteRemovesAll
<1>1. Init => PassedInv
  BY DEF Init, PassedInv
<1>2. TypeOK /\ PassedInv /\ [Next]_vars => PassedInv'
  <2> SUFFICES ASSUME TypeOK, PassedInv, [Next]_vars PROVE PassedInv'
    OBVIOUS
  <2>1. ASSUME NEW c \in Calls, Step(c) PROVE PassedInv'
    <3>1. Extends(nodes, nodes') /\ Extends(nodes', nodes) /\ UNCHANGED managerVars
      BY <2>1, StepFrame
    <3>2. DOMAIN nodes' = DOMAIN nodes /\ \A i \in DOMAIN nodes : nodes'[i].addr = nodes[i].addr
      BY <3>1 DEF Extends
    <3> QED BY <3>1, <3>2 DEF PassedInv, managerVars
  <2>2. ASSUME NEW a \in Addrs, AddInPlace(a) \/ AddCopy(a) \/ DelBegin(a) PROVE PassedInv'
    <3>1. \A i \in DOMAIN nodes : ~(i < 1)
      BY ListTypes
    <3> QED BY <2>2, <3>1 DEF AddInPlace, AddCopy, DelBegin, PassedInv, managerVars
  <2>3. CASE AddPublish \/ DelEnd
    BY <2>3 DEF AddPublish, DelEnd, PassedInv
  <2>4. CASE DelShift
    BY <2>4, ShiftPasses
  <2>5. CASE DelTruncate
    BY <2>5, TruncatePasses
  <2>6. CASE Quiet \/ UNCHANGED vars
    BY <2>6 DEF Quiet, vars, managerVars, PassedInv
  <2> QED BY <2>1, <2>2, <2>3, <2>4, <2>5, <2>6 DEF Next, Receive, Manage
<1>3. TypeOK /\ PassedInv /\ [Next]_vars
        => [mpc = "delete" /\ mpc' = "recv"
              => \A i \in DOMAIN nodes' : nodes'[i].addr # target]_vars
  <2> SUFFICES ASSUME TypeOK, PassedInv, [Next]_vars, mpc = "delete", mpc' = "recv"
               PROVE  \A i \in DOMAIN nodes' : nodes'[i].addr # target
    OBVIOUS
  <2>1. DelEnd
    <3>1. \A c \in Calls : Step(c) => mpc' = mpc
      BY StepFrame DEF managerVars
    <3> QED BY <3>1 DEF Next, Receive, Manage, AddInPlace, AddCopy, AddPublish,
            DelBegin, DelShift, DelTruncate, Quiet, vars, managerVars
  <2>2. (\A i \in DOMAIN nodes : ~MatchAt(i)) /\ nodes' = nodes
    BY <2>1 DEF DelEnd
  <2> QED BY <2>2, NoMatchLeft
<1> QED
  BY <1>1, <1>2, <1>3, TypeCorrect, PTL DEF Spec, DeleteRemovesAll
-----------------------------------------------------------------------------
(* What is left of a request, in steps: six to an attempt, and those from *)
(* where it is to the next attempt or to its end.                          *)
StepsLeftAt(p) ==
  CASE p = "idle" -> 13    [] p = "select" -> 12  [] p = "pick" -> 11
    [] p = "gate" -> 10    [] p = "acquire" -> 9  [] p = "address" -> 8
    [] p = "lookup" -> 7   [] p = "request" -> 6  [] p = "release" -> 5  [] p = "charge" -> 4
    [] p = "finish" -> 3   [] p = "reply" -> 2    [] p = "count" -> 1
    [] p \in {"done", "panicked"} -> 0

StepsLeft(c) == 6 * (Attempts - try[c]) + StepsLeftAt(pc[c])

LEMMA StepsLeftType ==
  ASSUME TypeOK, NEW c \in Calls
  PROVE  StepsLeft(c) \in 0 .. 6 * Attempts + 13
<1>1. pc[c] \in Points /\ try[c] \in 0 .. Attempts /\ Attempts \in Nat
  BY DispatchAssumption DEF TypeOK
<1>2. StepsLeftAt(pc[c]) \in 0 .. 13
  BY <1>1 DEF StepsLeftAt, Points
<1> QED BY <1>1, <1>2 DEF StepsLeft

(* Until the gate no attempt was counted.                                  *)
UntriedInv ==
  \A c \in Calls : pc[c] \in {"idle", "select", "pick", "gate"} => try[c] = 0

LEMMA UntriedStep ==
  ASSUME TypeOK, UntriedInv, NEW c \in Calls, Step(c)
  PROVE  UntriedInv'
<1>1. pc \in [Calls -> Points] /\ try \in [Calls -> 0 .. Attempts]
  BY DEF TypeOK
<1>2. \A d \in Calls \ {c} : pc'[d] = pc[d] /\ try'[d] = try[d]
  BY <1>1 DEF Goto, GotoIfInList, Step, Begin, Select, Pick, Gate, Acquire, Address, Lookup,
     Request, Release, Charge, Finish, Reply, Count
<1>3. pc'[c] \in {"idle", "select", "pick", "gate"}
        => pc[c] \in {"idle", "select", "pick", "gate"} /\ try' = try
  BY <1>1 DEF Goto, GotoIfInList, Step, Begin, Select, Pick, Gate, Acquire, Address, Lookup,
     Request, Release, Charge, Finish, Reply, Count
<1> QED BY <1>2, <1>3 DEF UntriedInv

LEMMA StepsLeftFall ==
  ASSUME TypeOK, UntriedInv, NEW c \in Calls, Step(c)
  PROVE  /\ StepsLeft(c)' < StepsLeft(c)
         /\ \A d \in Calls \ {c} : StepsLeft(d)' = StepsLeft(d)
<1>1. /\ pc \in [Calls -> Points] /\ try \in [Calls -> 0 .. Attempts]
      /\ Attempts \in Nat \ {0}
  BY DispatchAssumption DEF TypeOK
<1>2. \A d \in Calls \ {c} : pc'[d] = pc[d] /\ try'[d] = try[d]
  BY <1>1 DEF Goto, GotoIfInList, Step, Begin, Select, Pick, Gate, Acquire, Address, Lookup,
     Request, Release, Charge, Finish, Reply, Count
<1>3. \A d \in Calls \ {c} : StepsLeft(d)' = StepsLeft(d)
  BY <1>2 DEF StepsLeft, StepsLeftAt
<1> DEFINE Falls == \/ /\ StepsLeftAt(pc'[c]) < StepsLeftAt(pc[c])
                       /\ try'[c] \in {try[c], 1} /\ try'[c] >= try[c]
                    \/ /\ pc[c] = "charge" /\ pc'[c] = "acquire"
                       /\ try'[c] = try[c] + 1
<1>4. Falls
  <2> USE <1>1 DEF Goto, GotoIfInList, StepsLeftAt, gauges
  <2>1. CASE Begin(c)
    BY <2>1 DEF Begin
  <2>2. CASE Select(c)
    BY <2>2 DEF Select
  <2>3. CASE Pick(c)
    BY <2>3 DEF Pick
  <2>4. CASE Gate(c)
    BY <2>4 DEF Gate, UntriedInv
  <2>5. CASE Acquire(c)
    BY <2>5 DEF Acquire
  <2>6. CASE Address(c)
    BY <2>6 DEF Address
  <2>7. CASE Lookup(c)
    BY <2>7 DEF Lookup
  <2>8. CASE Request(c)
    BY <2>8 DEF Request
  <2>9. CASE Release(c)
    BY <2>9 DEF Release
  <2>10. CASE Charge(c)
    BY <2>10 DEF Charge, GivesUp
  <2>11. CASE Finish(c)
    BY <2>11 DEF Finish
  <2>12. CASE Reply(c)
    BY <2>12 DEF Reply
  <2>13. CASE Count(c)
    BY <2>13 DEF Count
  <2> QED BY <2>1, <2>2, <2>3, <2>4, <2>5, <2>6, <2>7, <2>8, <2>9, <2>10, <2>11, <2>12,
             <2>13 DEF Step
<1>5. pc'[c] \in Points /\ try'[c] \in 0 .. Attempts
  BY StepType DEF TypeOK
<1>6. StepsLeftAt(pc[c]) \in Nat /\ StepsLeftAt(pc'[c]) \in Nat
  BY <1>1, <1>5 DEF StepsLeftAt, Points
<1>7. StepsLeft(c)' < StepsLeft(c)
  <2>1. StepsLeft(c)' = 6 * (Attempts - try'[c]) + StepsLeftAt(pc'[c])
    BY DEF StepsLeft, StepsLeftAt
  <2>2. CASE StepsLeftAt(pc'[c]) < StepsLeftAt(pc[c]) /\ try'[c] >= try[c]
    BY <1>1, <1>5, <1>6, <2>1, <2>2 DEF StepsLeft
  <2>3. CASE /\ pc[c] = "charge" /\ pc'[c] = "acquire" /\ try'[c] = try[c] + 1
    <3>1. StepsLeftAt(pc[c]) = 4 /\ StepsLeftAt(pc'[c]) = 9
      BY <2>3 DEF StepsLeftAt
    <3> QED BY <1>1, <2>1, <2>3, <3>1 DEF StepsLeft
  <2> QED BY <1>4, <2>2, <2>3
<1> QED BY <1>3, <1>7

(* A request ends after 6 * Attempts + 13 steps of its own at most: each   *)
(* brings its end nearer, and nothing that the other requests or the       *)
(* directory do takes it back. What RequestsEnd adds is that it goes on.   *)
THEOREM RequestsTakeBoundedSteps ==
  Spec => [][\A c \in Calls :
               /\ StepsLeft(c) \in 0 .. 6 * Attempts + 13
               /\ pc'[c] # pc[c] => StepsLeft(c)' < StepsLeft(c)
               /\ pc'[c] = pc[c] => StepsLeft(c)' = StepsLeft(c)]_vars
<1>1. Init => UntriedInv
  BY DEF Init, UntriedInv
<1>2. TypeOK /\ UntriedInv /\ [Next]_vars => UntriedInv'
  <2>1. Receive \/ Manage \/ Quiet \/ UNCHANGED vars => UNCHANGED <<pc, try>>
    BY ManagerFrame DEF callVars, Quiet, vars
  <2>2. UntriedInv /\ UNCHANGED <<pc, try>> => UntriedInv'
    BY DEF UntriedInv
  <2> QED BY <2>1, <2>2, UntriedStep DEF Next
<1>3. TypeOK /\ UntriedInv /\ [Next]_vars
        => [\A c \in Calls :
               /\ StepsLeft(c) \in 0 .. 6 * Attempts + 13
               /\ pc'[c] # pc[c] => StepsLeft(c)' < StepsLeft(c)
               /\ pc'[c] = pc[c] => StepsLeft(c)' = StepsLeft(c)]_vars
  <2> SUFFICES ASSUME TypeOK, UntriedInv, [Next]_vars, NEW c \in Calls
               PROVE  /\ StepsLeft(c) \in 0 .. 6 * Attempts + 13
                      /\ pc'[c] # pc[c] => StepsLeft(c)' < StepsLeft(c)
                      /\ pc'[c] = pc[c] => StepsLeft(c)' = StepsLeft(c)
    OBVIOUS
  <2>1. StepsLeft(c) \in 0 .. 6 * Attempts + 13
    BY StepsLeftType
  <2>2. CASE Step(c)
    <3>1. pc'[c] # pc[c]
      BY <2>2 DEF TypeOK, Goto, GotoIfInList, Step, Begin, Select, Pick, Gate, Acquire,
         Address, Lookup, Request, Release, Charge, Finish, Reply, Count
    <3> QED BY <2>1, <2>2, <3>1, StepsLeftFall
  <2>3. ASSUME NEW d \in Calls \ {c}, Step(d) PROVE pc'[c] = pc[c] /\ StepsLeft(c)' = StepsLeft(c)
    BY <2>3, StepsLeftFall, StepFrame
  <2>4. CASE UNCHANGED <<pc, try>>
    <3>1. StepsLeft(c)' = 6 * (Attempts - try'[c]) + StepsLeftAt(pc'[c])
      BY DEF StepsLeft, StepsLeftAt
    <3> QED BY <2>1, <2>4, <3>1 DEF StepsLeft
  <2>5. Receive \/ Manage \/ Quiet \/ UNCHANGED vars => UNCHANGED <<pc, try>>
    BY ManagerFrame DEF callVars, Quiet, vars
  <2> QED BY <2>1, <2>2, <2>3, <2>4, <2>5 DEF Next
<1> QED
  BY <1>1, <1>2, <1>3, TypeCorrect, PTL DEF Spec

-----------------------------------------------------------------------------
(* The scan of selectService comes to an index for every list that is not  *)
(* empty, by induction on how far it has got.                              *)
LEMMA ScanFindsLeast ==
  ASSUME NEW ns \in Seq(Node), ns # <<>>
  PROVE  \E i \in DOMAIN ns : FirstLeast(ns, i)
<1> DEFINE Best(n, i) == \A j \in 1 .. n : /\ ns[i].waiting <= ns[j].waiting
                                           /\ j < i => ns[i].waiting < ns[j].waiting
           S == {n \in Nat : n \in 1 .. Len(ns) => \E i \in 1 .. n : Best(n, i)}
<1>1. /\ Len(ns) \in Nat \ {0} /\ DOMAIN ns = 1 .. Len(ns)
      /\ \A j \in 1 .. Len(ns) : ns[j].waiting \in Int
  <2>1. Len(ns) \in Nat \ {0} /\ DOMAIN ns = 1 .. Len(ns)
    OBVIOUS
  <2>2. \A j \in 1 .. Len(ns) : ns[j] \in Node
    OBVIOUS
  <2> QED BY <2>1, <2>2 DEF Node
<1>2. 0 \in S
  OBVIOUS
<1>3. ASSUME NEW n \in Nat, n \in S PROVE n + 1 \in S
  <2> SUFFICES ASSUME n + 1 \in 1 .. Len(ns) PROVE \E i \in 1 .. n + 1 : Best(n + 1, i)
    OBVIOUS
  <2>1. CASE n = 0
    <3>1. 1 .. n + 1 = {1}
      BY <2>1
    <3> QED BY <1>1, <3>1
  <2>2. CASE n # 0
    <3>1. PICK i \in 1 .. n : Best(n, i)
      BY <1>1, <1>3, <2>2
    <3> DEFINE wt(j) == ns[j].waiting
    <3>2. \A j \in 1 .. n + 1 : wt(j) \in Int /\ (j \in 1 .. n \/ j = n + 1)
      BY <1>1
    <3>3. \A j \in 1 .. n : wt(i) <= wt(j) /\ (j < i => wt(i) < wt(j))
      BY <3>1
    <3>4. SUFFICES \E k \in 1 .. n + 1 : \A j \in 1 .. n + 1 :
                     wt(k) <= wt(j) /\ (j < k => wt(k) < wt(j))
      OBVIOUS
    <3> HIDE DEF wt
    <3>5. CASE wt(n + 1) < wt(i)
      <4>1. \A j \in 1 .. n : wt(n + 1) < wt(j)
        BY <3>2, <3>3, <3>5
      <4>2. \A j \in 1 .. n + 1 : wt(n + 1) <= wt(j) /\ (j < n + 1 => wt(n + 1) < wt(j))
        BY <3>2, <4>1
      <4>3. n + 1 \in 1 .. n + 1
        OBVIOUS
      <4> QED BY <4>2, <4>3
    <3>6. CASE ~(wt(n + 1) < wt(i))
      <4>1. i \in 1 .. n + 1 /\ ~(n + 1 < i) /\ wt(i) <= wt(n + 1)
        BY <3>2, <3>6
      <4>2. \A j \in 1 .. n + 1 : wt(i) <= wt(j) /\ (j < i => wt(i) < wt(j))
        BY <3>2, <3>3, <4>1
      <4> QED BY <4>1, <4>2
    <3> QED BY <3>5, <3>6
  <2> QED BY <2>1, <2>2
<1>4. Len(ns) \in S
  <2> HIDE DEF S
  <2> QED BY <1>1, <1>2, <1>3, SetInduction
<1>5. \E i \in 1 .. Len(ns) : Best(Len(ns), i)
  BY <1>1, <1>4
<1> QED BY <1>1, <1>5 DEF FirstLeast

(* A request that selects from a list with a node gets an index into it,   *)
(* whatever the waiting counts are, negative ones included; with           *)
(* RequestsTakeBoundedSteps, no request is stuck before its end.           *)
THEOREM SelectionSucceeds ==
  Spec => []( nodes # <<>> => /\ Selectable(nodes) # {}
                              /\ Selectable(nodes) \subseteq DOMAIN nodes )
<1>1. TypeOK => ( nodes # <<>> => /\ Selectable(nodes) # {}
                                  /\ Selectable(nodes) \subseteq DOMAIN nodes )
  BY ScanFindsLeast DEF TypeOK, Selectable
<1> QED
  BY <1>1, TypeCorrect, PTL
=============================================================================
