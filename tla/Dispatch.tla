------------------------------ MODULE Dispatch ------------------------------
(***************************************************************************)
(* One process of go-rainbow dispatching calls to the nodes of one remote  *)
(* service.  Every request is a goroutine that runs openTracingMiddleware, *)
(* gateway (or a handler that uses CallRpc), callService, selectService    *)
(* and retryGo; one more goroutine, serviceManageWatch, edits the node     *)
(* list those requests index into.  There is no lock: a step below is what *)
(* one goroutine does between two points where another can interfere.      *)
(*                                                                         *)
(* The limiter and the breaker have modules of their own (Limiter,         *)
(* Fusing); here Gate is their verdict and Charge the call that tells the  *)
(* breaker which node failed.  Node indices are 1-based.                   *)
(***************************************************************************)
EXTENDS Integers, Sequences, FiniteSets

CONSTANTS
  Calls,      \* the requests, one goroutine each
  Addrs,      \* node addresses
  Portless,   \* those of foreign keys, which lack the ports
  NoAddr,     \* "no address yet"
  Boot,       \* the addresses listed when the process started
  BootCap,    \* capacity of the slice that holds them
  Churn,      \* which of addNode and delNode reach the manager meanwhile
  Requests,   \* the kinds of request clients make
  Attempts,   \* length of the retry slice (retryAnalyze appends a last 0)
  MaxNodes    \* bound: addNode is not sent to a list this long

(* Who makes the call, and the type its route has in routes.yml.           *)
RequestKinds == [from : {"gateway", "callrpc"}, type : {"http", "rpc", "none"}]

ASSUME DispatchAssumption ==
  /\ IsFiniteSet(Calls)
  /\ NoAddr \notin Addrs /\ Portless \subseteq Addrs
  /\ Boot \in Seq(Addrs)
  /\ BootCap \in Nat /\ BootCap >= Len(Boot)
  /\ Churn \subseteq {"addNode", "delNode"}
  /\ Requests \subseteq RequestKinds
  /\ Attempts \in Nat \ {0}
  /\ MaxNodes \in Nat

VARIABLES
  nodes,           \* r.services[name].Nodes
  cap,             \* capacity of that slice
  mpc,             \* where serviceManageWatch is
  target,          \* the address of the operation it is working on
  pos,             \* the loop index of its delNode case
  fresh,           \* the grown copy that append has not published yet
  pc, req,         \* per request: where it is, what it is
  idx, chosen,     \* nodeIndex and serviceAddr of callService
  try, outcome,    \* attempt number and result of the last attempt
  hit, blamed,     \* address last contacted, address last charged
  requestProcess,  \* the two gauges of /metrics
  requestFinish

managerVars == <<mpc, target, pos, fresh>>
gauges == <<requestProcess, requestFinish>>
vars == <<nodes, cap, managerVars, pc, req, idx, chosen, try, outcome,
          hit, blamed, gauges>>

Node == [addr : Addrs, waiting : Int, finish : Nat]
NewNode(a) == [addr |-> a, waiting |-> 0, finish |-> 0]

Outcomes == {"ok", "fail", "timeout", "notFound"}
Points == {"idle", "select", "pick", "gate", "acquire", "address", "lookup",
           "request", "release", "charge", "finish", "reply", "count", "done",
           "panicked"}

-----------------------------------------------------------------------------
(* selectService.  With one node there is nothing to choose; otherwise the *)
(* first node of least waiting, except that a least waiting of zero picks  *)
(* any node of the list.                                                   *)
IdleSeen(ns) ==
  /\ Len(ns) > 1
  /\ \E i \in DOMAIN ns : ns[i].waiting = 0
  /\ \A i \in DOMAIN ns : ns[i].waiting >= 0

FirstLeast(ns, i) ==
  \A j \in DOMAIN ns : /\ ns[i].waiting <= ns[j].waiting
                       /\ j < i => ns[i].waiting < ns[j].waiting

(* Slip: the random index may be one past the end.                         *)
SelectableOffByOne(ns) ==
  {i \in 1 .. Len(ns) + 1 :
     IdleSeen(ns) \/ (i \in DOMAIN ns /\ FirstLeast(ns, i))}

Selectable(ns) == {i \in DOMAIN ns : IdleSeen(ns) \/ FirstLeast(ns, i)}

(* callService's test of the route: a gateway call has no rpc arguments.   *)
RouteFound(q) == q.type = "http" \/ (q.type = "rpc" /\ q.from = "callrpc")

(* What one attempt can end with; an rpc error never carries a 404.        *)
OutcomesOf(q) == IF q.type = "http" THEN Outcomes ELSE Outcomes \ {"notFound"}

-----------------------------------------------------------------------------
(* Every r.services[service].Nodes[nodeIndex] is bounds-checked by Go; a   *)
(* failed check panics, and net/http ends the request's goroutine there.   *)
InList(c) == idx[c] \in DOMAIN nodes
AddWaiting(ns, i, d) == [ns EXCEPT ![i].waiting = @ + d]
AddFinish(ns, i) == [ns EXCEPT ![i].finish = @ + 1]
Goto(c, p) == pc' = [pc EXCEPT ![c] = p]
GotoIfInList(c, p) == Goto(c, IF InList(c) THEN p ELSE "panicked")

(* openTracingMiddleware, then the route checks of callService.            *)
Begin(c) ==
  /\ pc[c] = "idle"
  /\ requestProcess' = requestProcess + 1
  /\ \E q \in Requests :
       /\ req' = [req EXCEPT ![c] = q]
       /\ Goto(c, IF RouteFound(q) THEN "select" ELSE "reply")
  /\ UNCHANGED <<nodes, cap, managerVars, idx, chosen, try, outcome, hit,
                 blamed, requestFinish>>

(* The scan of selectService: an empty list is "service node not found".   *)
Select(c) ==
  /\ pc[c] = "select"
  /\ \/ /\ nodes = <<>>
        /\ Goto(c, "reply")
        /\ UNCHANGED idx
     \/ \E i \in Selectable(nodes) :
          /\ idx' = [idx EXCEPT ![c] = i]
          /\ Goto(c, "pick")
  /\ UNCHANGED <<nodes, cap, managerVars, req, chosen, try, outcome, hit,
                 blamed, gauges>>

(* selectService's return reads Nodes[nodeIndex].Addr a second time.       *)
Pick(c) ==
  /\ pc[c] = "pick"
  /\ GotoIfInList(c, "gate")
  /\ chosen' = IF InList(c) THEN [chosen EXCEPT ![c] = nodes[idx[c]].addr]
                            ELSE chosen
  /\ UNCHANGED <<nodes, cap, managerVars, req, idx, try, outcome, hit, blamed,
                 gauges>>

(* Limiter and breaker: either refuses the call or lets it through.        *)
Gate(c) ==
  /\ pc[c] = "gate"
  /\ \E p \in {"acquire", "reply"} : Goto(c, p)
  /\ try' = [try EXCEPT ![c] = 1]
  /\ UNCHANGED <<nodes, cap, managerVars, req, idx, chosen, outcome, hit,
                 blamed, gauges>>

(* retryGo: one attempt takes a place in the node's waiting count, reads   *)
(* the address again, calls, and gives the place back.                     *)
Acquire(c) ==
  /\ pc[c] = "acquire"
  /\ GotoIfInList(c, "address")
  /\ nodes' = IF InList(c) THEN AddWaiting(nodes, idx[c], 1)
                           ELSE nodes
  /\ UNCHANGED <<cap, managerVars, req, idx, chosen, try, outcome, hit, blamed,
                 gauges>>

(* getServiceHttpAddr / getServiceRpcAddr: an index past the end is an     *)
(* error that breaks out of the loop with the waiting count still raised.  *)
Address(c) ==
  /\ pc[c] = "address"
  /\ Goto(c, IF InList(c) THEN "lookup" ELSE "finish")
  /\ UNCHANGED <<nodes, cap, managerVars, req, idx, chosen, try, outcome, hit,
                 blamed, gauges>>

(* They index the list again, and the parts of the address. CallRpc passes *)
(* no request: its http attempt dereferences nil.                          *)
Reachable(c) ==
  /\ InList(c) /\ nodes[idx[c]].addr \notin Portless
  /\ req[c] # [from |-> "callrpc", type |-> "http"]

Lookup(c) ==
  /\ pc[c] = "lookup"
  /\ Goto(c, IF Reachable(c) THEN "request" ELSE "panicked")
  /\ hit' = IF Reachable(c) THEN [hit EXCEPT ![c] = nodes[idx[c]].addr] ELSE hit
  /\ UNCHANGED <<nodes, cap, managerVars, req, idx, chosen, try, outcome,
                 blamed, gauges>>

(* requestServiceHttp / rpcCall, bounded by the route's timeout.           *)
Request(c) ==
  /\ pc[c] = "request"
  /\ \E o \in OutcomesOf(req[c]) : outcome' = [outcome EXCEPT ![c] = o]
  /\ Goto(c, "release")
  /\ UNCHANGED <<nodes, cap, managerVars, req, idx, chosen, try, hit, blamed,
                 gauges>>

(* Slip: only a successful attempt gives its place back.                   *)
ReleaseIfOk(c) ==
  /\ pc[c] = "release"
  /\ GotoIfInList(c, IF outcome[c] = "ok" THEN "finish" ELSE "charge")
  /\ nodes' = IF InList(c) /\ outcome[c] = "ok"
              THEN AddWaiting(nodes, idx[c], -1) ELSE nodes
  /\ UNCHANGED <<cap, managerVars, req, idx, chosen, try, outcome, hit, blamed,
                 gauges>>

Release(c) ==
  /\ pc[c] = "release"
  /\ GotoIfInList(c, IF outcome[c] = "ok" THEN "finish" ELSE "charge")
  /\ nodes' = IF InList(c) THEN AddWaiting(nodes, idx[c], -1)
                           ELSE nodes
  /\ UNCHANGED <<cap, managerVars, req, idx, chosen, try, outcome, hit, blamed,
                 gauges>>

(* A failed attempt is charged to the node now at nodeIndex.  A timeout, a *)
(* 404 and the last attempt end the call; anything else tries again.       *)
(* Slips: a timeout is tried again; the last attempt is not noticed.       *)
GivesUpOn404(c) == outcome[c] = "notFound" \/ try[c] = Attempts
GivesUpLate(c) == outcome[c] \in {"timeout", "notFound"} \/ try[c] > Attempts

GivesUp(c) == outcome[c] \in {"timeout", "notFound"} \/ try[c] = Attempts

(* Slip: the attempt counter stands still.                                 *)
ChargeForever(c) ==
  /\ pc[c] = "charge"
  /\ GotoIfInList(c, IF GivesUp(c) THEN "reply" ELSE "acquire")
  /\ blamed' = IF InList(c) THEN [blamed EXCEPT ![c] = nodes[idx[c]].addr]
                            ELSE blamed
  /\ UNCHANGED <<nodes, cap, managerVars, req, idx, chosen, try, outcome, hit,
                 gauges>>

Charge(c) ==
  /\ pc[c] = "charge"
  /\ GotoIfInList(c, IF GivesUp(c) THEN "reply" ELSE "acquire")
  /\ blamed' = IF InList(c) THEN [blamed EXCEPT ![c] = nodes[idx[c]].addr]
                            ELSE blamed
  /\ try' = IF InList(c) /\ ~GivesUp(c) THEN [try EXCEPT ![c] = @ + 1] ELSE try
  /\ UNCHANGED <<nodes, cap, managerVars, req, idx, chosen, outcome, hit,
                 gauges>>

Finish(c) ==
  /\ pc[c] = "finish"
  /\ GotoIfInList(c, "reply")
  /\ nodes' = IF InList(c) THEN AddFinish(nodes, idx[c])
                           ELSE nodes
  /\ UNCHANGED <<cap, managerVars, req, idx, chosen, try, outcome, hit, blamed,
                 gauges>>

(* The tail of openTracingMiddleware: not deferred, so a panic skips it.   *)
(* Slip: a refused or unrouted request leaves before the decrement.        *)
ReplyRoutedOnly(c) ==
  /\ pc[c] = "reply"
  /\ requestProcess' = IF RouteFound(req[c]) THEN requestProcess - 1
                                            ELSE requestProcess
  /\ Goto(c, "count")
  /\ UNCHANGED <<nodes, cap, managerVars, req, idx, chosen, try, outcome, hit,
                 blamed, requestFinish>>

Reply(c) ==
  /\ pc[c] = "reply"
  /\ requestProcess' = requestProcess - 1
  /\ Goto(c, "count")
  /\ UNCHANGED <<nodes, cap, managerVars, req, idx, chosen, try, outcome, hit,
                 blamed, requestFinish>>

Count(c) ==
  /\ pc[c] = "count"
  /\ requestFinish' = requestFinish + 1
  /\ Goto(c, "done")
  /\ UNCHANGED <<nodes, cap, managerVars, req, idx, chosen, try, outcome, hit,
                 blamed, requestProcess>>

Step(c) == \/ Begin(c)   \/ Select(c)  \/ Pick(c)    \/ Gate(c)
           \/ Acquire(c) \/ Address(c) \/ Lookup(c)  \/ Request(c)
           \/ Release(c) \/ Charge(c)  \/ Finish(c)  \/ Reply(c)
           \/ Count(c)

-----------------------------------------------------------------------------
callVars == <<pc, req, idx, chosen, try, outcome, hit, blamed, gauges>>

(* addNode while the slice has room: append writes in place.               *)
AddInPlace(a) ==
  /\ mpc = "recv" /\ "addNode" \in Churn
  /\ Len(nodes) < MaxNodes
  /\ Len(nodes) < cap
  /\ nodes' = Append(nodes, NewNode(a))
  /\ UNCHANGED <<cap, managerVars, callVars>>

(* addNode on a full slice: append copies to a new array, and only the     *)
(* assignment that follows publishes it; what the requests add to the old  *)
(* array in between is lost.                                               *)
AddCopy(a) ==
  /\ mpc = "recv" /\ "addNode" \in Churn
  /\ Len(nodes) < MaxNodes
  /\ Len(nodes) = cap
  /\ fresh' = Append(nodes, NewNode(a))
  /\ mpc' = "publish"
  /\ UNCHANGED <<nodes, cap, target, pos, callVars>>

(* Slip: the new node goes to the front of the grown list.                 *)
AddPublishFront ==
  /\ mpc = "publish"
  /\ nodes' = <<fresh[Len(fresh)]>> \o SubSeq(fresh, 1, Len(fresh) - 1)
  /\ cap' = IF cap = 0 THEN 1 ELSE 2 * cap
  /\ fresh' = <<>>
  /\ mpc' = "recv"
  /\ UNCHANGED <<target, pos, callVars>>

AddPublish ==
  /\ mpc = "publish"
  /\ nodes' = fresh
  /\ cap' = IF cap = 0 THEN 1 ELSE 2 * cap
  /\ fresh' = <<>>
  /\ mpc' = "recv"
  /\ UNCHANGED <<target, pos, callVars>>

(* delNode walks the list; at a match append shifts the tail down within   *)
(* the same array and the assignment then shortens the slice.              *)
DelBegin(a) ==
  /\ mpc = "recv" /\ "delNode" \in Churn
  /\ target' = a /\ pos' = 1
  /\ mpc' = "delete"
  /\ UNCHANGED <<nodes, cap, fresh, callVars>>

MatchAt(i) == /\ i \in DOMAIN nodes
              /\ i >= pos /\ nodes[i].addr = target
              /\ \A j \in pos .. i - 1 : nodes[j].addr # target

DelShift ==
  /\ mpc = "delete"
  /\ \E i \in DOMAIN nodes :
       /\ MatchAt(i)
       /\ nodes' = [j \in DOMAIN nodes |->
                      IF j >= i /\ j < Len(nodes) THEN nodes[j + 1]
                                                  ELSE nodes[j]]
       /\ pos' = i
  /\ mpc' = "truncate"
  /\ UNCHANGED <<cap, target, fresh, callVars>>

(* Slip: the loop forgets its i--.                                         *)
DelTruncateNoStepBack ==
  /\ mpc = "truncate"
  /\ nodes' = SubSeq(nodes, 1, Len(nodes) - 1)
  /\ pos' = pos + 1
  /\ mpc' = "delete"
  /\ UNCHANGED <<cap, target, fresh, callVars>>

DelTruncate ==
  /\ mpc = "truncate"
  /\ nodes' = SubSeq(nodes, 1, Len(nodes) - 1)
  /\ mpc' = "delete"
  /\ UNCHANGED <<cap, target, pos, fresh, callVars>>

DelEnd ==
  /\ mpc = "delete"
  /\ \A i \in DOMAIN nodes : ~MatchAt(i)
  /\ pos' = 1
  /\ mpc' = "recv"
  /\ UNCHANGED <<nodes, cap, target, fresh, callVars>>

Manage == AddPublish \/ DelShift \/ DelTruncate \/ DelEnd
Receive == \E a \in Addrs : AddInPlace(a) \/ AddCopy(a) \/ DelBegin(a)

(* Every request of the instance is over and the manager waits on its      *)
(* channel: the process is quiet, which is not a deadlock.                 *)
Quiet ==
  /\ \A c \in Calls : pc[c] \in {"done", "panicked"}
  /\ mpc = "recv"
  /\ UNCHANGED vars

-----------------------------------------------------------------------------
Init ==
  /\ nodes = [i \in 1 .. Len(Boot) |-> NewNode(Boot[i])]
  /\ cap = BootCap
  /\ mpc = "recv" /\ target = NoAddr /\ pos = 1 /\ fresh = <<>>
  /\ pc = [c \in Calls |-> "idle"]
  /\ req = [c \in Calls |-> [from |-> "gateway", type |-> "none"]]
  /\ idx = [c \in Calls |-> 0]
  /\ chosen = [c \in Calls |-> NoAddr]
  /\ try = [c \in Calls |-> 0]
  /\ outcome = [c \in Calls |-> "ok"]
  /\ hit = [c \in Calls |-> NoAddr]
  /\ blamed = [c \in Calls |-> NoAddr]
  /\ requestProcess = 0 /\ requestFinish = 0

Next == \/ \E c \in Calls : Step(c)
        \/ Receive
        \/ Manage
        \/ Quiet

Spec == Init /\ [][Next]_vars

(* Go's scheduler runs every goroutine that can run, and the route timeout *)
(* makes an attempt end; clients and the directory need not do anything.   *)
FairSpec == /\ Spec
            /\ \A c \in Calls : WF_vars(pc[c] # "idle" /\ Step(c))
            /\ WF_vars(Manage)
-----------------------------------------------------------------------------
(* Properties.                                                             *)

Holding == {"address", "lookup", "request", "release"}
InHandler == Points \ {"idle", "count", "done", "panicked"}

HoldersOf(i) == {c \in Calls : pc[c] \in Holding /\ idx[c] = i}
Panicked == {c \in Calls : pc[c] = "panicked"}

(* The variables have their types: no attempt number passes the end of the *)
(* retry slice, and what the manager is about to publish is a node list.   *)
TypeOK ==
  /\ nodes \in Seq(Node) /\ fresh \in Seq(Node)
  /\ cap \in Nat
  /\ mpc \in {"recv", "publish", "delete", "truncate"}
  /\ target \in Addrs \cup {NoAddr} /\ pos \in Nat \ {0}
  /\ pc \in [Calls -> Points]
  /\ req \in [Calls -> RequestKinds]
  /\ idx \in [Calls -> Nat]
  /\ try \in [Calls -> 0 .. Attempts]
  /\ outcome \in [Calls -> Outcomes]
  /\ chosen \in [Calls -> Addrs \cup {NoAddr}]
  /\ hit \in [Calls -> Addrs \cup {NoAddr}]
  /\ blamed \in [Calls -> Addrs \cup {NoAddr}]
  /\ requestProcess \in Int /\ requestFinish \in Nat

(* No request of the process dies of an index out of range or of a nil     *)
(* dereference between selectService and the end of retryGo.               *)
NoPanic == Panicked = {}

(* As long as no node left and the list was not moved to a larger array, a *)
(* node's waiting count is the number of requests now between the +1 and   *)
(* the -1 of retryGo at that node, over every retry, error path and        *)
(* interleaving: the balancer's only input.                                *)
WaitingIsInFlight ==
  cap = BootCap =>
    \A i \in DOMAIN nodes : nodes[i].waiting = Cardinality(HoldersOf(i))

(* The node retryGo contacts, and the node it charges a failure to, is the *)
(* one selectService chose and the limiter and breaker judged, although    *)
(* it is found again by index at every use.                                *)
ServedByChosen ==
  \A c \in Calls : /\ hit[c] \in {NoAddr, chosen[c]}
                   /\ blamed[c] \in {NoAddr, hit[c]}

(* What requestProcess really is: the requests inside the middleware plus  *)
(* every request that ever panicked, since the decrement is not deferred.  *)
GaugeCountsPanics ==
  requestProcess = Cardinality({c \in Calls : pc[c] \in InHandler})
                     + Cardinality(Panicked)

(* A delNode leaves no entry with its address, however many duplicates the *)
(* list had and whatever the requests did to it meanwhile.                 *)
DeleteRemovesAll ==
  [][mpc = "delete" /\ mpc' = "recv"
       => \A i \in DOMAIN nodes' : nodes'[i].addr # target]_vars

(* "call timeout don't retry", "call 404 don't retry" (retry.go): after    *)
(* such an outcome the request never takes a place at a node again.        *)
NoRetryAfterFinalOutcome ==
  [][\A c \in Calls : pc'[c] = "acquire" /\ pc[c] # "acquire"
       => \/ pc[c] = "gate"
          \/ outcome[c] = "fail"]_vars

(* Every request that entered the middleware leaves it or panics, whatever *)
(* the nodes answer and however the directory changes under it.            *)
RequestsEnd ==
  \A c \in Calls : pc[c] # "idle" ~> pc[c] \in {"done", "panicked"}

(* service_manager.go: "take the node with the least waiting", a random    *)
(* one only "if the waiting values of all nodes are 0".                    *)
SelectsLeastWaiting ==
  [][\A c \in Calls : pc[c] = "select" /\ pc'[c] = "pick"
       => \A j \in DOMAIN nodes :
            nodes[idx'[c]].waiting <= nodes[j].waiting]_vars
=============================================================================
