----------------------------- MODULE RoutesSync -----------------------------
(***************************************************************************)
(* How a change of routes.yml on one node reaches the others. Every node   *)
(* watches its file; on an event it merges the file into its live routes   *)
(* and, unless the bytes are those of its syncCache, calls SyncRoutes on   *)
(* every node of its node lists, which overwrites the file there, which is *)
(* an event there.                                                         *)
(*                                                                         *)
(* A file is the set of the services it has routes for, and as long as it  *)
(* has elements; {} is the empty file and the nil cache. Garbled is what   *)
(* two overlapping writes leave, and no YAML. The watcher (fsnotify and    *)
(* viper) is external: it calls the handler once per event, one at a time; *)
(* events not handled yet are one flag, as a handler that finds nothing    *)
(* new returns. The node lists are fixed: every node lists all of them.    *)
(***************************************************************************)
EXTENDS Integers, FiniteSets

CONSTANTS
  Nodes,        \* the processes
  Services,     \* what routes can be for: a file has finitely many
  Tail,         \* the end of another file, left behind one that is shorter
  Overlapping,  \* may an operator edit before the last edit has settled?
  CallMayFail,  \* may a call fail, be retried, or time out?
  DiskMayFail,  \* may a peer fail to write its file?
  MaxEdits,     \* bound on the edits
  MaxCalls      \* bound on the calls being executed at a time

ASSUME RoutesSyncAssumption ==
  /\ Nodes # {} /\ IsFiniteSet(Nodes)
  /\ IsFiniteSet(Services) /\ Tail \notin Services
  /\ {Overlapping, CallMayFail, DiskMayFail} \subseteq BOOLEAN
  /\ MaxEdits \in Nat /\ MaxCalls \in Nat \ {0}

VARIABLES
  file,     \* configs/routes.yml of each node
  pending,  \* an event of that file is not yet handled
  pc,       \* "idle", "send", "call" or "wait": where its handler is
  live,     \* cfg.Routes
  cache,    \* syncCache
  todo,     \* nodes the handler has not told yet
  peer,     \* the node it is calling
  mine,     \* and which of its calls there it waits for
  calls,    \* SyncRoutes calls being executed, anywhere
  edits     \* edits so far

vars == <<file, pending, pc, live, cache, todo, peer, mine, calls, edits>>
handlerVars == <<pc, live, cache, todo, peer, mine>>

Garbled == {Tail}
Files == (SUBSET Services) \cup {Garbled}
Sendable == Files \ {{}}
Copies == 1 .. MaxCalls
Calls == [to : Nodes, data : Sendable, copy : Copies, opened : BOOLEAN]

Settled == /\ calls = {}
           /\ \A n \in Nodes : pc[n] = "idle" /\ ~pending[n]

(* Every write of the file is an event of its node.                        *)
Write(n, c) == /\ file' = [file EXCEPT ![n] = c]
               /\ pending' = [pending EXCEPT ![n] = TRUE]

(* An operator saves another routes.yml on n.                              *)
Edit(n) ==
  /\ edits < MaxEdits
  /\ Overlapping \/ Settled
  /\ \E c \in (SUBSET Services) \ {{}, file[n]} : Write(n, c)
  /\ edits' = edits + 1
  /\ UNCHANGED <<handlerVars, calls>>

-----------------------------------------------------------------------------
(* The handler of n.                                                       *)

(* viper reads the file and unmarshalConfig merges it: a service that is   *)
(* no longer in the file stays in the map. A file that does not parse      *)
(* changes nothing.                                                        *)
Loaded(n) == IF file[n] = Garbled THEN live[n] ELSE live[n] \cup file[n]

Notice(n) ==
  /\ pc[n] = "idle" /\ pending[n]
  /\ pending' = [pending EXCEPT ![n] = FALSE]
  /\ live' = [live EXCEPT ![n] = Loaded(n)]
  /\ pc' = [pc EXCEPT ![n] = "send"]
  /\ UNCHANGED <<file, cache, todo, peer, mine, calls, edits>>

(* sendRoutes reads the file again. Its own node is in the lists too: the  *)
(* addresses there never equal the GetServiceId it compares them with.     *)
(* Slips: no test for an empty file; no comparison with the cache.         *)
Broadcast(n) ==
  /\ cache' = [cache EXCEPT ![n] = file[n]]
  /\ todo' = [todo EXCEPT ![n] = Nodes]
  /\ pc' = [pc EXCEPT ![n] = "call"]
  /\ UNCHANGED <<file, pending, live, peer, mine, calls, edits>>

Return(n) ==
  /\ pc' = [pc EXCEPT ![n] = "idle"]
  /\ todo' = [todo EXCEPT ![n] = {}]
  /\ peer' = [peer EXCEPT ![n] = n] /\ mine' = [mine EXCEPT ![n] = 1]
  /\ UNCHANGED <<file, pending, live, cache, calls, edits>>

SendEvenEmpty(n) ==
  /\ pc[n] = "send"
  /\ IF cache[n] = file[n] /\ file[n] # {} THEN Return(n)
                                           ELSE Broadcast(n)
SendAlways(n) ==
  /\ pc[n] = "send"
  /\ IF file[n] = {} THEN Return(n) ELSE Broadcast(n)

Send(n) ==
  /\ pc[n] = "send"
  /\ IF file[n] \in {{}, cache[n]} THEN Return(n)
                                   ELSE Broadcast(n)

(* The same file may be on its way to the same node in other calls: each  *)
(* copy has a number.                                                      *)
Copied(n, p) == {c.copy : c \in {d \in calls : d.to = p /\ d.data = cache[n]}}
Executing(n) == mine[n] \in Copied(n, peer[n])

CallTo(n, p) ==
  /\ Cardinality(calls) < MaxCalls
  /\ \E k \in Copies \ Copied(n, p) :
       /\ 1 .. k - 1 \subseteq Copied(n, p)
       /\ mine' = [mine EXCEPT ![n] = k]
       /\ calls' = calls \cup {[to |-> p, data |-> cache[n], copy |-> k,
                               opened |-> FALSE]}

Call(n) ==
  /\ pc[n] = "call"
  /\ \E p \in todo[n] : CallTo(n, p) /\ peer' = [peer EXCEPT ![n] = p]
  /\ pc' = [pc EXCEPT ![n] = "wait"]
  /\ UNCHANGED <<file, pending, live, cache, todo, edits>>

(* The answer. It says true whatever happened, as writeFile drops its      *)
(* error. Slips: the loop ends at the first peer; the events that came     *)
(* meanwhile are drained.                                                  *)
AnsweredOnce(n) ==
  pc[n] = "wait" /\ ~Executing(n) /\ Return(n)
AnsweredDrains(n) ==
  /\ pc[n] = "wait" /\ ~Executing(n)
  /\ todo' = [todo EXCEPT ![n] = @ \ {peer[n]}]
  /\ pc' = [pc EXCEPT ![n] = IF todo'[n] = {} THEN "idle" ELSE "call"]
  /\ pending' = [pending EXCEPT ![n] = FALSE]
  /\ peer' = [peer EXCEPT ![n] = n] /\ mine' = [mine EXCEPT ![n] = 1]
  /\ UNCHANGED <<file, live, cache, calls, edits>>

Answered(n) ==
  /\ pc[n] = "wait" /\ ~Executing(n)
  /\ todo' = [todo EXCEPT ![n] = @ \ {peer[n]}]
  /\ pc' = [pc EXCEPT ![n] = IF todo'[n] = {} THEN "idle" ELSE "call"]
  /\ peer' = [peer EXCEPT ![n] = n] /\ mine' = [mine EXCEPT ![n] = 1]
  /\ UNCHANGED <<file, pending, live, cache, calls, edits>>

(* rpcCall returns an error: an unreachable peer (the call was never       *)
(* executed) or a timeout (it may be yet). sendRoutes returns.             *)
CallFails(n) ==
  /\ CallMayFail
  /\ pc[n] \in {"call", "wait"}
  /\ Return(n)

(* rpcx in Failtry mode: the same call is made again.                      *)
Retry(n) ==
  /\ CallMayFail
  /\ pc[n] = "wait"
  /\ CallTo(n, peer[n])
  /\ UNCHANGED <<file, pending, pc, live, cache, todo, peer, edits>>

Handler(n) == Notice(n) \/ Send(n) \/ Call(n) \/ Answered(n)

-----------------------------------------------------------------------------
(* SyncRoutes on the node called: ioutil.WriteFile truncates, then writes. *)

Truncate(c) ==
  /\ c \in calls /\ ~c.opened
  /\ Write(c.to, {})
  /\ calls' = (calls \ {c}) \cup {[c EXCEPT !.opened = TRUE]}
  /\ UNCHANGED <<handlerVars, edits>>

(* What another call wrote since the truncation is overwritten from the    *)
(* start: if it is longer its tail is left.                                *)
Over(old, new) ==
  IF Garbled \in {old, new} THEN {new, Garbled}
  ELSE IF Cardinality(old) > Cardinality(new) THEN {Garbled} ELSE {new}

Fill(c) ==
  /\ c \in calls /\ c.opened
  /\ \E f \in Over(file[c.to], c.data) : Write(c.to, f)
  /\ calls' = calls \ {c}
  /\ UNCHANGED <<handlerVars, edits>>

DiskFails(c) ==
  /\ DiskMayFail
  /\ c \in calls
  /\ calls' = calls \ {c}
  /\ UNCHANGED <<file, pending, handlerVars, edits>>

Serve == \E c \in calls : Truncate(c) \/ Fill(c)

-----------------------------------------------------------------------------
Init ==
  /\ \E c \in (SUBSET Services) \ {{}} :
       file = [n \in Nodes |-> c] /\ live = [n \in Nodes |-> c]
  /\ pending = [n \in Nodes |-> FALSE] /\ pc = [n \in Nodes |-> "idle"]
  /\ cache = [n \in Nodes |-> {}] /\ todo = [n \in Nodes |-> {}]
  /\ peer = [n \in Nodes |-> n] /\ mine = [n \in Nodes |-> 1]
  /\ calls = {} /\ edits = 0

Faults == \/ \E n \in Nodes : CallFails(n) \/ Retry(n)
          \/ \E c \in calls : DiskFails(c)

(* Every handler waits for an event: not a deadlock.                       *)
Quiet == Settled /\ UNCHANGED vars

Next == \/ \E n \in Nodes : Edit(n) \/ Handler(n)
        \/ Serve
        \/ Faults
        \/ Quiet

Spec == Init /\ [][Next]_vars

(* Every node's watcher goroutine and every server runs.                   *)
FairSpec == Spec /\ WF_vars(Serve) /\ \A n \in Nodes : WF_vars(Handler(n))

-----------------------------------------------------------------------------
(* Properties.                                                             *)

Agree == \A m, n \in Nodes : file[m] = file[n]

(* An emptied file is read, but never cached, sent or called with.         *)
TypeOK ==
  /\ file \in [Nodes -> Files]
  /\ pending \in [Nodes -> BOOLEAN]
  /\ pc \in [Nodes -> {"idle", "send", "call", "wait"}]
  /\ live \in [Nodes -> SUBSET Services]
  /\ cache \in [Nodes -> Files]
  /\ todo \in [Nodes -> SUBSET Nodes]
  /\ peer \in [Nodes -> Nodes] /\ mine \in [Nodes -> Copies]
  /\ calls \subseteq Calls
  /\ edits \in 0 .. MaxEdits

(* No change of a file is missed: when a node's handler is idle and has no *)
(* event left, its file holds what it last set out to send to the others,  *)
(* or is empty, or is the one it started with, whichever calls and writes  *)
(* failed and however they and the events overlapped.                      *)
NoChangeMissed ==
  \A n \in Nodes :
    pc[n] = "idle" /\ ~pending[n] =>
      \/ file[n] \in {{}, cache[n]}
      \/ cache[n] = {} /\ file[n] = live[n]

(* One edit at a time and nothing failing: when all is quiet all nodes     *)
(* hold the same file ...                                                  *)
SettledFilesAgree == Settled => Agree

(* ... and all does become quiet: the nodes do not send each other the     *)
(* change for ever.                                                        *)
SyncSettles == <>[]Settled
=============================================================================
