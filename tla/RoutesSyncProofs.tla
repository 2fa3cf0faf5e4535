-------------------------- MODULE RoutesSyncProofs --------------------------
(***************************************************************************)
(* What the handlers of routes.yml do not miss, for any number of nodes,   *)
(* edits and failures; that all nodes agree after edits one at a time with *)
(* nothing failing; and that the relaying of an edit is bounded.           *)
(***************************************************************************)
EXTENDS RoutesSync, FiniteSetTheorems, TLAPS

-----------------------------------------------------------------------------
(* What is sent is a file that is not empty.                               *)
LEMMA SentFacts ==
  ASSUME TypeOK, NEW c \in calls
  PROVE  /\ c.to \in Nodes /\ c.data \in Sendable
         /\ c.data \in Files
         /\ [c EXCEPT !.opened = TRUE] \in Calls
BY DEF TypeOK, Calls, Sendable

(* Overlapping writes leave a file.                                        *)
LEMMA OverFacts ==
  ASSUME NEW old \in Files, NEW new \in Files, NEW f \in Over(old, new)
  PROVE  f \in Files
BY DEF Over, Files

LEMMA OneIsACopy == 1 \in Copies
BY RoutesSyncAssumption DEF Copies

(* A call sends the cache to a node under a number of its own.             *)
LEMMA CallFacts ==
  ASSUME TypeOK, NEW n \in Nodes, cache[n] # {}, NEW p \in Nodes, CallTo(n, p)
  PROVE  /\ mine' \in [Nodes -> Copies]
         /\ \E k \in Calls : /\ k.to = p /\ k.data = cache[n] /\ ~k.opened
                             /\ calls' = calls \cup {k}
<1>1. PICK k \in Copies :
        /\ mine' = [mine EXCEPT ![n] = k]
        /\ calls' = calls \cup {[to |-> p, data |-> cache[n], copy |-> k,
                                opened |-> FALSE]}
  BY DEF CallTo
<1>2. cache[n] \in Sendable
  BY DEF TypeOK, Sendable
<1>3. mine' \in [Nodes -> Copies]
  BY <1>1 DEF TypeOK
<1> DEFINE c == [to |-> p, data |-> cache[n], copy |-> k, opened |-> FALSE]
<1>4. c \in Calls /\ c.to = p /\ c.data = cache[n] /\ ~c.opened
  BY <1>2 DEF Calls
<1> QED BY <1>1, <1>3, <1>4

(* Handlers and writes keep the types: TypeOK needs no strengthening but   *)
(* that a handler past its comparison has a cache that is not empty.       *)
Sending == \A n \in Nodes : pc[n] \in {"call", "wait"} => cache[n] # {}

THEOREM TypeCorrect == Spec => []TypeOK
<1> USE RoutesSyncAssumption
<1>1. Init => TypeOK /\ Sending
  <2> SUFFICES ASSUME Init PROVE TypeOK /\ Sending
    OBVIOUS
  <2>1. file \in [Nodes -> Files] /\ live \in [Nodes -> SUBSET Services]
    BY DEF Init, Files
  <2>2. cache \in [Nodes -> Files] /\ todo \in [Nodes -> SUBSET Nodes]
    BY DEF Init, Files
  <2>3. peer \in [Nodes -> Nodes] /\ mine \in [Nodes -> Copies]
    BY OneIsACopy DEF Init
  <2>4. pc \in [Nodes -> {"idle", "send", "call", "wait"}] /\ pending \in [Nodes -> BOOLEAN]
    BY DEF Init
  <2> QED BY <2>1, <2>2, <2>3, <2>4 DEF Init, TypeOK, Sending
<1>2. TypeOK /\ Sending /\ [Next]_vars => TypeOK' /\ Sending'
  <2> SUFFICES ASSUME TypeOK, Sending, [Next]_vars PROVE TypeOK' /\ Sending'
    OBVIOUS
  <2> USE DEF handlerVars
  <2>1. ASSUME NEW n \in Nodes, Edit(n) PROVE TypeOK' /\ Sending'
    BY <2>1 DEF Edit, Write, TypeOK, Sending, Files
  <2>2. ASSUME NEW n \in Nodes, Notice(n) PROVE TypeOK' /\ Sending'
    <3>1. Loaded(n) \in SUBSET Services
      BY DEF Loaded, TypeOK, Files
    <3> QED BY <2>2, <3>1 DEF Notice, TypeOK, Sending
  <2>3. ASSUME NEW n \in Nodes, Return(n) PROVE TypeOK' /\ Sending'
    BY <2>3, OneIsACopy DEF Return, TypeOK, Sending
  <2>4. ASSUME NEW n \in Nodes, Send(n) PROVE TypeOK' /\ Sending'
    <3>1. CASE file[n] \in {{}, cache[n]}
      BY <2>3, <2>4, <3>1 DEF Send
    <3>2. CASE file[n] \notin {{}, cache[n]}
      <4>1. cache' \in [Nodes -> Files]
        BY <2>4, <3>2 DEF Send, Broadcast, TypeOK
      <4>2. todo' \in [Nodes -> SUBSET Nodes]
        BY <2>4, <3>2 DEF Send, Broadcast, TypeOK
      <4>3. Sending'
        BY <2>4, <3>2 DEF Send, Broadcast, TypeOK, Sending
      <4> QED BY <2>4, <3>2, <4>1, <4>2, <4>3 DEF Send, Broadcast, TypeOK
    <3> QED BY <3>1, <3>2
  <2>5. ASSUME NEW n \in Nodes, NEW p \in Nodes, pc[n] \in {"call", "wait"},
               CallTo(n, p)
        PROVE  mine' \in [Nodes -> Copies] /\ calls' \subseteq Calls
    BY <2>5, CallFacts DEF TypeOK, Sending
  <2>6. ASSUME NEW n \in Nodes, Call(n) PROVE TypeOK' /\ Sending'
    <3>1. PICK p \in todo[n] : CallTo(n, p) /\ peer' = [peer EXCEPT ![n] = p]
      BY <2>6 DEF Call
    <3>2. p \in Nodes
      BY DEF TypeOK
    <3>3. mine' \in [Nodes -> Copies] /\ calls' \subseteq Calls
      BY <2>5, <2>6, <3>1, <3>2 DEF Call
    <3>4. peer' \in [Nodes -> Nodes]
      BY <3>1, <3>2 DEF TypeOK
    <3> QED BY <2>6, <3>3, <3>4 DEF Call, TypeOK, Sending
  <2>7. ASSUME NEW n \in Nodes, Answered(n) PROVE TypeOK' /\ Sending'
    BY <2>7, OneIsACopy DEF Answered, TypeOK, Sending
  <2>8. ASSUME NEW n \in Nodes, CallFails(n) PROVE TypeOK' /\ Sending'
    BY <2>3, <2>8 DEF CallFails
  <2>9. ASSUME NEW n \in Nodes, Retry(n) PROVE TypeOK' /\ Sending'
    <3>1. mine' \in [Nodes -> Copies] /\ calls' \subseteq Calls
      BY <2>5, <2>9 DEF Retry, TypeOK
    <3> QED BY <2>9, <3>1 DEF Retry, TypeOK, Sending
  <2>10. ASSUME NEW c \in calls, Truncate(c) PROVE TypeOK' /\ Sending'
    <3>1. file' \in [Nodes -> Files] /\ pending' \in [Nodes -> BOOLEAN]
      BY <2>10, SentFacts DEF Truncate, Write, TypeOK, Files
    <3>2. calls' \subseteq Calls
      BY <2>10, SentFacts DEF Truncate, TypeOK
    <3> QED BY <2>10, <3>1, <3>2 DEF Truncate, TypeOK, Sending
  <2>11. ASSUME NEW c \in calls, Fill(c) PROVE TypeOK' /\ Sending'
    <3>1. PICK f \in Over(file[c.to], c.data) : Write(c.to, f)
      BY <2>11 DEF Fill
    <3>2. f \in Files
      BY SentFacts, OverFacts DEF TypeOK
    <3>3. file' \in [Nodes -> Files] /\ pending' \in [Nodes -> BOOLEAN]
      BY <3>1, <3>2, SentFacts DEF Write, TypeOK
    <3> QED BY <2>11, <3>3 DEF Fill, TypeOK, Sending
  <2>12. ASSUME NEW c \in calls, DiskFails(c) PROVE TypeOK' /\ Sending'
    BY <2>12, SentFacts DEF DiskFails, TypeOK, Sending
  <2>13. CASE UNCHANGED vars
    BY <2>13 DEF vars, TypeOK, Sending
  <2> QED
    BY <2>1, <2>2, <2>4, <2>6, <2>7, <2>8, <2>9, <2>10, <2>11, <2>12, <2>13
    DEF Next, Handler, Serve, Faults, Quiet
<1> QED BY <1>1, <1>2, PTL DEF Spec

-----------------------------------------------------------------------------
(* No change of routes.yml is missed. It needs to be known of every node   *)
(* that has handled its events, also while it is busy telling the others.  *)
HandledInv ==
  \A n \in Nodes :
    pc[n] # "send" /\ ~pending[n] =>
      \/ file[n] \in {{}, cache[n]}
      \/ cache[n] = {} /\ file[n] = live[n]

LEMMA Handled == Spec => []HandledInv
<1>1. Init => HandledInv
  BY DEF Init, HandledInv
<1>2. TypeOK /\ HandledInv /\ [Next]_vars => HandledInv'
  <2> SUFFICES ASSUME TypeOK, HandledInv, [Next]_vars PROVE HandledInv'
    OBVIOUS
  <2> USE DEF handlerVars
  <2>1. ASSUME NEW m \in Nodes, NEW f, Write(m, f), UNCHANGED handlerVars
        PROVE  HandledInv'
    BY <2>1 DEF Write, TypeOK, HandledInv
  <2>2. ASSUME NEW n \in Nodes, Edit(n) PROVE HandledInv'
    BY <2>1, <2>2 DEF Edit
  <2>3. ASSUME NEW n \in Nodes, Notice(n) PROVE HandledInv'
    BY <2>3 DEF Notice, TypeOK, HandledInv
  <2>4. ASSUME NEW n \in Nodes, Send(n) PROVE HandledInv'
    <3>1. CASE file[n] \in {{}, cache[n]}
      BY <2>4, <3>1 DEF Send, Return, TypeOK, HandledInv
    <3>2. CASE file[n] \notin {{}, cache[n]}
      BY <2>4, <3>2 DEF Send, Broadcast, TypeOK, HandledInv
    <3> QED BY <3>1, <3>2
  <2>5. ASSUME NEW n \in Nodes, Call(n) PROVE HandledInv'
    BY <2>5 DEF Call, TypeOK, HandledInv
  <2>6. ASSUME NEW n \in Nodes, Answered(n) PROVE HandledInv'
    BY <2>6 DEF Answered, TypeOK, HandledInv
  <2>7. ASSUME NEW n \in Nodes, CallFails(n) PROVE HandledInv'
    <3>1. pc[n] # "send"
      BY <2>7 DEF CallFails
    <3> QED BY <2>7, <3>1 DEF CallFails, Return, TypeOK, HandledInv
  <2>8. ASSUME NEW n \in Nodes, Retry(n) PROVE HandledInv'
    BY <2>8 DEF Retry, HandledInv
  <2>9. ASSUME NEW c \in calls, Truncate(c) PROVE HandledInv'
    BY <2>1, <2>9, SentFacts DEF Truncate
  <2>10. ASSUME NEW c \in calls, Fill(c) PROVE HandledInv'
    BY <2>1, <2>10, SentFacts DEF Fill
  <2>11. ASSUME NEW c \in calls, DiskFails(c) PROVE HandledInv'
    BY <2>11 DEF DiskFails, HandledInv
  <2>12. CASE UNCHANGED vars
    BY <2>12 DEF vars, HandledInv
  <2> QED
    BY <2>2, <2>3, <2>4, <2>5, <2>6, <2>7, <2>8, <2>9, <2>10, <2>11, <2>12
    DEF Next, Handler, Serve, Faults, Quiet
<1> QED BY <1>1, <1>2, TypeCorrect, PTL DEF Spec

(* Whichever calls and writes failed, a node that is quiet has set out to  *)
(* send what its file holds.                                               *)
THEOREM ChangesAreHandled == Spec => []NoChangeMissed
<1>1. HandledInv => NoChangeMissed
  BY DEF HandledInv, NoChangeMissed
<1> QED BY <1>1, Handled, PTL

-----------------------------------------------------------------------------
(* Edits one at a time and nothing failing: an edit is a wave that carries *)
(* one contents c to every node. A node is reached when its file holds c   *)
(* or a call on its way there is to write it, and once reached it stays    *)
(* so. Until all are reached some node is spreading c: the one edited,     *)
(* before it has called anyone, or one that has all the others left on its *)
(* list that are not reached yet.                                          *)
Reached(c, p) == file[p] = c \/ \E k \in calls : k.to = p

Fresh(c, n) ==
  /\ calls = {} /\ file[n] = c /\ cache[n] # c
  /\ pc[n] = "send" \/ (pc[n] = "idle" /\ pending[n])
  /\ \A m \in Nodes \ {n} : pc[m] = "idle" /\ ~pending[m]

Telling(c, n) ==
  /\ pc[n] \in {"call", "wait"}
  /\ \A p \in Nodes : Reached(c, p) \/ p \in todo[n]

Spread(c) == \/ \A p \in Nodes : Reached(c, p)
             \/ \E n \in Nodes : Fresh(c, n) \/ Telling(c, n)

(* Every call carries c, every handler that calls has it in its cache, a   *)
(* file that was just written or is half written holds c or nothing, and a *)
(* peer whose call has ended is reached.                                   *)
Carries(c) ==
  /\ \A k \in calls : k.data = c /\ (k.opened => file[k.to] \in {c, {}})
  /\ \A n \in Nodes :
       /\ pc[n] \in {"call", "wait"} => cache[n] = c
       /\ pc[n] = "send" \/ pending[n] => file[n] \in {c, {}}
       /\ pc[n] = "wait" => Reached(c, peer[n])

WaveInv == \E c \in (SUBSET Services) \ {{}} : Carries(c) /\ Spread(c)

(* A write of c over c, or over nothing, leaves c.                         *)
LEMMA OverSame ==
  ASSUME NEW c \in SUBSET Services, NEW old \in {c, {}}
  PROVE  Over(old, c) = {c}
<1>1. Garbled \notin {old, c}
  BY RoutesSyncAssumption DEF Garbled
<1>2. Cardinality(c) \in Nat /\ Cardinality({}) = 0
  BY RoutesSyncAssumption, FS_Subset, FS_CardinalityType, FS_EmptySet
<1> QED BY <1>1, <1>2 DEF Over

(* A server's steps: what is reached stays reached, and the wave goes on.  *)
LEMMA ServeSpreads ==
  ASSUME TypeOK, NEW c \in (SUBSET Services) \ {{}}, Carries(c), Spread(c), Serve
  PROVE  Carries(c)' /\ Spread(c)'
<1> USE DEF handlerVars
<1>1. PICK k \in calls : Truncate(k) \/ Fill(k)
  BY DEF Serve
<1>2. k.to \in Nodes /\ k.data = c /\ (k.opened => file[k.to] \in {c, {}})
  BY SentFacts DEF Carries
<1>3. /\ UNCHANGED <<pc, cache, todo, peer>>
      /\ \A p \in Nodes \ {k.to} : file'[p] = file[p] /\ pending'[p] = pending[p]
  BY <1>1, <1>2 DEF Truncate, Fill, Write, TypeOK
<1>4. CASE Truncate(k)
  <2> DEFINE opened == [k EXCEPT !.opened = TRUE]
  <2>1. file'[k.to] = {} /\ calls' = (calls \ {k}) \cup {opened}
    BY <1>2, <1>4 DEF Truncate, Write, TypeOK
  <2>2. opened.to = k.to /\ opened.data = k.data
    BY DEF TypeOK, Calls
  <2>3. \A p \in Nodes : Reached(c, p) => Reached(c, p)'
    BY <1>3, <2>1, <2>2 DEF Reached
  <2>4. \A j \in calls' : j.data = c /\ (j.opened => file'[j.to] \in {c, {}})
    BY <1>2, <1>3, <2>1, <2>2, SentFacts DEF Carries
  <2>5. Carries(c)'
    BY <1>2, <1>3, <2>1, <2>3, <2>4 DEF Carries, TypeOK
  <2>6. Spread(c)'
    BY <1>3, <2>3 DEF Spread, Fresh, Telling
  <2> QED BY <2>5, <2>6
<1>5. CASE Fill(k)
  <2>1. Over(file[k.to], k.data) = {c}
    BY <1>2, <1>5, OverSame DEF Fill
  <2>2. file'[k.to] = c /\ calls' = calls \ {k}
    BY <1>2, <1>5, <2>1 DEF Fill, Write, TypeOK
  <2>3. \A p \in Nodes : Reached(c, p) => Reached(c, p)'
    BY <1>3, <2>2 DEF Reached
  <2>4. \A j \in calls' : j.data = c /\ (j.opened => file'[j.to] \in {c, {}})
    BY <1>2, <1>3, <2>2, SentFacts DEF Carries
  <2>5. Carries(c)'
    BY <1>2, <1>3, <2>2, <2>3, <2>4 DEF Carries, TypeOK
  <2>6. Spread(c)'
    BY <1>3, <2>3 DEF Spread, Fresh, Telling
  <2> QED BY <2>5, <2>6
<1> QED BY <1>1, <1>4, <1>5

(* A handler's steps.                                                      *)
LEMMA HandlerSpreads ==
  ASSUME TypeOK, NEW c \in (SUBSET Services) \ {{}}, Carries(c), Spread(c),
         NEW n \in Nodes, Handler(n)
  PROVE  Carries(c)' /\ Spread(c)'
<1>1. CASE Notice(n)
  <2>1. \A p \in Nodes : Reached(c, p)' = Reached(c, p)
    BY <1>1 DEF Notice, Reached
  <2>2. Carries(c)'
    BY <1>1, <2>1 DEF Notice, Carries, TypeOK
  <2>3. CASE \A p \in Nodes : Reached(c, p)
    BY <2>1, <2>2, <2>3 DEF Spread
  <2>4. ASSUME NEW m \in Nodes, Fresh(c, m) PROVE Fresh(c, m)'
    BY <1>1, <2>4 DEF Notice, Fresh, TypeOK
  <2>5. ASSUME NEW m \in Nodes, Telling(c, m) PROVE Telling(c, m)'
    BY <1>1, <2>1, <2>5 DEF Notice, Telling, TypeOK
  <2> QED BY <2>2, <2>3, <2>4, <2>5 DEF Spread
<1>2. CASE Send(n) /\ file[n] \in {{}, cache[n]}
  <2>1. \A p \in Nodes : Reached(c, p)' = Reached(c, p)
    BY <1>2 DEF Send, Return, Reached
  <2>2. Carries(c)'
    <3>1. /\ UNCHANGED <<file, pending, cache, calls>> /\ pc' = [pc EXCEPT ![n] = "idle"]
          /\ peer' = [peer EXCEPT ![n] = n]
      BY <1>2 DEF Send, Return
    <3> QED BY <2>1, <3>1 DEF Carries, TypeOK
  <2>3. CASE \A p \in Nodes : Reached(c, p)
    BY <2>1, <2>2, <2>3 DEF Spread
  <2>4. ASSUME NEW m \in Nodes PROVE ~Fresh(c, m)
    BY <1>2 DEF Send, Fresh
  <2>5. ASSUME NEW m \in Nodes, Telling(c, m) PROVE Telling(c, m)'
    <3>1. m # n
      BY <1>2, <2>5 DEF Send, Telling
    <3> QED BY <1>2, <2>1, <2>5, <3>1 DEF Send, Return, Telling, TypeOK
  <2> QED BY <2>2, <2>3, <2>4, <2>5 DEF Spread
<1>3. CASE Send(n) /\ file[n] \notin {{}, cache[n]}
  <2>1. file[n] = c
    BY <1>3 DEF Send, Carries
  <2>2. \A p \in Nodes : Reached(c, p)' = Reached(c, p)
    BY <1>3 DEF Send, Broadcast, Reached
  <2>3. Carries(c)'
    <3>1. /\ UNCHANGED <<file, pending, peer, calls>>
          /\ cache' = [cache EXCEPT ![n] = c] /\ pc' = [pc EXCEPT ![n] = "call"]
      BY <1>3, <2>1 DEF Send, Broadcast
    <3>2. \A k \in calls' : k.data = c /\ (k.opened => file'[k.to] \in {c, {}})
      BY <3>1 DEF Carries
    <3>3. \A m \in Nodes : pc'[m] = "wait" => Reached(c, peer[m])'
      BY <3>1 DEF Carries, Reached, TypeOK
    <3> QED BY <3>1, <3>2, <3>3 DEF Carries, TypeOK
  <2>4. Telling(c, n)'
    BY <1>3 DEF Send, Broadcast, Telling, TypeOK
  <2> QED BY <2>3, <2>4 DEF Spread
<1>4. CASE Call(n)
  <2>1. PICK p \in todo[n] : peer' = [peer EXCEPT ![n] = p] /\ CallTo(n, p)
    BY <1>4 DEF Call
  <2>2. PICK j \in Calls : /\ calls' = calls \cup {j}
                           /\ j.to = p /\ j.data = c /\ ~j.opened
    BY <1>4, <2>1, CallFacts DEF Call, Carries, TypeOK
  <2>3. \A q \in Nodes : Reached(c, q) => Reached(c, q)'
    BY <1>4, <2>2 DEF Call, Reached
  <2>4. p \in Nodes /\ Reached(c, p)'
    BY <2>1, <2>2 DEF Reached, TypeOK
  <2>5. \A m \in Nodes : pc'[m] = "wait" => Reached(c, peer[m])'
    <3>1. peer'[n] = p /\ \A m \in Nodes \ {n} : peer'[m] = peer[m] /\ pc'[m] = pc[m]
      BY <1>4, <2>1 DEF Call, TypeOK
    <3>2. ASSUME NEW m \in Nodes \ {n}, pc'[m] = "wait" PROVE Reached(c, peer[m])'
      <4>1. Reached(c, peer[m]) /\ peer[m] \in Nodes
        BY <3>1, <3>2 DEF Carries, TypeOK
      <4> QED BY <2>3, <3>1, <4>1 DEF Reached
    <3> QED BY <2>4, <3>1, <3>2 DEF Reached
  <2>6. \A m \in Nodes : pc'[m] \in {"call", "wait"} <=> pc[m] \in {"call", "wait"}
    BY <1>4 DEF Call, TypeOK
  <2>7. Carries(c)'
    <3>1. UNCHANGED <<file, pending, cache>> /\ pc' = [pc EXCEPT ![n] = "wait"]
      BY <1>4 DEF Call
    <3>2. \A k \in calls' : k.data = c /\ (k.opened => file'[k.to] \in {c, {}})
      BY <2>1, <2>2, <3>1 DEF Carries
    <3>3. \A m \in Nodes : pc'[m] = "send" => pc[m] = "send"
      BY <3>1 DEF TypeOK
    <3> QED BY <2>5, <2>6, <3>1, <3>2, <3>3 DEF Carries
  <2>8. CASE \A q \in Nodes : Reached(c, q)
    BY <2>3, <2>7, <2>8 DEF Spread
  <2>9. ASSUME NEW m \in Nodes PROVE ~Fresh(c, m)
    BY <1>4 DEF Call, Fresh
  <2>10. ASSUME NEW m \in Nodes, Telling(c, m) PROVE Telling(c, m)'
    BY <1>4, <2>3, <2>6, <2>10 DEF Call, Telling
  <2> QED BY <2>7, <2>8, <2>9, <2>10 DEF Spread
<1>5. CASE Answered(n)
  <2>1. \A p \in Nodes : Reached(c, p)' = Reached(c, p)
    BY <1>5 DEF Answered, Reached
  <2>2. Carries(c)'
    BY <1>5, <2>1 DEF Answered, Carries, TypeOK
  <2>3. CASE \A p \in Nodes : Reached(c, p)
    BY <2>1, <2>2, <2>3 DEF Spread
  <2>4. ASSUME NEW m \in Nodes PROVE ~Fresh(c, m)
    BY <1>5 DEF Answered, Fresh
  <2>5. ASSUME NEW m \in Nodes, Telling(c, m)
        PROVE  Telling(c, m)' \/ \A p \in Nodes : Reached(c, p)'
    <3>1. CASE m # n
      BY <1>5, <2>1, <2>5, <3>1 DEF Answered, Telling, TypeOK
    <3>2. CASE m = n
      <4>1. todo'[n] = todo[n] \ {peer[n]} /\ Reached(c, peer[n])
        BY <1>5 DEF Answered, Carries, TypeOK
      <4>2. \A p \in Nodes : Reached(c, p)' \/ p \in todo'[n]
        BY <2>1, <2>5, <3>2, <4>1 DEF Telling
      <4>3. CASE todo'[n] = {}
        BY <4>2, <4>3
      <4>4. CASE todo'[n] # {}
        BY <1>5, <3>2, <4>2, <4>4 DEF Answered, Telling, TypeOK
      <4> QED BY <4>3, <4>4
    <3> QED BY <3>1, <3>2
  <2> QED BY <2>2, <2>3, <2>4, <2>5 DEF Spread
<1> QED BY <1>1, <1>2, <1>3, <1>4, <1>5 DEF Handler

(* An edit of settled nodes: the last wave is over, so all files are the   *)
(* same, and no node has the new contents in its cache.                    *)
LEMMA EditStartsWave ==
  ASSUME TypeOK, HandledInv, WaveInv, Settled, NEW n \in Nodes, Edit(n)
  PROVE  WaveInv'
<1> USE DEF handlerVars
<1>1. PICK c \in (SUBSET Services) \ {{}, file[n]} : Write(n, c)
  BY DEF Edit
<1>2. file[n] # {}
  BY DEF WaveInv, Spread, Fresh, Telling, Reached, Settled
<1>3. cache[n] # c
  BY <1>1, <1>2 DEF HandledInv, Settled
<1>4. Fresh(c, n)'
  BY <1>1, <1>3 DEF Edit, Write, Settled, Fresh, TypeOK
<1>5. Carries(c)'
  BY <1>1 DEF Edit, Write, Settled, Carries, TypeOK
<1> QED BY <1>1, <1>4, <1>5 DEF WaveInv, Spread

(* Any other step goes on with the wave.                                   *)
LEMMA WaveGoesOn ==
  ASSUME ~CallMayFail, ~DiskMayFail, TypeOK,
         NEW c \in (SUBSET Services) \ {{}}, Carries(c), Spread(c),
         [Next]_vars, \A n \in Nodes : ~Edit(n)
  PROVE  Carries(c)' /\ Spread(c)'
<1>1. ASSUME NEW n \in Nodes, Handler(n) PROVE Carries(c)' /\ Spread(c)'
  BY <1>1, HandlerSpreads
<1>2. CASE Serve
  BY <1>2, ServeSpreads
<1>3. ~Faults
  BY DEF Faults, CallFails, Retry, DiskFails
<1>4. CASE UNCHANGED vars
  BY <1>4 DEF vars, Carries, Spread, Fresh, Telling, Reached
<1> QED BY <1>1, <1>2, <1>3, <1>4 DEF Next, Quiet

LEMMA WaveHolds ==
  ~Overlapping /\ ~CallMayFail /\ ~DiskMayFail => (Spec => []WaveInv)
<1> SUFFICES ASSUME ~Overlapping, ~CallMayFail, ~DiskMayFail PROVE Spec => []WaveInv
  OBVIOUS
<1>1. Init => WaveInv
  <2> SUFFICES ASSUME Init PROVE WaveInv
    OBVIOUS
  <2>1. PICK c \in (SUBSET Services) \ {{}} : file = [n \in Nodes |-> c]
    BY DEF Init
  <2>2. Carries(c) /\ Spread(c)
    BY <2>1 DEF Init, Carries, Spread, Reached
  <2> QED BY <2>2 DEF WaveInv
<1>2. TypeOK /\ HandledInv /\ WaveInv /\ [Next]_vars => WaveInv'
  <2> SUFFICES ASSUME TypeOK, HandledInv, WaveInv, [Next]_vars PROVE WaveInv'
    OBVIOUS
  <2>1. ASSUME NEW n \in Nodes, Edit(n) PROVE WaveInv'
    BY <2>1, EditStartsWave DEF Edit
  <2>2. CASE \A n \in Nodes : ~Edit(n)
    BY <2>2, WaveGoesOn DEF WaveInv
  <2> QED BY <2>1, <2>2
<1> QED BY <1>1, <1>2, TypeCorrect, Handled, PTL DEF Spec

(* Without overlapping edits and failures, quiet nodes hold the same file. *)
THEOREM SettledNodesAgree ==
  ~Overlapping /\ ~CallMayFail /\ ~DiskMayFail => (Spec => []SettledFilesAgree)
<1> SUFFICES ASSUME ~Overlapping, ~CallMayFail, ~DiskMayFail
             PROVE  Spec => []SettledFilesAgree
  OBVIOUS
<1>1. WaveInv => SettledFilesAgree
  BY DEF WaveInv, Spread, Fresh, Telling, Reached, Settled, SettledFilesAgree, Agree
<1>2. Spec => []WaveInv
  BY WaveHolds
<1> QED BY <1>1, <1>2, PTL

-----------------------------------------------------------------------------
(* The relaying ends. What is left to do in a wave: the nodes that have    *)
(* not sent c yet (each will call every node once), the calls not made,    *)
(* not answered, not executed and half executed, the events not noticed    *)
(* and the handlers that are to compare.                                   *)
Wave == CHOOSE c \in (SUBSET Services) \ {{}} : Carries(c) /\ Spread(c)

Unsent(c) == {n \in Nodes : cache[n] # c}
ToCall == {q \in Nodes \X Nodes :
             /\ pc[q[1]] \in {"call", "wait"} /\ q[2] \in todo[q[1]]
             /\ pc[q[1]] = "wait" => q[2] # peer[q[1]]}
Waiting == {n \in Nodes : pc[n] = "wait"}
Unopened == {k \in calls : ~k.opened}
Opened == {k \in calls : k.opened}
Events == {n \in Nodes : pending[n]}
Comparing == {n \in Nodes : pc[n] = "send"}

Work(c) ==
  8 * (Cardinality(Nodes) * Cardinality(Unsent(c))) + 8 * Cardinality(ToCall)
    + Cardinality(Waiting) + 6 * Cardinality(Unopened) + 3 * Cardinality(Opened)
    + 2 * Cardinality(Events) + Cardinality(Comparing)

WorkLeft == Work(Wave)

(* Every step of a handler or a server lowers it; an edit sets it to what  *)
(* the number of nodes bounds.                                             *)
WorkFalls ==
  [][ /\ (\A n \in Nodes : ~Edit(n)) => WorkLeft' < WorkLeft
      /\ (\E n \in Nodes : Edit(n)) =>
           WorkLeft' <= 8 * (Cardinality(Nodes) * Cardinality(Nodes)) + 2 ]_vars

(* There is one wave at a time.                                            *)
LEMMA OneWave ==
  ASSUME NEW c, NEW d, Carries(c), Spread(c), Carries(d), Spread(d)
  PROVE  c = d
<1>1. CASE calls # {}
  BY <1>1 DEF Carries
<1>2. CASE \E n \in Nodes : pc[n] \in {"call", "wait"}
  BY <1>2 DEF Carries
<1>3. CASE calls = {} /\ \A n \in Nodes : pc[n] \notin {"call", "wait"}
  <2>1. PICK p \in Nodes : TRUE
    BY RoutesSyncAssumption
  <2>2. ASSUME NEW x, Spread(x)
        PROVE  (\A q \in Nodes : file[q] = x) \/ \E q \in Nodes : Fresh(x, q)
    BY <1>3, <2>2 DEF Spread, Reached, Telling
  <2>3. ASSUME NEW n \in Nodes, NEW m \in Nodes, Fresh(c, n), Fresh(d, m)
        PROVE  n = m
    BY <2>3 DEF Fresh
  <2> QED BY <2>1, <2>2, <2>3 DEF Fresh
<1> QED BY <1>1, <1>2, <1>3

WaveIs == \A c \in (SUBSET Services) \ {{}} : Carries(c) /\ Spread(c) => Wave = c

LEMMA WaveIsOne == Spec => []WaveIs
<1>1. WaveIs
  BY OneWave DEF Wave, WaveIs
<1> QED BY <1>1, PTL

(* What is counted is finite.                                              *)
FewCalls == IsFiniteSet(calls)

LEMMA CallsFinite == Spec => []FewCalls
<1>1. Init => FewCalls
  BY FS_EmptySet DEF Init, FewCalls
<1>2. FewCalls /\ [Next]_vars => FewCalls'
  <2> SUFFICES ASSUME FewCalls, [Next]_vars PROVE IsFiniteSet(calls')
    BY DEF FewCalls
  <2>1. ASSUME NEW k PROVE IsFiniteSet(calls \cup {k}) /\ IsFiniteSet(calls \ {k})
    BY FS_AddElement, FS_RemoveElement DEF FewCalls
  <2>2. ASSUME NEW k, NEW j PROVE IsFiniteSet((calls \ {k}) \cup {j})
    BY <2>1, FS_AddElement
  <2>3. ASSUME NEW n, NEW p, CallTo(n, p) PROVE IsFiniteSet(calls')
    <3>1. PICK k : calls' = calls \cup {k}
      BY <2>3 DEF CallTo
    <3> QED BY <2>1, <3>1
  <2>4. ASSUME NEW n \in Nodes, Handler(n) PROVE IsFiniteSet(calls')
    BY <2>3, <2>4 DEF Handler, Notice, Send, Return, Broadcast, Call, Answered, FewCalls
  <2>5. CASE Serve
    <3>1. PICK k \in calls : Truncate(k) \/ Fill(k)
      BY <2>5 DEF Serve
    <3>2. \/ calls' = calls \ {k}
          \/ calls' = (calls \ {k}) \cup {[k EXCEPT !.opened = TRUE]}
      BY <3>1 DEF Truncate, Fill
    <3>3. CASE calls' = calls \ {k}
      BY <2>1, <3>3
    <3>4. CASE calls' = (calls \ {k}) \cup {[k EXCEPT !.opened = TRUE]}
      BY <2>2, <3>4
    <3> QED BY <3>2, <3>3, <3>4
  <2>6. CASE Faults
    BY <2>1, <2>3, <2>6 DEF Faults, CallFails, Return, Retry, DiskFails, FewCalls
  <2> QED BY <2>4, <2>5, <2>6 DEF Next, Edit, Quiet, vars, FewCalls
<1> QED BY <1>1, <1>2, PTL DEF Spec

LEMMA Counted ==
  ASSUME TypeOK, FewCalls, NEW c
  PROVE  /\ IsFiniteSet(Unsent(c)) /\ IsFiniteSet(ToCall) /\ IsFiniteSet(Waiting)
         /\ IsFiniteSet(Unopened) /\ IsFiniteSet(Opened)
         /\ IsFiniteSet(Events) /\ IsFiniteSet(Comparing)
<1>1. IsFiniteSet(Nodes) /\ IsFiniteSet(Nodes \X Nodes)
  BY RoutesSyncAssumption, FS_Product
<1>2. /\ Unsent(c) \subseteq Nodes /\ ToCall \subseteq Nodes \X Nodes
      /\ Waiting \subseteq Nodes /\ Events \subseteq Nodes /\ Comparing \subseteq Nodes
      /\ Unopened \subseteq calls /\ Opened \subseteq calls
  BY DEF Unsent, ToCall, Waiting, Events, Comparing, Unopened, Opened
<1> QED BY <1>1, <1>2, FS_Subset DEF FewCalls

LEMMA OneLess ==
  ASSUME NEW S, IsFiniteSet(S), NEW x \in S
  PROVE  /\ Cardinality(S) \in Nat /\ Cardinality(S \ {x}) \in Nat
         /\ Cardinality(S \ {x}) = Cardinality(S) - 1
BY FS_RemoveElement, FS_CardinalityType

LEMMA OneMore ==
  ASSUME NEW S, IsFiniteSet(S), NEW x
  PROVE  /\ Cardinality(S) \in Nat /\ Cardinality(S \cup {x}) \in Nat
         /\ Cardinality(S \cup {x}) <= Cardinality(S) + 1
<1>1. IsFiniteSet(S \cup {x})
  BY FS_AddElement
<1>2. Cardinality(S) \in Nat /\ Cardinality(S \cup {x}) \in Nat
  BY <1>1, FS_CardinalityType
<1>3. Cardinality(S \cup {x}) = IF x \in S THEN Cardinality(S) ELSE Cardinality(S) + 1
  BY FS_AddElement
<1> QED BY <1>2, <1>3

(* A node that broadcasts is one fewer that has not sent, and has every    *)
(* node to call.                                                           *)
LEMMA SentOnce ==
  ASSUME NEW N \in Nat, NEW u \in Nat, NEW v \in Nat, v = u - 1
  PROVE  N * u \in Nat /\ N * v \in Nat /\ N * v = N * u - N
OBVIOUS

LEMMA HandlerWorks ==
  ASSUME TypeOK, FewCalls, NEW c \in (SUBSET Services) \ {{}}, Carries(c),
         NEW n \in Nodes, Handler(n)
  PROVE  Work(c)' < Work(c)
<1> USE Counted
<1>1. Cardinality(Nodes) \in Nat
  BY RoutesSyncAssumption, FS_CardinalityType
<1>2. /\ Cardinality(Unsent(c)) \in Nat /\ Cardinality(ToCall) \in Nat
      /\ Cardinality(Waiting) \in Nat /\ Cardinality(Unopened) \in Nat
      /\ Cardinality(Opened) \in Nat /\ Cardinality(Events) \in Nat
      /\ Cardinality(Comparing) \in Nat
  BY FS_CardinalityType
<1>3. Cardinality(Nodes) * Cardinality(Unsent(c)) \in Nat
  BY <1>1, <1>2
<1>4. CASE Notice(n)
  <2>1. Unsent(c)' = Unsent(c) /\ Unopened' = Unopened /\ Opened' = Opened
    BY <1>4 DEF Notice, Unsent, Unopened, Opened
  <2>2. ToCall' = ToCall /\ Waiting' = Waiting
    BY <1>4 DEF Notice, ToCall, Waiting, TypeOK
  <2>3. Events' = Events \ {n} /\ n \in Events
    BY <1>4 DEF Notice, Events, TypeOK
  <2>4. Comparing' = Comparing \cup {n}
    BY <1>4 DEF Notice, Comparing, TypeOK
  <2>5. Cardinality(Events') = Cardinality(Events) - 1
    BY <2>3, OneLess
  <2>6. Cardinality(Comparing') \in Nat /\ Cardinality(Comparing') <= Cardinality(Comparing) + 1
    BY <2>4, OneMore
  <2> QED BY <1>2, <1>3, <2>1, <2>2, <2>5, <2>6 DEF Work
<1>5. CASE Send(n) /\ file[n] \in {{}, cache[n]}
  <2>1. Unsent(c)' = Unsent(c) /\ Unopened' = Unopened /\ Opened' = Opened /\ Events' = Events
    BY <1>5 DEF Send, Return, Unsent, Unopened, Opened, Events
  <2>2. ToCall' = ToCall /\ Waiting' = Waiting
    BY <1>5 DEF Send, Return, ToCall, Waiting, TypeOK
  <2>3. Comparing' = Comparing \ {n} /\ n \in Comparing
    BY <1>5 DEF Send, Return, Comparing, TypeOK
  <2>4. Cardinality(Comparing') = Cardinality(Comparing) - 1
    BY <2>3, OneLess
  <2> QED BY <1>2, <1>3, <2>1, <2>2, <2>4 DEF Work
<1>6. CASE Send(n) /\ file[n] \notin {{}, cache[n]}
  <2>1. file[n] = c
    BY <1>6 DEF Send, Carries
  <2>2. Unopened' = Unopened /\ Opened' = Opened /\ Events' = Events
    BY <1>6 DEF Send, Broadcast, Unopened, Opened, Events
  <2>3. Waiting' = Waiting
    BY <1>6 DEF Send, Broadcast, Waiting, TypeOK
  <2>4. Unsent(c)' = Unsent(c) \ {n} /\ n \in Unsent(c)
    BY <1>6, <2>1 DEF Send, Broadcast, Unsent, TypeOK
  <2>5. Comparing' = Comparing \ {n} /\ n \in Comparing
    BY <1>6 DEF Send, Broadcast, Comparing, TypeOK
  <2>6. ToCall' = ToCall \cup ({n} \X Nodes)
    BY <1>6 DEF Send, Broadcast, ToCall, TypeOK
  <2>7. IsFiniteSet({n} \X Nodes) /\ Cardinality({n} \X Nodes) = Cardinality(Nodes)
    <3>1. IsFiniteSet({n}) /\ Cardinality({n}) = 1
      BY FS_Singleton
    <3>2. IsFiniteSet(Nodes)
      BY RoutesSyncAssumption
    <3>3. /\ IsFiniteSet({n} \X Nodes)
          /\ Cardinality({n} \X Nodes) = Cardinality({n}) * Cardinality(Nodes)
      BY <3>1, <3>2, FS_Product
    <3> QED BY <1>1, <3>1, <3>3
  <2>8. /\ Cardinality(ToCall') \in Nat
        /\ Cardinality(ToCall') <= Cardinality(ToCall) + Cardinality(Nodes)
    <3> DEFINE both == ToCall \cap ({n} \X Nodes)
    <3>1. IsFiniteSet(both) /\ IsFiniteSet(ToCall \cup ({n} \X Nodes))
      <4>1. IsFiniteSet(ToCall) /\ both \subseteq ToCall
        OBVIOUS
      <4>2. IsFiniteSet(both)
        BY <4>1, FS_Subset
      <4> QED BY <2>7, <4>1, <4>2, FS_Union
    <3>2. Cardinality(both) \in Nat /\ Cardinality(ToCall') \in Nat
      BY <2>6, <3>1, FS_CardinalityType
    <3>3. Cardinality(ToCall') = Cardinality(ToCall) + Cardinality(Nodes) - Cardinality(both)
      BY <2>6, <2>7, FS_Union
    <3> HIDE DEF both
    <3> QED BY <1>1, <1>2, <3>2, <3>3
  <2>9. /\ Cardinality(Unsent(c)') \in Nat
        /\ Cardinality(Unsent(c)') = Cardinality(Unsent(c)) - 1
    BY <2>4, OneLess
  <2>10. Cardinality(Comparing') = Cardinality(Comparing) - 1
    BY <2>5, OneLess
  <2>11. Cardinality(Nodes) * Cardinality(Unsent(c)')
           = Cardinality(Nodes) * Cardinality(Unsent(c)) - Cardinality(Nodes)
    BY <1>1, <1>2, <2>9, SentOnce
  <2> QED BY <1>1, <1>2, <1>3, <2>2, <2>3, <2>8, <2>10, <2>11 DEF Work
<1>7. CASE Call(n)
  <2>1. PICK p \in todo[n] : peer' = [peer EXCEPT ![n] = p] /\ CallTo(n, p)
    BY <1>7 DEF Call
  <2>2. p \in Nodes
    BY DEF TypeOK
  <2>3. Unsent(c)' = Unsent(c) /\ Events' = Events
    BY <1>7 DEF Call, Unsent, Events
  <2>4. Comparing' = Comparing /\ Waiting' = Waiting \cup {n}
    BY <1>7 DEF Call, Comparing, Waiting, TypeOK
  <2>5. PICK j \in Calls : Opened' = Opened /\ Unopened' = Unopened \cup {j}
    <3>1. PICK j \in Calls : calls' = calls \cup {j} /\ ~j.opened
      BY <1>7, <2>1, <2>2, CallFacts DEF Call, Carries
    <3> QED BY <3>1 DEF Opened, Unopened
  <2>6. ToCall' = ToCall \ {<<n, p>>} /\ <<n, p>> \in ToCall
    BY <1>7, <2>1, <2>2 DEF Call, ToCall, TypeOK
  <2>7. Cardinality(ToCall') = Cardinality(ToCall) - 1
    BY <2>6, OneLess
  <2>8. Cardinality(Waiting') \in Nat /\ Cardinality(Waiting') <= Cardinality(Waiting) + 1
    BY <2>4, OneMore
  <2>9. Cardinality(Unopened') \in Nat /\ Cardinality(Unopened') <= Cardinality(Unopened) + 1
    BY <2>5, OneMore
  <2> QED BY <1>2, <1>3, <2>3, <2>4, <2>5, <2>7, <2>8, <2>9 DEF Work
<1>8. CASE Answered(n)
  <2>1. /\ Unsent(c)' = Unsent(c) /\ Unopened' = Unopened /\ Opened' = Opened
        /\ Events' = Events
    BY <1>8 DEF Answered, Unsent, Unopened, Opened, Events
  <2>2. ToCall' = ToCall
    BY <1>8 DEF Answered, ToCall, TypeOK
  <2>3. Comparing' = Comparing /\ Waiting' = Waiting \ {n} /\ n \in Waiting
    BY <1>8 DEF Answered, Comparing, Waiting, TypeOK
  <2>4. Cardinality(Waiting') = Cardinality(Waiting) - 1
    BY <2>3, OneLess
  <2> QED BY <1>2, <1>3, <2>1, <2>2, <2>3, <2>4 DEF Work
<1> QED BY <1>4, <1>5, <1>6, <1>7, <1>8 DEF Handler

LEMMA ServeWorks ==
  ASSUME TypeOK, FewCalls, NEW c \in (SUBSET Services) \ {{}}, Serve
  PROVE  Work(c)' < Work(c)
<1> USE Counted DEF handlerVars
<1>1. Cardinality(Nodes) * Cardinality(Unsent(c)) \in Nat
  BY RoutesSyncAssumption, FS_CardinalityType
<1>2. /\ Cardinality(ToCall) \in Nat
      /\ Cardinality(Waiting) \in Nat /\ Cardinality(Unopened) \in Nat
      /\ Cardinality(Opened) \in Nat /\ Cardinality(Events) \in Nat
      /\ Cardinality(Comparing) \in Nat
  BY FS_CardinalityType
<1>3. PICK k \in calls : Truncate(k) \/ Fill(k)
  BY DEF Serve
<1>4. UNCHANGED <<pc, cache, todo, peer>> /\ pending' = [pending EXCEPT ![k.to] = TRUE]
  BY <1>3 DEF Truncate, Fill, Write
<1>5. /\ Unsent(c)' = Unsent(c) /\ ToCall' = ToCall
      /\ Waiting' = Waiting /\ Comparing' = Comparing
  BY <1>4 DEF Unsent, ToCall, Waiting, Comparing
<1>6. Events' = Events \cup {k.to}
  BY <1>4, SentFacts DEF Events, TypeOK
<1>7. Cardinality(Events') \in Nat /\ Cardinality(Events') <= Cardinality(Events) + 1
  BY <1>6, OneMore
<1>8. CASE Truncate(k)
  <2> DEFINE opened == [k EXCEPT !.opened = TRUE]
  <2>1. calls' = (calls \ {k}) \cup {opened} /\ opened.opened /\ ~k.opened
    BY <1>8 DEF Truncate, TypeOK, Calls
  <2> HIDE DEF opened
  <2>2. Unopened' = Unopened \ {k} /\ k \in Unopened /\ Opened' = Opened \cup {opened}
    BY <2>1 DEF Unopened, Opened
  <2>3. Cardinality(Unopened') = Cardinality(Unopened) - 1
    BY <2>2, OneLess
  <2>4. Cardinality(Opened') \in Nat /\ Cardinality(Opened') <= Cardinality(Opened) + 1
    BY <2>2, OneMore
  <2> QED BY <1>1, <1>2, <1>5, <1>7, <2>3, <2>4 DEF Work
<1>9. CASE Fill(k)
  <2>1. Unopened' = Unopened /\ Opened' = Opened \ {k} /\ k \in Opened
    BY <1>9 DEF Fill, Unopened, Opened
  <2>2. Cardinality(Opened') = Cardinality(Opened) - 1
    BY <2>1, OneLess
  <2> QED BY <1>1, <1>2, <1>5, <1>7, <2>1, <2>2 DEF Work
<1> QED BY <1>3, <1>8, <1>9

(* All there is to do after an edit of settled nodes.                      *)
LEMMA EditWorks ==
  ASSUME TypeOK, Settled, NEW n \in Nodes, Edit(n), NEW c
  PROVE  Work(c)' <= 8 * (Cardinality(Nodes) * Cardinality(Nodes)) + 2
<1> USE DEF handlerVars
<1>1. /\ UNCHANGED <<pc, calls>> /\ pending' = [pending EXCEPT ![n] = TRUE]
      /\ calls = {} /\ \A m \in Nodes : pc[m] = "idle" /\ ~pending[m]
  BY DEF Edit, Write, Settled
<1>2. /\ ToCall' = {} /\ Waiting' = {} /\ Unopened' = {} /\ Opened' = {}
      /\ Comparing' = {} /\ Events' = {n}
  BY <1>1 DEF ToCall, Waiting, Unopened, Opened, Comparing, Events, TypeOK
<1>3. Unsent(c)' \subseteq Nodes
  BY DEF Unsent
<1>4. /\ Cardinality(Nodes) \in Nat /\ Cardinality(Unsent(c)') \in Nat
      /\ Cardinality(Unsent(c)') <= Cardinality(Nodes)
  BY <1>3, RoutesSyncAssumption, FS_Subset, FS_CardinalityType
<1>5. /\ Cardinality(Nodes) * Cardinality(Unsent(c)') \in Nat
      /\ Cardinality(Nodes) * Cardinality(Nodes) \in Nat
      /\ Cardinality(Nodes) * Cardinality(Unsent(c)')
           <= Cardinality(Nodes) * Cardinality(Nodes)
  <2>1. ASSUME NEW N \in Nat, NEW u \in Nat, u <= N
        PROVE  N * u \in Nat /\ N * N \in Nat /\ N * u <= N * N
    BY <2>1
  <2> QED BY <1>4, <2>1
<1>6. Cardinality({}) = 0 /\ Cardinality({n}) = 1
  BY FS_EmptySet, FS_Singleton
<1> QED BY <1>2, <1>5, <1>6 DEF Work

(* Without overlapping edits and failures every step but an edit lowers    *)
(* what is left to do, and an edit leaves at most 8 * N * N + 2 for N      *)
(* nodes: the nodes do not send each other a change for ever, as a node    *)
(* whose file is its cache sends nothing.                                  *)
THEOREM RelayingEnds ==
  ~Overlapping /\ ~CallMayFail /\ ~DiskMayFail => (Spec => WorkFalls)
<1> SUFFICES ASSUME ~Overlapping, ~CallMayFail, ~DiskMayFail PROVE Spec => WorkFalls
  OBVIOUS
<1> DEFINE Falls ==
      /\ (\A n \in Nodes : ~Edit(n)) => WorkLeft' < WorkLeft
      /\ (\E n \in Nodes : Edit(n)) =>
           WorkLeft' <= 8 * (Cardinality(Nodes) * Cardinality(Nodes)) + 2
<1>1. TypeOK /\ FewCalls /\ WaveInv /\ WaveIs /\ WaveIs' /\ [Next]_vars => [Falls]_vars
  <2> SUFFICES ASSUME TypeOK, FewCalls, WaveInv, WaveIs, WaveIs', [Next]_vars, vars' # vars
               PROVE  Falls
    OBVIOUS
  <2>1. ASSUME \A n \in Nodes : ~Edit(n) PROVE WorkLeft' < WorkLeft
    <3>1. PICK c \in (SUBSET Services) \ {{}} : Carries(c) /\ Spread(c)
      BY DEF WaveInv
    <3>2. Carries(c)' /\ Spread(c)'
      BY <2>1, <3>1, WaveGoesOn
    <3>3. Wave = c /\ Wave' = c
      BY <3>1, <3>2 DEF WaveIs
    <3>4. Work(c)' < Work(c)
      <4>1. ~Faults /\ ~Quiet
        BY DEF Faults, CallFails, Retry, DiskFails, Quiet
      <4>2. Serve \/ \E n \in Nodes : Handler(n)
        BY <2>1, <4>1 DEF Next
      <4> QED BY <3>1, <4>2, HandlerWorks, ServeWorks
    <3> QED BY <3>3, <3>4 DEF WorkLeft
  <2>2. ASSUME NEW n \in Nodes, Edit(n)
        PROVE  WorkLeft' <= 8 * (Cardinality(Nodes) * Cardinality(Nodes)) + 2
    <3>1. Settled
      BY <2>2 DEF Edit
    <3> QED BY <2>2, <3>1, EditWorks DEF WorkLeft
  <2> QED BY <2>1, <2>2
<1>2. Spec => []WaveInv
  BY WaveHolds
<1> QED BY <1>1, <1>2, TypeCorrect, CallsFinite, WaveIsOne, PTL DEF Spec, WorkFalls
=============================================================================
