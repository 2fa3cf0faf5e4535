-------------------------- MODULE DirectoryProofs --------------------------
(***************************************************************************)
(* How far the viewer's node lists can be trusted, for any number of       *)
(* servers and changes.                                                    *)
(***************************************************************************)
EXTENDS Directory, TLAPS

-----------------------------------------------------------------------------
LEMMA QueueFacts ==
  ASSUME NEW q \in Seq(Events)
  PROVE  /\ Len(q) \in Nat /\ DOMAIN q = 1 .. Len(q)
         /\ \A i \in DOMAIN q : q[i] \in Events
         /\ \A e \in Events :
              /\ Append(q, e) \in Seq(Events)
              /\ DOMAIN Append(q, e) = 1 .. Len(q) + 1
              /\ Append(q, e)[Len(q) + 1] = e
              /\ \A i \in DOMAIN q : Append(q, e)[i] = q[i]
         /\ q # <<>> =>
              /\ Head(q) = q[1] /\ Head(q) \in Events /\ 1 \in DOMAIN q
              /\ Tail(q) \in Seq(Events)
              /\ DOMAIN Tail(q) = 1 .. Len(q) - 1
              /\ \A i \in DOMAIN Tail(q) : Tail(q)[i] = q[i + 1]
OBVIOUS

(* No step leaves the types: serviceWatcher is restarted once at most.     *)
THEOREM TypeCorrect == Spec => []TypeOK
<1> USE DirectoryAssumption
<1>1. Init => TypeOK
  <2> SUFFICES ASSUME Init PROVE TypeOK
    OBVIOUS
  <2>1. <<>> \in Seq(Events)
    OBVIOUS
  <2>2. queue \in Seq(Events)
    BY <2>1 DEF Init
  <2>3. view \in [Servers -> Nat]
    BY DEF Init
  <2>4. server \in [Servers -> {"down", "up", "lost"}]
    BY DEF Init
  <2>5. changes \in 0 .. MaxChanges
    BY DEF Init, DirectoryAssumption
  <2> QED BY <2>2, <2>3, <2>4, <2>5 DEF Init, TypeOK
<1>2. TypeOK /\ [Next]_vars => TypeOK'
  <2> SUFFICES ASSUME TypeOK, [Next]_vars PROVE TypeOK'
    OBVIOUS
  <2> USE DEF TypeOK, etcdVars, watchVars, viewerVars, CanChange
  <2>1. ASSUME NEW k \in Keys, NEW t \in {"put", "delete"}, Announce(t, k),
               changes < MaxChanges
        PROVE  /\ changes' \in 0 .. MaxChanges /\ queue' \in Seq(Events)
               /\ missed' \subseteq Keys /\ UNCHANGED <<attached, viewerVars>>
    <3>1. [type |-> t, key |-> k] \in Events
      BY DEF Events
    <3>2. queue' \in Seq(Events)
      BY <2>1, <3>1, QueueFacts DEF Announce
    <3>3. missed' \in {missed, missed \ {k}, missed \cup {k}}
      BY <2>1 DEF Announce
    <3> QED BY <2>1, <3>2, <3>3 DEF Announce
  <2>2. ASSUME NEW s \in Servers, Register(s) PROVE TypeOK'
    BY <2>1, <2>2 DEF Register, Keys
  <2>3. ASSUME NEW s \in Servers, Stop(s) PROVE TypeOK'
    BY <2>3 DEF Stop
  <2>4. ASSUME NEW s \in Servers, Expire(s) PROVE TypeOK'
    BY <2>1, <2>4 DEF Expire, Keys
  <2>5. ASSUME NEW k \in Strangers, PutStranger(k) PROVE TypeOK'
    BY <2>1, <2>5 DEF PutStranger, Keys
  <2>6. CASE List
    BY <2>6 DEF List
  <2>7. ASSUME NEW k \in Keys, Load(k) PROVE TypeOK'
    BY <2>7 DEF Load
  <2>8. CASE Attach
    <3>1. <<>> \in Seq(Events)
      OBVIOUS
    <3> QED BY <2>8, <3>1 DEF Attach
  <2>9. CASE Handle
    <3>1. view' \in [Servers -> Nat]
      BY <2>9 DEF Handle, Applied
    <3>2. queue' \in Seq(Events)
      BY <2>9, QueueFacts DEF Handle
    <3> QED BY <2>9, <3>1, <3>2 DEF Handle
  <2>10. CASE Panic
    <3>1. <<>> \in Seq(Events)
      OBVIOUS
    <3>2. \A i \in DOMAIN queue : queue[i].key \in Keys
      BY QueueFacts DEF Events
    <3>3. missed' \subseteq Keys
      BY <2>10, <3>2 DEF Panic
    <3> QED BY <2>10, <3>1, <3>3 DEF Panic
  <2>11. CASE Cancel \/ WatchEnd
    BY <2>11 DEF Cancel, WatchEnd
  <2>12. CASE Quiet \/ UNCHANGED vars
    BY <2>12 DEF Quiet, vars
  <2> QED
    BY <2>2, <2>3, <2>4, <2>5, <2>6, <2>7, <2>8, <2>9, <2>10, <2>11, <2>12
       DEF Next, Viewer, Etcd
<1> QED
  BY <1>1, <1>2, PTL DEF Spec

-----------------------------------------------------------------------------
(* What a queue q leaves of node lists v at server s, and how the two ends *)
(* of the queue change it: an event at the back decides about its own key, *)
(* an event applied from the front changes nothing.                        *)
Settled(q, v, s) ==
  \/ \E i \in DOMAIN q :
       /\ q[i] = [type |-> "put", key |-> s]
       /\ \A j \in DOMAIN q : j > i => q[j].key # s
  \/ /\ \A j \in DOMAIN q : q[j].key # s
     /\ v[s] > 0

LEMMA SettledNow ==
  ASSUME NEW s \in Servers
  PROVE  SettlesAs(s) <=> Settled(queue, view, s)
BY DEF SettlesAs, Settled, Seen

LEMMA SettledAppend ==
  ASSUME NEW q \in Seq(Events), NEW v, NEW s, NEW e \in Events
  PROVE  Settled(Append(q, e), v, s)
           <=> IF e.key = s THEN e.type = "put" ELSE Settled(q, v, s)
<1> DEFINE a == Append(q, e)
           n == Len(q) + 1
<1>1. /\ Len(q) \in Nat /\ DOMAIN q = 1 .. Len(q) /\ DOMAIN a = 1 .. n
      /\ n \in Nat /\ a[n] = e /\ n \in DOMAIN a
      /\ \A i \in DOMAIN q : a[i] = q[i] /\ i \in DOMAIN a /\ n > i
      /\ \A i \in DOMAIN a : i = n \/ i \in DOMAIN q
  BY QueueFacts
<1>2. e = [type |-> e.type, key |-> e.key]
  BY DEF Events
<1> HIDE DEF a, n
<1>3. CASE e.key = s
  <2>1. ASSUME e.type = "put" PROVE Settled(a, v, s)
    <3>1. \A j \in DOMAIN a : ~(j > n)
      BY <1>1 DEF n
    <3> QED BY <1>1, <1>2, <1>3, <2>1, <3>1 DEF Settled
  <2>2. ASSUME Settled(a, v, s) PROVE e.type = "put"
    BY <1>1, <1>3, <2>2 DEF Settled
  <2> QED BY <1>3, <2>1, <2>2 DEF a
<1>4. CASE e.key # s
  <2>1. ASSUME Settled(q, v, s) PROVE Settled(a, v, s)
    BY <1>1, <1>4, <2>1 DEF Settled
  <2>2. ASSUME Settled(a, v, s) PROVE Settled(q, v, s)
    BY <1>1, <1>4, <2>2 DEF Settled
  <2> QED BY <1>4, <2>1, <2>2 DEF a
<1> QED BY <1>3, <1>4

LEMMA SettledTail ==
  ASSUME NEW q \in Seq(Events), q # <<>>, NEW v, NEW w, NEW s,
         Head(q).key = s => (w[s] > 0 <=> Head(q).type = "put"),
         Head(q).key # s => w[s] = v[s]
  PROVE  Settled(Tail(q), w, s) <=> Settled(q, v, s)
<1> DEFINE t == Tail(q)
<1>1. /\ Len(q) \in Nat /\ DOMAIN q = 1 .. Len(q) /\ 1 \in DOMAIN q
      /\ Head(q) = q[1] /\ q[1] \in Events
      /\ DOMAIN t = 1 .. Len(q) - 1
      /\ \A i \in DOMAIN t : t[i] = q[i + 1]
  BY QueueFacts
<1> HIDE DEF t
<1>2. /\ \A i \in DOMAIN t : i + 1 \in DOMAIN q /\ i \in Nat
      /\ \A i \in DOMAIN q : i = 1 \/ (i - 1 \in DOMAIN t /\ (i - 1) + 1 = i)
      /\ \A i \in DOMAIN q : i \in Int
  BY <1>1
<1>3. q[1] = [type |-> q[1].type, key |-> q[1].key]
  BY <1>1 DEF Events
<1>4. ASSUME Settled(q, v, s) PROVE Settled(t, w, s)
  <2>1. CASE \E i \in DOMAIN q :
               /\ q[i] = [type |-> "put", key |-> s]
               /\ \A j \in DOMAIN q : j > i => q[j].key # s
    <3>1. PICK i \in DOMAIN q :
               /\ q[i] = [type |-> "put", key |-> s]
               /\ \A j \in DOMAIN q : j > i => q[j].key # s
      BY <2>1
    <3>2. CASE i = 1
      <4>1. \A j \in DOMAIN t : t[j].key # s
        BY <1>1, <1>2, <3>1, <3>2
      <4> QED BY <1>1, <3>1, <3>2, <4>1 DEF Settled
    <3>3. CASE i # 1
      <4>1. i - 1 \in DOMAIN t /\ t[i - 1] = [type |-> "put", key |-> s]
        BY <1>1, <1>2, <3>1, <3>3
      <4>2. \A j \in DOMAIN t : j > i - 1 => t[j].key # s
        BY <1>1, <1>2, <3>1
      <4> QED BY <4>1, <4>2 DEF Settled
    <3> QED BY <3>2, <3>3
  <2>2. CASE (\A j \in DOMAIN q : q[j].key # s) /\ v[s] > 0
    BY <1>1, <1>2, <2>2 DEF Settled
  <2> QED BY <1>4, <2>1, <2>2 DEF Settled
<1>5. ASSUME Settled(t, w, s) PROVE Settled(q, v, s)
  <2>1. CASE \E i \in DOMAIN t :
               /\ t[i] = [type |-> "put", key |-> s]
               /\ \A j \in DOMAIN t : j > i => t[j].key # s
    <3>1. PICK i \in DOMAIN t :
               /\ t[i] = [type |-> "put", key |-> s]
               /\ \A j \in DOMAIN t : j > i => t[j].key # s
      BY <2>1
    <3>2. i + 1 \in DOMAIN q /\ q[i + 1] = [type |-> "put", key |-> s]
      BY <1>1, <1>2, <3>1
    <3>3. \A j \in DOMAIN q : j > i + 1 => q[j].key # s
      <4> SUFFICES ASSUME NEW j \in DOMAIN q, j > i + 1 PROVE q[j].key # s
        OBVIOUS
      <4>1. j # 1 /\ j - 1 > i /\ i \in Nat /\ j \in Int
        BY <1>2
      <4>2. j - 1 \in DOMAIN t /\ (j - 1) + 1 = j
        BY <1>2, <4>1
      <4>3. t[j - 1] = q[j]
        BY <1>1, <4>2
      <4> QED BY <3>1, <4>1, <4>2, <4>3
    <3> QED BY <3>2, <3>3 DEF Settled
  <2>2. CASE (\A j \in DOMAIN t : t[j].key # s) /\ w[s] > 0
    <3>1. \A j \in DOMAIN q : j # 1 => q[j].key # s
      <4> SUFFICES ASSUME NEW j \in DOMAIN q, j # 1 PROVE q[j].key # s
        OBVIOUS
      <4>1. j - 1 \in DOMAIN t /\ (j - 1) + 1 = j
        BY <1>2
      <4>2. t[j - 1] = q[j]
        BY <1>1, <4>1
      <4> QED BY <2>2, <4>1, <4>2
    <3>2. CASE q[1].key = s
      <4>1. q[1] = [type |-> "put", key |-> s]
        BY <1>1, <1>3, <2>2, <3>2
      <4>2. \A j \in DOMAIN q : j > 1 => q[j].key # s
        BY <3>1
      <4> QED BY <1>1, <4>1, <4>2 DEF Settled
    <3>3. CASE q[1].key # s
      BY <1>1, <2>2, <3>1, <3>3 DEF Settled
    <3> QED BY <3>2, <3>3
  <2> QED BY <1>5, <2>1, <2>2 DEF Settled
<1> QED BY <1>4, <1>5 DEF t

-----------------------------------------------------------------------------
(* An announced change settles its own key and leaves the others.          *)
LEMMA AnnounceSettles ==
  ASSUME TypeOK, NEW k \in Keys, NEW t \in {"put", "delete"}, Announce(t, k),
         attached, NEW s \in Servers
  PROVE  SettlesAs(s)' <=> IF s = k THEN t = "put" ELSE SettlesAs(s)
<1> DEFINE e == [type |-> t, key |-> k]
<1>1. e \in Events /\ e.type = t /\ e.key = k
  BY DEF Events
<1>2. queue' = Append(queue, e) /\ view' = view
  BY DEF Announce, viewerVars
<1>3. queue \in Seq(Events)
  BY DEF TypeOK
<1> HIDE DEF e
<1>4. Settled(queue', view', s) <=> IF s = k THEN t = "put"
                                             ELSE Settled(queue, view, s)
  BY <1>1, <1>2, <1>3, SettledAppend
<1>5. SettlesAs(s)' <=> Settled(queue', view', s)
  BY DEF SettlesAs, Settled, Seen
<1> QED
  BY <1>4, <1>5, SettledNow

(* Handling an event moves the lists without moving where they settle.     *)
LEMMA HandleSettles ==
  ASSUME TypeOK, Handle, NEW s \in Servers
  PROVE  SettlesAs(s)' <=> SettlesAs(s)
<1>1. queue \in Seq(Events) /\ queue # <<>> /\ queue' = Tail(queue)
  BY DEF Handle, TypeOK
<1>2. Head(queue) \in Events /\ Head(queue).key \in Servers
  BY <1>1, QueueFacts DEF Handle
<1>3. view' = [view EXCEPT ![Head(queue).key] = Applied(Head(queue))]
  BY DEF Handle
<1>4. view \in [Servers -> Nat]
  BY DEF TypeOK
<1>5. Head(queue).key = s => (view'[s] > 0 <=> Head(queue).type = "put")
  BY <1>2, <1>3, <1>4 DEF Applied
<1>6. Head(queue).key # s => view'[s] = view[s]
  BY <1>3, <1>4
<1>7. Settled(Tail(queue), view', s) <=> Settled(queue, view, s)
  BY <1>1, <1>5, <1>6, SettledTail
<1>8. SettlesAs(s)' <=> Settled(queue', view', s)
  BY DEF SettlesAs, Settled, Seen
<1> QED
  BY <1>1, <1>7, <1>8, SettledNow

-----------------------------------------------------------------------------
(* The viewer is only behind. Before the watch is open there is no queue,  *)
(* and what the lists and the keys still to be added say of a server it    *)
(* missed nothing about is already right; the invariant follows it through *)
(* the boot and through a restart of serviceWatcher.                       *)
RightOn(S) == \A s \in Servers \cap S : SettlesAs(s) <=> s \in keys

BehindInv ==
  /\ attached => vpc = "watch"
  /\ vpc = "list" => missed = {} /\ \A s \in Servers : view[s] = 0
  /\ vpc = "load" =>
       \A s \in Servers \ missed : s \in keys <=> s \in listed \/ view[s] > 0
  /\ vpc = "attach" =>
       \A s \in Servers \ missed : s \in keys <=> view[s] > 0
  /\ vpc = "watch" => RightOn(Servers \ missed)

Change == \/ \E s \in Servers : Register(s) \/ Stop(s) \/ Expire(s)
          \/ \E k \in Strangers : PutStranger(k)

(* A change that is announced is right about its key; one that is not is   *)
(* missed, and the others are as they were.                                *)
LEMMA ChangeKeepsRight ==
  ASSUME TypeOK, RightOn(Servers \ missed), vpc = "watch", Change
  PROVE  RightOn(Servers \ missed)'
<1> USE DirectoryAssumption DEF RightOn, Keys
<1>1. ASSUME NEW k \in Keys, NEW t \in {"put", "delete"}, Announce(t, k),
             keys' = IF t = "put" THEN keys \cup {k} ELSE keys \ {k},
             NEW s \in Servers, s \notin missed'
      PROVE  SettlesAs(s)' <=> s \in keys'
  <2>1. CASE attached
    <3>1. SettlesAs(s)' <=> IF s = k THEN t = "put" ELSE SettlesAs(s)
      BY <1>1, <2>1, AnnounceSettles
    <3>2. missed' = missed \ {k}
      BY <1>1, <2>1 DEF Announce
    <3> QED BY <1>1, <3>1, <3>2
  <2>2. CASE ~attached
    <3>1. missed' = missed \cup {k} /\ UNCHANGED <<queue, view>>
      BY <1>1, <2>2 DEF Announce, viewerVars
    <3>2. SettlesAs(s)' <=> SettlesAs(s)
      BY <3>1 DEF SettlesAs, Seen
    <3> QED BY <1>1, <3>1, <3>2
  <2> QED BY <2>1, <2>2
<1>2. ASSUME NEW r \in Servers, Register(r) PROVE RightOn(Servers \ missed)'
  BY <1>1, <1>2 DEF Register
<1>3. ASSUME NEW r \in Servers, Expire(r) PROVE RightOn(Servers \ missed)'
  BY <1>1, <1>3 DEF Expire
<1>4. ASSUME NEW k \in Strangers, PutStranger(k)
      PROVE  RightOn(Servers \ missed)'
  BY <1>1, <1>4 DEF PutStranger
<1>5. ASSUME NEW r \in Servers, Stop(r) PROVE RightOn(Servers \ missed)'
  BY <1>5 DEF Stop, watchVars, viewerVars, SettlesAs, Seen
<1> QED
  BY <1>2, <1>3, <1>4, <1>5 DEF Change

(* Before the watch: a change after the list is missed.                    *)
MissedOnly ==
  /\ UNCHANGED <<attached, vpc, listed, view>>
  /\ vpc = "list" => missed' = missed
  /\ vpc # "list" =>
       /\ missed \subseteq missed'
       /\ \A s \in Servers \ missed' : s \in keys' <=> s \in keys

LEMMA ChangeBeforeWatch ==
  ASSUME TypeOK, ~attached, Change
  PROVE  MissedOnly
<1> USE DEF MissedOnly
<1>1. ASSUME NEW k \in Keys, NEW t \in {"put", "delete"}, Announce(t, k),
             keys' = IF t = "put" THEN keys \cup {k} ELSE keys \ {k}
      PROVE  MissedOnly
  BY <1>1 DEF Announce, viewerVars
<1>2. ASSUME NEW r \in Servers, Register(r) PROVE MissedOnly
  BY <1>1, <1>2 DEF Register, Keys
<1>3. ASSUME NEW r \in Servers, Expire(r) PROVE MissedOnly
  BY <1>1, <1>3 DEF Expire, Keys
<1>4. ASSUME NEW k \in Strangers, PutStranger(k) PROVE MissedOnly
  BY <1>1, <1>4 DEF PutStranger, Keys
<1>5. ASSUME NEW r \in Servers, Stop(r) PROVE MissedOnly
  BY <1>5 DEF Stop, watchVars, viewerVars
<1> QED
  BY <1>2, <1>3, <1>4, <1>5 DEF Change

(* Whatever the servers, the other clients of etcd, failed lists, panics   *)
(* and cancelled watches do, a watching viewer is only ever behind on the  *)
(* servers it missed nothing about.                                        *)
THEOREM ViewIsOnlyBehind == Spec => []OnlyBehind
<1>1. Init => BehindInv
  BY DEF Init, BehindInv
<1>2. TypeOK /\ BehindInv /\ [Next]_vars => BehindInv'
  <2> SUFFICES ASSUME TypeOK, BehindInv, [Next]_vars PROVE BehindInv'
    OBVIOUS
  <2>1. CASE Change
    <3>1. vpc' = vpc /\ attached' = attached
      BY <2>1 DEF Change, Register, Stop, Expire, PutStranger, Announce,
         watchVars, viewerVars
    <3>2. CASE vpc = "watch"
      BY <2>1, <3>1, <3>2, ChangeKeepsRight DEF BehindInv
    <3>3. CASE vpc # "watch"
      <4>1. ~attached
        BY <3>3 DEF BehindInv
      <4> QED BY <2>1, <3>1, <3>3, <4>1, ChangeBeforeWatch DEF BehindInv, MissedOnly
    <3> QED BY <3>2, <3>3
  <2>2. CASE List
    BY <2>2 DEF List, BehindInv, etcdVars, TypeOK
  <2>3. ASSUME NEW k \in Keys, Load(k) PROVE BehindInv'
    <3>1. CASE k \in Servers
      <4>1. /\ view' = [view EXCEPT ![k] = @ + 1] /\ listed' = listed \ {k}
            /\ UNCHANGED <<vpc, keys, attached, missed>>
            /\ vpc = "load" /\ k \in listed
        BY <2>3, <3>1 DEF Load, etcdVars, watchVars
      <4>2. view \in [Servers -> Nat]
        BY DEF TypeOK
      <4>3. \A s \in Servers : view'[s] > 0 <=> s = k \/ view[s] > 0
        BY <3>1, <4>1, <4>2
      <4> QED BY <4>1, <4>3 DEF BehindInv
    <3>2. CASE k \notin Servers
      BY <2>3, <3>2 DEF Load, BehindInv, watchVars
    <3> QED BY <3>1, <3>2
  <2>4. CASE Attach
    <3>1. /\ queue' = <<>> /\ UNCHANGED <<keys, view, missed>>
          /\ vpc' = "watch"
      BY <2>4 DEF Attach, etcdVars
    <3>2. \A s \in Servers \ missed : s \in keys <=> view[s] > 0
      BY <2>4 DEF Attach, BehindInv
    <3>3. RightOn(Servers \ missed)'
      BY <3>1, <3>2 DEF RightOn, SettlesAs, Seen
    <3> QED BY <3>1, <3>3 DEF BehindInv
  <2>5. CASE Handle
    <3>1. UNCHANGED <<attached, vpc, keys, missed>> /\ vpc = "watch"
      BY <2>5 DEF Handle, etcdVars
    <3> QED BY <2>5, <3>1, HandleSettles DEF BehindInv, RightOn
  <2>6. CASE Panic
    <3>1. /\ vpc = "watch" /\ vpc' \in {"attach", "dead"} /\ ~attached'
          /\ missed' = missed \cup {queue[i].key : i \in DOMAIN queue}
          /\ UNCHANGED <<keys, view>>
      BY <2>6 DEF Panic, etcdVars
    <3>2. ASSUME NEW s \in Servers, s \notin missed'
          PROVE  s \in keys <=> view[s] > 0
      <4>1. s \notin missed /\ \A i \in DOMAIN queue : queue[i].key # s
        BY <3>1, <3>2
      <4>2. SettlesAs(s) <=> view[s] > 0
        BY <4>1 DEF SettlesAs, Seen
      <4> QED BY <3>1, <4>1, <4>2 DEF BehindInv, RightOn
    <3> QED BY <3>1, <3>2 DEF BehindInv
  <2>7. CASE Cancel
    BY <2>7 DEF Cancel, BehindInv, etcdVars, viewerVars, RightOn, SettlesAs,
       Seen
  <2>8. CASE WatchEnd
    BY <2>8 DEF WatchEnd, BehindInv, watchVars
  <2>9. CASE Quiet \/ UNCHANGED vars
    BY <2>9 DEF Quiet, vars, etcdVars, watchVars, viewerVars, BehindInv,
       RightOn, SettlesAs, Seen
  <2> QED
    BY <2>1, <2>2, <2>3, <2>4, <2>5, <2>6, <2>7, <2>8, <2>9
       DEF Next, Viewer, Etcd, Change
<1>3. BehindInv => OnlyBehind
  BY DEF BehindInv, RightOn, OnlyBehind
<1> QED
  BY <1>1, <1>2, <1>3, TypeCorrect, PTL DEF Spec
=============================================================================
