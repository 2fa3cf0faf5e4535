----------------------------- MODULE BootProofs -----------------------------
(***************************************************************************)
(* What the goroutines of a process can rely on from its boot on.          *)
(***************************************************************************)
EXTENDS Boot, LeastElement, SequenceTheorems, FiniteSetTheorems, TLAPS

-----------------------------------------------------------------------------
(* What holds of the container and of the goroutines at each stage of the  *)
(* boot, and why a lookup cannot have failed yet.                          *)
BeforeLog == {"config", "merge", "unmarshal", "check", "log"}
BeforeEtcd == BeforeLog \cup {"etcd"}
BeforeAdd == BeforeEtcd \cup {"ip", "put", "keep", "list"}

ListInv == pc \in BeforeAdd => /\ listed = {} /\ handed = {}
                               /\ started \subseteq {"configWatch", "manager"}

(* No step leaves the types: a key is handed over once, and only if it was *)
(* listed or joined.                                                       *)
THEOREM TypeCorrect == Spec => []TypeOK
<1> USE BootAssumption DEF Names, Safe, Points, Goroutines, BeforeLog, BeforeEtcd,
        BeforeAdd
<1>1. Init => TypeOK /\ ListInv
  <2> SUFFICES ASSUME Init PROVE TypeOK /\ ListInv
    OBVIOUS
  <2>1. container \in [Names -> {"none", "framework", "user"}]
    BY DEF Init
  <2> QED BY <2>1 DEF Init, TypeOK, ListInv
<1>2. TypeOK /\ ListInv /\ [Next]_vars => (TypeOK /\ ListInv)'
  <2> SUFFICES ASSUME TypeOK, ListInv, [Next]_vars PROVE (TypeOK /\ ListInv)'
    OBVIOUS
  <2> USE DEF TypeOK, ListInv, directory, own, edits, Pass
  <2>1. ASSUME NEW n \in Safe, Put(n)
        PROVE  container' \in [Names -> {"none", "framework", "user"}]
    BY <2>1 DEF Put
  <2>2. CASE Config \/ CheckConfig
    BY <2>2 DEF Config, CheckConfig
  <2>a. CASE KeepAlive \/ BootOpenTracing
    BY <2>a DEF KeepAlive, BootOpenTracing
  <2>3. CASE Unmarshal \/ BootService
    BY <2>3 DEF Unmarshal, BootService, Start
  <2>b. CASE Watch \/ Run
    BY <2>b DEF Watch, Run, Start
  <2>c. CASE UnmarshalError
    BY <2>c DEF UnmarshalError
  <2>4. CASE Fail \/ Panic
    <3>1. /\ UNCHANGED <<conf, pc, container, logBoot, started, listening, directory,
                         edits, own>>
          /\ ended' \in {"fatal", "panic", "logPanic"}
      BY <2>4 DEF Fail, Panic, Fatal
    <3> QED BY <3>1
  <2>5. CASE BootLog \/ BootEtcd
    BY <2>1, <2>5 DEF BootLog, BootEtcd
  <2>6. CASE PutKey
    BY <2>6 DEF PutKey
  <2>7. CASE List
    BY <2>7 DEF List
  <2>8. ASSUME NEW s \in Servers \cup {conf.self}, Add(s)
        PROVE  (TypeOK /\ ListInv)'
    <3>1. pc = "add" /\ pc' = "add" /\ s \in toAdd /\ toAdd' = toAdd \ {s}
      BY <2>8 DEF Add
    <3>2. UNCHANGED <<conf, container, logBoot, started, listening, listed, edits, own,
                      ended>>
      BY <2>8 DEF Add
    <3>3. handed' = handed \cup {<<s, "list">>}
      BY <2>8 DEF Add, Hand
    <3>4. handed' \subseteq (Servers \X {"watch"}) \cup ((listed \ toAdd') \X {"list"})
      BY <3>1, <3>3
    <3> QED BY <3>1, <3>2, <3>4
  <2>9. CASE BootDb \/ BootRedis
    BY <2>1, <2>9 DEF BootDb, BootRedis
  <2>10. CASE Managed \/ ConfigChange \/ SendRoutes \/ CallRaces \/ Follow
    <3>1. /\ UNCHANGED <<conf, pc, container, logBoot, started, listening, listed,
                         toAdd, handed, own>>
          /\ editing' \in BOOLEAN /\ edited' \in BOOLEAN
      BY <2>10 DEF Managed, ConfigChange, SendRoutes, CallRaces, Follow
    <3>2. ended' \in {"no", "fatal", "panic", "logPanic", "etcdPanic", "mapRace"}
      BY <2>10 DEF Managed, ConfigChange, SendRoutes, CallRaces, Follow
    <3> QED BY <3>1, <3>2
  <2>11. ASSUME NEW s \in Servers, Join(s) PROVE (TypeOK /\ ListInv)'
    <3>1. /\ UNCHANGED <<conf, pc, container, logBoot, started, listening, listed,
                         toAdd, edits, own, ended>>
          /\ handed' = handed \cup {<<s, "watch">>} /\ "serviceWatcher" \in started
      BY <2>11 DEF Join, Hand
    <3>2. handed' \subseteq (Servers \X {"watch"}) \cup ((listed \ toAdd) \X {"list"})
      BY <3>1
    <3> QED BY <3>1, <3>2
  <2>12. ASSUME NEW g \in {"http", "rpc"}, Listen(g) PROVE (TypeOK /\ ListInv)'
    <3>1. UNCHANGED <<conf, pc, container, logBoot, started, directory, edits, own>>
      BY <2>12 DEF Listen
    <3>2. listening' \subseteq {"http", "rpc"}
      BY <2>12 DEF Listen
    <3>3. ended' \in {"no", "fatal", "logPanic"}
      BY <2>12 DEF Listen, Fatal
    <3> QED BY <3>1, <3>2, <3>3
  <2>13. ASSUME NEW n \in Names, Set(n) PROVE (TypeOK /\ ListInv)'
    BY <2>13 DEF Set
  <2>14. CASE Expire
    BY <2>14 DEF Expire
  <2>15. CASE UNCHANGED vars
    BY <2>15 DEF vars
  <2> QED
    BY <2>2, <2>a, <2>3, <2>b, <2>c, <2>4, <2>5, <2>6, <2>7, <2>8, <2>9, <2>10,
       <2>11, <2>12, <2>13, <2>14, <2>15
    DEF Next, Main, Proceed, Rest
<1> QED BY <1>1, <1>2, PTL DEF Spec

-----------------------------------------------------------------------------
StagesInv ==
  /\ pc \notin BeforeLog => Found("log")
  /\ pc \notin BeforeEtcd => Found("etcd")
  /\ started \subseteq {"configWatch"} \/ pc \notin BeforeEtcd
  /\ logBoot = 1 => pc \notin BeforeLog
  /\ pc \notin BeforeLog => ended \notin {"logPanic", "etcdPanic"}
  /\ ended # "etcdPanic"

(* What main has done before it comes to "serve".                          *)
ServeInv ==
  /\ listening \subseteq started /\ (pc # "serve" => listening = {})
  /\ {"http", "rpc"} \cap started # {} => pc = "serve"
  /\ pc \notin BeforeLog \ {"log"} => Complete
  /\ pc \notin {"config", "merge", "unmarshal"} => "configWatch" \in started
  /\ pc \notin BeforeEtcd \cup {"ip"} => "manager" \in started
  /\ pc \notin BeforeAdd \cup {"add"} => {"serviceWatcher", "poller"} \subseteq started
  /\ pc \in {"redis", "run", "serve"} => (conf.db # "none" => Found("db"))
  /\ pc \in {"run", "serve"} => (conf.redis # "none" => Found("redis"))

LEMMA StagesHold == Spec => [](StagesInv /\ ServeInv)
<1> USE DEF BeforeLog, BeforeEtcd, BeforeAdd, Points
<1>1. Init => StagesInv /\ ServeInv
  BY DEF Init, StagesInv, ServeInv
<1>2. TypeOK /\ StagesInv /\ ServeInv /\ [Next]_vars => (StagesInv /\ ServeInv)'
  <2> SUFFICES ASSUME TypeOK, StagesInv, ServeInv, [Next]_vars
               PROVE  (StagesInv /\ ServeInv)'
    OBVIOUS
  <2> USE BootAssumption DEF TypeOK, StagesInv, ServeInv, directory, own, edits, Pass,
          Found, Names, Safe
  <2>1. ASSUME NEW n \in Safe, Put(n)
        PROVE  /\ Found(n)'
               /\ \A k \in Safe : Found(k) => Found(k)'
    BY <2>1 DEF Put
  <2>a. conf' = conf => Complete' = Complete
    BY DEF Complete
  <2>2. CASE Config \/ KeepAlive \/ BootOpenTracing
    BY <2>2, <2>a DEF Config, KeepAlive, BootOpenTracing
  <2>3. CASE CheckConfig
    BY <2>3, <2>a DEF CheckConfig
  <2>4. CASE Unmarshal \/ BootService \/ Watch \/ Run
    BY <2>4, <2>a DEF Unmarshal, BootService, Watch, Run, Start
  <2>5. CASE UnmarshalError \/ Fail \/ Panic
    <3>1. UNCHANGED <<conf, pc, container, logBoot, started, listening>>
      BY <2>5 DEF UnmarshalError, Fail, Panic
    <3>2. /\ ended = "no" /\ ended' # "etcdPanic"
          /\ ended' = "logPanic" => ~Found("log")
      BY <2>5 DEF UnmarshalError, Fail, Panic, Fatal
    <3> QED BY <3>1, <3>2, <2>a
  <2>6. CASE BootLog
    BY <2>1, <2>6, <2>a DEF BootLog
  <2>7. CASE BootEtcd
    BY <2>1, <2>7, <2>a DEF BootEtcd
  <2>8. CASE PutKey \/ List
    BY <2>8, <2>a DEF PutKey, List
  <2>9. ASSUME NEW s \in Servers \cup {conf.self}, Add(s)
        PROVE  (StagesInv /\ ServeInv)'
    BY <2>9, <2>a DEF Add
  <2>10. CASE BootDb
    <3>1. (conf.db = "none" /\ UNCHANGED container) \/ Put("db")
      BY <2>10 DEF BootDb
    <3>2. /\ pc = "db" /\ pc' = "redis" /\ ended = "no"
          /\ UNCHANGED <<conf, listening, ended, logBoot, started>>
      BY <2>10 DEF BootDb
    <3>3. (\A k \in Safe : Found(k) => Found(k)') /\ (conf.db # "none" => Found("db")')
      BY <2>1, <3>1
    <3> QED BY <3>2, <3>3, <2>a
  <2>11. CASE BootRedis
    <3>1. (conf.redis = "none" /\ UNCHANGED container) \/ Put("redis")
      BY <2>11 DEF BootRedis
    <3>2. /\ pc = "redis" /\ pc' = "run" /\ ended = "no"
          /\ UNCHANGED <<conf, listening, ended, logBoot, started>>
      BY <2>11 DEF BootRedis
    <3>3. /\ \A k \in Safe : Found(k) => Found(k)'
          /\ conf.redis # "none" => Found("redis")'
      BY <2>1, <3>1
    <3> QED BY <3>2, <3>3, <2>a
  <2>12. CASE Managed \/ ConfigChange \/ CallRaces
    <3>1. /\ UNCHANGED <<conf, pc, container, logBoot, started, listening>>
          /\ ended' \in {ended, "mapRace"}
      BY <2>12 DEF Managed, ConfigChange, CallRaces
    <3> QED BY <3>1, <2>a
  <2>13. CASE SendRoutes
    BY <2>13, <2>a DEF SendRoutes
  <2>14. CASE Follow
    BY <2>14, <2>a DEF Follow
  <2>15. ASSUME NEW s \in Servers, Join(s) PROVE (StagesInv /\ ServeInv)'
    BY <2>15, <2>a DEF Join
  <2>16. ASSUME NEW g \in {"http", "rpc"}, Listen(g) PROVE (StagesInv /\ ServeInv)'
    BY <2>16, <2>a DEF Listen, Fatal
  <2>17. ASSUME NEW n \in Names, Set(n) PROVE (StagesInv /\ ServeInv)'
    BY <2>17, <2>a DEF Set
  <2>18. CASE Expire
    BY <2>18, <2>a DEF Expire
  <2>19. CASE UNCHANGED vars
    BY <2>19, <2>a DEF vars
  <2> QED
    BY <2>2, <2>3, <2>4, <2>5, <2>6, <2>7, <2>8, <2>9, <2>10, <2>11, <2>12,
       <2>13, <2>14, <2>15, <2>16, <2>17, <2>18, <2>19
    DEF Next, Main, Proceed, Rest
<1> QED BY <1>1, <1>2, TypeCorrect, PTL DEF Spec

(* From bootLog on no lookup of the log or of the etcd client panics, in   *)
(* any goroutine, whatever names user code sets.                           *)
THEOREM InstancesAreFound == Spec => []InstancesFound
<1>1. StagesInv => InstancesFound
  BY DEF StagesInv, InstancesFound, BeforeLog
<1> QED BY <1>1, StagesHold, PTL

(* Whatever config.yml says, a server listens only in a process that has   *)
(* its options, its databases and the goroutines that keep its node list.  *)
THEOREM ListenersAreReady == Spec => []ListensReady
<1>1. ServeInv => ListensReady
  BY DEF ServeInv, ListensReady, BeforeLog, BeforeEtcd, BeforeAdd
<1> QED BY <1>1, StagesHold, PTL

-----------------------------------------------------------------------------
(* The name being written is that of one node only.                        *)
Named(n) == {h \in handed : Entry(h).name = n}

RaceInv ==
  /\ \A n \in writing : Cardinality(Named(n)) = 1
  /\ editing => edited
  /\ ended = "mapRace" => edited \/ writing # {}

LEMMA HandOne ==
  ASSUME NEW s, NEW way, Hand(s, way), conf' = conf
  PROVE  \A n \in writing' : Cardinality(Named(n)') = 1
<1> DEFINE h0 == <<s, way>>
<1> SUFFICES ASSUME NEW n \in writing' PROVE Cardinality(Named(n)') = 1
  OBVIOUS
<1>1. handed' = handed \cup {h0} /\ writing' = {Entry(h0).name} \ KnownNames
  BY DEF Hand, CreateServiceIndex
<1>2. n = Entry(h0).name /\ \A h \in handed : Entry(h).name # n
  BY <1>1 DEF KnownNames
<1>3. \A h : Entry(h)' = Entry(h)
  BY DEF Entry, ListEntry, WatchEntry, Listed, Key
<1>4. Named(n)' = {h0}
  <2>1. Named(n)' = {h \in handed' : Entry(h)'.name = n}
    BY <1>3 DEF Named
  <2> QED BY <1>1, <1>2, <1>3, <2>1
<1> QED BY <1>4, FS_Singleton

LEMMA NamedSame == conf' = conf /\ handed' = handed => \A n : Named(n)' = Named(n)
BY DEF Named, Entry, ListEntry, WatchEntry, Listed, Key

(* A map is read while it is written only after a change of routes.yml or  *)
(* at the first node of a service, for any directory and configuration.    *)
THEOREM RacesOnlyAtFirstNodes == Spec => []RacesAtFirstNodes
<1>1. Init => RaceInv
  BY DEF Init, RaceInv
<1>2. RaceInv /\ [Next]_vars => RaceInv'
  <2> SUFFICES ASSUME RaceInv, [Next]_vars PROVE RaceInv'
    OBVIOUS
  <2> USE NamedSame DEF RaceInv, directory, own, edits, Pass
  <2>1. CASE Config \/ CheckConfig \/ KeepAlive \/ BootOpenTracing
    BY <2>1 DEF Config, CheckConfig, KeepAlive, BootOpenTracing
  <2>2. CASE Unmarshal \/ BootService \/ Watch \/ Run
    BY <2>2 DEF Unmarshal, BootService, Watch, Run
  <2>3. CASE UnmarshalError \/ Fail \/ Panic
    BY <2>3 DEF UnmarshalError, Fail, Panic, Fatal
  <2>4. CASE BootLog \/ BootEtcd \/ PutKey \/ BootDb \/ BootRedis
    BY <2>4 DEF BootLog, BootEtcd, PutKey, BootDb, BootRedis
  <2>5. CASE List
    BY <2>5 DEF List
  <2>6. ASSUME NEW s, Add(s) PROVE RaceInv'
    BY <2>6, HandOne DEF Add
  <2>7. ASSUME NEW s, Join(s) PROVE RaceInv'
    BY <2>7, HandOne DEF Join
  <2>8. CASE Managed
    BY <2>8 DEF Managed
  <2>9. CASE ConfigChange \/ SendRoutes \/ CallRaces \/ Follow
    BY <2>9 DEF ConfigChange, SendRoutes, CallRaces, Follow
  <2>10. ASSUME NEW g, Listen(g) PROVE RaceInv'
    BY <2>10 DEF Listen, Fatal
  <2>11. ASSUME NEW n, Set(n) PROVE RaceInv'
    BY <2>11 DEF Set
  <2>12. CASE Expire
    BY <2>12 DEF Expire
  <2>13. CASE UNCHANGED vars
    BY <2>13 DEF vars
  <2> QED
    BY <2>1, <2>2, <2>3, <2>4, <2>5, <2>6, <2>7, <2>8, <2>9, <2>10, <2>11, <2>12,
       <2>13
    DEF Next, Main, Proceed, Rest
<1>3. RaceInv => RacesAtFirstNodes
  BY DEF RaceInv, RacesAtFirstNodes, Named
<1> QED BY <1>1, <1>2, <1>3, PTL DEF Spec

-----------------------------------------------------------------------------
(* strings.Split. A separator occurs where its atoms are.                  *)
LEMMA OccursAt ==
  ASSUME NEW s \in Text, NEW sep \in Text, NEW p \in Nat \ {0}
  PROVE  Occurs(sep, s, p) <=> /\ p + Len(sep) <= Len(s) + 1
                               /\ \A i \in 1 .. Len(sep) : s[p + i - 1] = sep[i]
<1> SUFFICES ASSUME p + Len(sep) <= Len(s) + 1
             PROVE  SubSeq(s, p, p + Len(sep) - 1) = sep
                      <=> \A i \in 1 .. Len(sep) : s[p + i - 1] = sep[i]
  BY DEF Occurs
<1> DEFINE t == SubSeq(s, p, p + Len(sep) - 1)
<1>1. \A i \in p .. p + Len(sep) - 1 : s[i] \in Atoms
  BY DEF Text
<1>2. t \in Text /\ Len(t) = Len(sep) /\ \A i \in 1 .. Len(sep) : t[i] = s[p + i - 1]
  BY <1>1, SubSeqProperties DEF Text
<1> HIDE DEF t
<1>3. (\A i \in 1 .. Len(sep) : t[i] = sep[i]) => t = sep
  BY <1>2, SeqEqual DEF Text
<1> QED BY <1>2, <1>3 DEF t

LEMMA UnderscoreFacts ==
  /\ Underscore \in Text /\ Underscore # <<>>
  /\ Len(Underscore) = 1 /\ Underscore[1] = Bar
<1>1. Len(Underscore) = 1 /\ Underscore[1] = Bar /\ Underscore # <<>>
  BY DEF Underscore
<1>2. Underscore \in Seq(Atoms)
  BY ServiceKeyAssumption DEF Underscore
<1> QED BY <1>1, <1>2 DEF Text

LEMMA HasUnderscore ==
  ASSUME NEW s \in Text
  PROVE  Has(s, Underscore) <=> \E i \in DOMAIN s : s[i] = Bar
<1>2. ASSUME NEW p \in DOMAIN s PROVE Occurs(Underscore, s, p) <=> s[p] = Bar
  <2>1. p \in Nat \ {0} /\ p <= Len(s)
    BY DEF Text
  <2>2. Len(s) \in Nat
    BY DEF Text
  <2>3. Occurs(Underscore, s, p) <=>
          /\ p + Len(Underscore) <= Len(s) + 1
          /\ \A i \in 1 .. Len(Underscore) : s[p + i - 1] = Underscore[i]
    BY <2>1, UnderscoreFacts, OccursAt
  <2>4. \A i \in 1 .. Len(Underscore) : i = 1 /\ p + i - 1 = p
    BY <2>1, UnderscoreFacts
  <2>5. 1 \in 1 .. Len(Underscore)
    BY UnderscoreFacts
  <2> QED BY <2>1, <2>2, <2>3, <2>4, <2>5, UnderscoreFacts
<1> QED BY <1>2 DEF Has

(* What is before and after the first occurrence.                          *)
LEMMA SplitAt ==
  ASSUME NEW a \in Text, NEW sep \in Text, NEW b \in Text, sep # <<>>,
         \A q \in 1 .. Len(a) : ~Occurs(sep, a \o sep \o b, q)
  PROVE  /\ Has(a \o sep \o b, sep)
         /\ Before(a \o sep \o b, sep) = a
         /\ After(a \o sep \o b, sep) = b
<1> DEFINE k == a \o sep \o b
<1>1. /\ k \in Text /\ Len(k) = Len(a) + Len(sep) + Len(b)
      /\ \A i \in 1 .. Len(a) : k[i] = a[i]
      /\ \A i \in 1 .. Len(sep) : k[Len(a) + i] = sep[i]
      /\ \A i \in 1 .. Len(b) : k[Len(a) + Len(sep) + i] = b[i]
  BY ConcatProperties DEF Text
<1>2. Len(a) \in Nat /\ Len(sep) \in Nat \ {0} /\ Len(b) \in Nat
  BY DEF Text
<1>3. \A q \in 1 .. Len(a) : ~Occurs(sep, k, q)
  OBVIOUS
<1> HIDE DEF k
<1>4. Len(a) + 1 \in DOMAIN k /\ Occurs(sep, k, Len(a) + 1)
  <2>1. Len(a) + 1 \in Nat \ {0} /\ Len(a) + 1 \in 1 .. Len(k)
    BY <1>1, <1>2
  <2>2. \A i \in 1 .. Len(sep) : k[Len(a) + 1 + i - 1] = sep[i]
    BY <1>1, <1>2
  <2>3. Len(a) + 1 + Len(sep) <= Len(k) + 1
    BY <1>1, <1>2
  <2>4. \A p \in Nat \ {0} :
          /\ p + Len(sep) <= Len(k) + 1
          /\ \A i \in 1 .. Len(sep) : k[p + i - 1] = sep[i]
          => Occurs(sep, k, p)
    BY <1>1, OccursAt
  <2>5. Occurs(sep, k, Len(a) + 1)
    BY <2>1, <2>2, <2>3, <2>4
  <2> QED BY <1>1, <2>1, <2>5 DEF Text
<1>5. First(k, sep) = Len(a) + 1
  <2>1. \A q \in 1 .. Len(a) + 1 - 1 : ~Occurs(sep, k, q)
    BY <1>2, <1>3
  <2>2. \A p \in DOMAIN k : Occurs(sep, k, p) /\ (\A q \in 1 .. p - 1 : ~Occurs(sep, k, q))
                             => p = Len(a) + 1
    BY <1>1, <1>2, <1>3, <1>4 DEF Text
  <2> QED BY <1>4, <2>1, <2>2 DEF First
<1>6. Has(k, sep)
  BY <1>4 DEF Has
<1>7. Before(k, sep) = a
  <2>1. Before(k, sep) = SubSeq(k, 1, Len(a))
    BY <1>2, <1>5, <1>6 DEF Before
  <2>2. \A i \in 1 .. Len(a) : k[i] \in Atoms
    BY <1>1 DEF Text
  <2>3. /\ SubSeq(k, 1, Len(a)) \in Text /\ Len(SubSeq(k, 1, Len(a))) = Len(a)
        /\ \A i \in 1 .. Len(a) : SubSeq(k, 1, Len(a))[i] = a[i]
    BY <1>1, <1>2, <2>2, SubSeqProperties DEF Text
  <2> QED BY <2>1, <2>3, SeqEqual DEF Text
<1>8. After(k, sep) = b
  <2> DEFINE m == Len(a) + 1 + Len(sep)
             t == SubSeq(k, m, Len(k))
  <2>1. After(k, sep) = t
    BY <1>5 DEF After
  <2>2. \A i \in m .. Len(k) : k[i] \in Atoms
    BY <1>1, <1>2 DEF Text
  <2>3. /\ t \in Text /\ Len(t) = Len(b)
        /\ \A i \in 1 .. Len(b) : t[i] = k[m + i - 1]
    BY <1>1, <1>2, <2>2, SubSeqProperties DEF Text
  <2>4. \A i \in 1 .. Len(b) : m + i - 1 = Len(a) + Len(sep) + i
    BY <1>2
  <2> HIDE DEF t
  <2>5. \A i \in 1 .. Len(b) : t[i] = b[i]
    BY <1>1, <2>3, <2>4
  <2> QED BY <2>1, <2>3, <2>5, SeqEqual DEF Text
<1> QED BY <1>6, <1>7, <1>8 DEF k

LEMMA SplitAtStart ==
  ASSUME NEW sep \in Text, NEW b \in Text, sep # <<>>
  PROVE  After(sep \o b, sep) = b
<1> DEFINE a == <<>>
<1>1. a \in Text /\ 1 .. Len(a) = {} /\ a \o sep = sep
  BY ConcatEmptySeq DEF Text
<1> HIDE DEF a
<1>2. After(a \o sep \o b, sep) = b
  BY <1>1, SplitAt
<1> QED BY <1>1, <1>2

(* A text without a "_" is what is before the first one after it.          *)
LEMMA SplitAtUnderscore ==
  ASSUME NEW a \in Text, NEW b \in Text, ~Has(a, Underscore)
  PROVE  /\ Has(a \o Underscore \o b, Underscore)
         /\ Before(a \o Underscore \o b, Underscore) = a
         /\ After(a \o Underscore \o b, Underscore) = b
<1> DEFINE k == a \o Underscore \o b
<1>1. /\ a \o Underscore \in Text /\ Len(a \o Underscore) = Len(a) + 1
      /\ \A i \in 1 .. Len(a) : (a \o Underscore)[i] = a[i]
  <2>1. /\ a \o Underscore \in Seq(Atoms)
        /\ Len(a \o Underscore) = Len(a) + Len(Underscore)
        /\ \A i \in 1 .. Len(a) + Len(Underscore) :
             (a \o Underscore)[i] = IF i <= Len(a) THEN a[i] ELSE Underscore[i - Len(a)]
    BY UnderscoreFacts, ConcatProperties DEF Text
  <2>2. Len(a) \in Nat
    BY DEF Text
  <2> QED BY <2>1, <2>2, UnderscoreFacts DEF Text
<1>2. k \in Text /\ \A i \in 1 .. Len(a) : k[i] = a[i]
  BY <1>1, ConcatProperties DEF Text
<1>3. ASSUME NEW q \in 1 .. Len(a) PROVE ~Occurs(Underscore, k, q)
  <2>1. q \in DOMAIN a /\ k[q] # Bar
    BY <1>2, HasUnderscore DEF Text
  <2>2. q \in Nat \ {0}
    BY DEF Text
  <2> HIDE DEF k
  <2>3. Occurs(Underscore, k, q) => k[q + 1 - 1] = Bar
    <3>1. 1 \in 1 .. Len(Underscore) /\ Underscore[1] = Bar
      BY UnderscoreFacts
    <3>2. Occurs(Underscore, k, q) =>
            \A i \in 1 .. Len(Underscore) : k[q + i - 1] = Underscore[i]
      BY <1>2, <2>2, UnderscoreFacts, OccursAt
    <3> QED BY <3>1, <3>2
  <2> QED BY <2>1, <2>2, <2>3
<1> QED BY <1>3, UnderscoreFacts, SplitAt

(* Where a separator is found.                                             *)
LEMMA FirstFound ==
  ASSUME NEW t \in Text, NEW sep \in Text, Has(t, sep)
  PROVE  LET p == First(t, sep)
         IN  /\ p \in Nat \ {0} /\ p <= Len(t) /\ Occurs(sep, t, p)
             /\ \A q \in DOMAIN t : Occurs(sep, t, q) => p <= q
             /\ Before(t, sep) \in Text /\ Len(Before(t, sep)) = p - 1
             /\ \A i \in 1 .. p - 1 : Before(t, sep)[i] = t[i]
<1> DEFINE T == {q \in DOMAIN t : Occurs(sep, t, q)}
           p == First(t, sep)
<1>1. DOMAIN t = 1 .. Len(t) /\ Len(t) \in Nat /\ \A i \in 1 .. Len(t) : t[i] \in Atoms
  BY DEF Text
<1>2. T \in SUBSET Nat /\ T # {}
  BY <1>1 DEF Has
<1>3. PICK m \in T : \A q \in T : m <= q
  <2> HIDE DEF T
  <2> QED BY <1>2, LeastNat
<1>4. m \in DOMAIN t /\ Occurs(sep, t, m) /\ \A q \in 1 .. m - 1 : ~Occurs(sep, t, q)
  BY <1>1, <1>3
<1>5. p \in DOMAIN t /\ Occurs(sep, t, p) /\ \A q \in 1 .. p - 1 : ~Occurs(sep, t, q)
  BY <1>4 DEF First
<1> HIDE DEF p
<1>6. p \in Nat \ {0} /\ p <= Len(t) /\ \A q \in DOMAIN t : Occurs(sep, t, q) => p <= q
  BY <1>1, <1>5
<1>7. Before(t, sep) = SubSeq(t, 1, p - 1)
  BY DEF Before, p
<1>8. \A i \in 1 .. p - 1 : t[i] \in Atoms
  BY <1>1, <1>6
<1>9. /\ SubSeq(t, 1, p - 1) \in Seq(Atoms) /\ Len(SubSeq(t, 1, p - 1)) = p - 1
      /\ \A i \in 1 .. p - 1 : SubSeq(t, 1, p - 1)[i] = t[i]
  BY <1>6, <1>8, SubSeqProperties
<1> QED BY <1>5, <1>6, <1>7, <1>9 DEF Text, p

-----------------------------------------------------------------------------
(* The separator of a key, and what is behind it.                          *)
Sep(etcdKey) == etcdKey \o Underscore

LEMMA SepFacts ==
  ASSUME NEW etcdKey \in Text
  PROVE  /\ Sep(etcdKey) \in Text /\ Sep(etcdKey) # <<>>
         /\ Len(Sep(etcdKey)) = Len(etcdKey) + 1
         /\ Sep(etcdKey)[Len(etcdKey) + 1] = Bar
         /\ \A i \in 1 .. Len(etcdKey) : Sep(etcdKey)[i] = etcdKey[i]
<1>1. /\ Sep(etcdKey) \in Seq(Atoms)
      /\ Len(Sep(etcdKey)) = Len(etcdKey) + Len(Underscore)
      /\ \A i \in 1 .. Len(etcdKey) + Len(Underscore) :
           Sep(etcdKey)[i] = IF i <= Len(etcdKey) THEN etcdKey[i]
                                                  ELSE Underscore[i - Len(etcdKey)]
  BY UnderscoreFacts, ConcatProperties DEF Text, Sep
<1>2. Len(etcdKey) \in Nat
  BY DEF Text
<1>3. Len(Sep(etcdKey)) = Len(etcdKey) + 1 /\ Sep(etcdKey)[Len(etcdKey) + 1] = Bar
  BY <1>1, <1>2, UnderscoreFacts
<1>4. \A i \in 1 .. Len(etcdKey) : Sep(etcdKey)[i] = etcdKey[i]
  BY <1>1, <1>2, UnderscoreFacts
<1>5. Sep(etcdKey) # <<>>
  BY <1>2, <1>3
<1> QED BY <1>1, <1>3, <1>4, <1>5 DEF Text

(* It ends in a "_".                                                       *)
LEMMA SepEnds ==
  ASSUME NEW etcdKey \in Text, NEW t \in Text, NEW p \in Nat \ {0}, Occurs(Sep(etcdKey), t, p)
  PROVE  p + Len(etcdKey) \in DOMAIN t /\ t[p + Len(etcdKey)] = Bar
<1>1. /\ p + Len(Sep(etcdKey)) <= Len(t) + 1
      /\ \A i \in 1 .. Len(Sep(etcdKey)) : t[p + i - 1] = Sep(etcdKey)[i]
  BY SepFacts, OccursAt
<1>2. Len(etcdKey) \in Nat /\ Len(t) \in Nat /\ DOMAIN t = 1 .. Len(t)
  BY DEF Text
<1>3. Len(etcdKey) + 1 \in 1 .. Len(Sep(etcdKey)) /\ p + (Len(etcdKey) + 1) - 1 = p + Len(etcdKey)
  BY <1>2, SepFacts
<1>4. t[p + (Len(etcdKey) + 1) - 1] = Bar
  BY <1>1, <1>3, SepFacts
<1> QED BY <1>1, <1>2, <1>3, <1>4, SepFacts

LEMMA BarBetween ==
  ASSUME NEW n \in Text, NEW d \in Text
  PROVE  LET t == n \o Underscore \o d
         IN  /\ t \in Text /\ Len(t) = Len(n) + 1 + Len(d)
             /\ \A i \in 1 .. Len(n) : t[i] = n[i]
             /\ t[Len(n) + 1] = Bar
             /\ \A i \in 1 .. Len(d) : t[Len(n) + 1 + i] = d[i]
<1> DEFINE t == n \o Underscore \o d
<1>1. PICK a \in Text : a = Sep(n)
  BY SepFacts
<1>2. /\ Len(a) = Len(n) + 1 /\ a[Len(n) + 1] = Bar
      /\ \A i \in 1 .. Len(n) : a[i] = n[i]
  BY <1>1, SepFacts
<1>3. t = a \o d
  BY <1>1 DEF Sep
<1> HIDE DEF t
<1>4. Len(n) \in Nat /\ Len(d) \in Nat
  BY DEF Text
<1>5. /\ t \in Seq(Atoms) /\ Len(t) = Len(a) + Len(d)
      /\ \A i \in 1 .. Len(a) + Len(d) :
           t[i] = IF i <= Len(a) THEN a[i] ELSE d[i - Len(a)]
  BY <1>3, ConcatProperties DEF Text
<1>6. \A i \in 1 .. Len(n) : t[i] = n[i]
  BY <1>2, <1>4, <1>5
<1>7. t[Len(n) + 1] = Bar
  BY <1>2, <1>4, <1>5
<1>8. \A i \in 1 .. Len(d) : t[Len(n) + 1 + i] = d[i]
  BY <1>2, <1>4, <1>5
<1> QED BY <1>2, <1>5, <1>6, <1>7, <1>8 DEF Text, t

LEMMA ServiceFacts ==
  ASSUME NEW s \in Server
  PROVE  /\ s.name \in Text /\ s.addr \in Text /\ Service(s) \in Text
         /\ Len(s.name) \in Nat /\ Len(s.addr) \in Nat /\ Len(Service(s)) \in Nat
         /\ s.addr = <<>> => Service(s) = s.name
         /\ s.addr # <<>> =>
              /\ Service(s) = s.name \o Underscore \o s.addr
              /\ Len(Service(s)) = Len(s.name) + 1 + Len(s.addr)
              /\ \A i \in 1 .. Len(s.name) : Service(s)[i] = s.name[i]
              /\ Service(s)[Len(s.name) + 1] = Bar
              /\ \A i \in 1 .. Len(s.addr) : Service(s)[Len(s.name) + 1 + i] = s.addr[i]
<1> DEFINE n == s.name
           d == s.addr
           t == Service(s)
<1>1. n \in Text /\ d \in Text /\ t = IF d = <<>> THEN n ELSE n \o Underscore \o d
  BY DEF Server, Service
<1> HIDE DEF n, d, t
<1>2. Len(n) \in Nat /\ Len(d) \in Nat
  BY <1>1 DEF Text
<1>3. CASE d = <<>>
  BY <1>1, <1>2, <1>3 DEF n, d, t
<1>4. CASE d # <<>>
  <2>1. /\ t \in Text /\ t = n \o Underscore \o d
        /\ Len(t) = Len(n) + 1 + Len(d)
        /\ \A i \in 1 .. Len(n) : t[i] = n[i]
        /\ t[Len(n) + 1] = Bar
        /\ \A i \in 1 .. Len(d) : t[Len(n) + 1 + i] = d[i]
    BY <1>1, <1>4, BarBetween
  <2>2. Len(t) \in Nat
    BY <1>2, <2>1
  <2> QED BY <1>1, <1>2, <1>4, <2>1, <2>2 DEF n, d, t
<1> QED BY <1>3, <1>4

(* Name and address, if neither has a "_", are its parts.                  *)
LEMMA ServiceSplits ==
  ASSUME NEW s \in Server, s.addr # <<>>,
         ~Has(s.name, Underscore), ~Has(s.addr, Underscore)
  PROVE  /\ Before(Service(s), Underscore) = s.name
         /\ After(Service(s), Underscore) = s.addr
         /\ Before(s.addr, Underscore) = s.addr
<1> DEFINE n == s.name
           d == s.addr
           t == Service(s)
<1>1. n \in Text /\ d \in Text /\ t = n \o Underscore \o d /\ ~Has(n, Underscore)
  BY ServiceFacts
<1>2. Before(d, Underscore) = d
  BY DEF Before
<1> HIDE DEF n, d, t
<1>3. Before(t, Underscore) = n /\ After(t, Underscore) = d
  BY <1>1, SplitAtUnderscore
<1> QED BY <1>2, <1>3 DEF n, d, t

(* What getAllServices keeps of a key.                                     *)
LEMMA ListedFacts ==
  ASSUME NEW etcdKey \in Text, NEW s \in Server
  PROVE  Listed(etcdKey, Key(etcdKey, s)) = Before(Service(s), Sep(etcdKey))
<1>1. After(Sep(etcdKey) \o Service(s), Sep(etcdKey)) = Service(s)
  BY SepFacts, ServiceFacts, SplitAtStart
<1> QED BY <1>1 DEF Listed, Key, Sep

(* An entry without a second part comes of a key without an address, or    *)
(* with the separator in it once more.                                     *)
LEMMA PanicNeeds ==
  ASSUME NEW etcdKey \in Text, NEW s \in Server, s.addr # <<>>,
         ListPanics(etcdKey, Key(etcdKey, s))
  PROVE  Has(Service(s), Sep(etcdKey))
<1> SUFFICES ASSUME ~Has(Service(s), Sep(etcdKey)) PROVE FALSE
  OBVIOUS
<1>1. Listed(etcdKey, Key(etcdKey, s)) = Service(s)
  BY ListedFacts DEF Before
<1>2. ~Has(Service(s), Underscore)
  BY <1>1 DEF ListPanics
<1> DEFINE n == Len(s.name)
           d == Len(s.addr)
           t == Service(s)
<1>3. n + 1 \in DOMAIN t
  <2>1. n \in Nat /\ d \in Nat /\ t \in Text /\ Len(t) = n + 1 + d
    BY ServiceFacts
  <2> HIDE DEF n, d, t
  <2> QED BY <2>1 DEF Text
<1> QED BY <1>2, <1>3, ServiceFacts, HasUnderscore

(* A separator in what has at most one "_", of which nothing is kept but   *)
(* what is before the "_".                                                 *)
LEMMA CutPanics ==
  ASSUME NEW etcdKey \in Text, NEW s \in Server, ~Has(s.name, Underscore),
         NEW p \in DOMAIN Service(s), Occurs(Sep(etcdKey), Service(s), p),
         p <= Len(s.name) + 1
  PROVE  ListPanics(etcdKey, Key(etcdKey, s))
<1> DEFINE t == Service(s)
           b == Before(t, Sep(etcdKey))
           q == First(t, Sep(etcdKey))
<1>1. t \in Text /\ s.name \in Text /\ Has(t, Sep(etcdKey))
  BY ServiceFacts DEF Has
<1>2. /\ q \in Nat \ {0} /\ q <= p
      /\ b \in Text /\ Len(b) = q - 1
      /\ \A i \in 1 .. q - 1 : b[i] = t[i]
  BY <1>1, SepFacts, FirstFound
<1>3. Len(s.name) \in Nat /\ DOMAIN s.name = 1 .. Len(s.name) /\ p \in Int
  BY <1>1 DEF Text
<1>4. \A i \in 1 .. Len(s.name) : t[i] = s.name[i]
  BY ServiceFacts
<1>5. \A i \in 1 .. Len(s.name) : s.name[i] # Bar
  BY <1>1, <1>3, HasUnderscore
<1> HIDE DEF b, q, t
<1>6. \A i \in 1 .. Len(b) : b[i] # Bar
  BY <1>2, <1>3, <1>4, <1>5
<1>7. DOMAIN b = 1 .. Len(b)
  BY <1>2 DEF Text
<1>8. ~Has(b, Underscore)
  BY <1>2, <1>6, <1>7, HasUnderscore
<1> QED BY <1>8, ListedFacts DEF ListPanics, b, t

(* The list takes a key apart as it was put together.                      *)
LEMMA ListReads ==
  ASSUME NEW etcdKey \in Text, NEW s \in Server,
         ~Has(s.name, Underscore), ~Has(s.addr, Underscore),
         ~ListPanics(etcdKey, Key(etcdKey, s))
  PROVE  ListEntry(etcdKey, Key(etcdKey, s)) = s
<1>1. /\ Len(s.name) \in Nat /\ DOMAIN s.name = 1 .. Len(s.name)
      /\ Len(s.addr) \in Nat /\ DOMAIN s.addr = 1 .. Len(s.addr)
      /\ Len(etcdKey) \in Nat /\ DOMAIN Service(s) = 1 .. Len(Service(s))
  BY ServiceFacts DEF Text
<1>2. ASSUME NEW p \in DOMAIN Service(s), Occurs(Sep(etcdKey), Service(s), p)
      PROVE  p <= Len(s.name) + 1
  <2>1. p \in Nat \ {0}
    BY <1>1
  <2>2. p + Len(etcdKey) \in DOMAIN Service(s) /\ Service(s)[p + Len(etcdKey)] = Bar
    BY <1>2, <2>1, ServiceFacts, SepEnds
  <2>3. CASE s.addr = <<>>
    <3> DEFINE n == Len(s.name)
               k == Len(etcdKey)
    <3>1. p + k \in 1 .. n
      BY <1>1, <2>2, <2>3, ServiceFacts
    <3>2. n \in Nat /\ k \in Nat
      BY <1>1
    <3> HIDE DEF n, k
    <3>3. p <= n + 1
      BY <2>1, <3>1, <3>2
    <3> QED BY <3>3 DEF n
  <2>4. CASE s.addr # <<>>
    <3> DEFINE n == Len(s.name)
               d == Len(s.addr)
               k == Len(etcdKey)
               i == p + k - n - 1
    <3>1. n \in Nat /\ d \in Nat /\ k \in Nat /\ p + k \in 1 .. n + 1 + d
      BY <1>1, <2>2, <2>4, ServiceFacts
    <3>2. \A j \in 1 .. d : Service(s)[n + 1 + j] # Bar
      <4>1. \A j \in 1 .. d : Service(s)[n + 1 + j] = s.addr[j]
        BY <2>4, ServiceFacts
      <4>2. \A j \in 1 .. d : s.addr[j] # Bar
        BY <1>1, ServiceFacts, HasUnderscore
      <4> QED BY <4>1, <4>2
    <3>3. Service(s)[p + k] = Bar
      BY <2>2
    <3> HIDE DEF n, d, k
    <3>4. p > n + 1 => i \in 1 .. d /\ n + 1 + i = p + k
      BY <2>1, <3>1
    <3> HIDE DEF i
    <3>5. p <= n + 1
      BY <2>1, <3>1, <3>2, <3>3, <3>4
    <3> QED BY <3>5 DEF n
  <2> QED BY <2>3, <2>4
<1>3. ~Has(Service(s), Sep(etcdKey))
  BY <1>2, CutPanics DEF Has
<1>4. Listed(etcdKey, Key(etcdKey, s)) = Service(s)
  BY <1>3, ListedFacts DEF Before
<1>5. s.addr # <<>>
  BY <1>4, ServiceFacts DEF ListPanics
<1>6. /\ Before(Service(s), Underscore) = s.name
      /\ After(Service(s), Underscore) = s.addr
      /\ Before(s.addr, Underscore) = s.addr
  BY <1>5, ServiceSplits
<1>7. ListEntry(etcdKey, Key(etcdKey, s)) = [name |-> s.name, addr |-> s.addr]
  BY <1>4, <1>6 DEF ListEntry
<1> QED BY <1>7 DEF Server

(* The watch does, if the etcdKey has no "_" either.                       *)
LEMMA WatchReads ==
  ASSUME NEW etcdKey \in Text, NEW s \in Server, s.addr # <<>>,
         ~Has(etcdKey, Underscore), ~Has(s.name, Underscore), ~Has(s.addr, Underscore)
  PROVE  WatchEntry(Key(etcdKey, s)) = s
<1>1. After(Key(etcdKey, s), Underscore) = Service(s)
  BY ServiceFacts, SplitAtUnderscore DEF Key
<1>2. /\ Before(Service(s), Underscore) = s.name
      /\ After(Service(s), Underscore) = s.addr
      /\ Before(s.addr, Underscore) = s.addr
  BY ServiceSplits
<1>3. WatchEntry(Key(etcdKey, s)) = [name |-> s.name, addr |-> s.addr]
  BY <1>1, <1>2 DEF WatchEntry
<1> QED BY <1>3 DEF Server

(* A name that ends in the etcdKey, with the "_" behind it, is a separator. *)
LEMMA SuffixOccurs ==
  ASSUME NEW etcdKey \in Text, NEW a \in Text, NEW n \in Text, n = a \o etcdKey,
         NEW t \in Text, Len(n) + 1 <= Len(t), t[Len(n) + 1] = Bar,
         \A i \in 1 .. Len(n) : t[i] = n[i]
  PROVE  /\ Len(a) + 1 \in DOMAIN t /\ Len(a) + 1 <= Len(n) + 1
         /\ Occurs(Sep(etcdKey), t, Len(a) + 1)
<1>1. Len(a) \in Nat /\ Len(etcdKey) \in Nat /\ Len(t) \in Nat /\ DOMAIN t = 1 .. Len(t)
  BY DEF Text
<1>2. /\ Len(n) = Len(a) + Len(etcdKey)
      /\ \A i \in 1 .. Len(a) + Len(etcdKey) :
           n[i] = IF i <= Len(a) THEN a[i] ELSE etcdKey[i - Len(a)]
  BY ConcatProperties DEF Text
<1>3. ASSUME NEW i \in 1 .. Len(etcdKey) + 1
      PROVE  t[Len(a) + 1 + i - 1] = Sep(etcdKey)[i]
  <2>1. Len(a) + 1 + i - 1 = Len(a) + i
    BY <1>1
  <2>2. CASE i = Len(etcdKey) + 1
    <3>1. Len(a) + i = Len(n) + 1
      BY <1>1, <1>2, <2>2
    <3> QED BY <2>1, <2>2, <3>1, SepFacts
  <2>3. CASE i \in 1 .. Len(etcdKey)
    <3>1. /\ Len(a) + i \in 1 .. Len(n) /\ ~(Len(a) + i <= Len(a))
          /\ Len(a) + i - Len(a) = i
      BY <1>1, <1>2, <2>3
    <3>2. n[Len(a) + i] = etcdKey[i]
      BY <1>2, <3>1
    <3> QED BY <2>1, <2>3, <3>1, <3>2, SepFacts
  <2> QED BY <1>1, <2>2, <2>3
<1>4. Len(a) + 1 \in Nat \ {0} /\ Len(a) + 1 + (Len(etcdKey) + 1) <= Len(t) + 1
  BY <1>1, <1>2
<1>5. Occurs(Sep(etcdKey), t, Len(a) + 1)
  BY <1>3, <1>4, SepFacts, OccursAt
<1> QED BY <1>1, <1>2, <1>5

(* The key of a service whose name ends in the etcdKey and has no          *)
(* underscore is never read: it makes every process of the etcdKey that    *)
(* lists it panic. (One with an underscore is read as another entry, as    *)
(* x_myrain under the key rain is as the name x at the address my.)        *)
THEOREM SuffixPanics ==
  ASSUME NEW etcdKey \in Text, NEW a \in Text, NEW s \in Server,
         s.name = a \o etcdKey, ~Has(s.name, Underscore), s.addr # <<>>
  PROVE  ListPanics(etcdKey, Key(etcdKey, s))
<1> DEFINE n == s.name
           t == Service(s)
<1>1. /\ n \in Text /\ n = a \o etcdKey /\ t \in Text
      /\ Len(n) + 1 <= Len(t) /\ t[Len(n) + 1] = Bar
      /\ \A i \in 1 .. Len(n) : t[i] = n[i]
  <2>1. \A i, j \in Nat : i + 1 <= i + 1 + j
    OBVIOUS
  <2> QED BY <2>1, ServiceFacts
<1> HIDE DEF n, t
<1>2. /\ Len(a) + 1 \in DOMAIN t /\ Len(a) + 1 <= Len(n) + 1
      /\ Occurs(Sep(etcdKey), t, Len(a) + 1)
  BY <1>1, SuffixOccurs
<1> QED BY <1>2, CutPanics DEF n, t

-----------------------------------------------------------------------------
(* Which steps hand over a key and which change what was listed.           *)
LEMMA KeysChange ==
  ASSUME [Next]_vars
  PROVE  /\ conf' = conf
         /\ \/ handed' = handed
            \/ \E s \in Servers \cup {conf.self} : Add(s)
            \/ \E s \in Servers : Join(s)
         /\ listed' = listed \/ (ended = "no" /\ ended' = "no")
         /\ ended' # "panic" \/ ended = "panic" \/ Panic
<1> USE DEF directory, own, edits, Pass
<1>1. CASE Config \/ CheckConfig \/ KeepAlive \/ BootOpenTracing
  BY <1>1 DEF Config, CheckConfig, KeepAlive, BootOpenTracing
<1>2. CASE Unmarshal \/ BootService \/ Watch \/ Run
  BY <1>2 DEF Unmarshal, BootService, Watch, Run
<1>3. CASE UnmarshalError \/ Fail
  BY <1>3 DEF UnmarshalError, Fail, Fatal
<1>4. CASE Panic
  BY <1>4 DEF Panic
<1>5. CASE BootLog \/ BootEtcd \/ PutKey \/ BootDb \/ BootRedis
  BY <1>5 DEF BootLog, BootEtcd, PutKey, BootDb, BootRedis
<1>6. CASE List
  BY <1>6 DEF List
<1>7. CASE \E s \in Servers \cup {conf.self} : Add(s)
  BY <1>7 DEF Add
<1>8. CASE \E s \in Servers : Join(s)
  BY <1>8 DEF Join
<1>9. CASE Managed \/ ConfigChange \/ SendRoutes \/ CallRaces \/ Follow
  BY <1>9 DEF Managed, ConfigChange, SendRoutes, CallRaces, Follow
<1>10. ASSUME NEW g, Listen(g) PROVE conf' = conf /\ handed' = handed /\ listed' = listed
                                     /\ (ended' # "panic" \/ ended = "panic")
  BY <1>10 DEF Listen, Fatal
<1>11. CASE (\E n \in Names : Set(n)) \/ Expire \/ UNCHANGED vars
  BY <1>11 DEF Set, Expire, vars
<1> QED
  BY <1>1, <1>2, <1>3, <1>4, <1>5, <1>6, <1>7, <1>8, <1>9, <1>10, <1>11
  DEF Next, Main, Proceed, Rest

(* Whatever is in the directory and the configuration, main panics on      *)
(* nothing but the inputs named.                                           *)
THEOREM PanicsOnBadInput == Spec => []PanicsOnlyOnBadInput
<1>1. Init => PanicsOnlyOnBadInput
  BY DEF Init, PanicsOnlyOnBadInput
<1>2. TypeOK /\ PanicsOnlyOnBadInput /\ [Next]_vars => PanicsOnlyOnBadInput'
  <2> SUFFICES ASSUME TypeOK, PanicsOnlyOnBadInput, [Next]_vars, ended' = "panic"
               PROVE  \/ conf'.db \in {"text", "untyped"} \/ conf'.redis = "text"
                      \/ \E s \in listed' : s.addr = <<>>
                                            \/ Has(Service(s), Sep(conf'.etcdKey))
    BY DEF PanicsOnlyOnBadInput, Sep
  <2>1. CASE ended = "panic"
    BY <2>1, KeysChange DEF PanicsOnlyOnBadInput, Sep
  <2>2. CASE ended # "panic"
    <3>1. Panic /\ conf' = conf /\ listed' = listed
      BY <2>2, KeysChange
    <3>2. conf \in Configs /\ conf.etcdKey \in Text /\ listed \subseteq Server
      BY BootAssumption DEF TypeOK, IsConfig
    <3>3. ASSUME NEW s \in toAdd, ListPanics(conf.etcdKey, Key(conf.etcdKey, s))
          PROVE  s \in listed /\ (s.addr = <<>> \/ Has(Service(s), Sep(conf.etcdKey)))
      <4>1. s \in listed /\ s \in Server
        BY <3>2 DEF TypeOK
      <4> QED BY <3>2, <3>3, <4>1, PanicNeeds
    <3>4. IsMap(conf.db) /\ "panic" \in DbConnect[conf.db] => conf.db = "untyped"
      BY <3>2, BootAssumption DEF IsConfig, DbConfigs, IsMap, DbConnect
    <3> QED BY <3>1, <3>3, <3>4 DEF Panic, MayPanic
  <2> QED BY <2>1, <2>2
<1> QED BY <1>1, <1>2, TypeCorrect, PTL DEF Spec

(* The list hands over no key it panics on, the watch none without an      *)
(* address.                                                                *)
HandInv ==
  \A h \in handed :
    \/ h[2] = "list" /\ ~ListPanics(conf.etcdKey, Key(conf.etcdKey, h[1]))
    \/ h[2] = "watch" /\ h[1].addr # <<>>

(* Both ways lead to the server that put the key.                          *)
THEOREM ServersAreRead == Spec => []EntriesAreServers
<1>1. Init => HandInv
  BY DEF Init, HandInv
<1>2. HandInv /\ [Next]_vars => HandInv'
  <2> SUFFICES ASSUME HandInv, [Next]_vars PROVE HandInv'
    OBVIOUS
  <2>1. CASE handed' = handed
    BY <2>1, KeysChange DEF HandInv
  <2>2. ASSUME NEW s, Add(s) PROVE HandInv'
    <3>1. handed' = handed \cup {<<s, "list">>} /\ ~ListPanics(conf.etcdKey, Key(conf.etcdKey, s))
      BY <2>2 DEF Add, Hand
    <3> QED BY <3>1, KeysChange DEF HandInv
  <2>3. ASSUME NEW s, Join(s) PROVE HandInv'
    <3>1. handed' = handed \cup {<<s, "watch">>} /\ s.addr # <<>>
      BY <2>3 DEF Join, Hand
    <3> QED BY <3>1, KeysChange DEF HandInv
  <2> QED BY <2>1, <2>2, <2>3, KeysChange
<1>3. TypeOK /\ HandInv => EntriesAreServers
  <2> SUFFICES ASSUME TypeOK, HandInv, NEW h \in handed,
                      ~Has(h[1].name, Underscore), ~Has(h[1].addr, Underscore),
                      h[2] = "watch" => ~Has(conf.etcdKey, Underscore)
               PROVE  Entry(h) = h[1]
    BY DEF EntriesAreServers
  <2>1. conf.etcdKey \in Text /\ h[1] \in Server
    BY BootAssumption DEF TypeOK, IsConfig
  <2>2. CASE h[2] = "list" /\ ~ListPanics(conf.etcdKey, Key(conf.etcdKey, h[1]))
    BY <2>1, <2>2, ListReads DEF Entry
  <2>3. CASE h[2] = "watch" /\ h[1].addr # <<>>
    BY <2>1, <2>3, WatchReads DEF Entry
  <2> QED BY <2>2, <2>3 DEF HandInv
<1> QED BY <1>1, <1>2, <1>3, TypeCorrect, PTL DEF Spec
=============================================================================
