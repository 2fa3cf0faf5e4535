-------------------------------- MODULE Boot --------------------------------
(***************************************************************************)
(* The boot of one process: New runs bootstrap step by step, user code may *)
(* then Set instances of its own and call Run. Along the way goroutines    *)
(* are started that use what is in the container (the log, the etcd        *)
(* client), and the process enters the directory before it serves. A step  *)
(* that fails calls Log(FatalLevel, ...), which is to end the process with *)
(* the error written to the log.                                           *)
(*                                                                         *)
(* Two maps are written while others may read them: r.services by the      *)
(* manager, at the first node of a service, and cfg.Routes by the watcher  *)
(* of routes.yml. Go's runtime may then end the process.                   *)
(***************************************************************************)
EXTENDS Integers, FiniteSets, ServiceKey

CONSTANTS
  Custom,     \* names user code gives to instances of its own
  Configs,    \* what config.yml may say
  Servers     \* the other keys of the directory

(* unSafeList: the names only the framework may set.                       *)
Safe == {"log", "db", "redis", "etcd"}
Names == Safe \cup Custom

Required == {"serviceName", "httpPort", "rpcPort", "callKey", "callRetry",
             "etcdKey", "etcdAddress"}
Options == Required \cup {"serviceIp", "zipkinAddress", "jaegerAddress"}
DbConfigs == {"none", "text", "unsupported", "untyped", "good"}
RedisConfigs == {"none", "text", "untyped", "good"}

(* "text": the entry is no map. "untyped": one of its values has another   *)
(* type than the driver asserts.                                           *)
IsConfig(c) ==
  /\ c.set \subseteq Options
  /\ c.tracer \in {"zipkin", "jaeger", "other"}
  /\ c.db \in DbConfigs /\ c.redis \in RedisConfigs
  /\ c.etcdKey \in Text /\ c.self \in Server

ASSUME BootAssumption == /\ Custom \cap Safe = {}
                         /\ \A c \in Configs : IsConfig(c)
                         /\ Servers \subseteq Server

VARIABLES
  conf,       \* config.yml: one of Configs, for good
  pc,         \* the step of bootstrap and Run that main is at
  container,  \* who set the instance of each name
  logBoot,    \* the logBoot field
  started,    \* the goroutines started
  listening,  \* the servers that listen
  listed,     \* the keys listed at boot
  toAdd,      \* those not handed to the manager yet
  handed,     \* the keys handed to it, with the way they came
  writing,    \* the new service the manager is writing to r.services
  editing,    \* cfg.Routes is being written
  edited,     \* it was, since the boot began
  key,        \* this process is in the directory ...
  leased,     \* ... under a lease
  ended       \* "no", or how the process ended

directory == <<listed, toAdd, handed, writing>>
own == <<key, leased>>
edits == <<editing, edited>>
vars == <<conf, pc, container, logBoot, started, listening, directory, edits,
          own, ended>>

Points == {"config", "merge", "unmarshal", "check", "log", "etcd", "ip", "put",
           "keep", "list", "add", "tracing", "db", "redis", "run", "serve"}
Goroutines == {"configWatch", "manager", "serviceWatcher", "poller", "http", "rpc"}

-----------------------------------------------------------------------------
(* Log takes the logger from the container before all else; the type       *)
(* assertion of GetLog panics when there is none or one of another type.   *)
Found(n) == container[n] = "framework"
Fatal == ended' = IF Found("log") THEN "fatal" ELSE "logPanic"

(* In main: go on from step p to step q.                                   *)
Pass(p, q) == /\ pc = p /\ ended = "no"
              /\ pc' = q
              /\ UNCHANGED <<conf, listening, edits, ended>>

(* setSafe.                                                                *)
Put(n) == container' = [container EXCEPT ![n] = "framework"]
Start(G) == started' = started \cup G

(* ReadInConfig and MergeInConfig.                                         *)
Config == /\ Pass("config", "merge") \/ Pass("merge", "unmarshal")
          /\ UNCHANGED <<container, logBoot, started, directory, own>>

(* unmarshalConfig logs an error and goes on; then viper's watcher starts. *)
Unmarshal == /\ Pass("unmarshal", "check")
             /\ Start({"configWatch"})
             /\ UNCHANGED <<container, logBoot, directory, own>>
UnmarshalError ==
  /\ pc = "unmarshal" /\ ended = "no"
  /\ IF Found("log") THEN UNCHANGED ended ELSE ended' = "logPanic"
  /\ UNCHANGED <<conf, pc, container, logBoot, started, listening, directory,
                 edits, own>>

Complete == /\ Required \subseteq conf.set
            /\ \/ conf.tracer = "zipkin" /\ "zipkinAddress" \in conf.set
               \/ conf.tracer = "jaeger" /\ "jaegerAddress" \in conf.set

CheckConfig == /\ Complete
               /\ Pass("check", "log")
               /\ UNCHANGED <<container, logBoot, started, directory, own>>

BootLog == /\ Pass("log", "etcd")
           /\ Put("log") /\ logBoot' = 1
           /\ UNCHANGED <<started, directory, own>>

BootEtcd == /\ Pass("etcd", "ip")
            /\ Put("etcd")
            /\ UNCHANGED <<logBoot, started, directory, own>>

(* bootService: the manager's goroutine is started before serviceRegister, *)
(* which sends to it on a channel without a buffer. Slip: it is not.       *)
BootServiceLate == /\ Pass("ip", "put")
                   /\ UNCHANGED <<container, logBoot, started, directory, own>>

BootService == /\ Pass("ip", "put")
               /\ Start({"manager"})
               /\ UNCHANGED <<container, logBoot, directory, own>>

(* serviceRegister. Slip: the key is put without the lease.                *)
PutKeyUnleased == /\ Pass("put", "keep")
                  /\ key' = TRUE
                  /\ UNCHANGED <<container, logBoot, started, directory, leased>>

PutKey == /\ Pass("put", "keep")
          /\ key' = TRUE /\ leased' = TRUE
          /\ UNCHANGED <<container, logBoot, started, directory>>

KeepAlive == /\ Pass("keep", "list")
             /\ UNCHANGED <<container, logBoot, started, directory, own>>

(* getAllServices: nothing when the Get fails.                             *)
List == /\ Pass("list", "add")
        /\ listed' \in {{}} \cup {{conf.self} \cup S : S \in SUBSET Servers}
        /\ toAdd' = listed'
        /\ UNCHANGED <<container, logBoot, started, handed, writing, own>>

-----------------------------------------------------------------------------
(* The manager, and the two who hand it nodes.                             *)

Entry(h) == IF h[2] = "list"
            THEN ListEntry(conf.etcdKey, Key(conf.etcdKey, h[1]))
            ELSE WatchEntry(Key(conf.etcdKey, h[1]))

KnownNames == {Entry(h).name : h \in handed}

(* The manager receives when it is done with the last node. It writes the  *)
(* map for a service it does not know (createServiceIndex).                *)
(* Slip: it writes it for every node.                                      *)
CreateAlways(name) == {name}

CreateServiceIndex(name) == {name} \ KnownNames

Hand(s, way) ==
  /\ "manager" \in started /\ writing = {}
  /\ handed' = handed \cup {<<s, way>>}
  /\ writing' = CreateServiceIndex(Entry(<<s, way>>).name)

Managed == /\ writing # {} /\ ended = "no"
           /\ writing' = {}
           /\ UNCHANGED <<conf, pc, container, logBoot, started, listening, listed,
                          toAdd, handed, edits, own, ended>>

(* Slip: the loop does not get to the next key.                            *)
AddStays(s) == /\ s \in toAdd /\ ~ListPanics(conf.etcdKey, Key(conf.etcdKey, s))
               /\ Pass("add", "add")
               /\ Hand(s, "list")
               /\ UNCHANGED <<container, logBoot, started, listed, toAdd, own>>

Add(s) == /\ s \in toAdd /\ ~ListPanics(conf.etcdKey, Key(conf.etcdKey, s))
          /\ Pass("add", "add")
          /\ Hand(s, "list")
          /\ toAdd' = toAdd \ {s}
          /\ UNCHANGED <<container, logBoot, started, listed, own>>

Watch == /\ toAdd = {}
         /\ Pass("add", "tracing")
         /\ Start({"serviceWatcher", "poller"})
         /\ UNCHANGED <<container, logBoot, directory, own>>

(* serviceWatcher, at the event of a put. (A key without an address makes  *)
(* it panic and restart: Directory.)                                       *)
Join(s) ==
  /\ s.addr # <<>>
  /\ "serviceWatcher" \in started /\ ended = "no"
  /\ Hand(s, "watch")
  /\ UNCHANGED <<conf, pc, container, logBoot, started, listening, listed, toAdd,
                 edits, own, ended>>

-----------------------------------------------------------------------------
(* connJaeger, connZipkin.                                                 *)
BootOpenTracing == /\ Pass("tracing", "db")
                   /\ UNCHANGED <<container, logBoot, started, directory, own>>

(* GetConfigValueMap: nil without an entry, a panic if it is no map.       *)
IsMap(c) == c \notin {"none", "text"}

(* What Connect of the two drivers may do with a map. redis.Connect        *)
(* recovers from its panic and has it logged as fatal.                     *)
DbConnect == [unsupported |-> {"error"}, untyped |-> {"error", "panic"},
              good |-> {"ok", "error"}]
RedisConnect == [untyped |-> {"error"}, good |-> {"ok", "error"}]

(* Slip: an error is logged and the boot goes on.                          *)
BootDbGoesOn == /\ Pass("db", "redis")
                /\ \/ conf.db = "none" /\ UNCHANGED container
                   \/ IsMap(conf.db) /\ Put("db")
                   \/ IsMap(conf.db) /\ UNCHANGED container
                /\ UNCHANGED <<logBoot, started, directory, own>>

BootDb == /\ Pass("db", "redis")
          /\ \/ conf.db = "none" /\ UNCHANGED container
             \/ IsMap(conf.db) /\ "ok" \in DbConnect[conf.db] /\ Put("db")
          /\ UNCHANGED <<logBoot, started, directory, own>>

BootRedis == /\ Pass("redis", "run")
             /\ \/ conf.redis = "none" /\ UNCHANGED container
                \/ IsMap(conf.redis) /\ "ok" \in RedisConnect[conf.redis]
                   /\ Put("redis")
             /\ UNCHANGED <<logBoot, started, directory, own>>

(* Slip: one server is started.                                            *)
RunHttpOnly == /\ Pass("run", "serve")
               /\ Start({"http"})
               /\ UNCHANGED <<container, logBoot, directory, own>>

Run == /\ Pass("run", "serve")
       /\ Start({"http", "rpc"})
       /\ UNCHANGED <<container, logBoot, directory, own>>

(* What may go wrong in main: an error that is fatal, or a panic.          *)
MayFail ==
  \/ pc \in {"config", "merge", "etcd", "put", "keep", "tracing"}
  \/ pc = "check" /\ ~Complete
  \/ pc = "ip" /\ "serviceIp" \notin conf.set
  \/ pc = "db" /\ IsMap(conf.db) /\ "error" \in DbConnect[conf.db]
  \/ pc = "redis" /\ IsMap(conf.redis) /\ "error" \in RedisConnect[conf.redis]

MayPanic ==
  \/ pc = "add" /\ \E s \in toAdd : ListPanics(conf.etcdKey, Key(conf.etcdKey, s))
  \/ pc = "db" /\ \/ conf.db = "text"
                  \/ IsMap(conf.db) /\ "panic" \in DbConnect[conf.db]
  \/ pc = "redis" /\ conf.redis = "text"

Fail == /\ MayFail /\ ended = "no"
        /\ Fatal
        /\ UNCHANGED <<conf, pc, container, logBoot, started, listening,
                       directory, edits, own>>

Panic == /\ MayPanic /\ ended = "no"
         /\ ended' = "panic"
         /\ UNCHANGED <<conf, pc, container, logBoot, started, listening,
                        directory, edits, own>>

Proceed == \/ Config \/ Unmarshal \/ UnmarshalError \/ CheckConfig \/ BootLog
           \/ BootEtcd \/ BootService \/ PutKey \/ KeepAlive \/ List
           \/ \E s \in Servers \cup {conf.self} : Add(s)
           \/ Watch \/ BootOpenTracing \/ BootDb \/ BootRedis \/ Run

Main == Proceed \/ Fail \/ Panic

-----------------------------------------------------------------------------
(* The other goroutines, at any time from their start.                     *)

(* A change of routes.yml: unmarshalConfig merges it into cfg.Routes, then *)
(* sendRoutes may log and walks through r.services.                        *)
ConfigChange ==
  /\ "configWatch" \in started /\ ended = "no" /\ ~editing
  /\ editing' = TRUE /\ edited' = TRUE
  /\ UNCHANGED <<conf, pc, container, logBoot, started, listening, directory, own,
                 ended>>

SendRoutes ==
  /\ editing /\ ended = "no"
  /\ editing' = FALSE
  /\ \/ UNCHANGED ended
     \/ ~Found("log") /\ ended' = "logPanic"
     \/ writing # {} /\ ended' = "mapRace"
  /\ UNCHANGED <<conf, pc, container, logBoot, started, listening, directory, own,
                 edited>>

(* A call, by user code or for a request, reads both maps. (One that meets *)
(* no writer changes nothing here.)                                        *)
CallRaces ==
  /\ pc \in {"run", "serve"} /\ ended = "no"
  /\ editing \/ writing # {}
  /\ ended' = "mapRace"
  /\ UNCHANGED <<conf, pc, container, logBoot, started, listening, directory,
                 edits, own>>

(* serviceWatcher and the poll every 15 seconds call GetEtcd and Log.      *)
Follow ==
  /\ {"serviceWatcher", "poller"} \subseteq started /\ ended = "no"
  /\ ended' = IF ~Found("etcd") THEN "etcdPanic"
              ELSE IF ~Found("log") THEN "logPanic" ELSE "no"
  /\ UNCHANGED <<conf, pc, container, logBoot, started, listening, directory,
                 edits, own>>

(* runHttpServer, runRpcServer.                                            *)
Listen(g) ==
  /\ g \in {"http", "rpc"} \cap started /\ ended = "no"
  /\ g \notin listening
  /\ \/ listening' = listening \cup {g} /\ UNCHANGED ended
     \/ Fatal /\ UNCHANGED listening
  /\ UNCHANGED <<conf, pc, container, logBoot, started, directory, edits, own>>

(* User code, once New has returned, Sets an instance: an error for the    *)
(* framework's names. Slip: it is not refused.                             *)
SetUnchecked(n) ==
  /\ pc \in {"run", "serve"} /\ ended = "no"
  /\ container' = [container EXCEPT ![n] = "user"]
  /\ UNCHANGED <<conf, pc, logBoot, started, listening, directory, edits, own,
                 ended>>

Set(n) ==
  /\ pc \in {"run", "serve"} /\ ended = "no"
  /\ n \notin Safe
  /\ container' = [container EXCEPT ![n] = "user"]
  /\ UNCHANGED <<conf, pc, logBoot, started, listening, directory, edits, own,
                 ended>>

(* etcd: the lease of a process that has ended runs out.                   *)
Expire ==
  /\ key /\ leased /\ ended # "no"
  /\ key' = FALSE
  /\ UNCHANGED <<conf, pc, container, logBoot, started, listening, directory, edits,
                 leased, ended>>

(* The process serves, or has ended and has no lease to run out.           *)
Rest == /\ pc = "serve" \/ (ended # "no" /\ ~(key /\ leased))
        /\ UNCHANGED vars

-----------------------------------------------------------------------------
Init ==
  /\ conf \in Configs
  /\ pc = "config"
  /\ container = [n \in Names |-> "none"]
  /\ logBoot = 0 /\ started = {} /\ listening = {}
  /\ listed = {} /\ toAdd = {} /\ handed = {} /\ writing = {}
  /\ editing = FALSE /\ edited = FALSE
  /\ key = FALSE /\ leased = FALSE /\ ended = "no"

Next == \/ Main \/ Managed
        \/ \E s \in Servers : Join(s)
        \/ ConfigChange \/ SendRoutes \/ CallRaces \/ Follow
        \/ \E g \in {"http", "rpc"} : Listen(g)
        \/ \E n \in Names : Set(n)
        \/ Expire
        \/ Rest

Spec == Init /\ [][Next]_vars

(* main and the goroutines run on: each step comes to an end, well or not  *)
(* (etcd and the databases answer; serviceRegister sets no timeout). etcd  *)
(* ends leases.                                                            *)
FairSpec == /\ Spec
            /\ WF_vars(Main) /\ WF_vars(Managed)
            /\ \A g \in {"http", "rpc"} : WF_vars(Listen(g))
            /\ WF_vars(Expire)

-----------------------------------------------------------------------------
(* Properties.                                                             *)

(* The types, and that a key is handed over once and only if it was listed *)
(* or joined.                                                              *)
TypeOK ==
  /\ conf \in Configs
  /\ pc \in Points
  /\ container \in [Names -> {"none", "framework", "user"}]
  /\ logBoot \in {0, 1}
  /\ started \subseteq Goroutines /\ listening \subseteq {"http", "rpc"}
  /\ listed \subseteq Servers \cup {conf.self} /\ toAdd \subseteq listed
  /\ handed \subseteq (Servers \X {"watch"}) \cup ((listed \ toAdd) \X {"list"})
  /\ editing \in BOOLEAN /\ edited \in BOOLEAN
  /\ key \in BOOLEAN /\ leased \in BOOLEAN
  /\ ended \in {"no", "fatal", "panic", "logPanic", "etcdPanic", "mapRace"}

(* From bootLog on, main and every goroutine find the log, and those that  *)
(* follow the directory find the etcd client, whatever user code Sets.     *)
InstancesFound == logBoot = 1 => ended \notin {"logPanic", "etcdPanic"}

(* A server that listens has all that config.yml asks for: the options     *)
(* checkConfig names, an instance for each configured database, and the    *)
(* goroutines that keep its node list.                                     *)
ListensReady ==
  listening # {} =>
    /\ Complete
    /\ conf.db # "none" => Found("db")
    /\ conf.redis # "none" => Found("redis")
    /\ {"configWatch", "manager", "serviceWatcher", "poller"} \subseteq started

(* main panics only on a database entry of the wrong type, or on a listed  *)
(* key that another program put or that has etcdKey_ in it a second time,  *)
(* as that of a service whose name ends in the etcdKey. (The latter stops  *)
(* every later boot, that service's own first.)                            *)
PanicsOnlyOnBadInput ==
  ended = "panic" =>
    \/ conf.db \in {"text", "untyped"} \/ conf.redis = "text"
    \/ \E s \in listed :
         s.addr = <<>> \/ Has(Service(s), conf.etcdKey \o Underscore)

(* The list and the watch take the same name and address out of a key that *)
(* GetServiceId put in, as long as neither has a "_" and, for the watch,   *)
(* the etcdKey has none either.                                            *)
EntriesAreServers ==
  \A h \in handed :
    /\ ~Has(h[1].name, Underscore) /\ ~Has(h[1].addr, Underscore)
    /\ h[2] = "watch" => ~Has(conf.etcdKey, Underscore)
    => Entry(h) = h[1]

(* A map is read while it is written only if routes.yml was changed or the *)
(* first node of a service is being added: nodes of services known already *)
(* come and go without a race.                                             *)
RacesAtFirstNodes ==
  ended = "mapRace" =>
    \/ edited
    \/ \E n \in writing : Cardinality({h \in handed : Entry(h).name = n}) = 1

(* The boot does not hang: main gets to serve or the process ends.         *)
BootEnds == <>(pc = "serve" \/ ended # "no")

(* A process that ends, in the middle of its boot or later, does not stay  *)
(* in the directory.                                                       *)
KeyExpires == ended # "no" ~> ~key

(* A process that is in the directory listens with both its servers in the *)
(* end, or leaves it.                                                      *)
RegisteredServes == key ~> (listening = {"http", "rpc"} \/ ~key)

(* log.go: "without the boot of the log module, the standard library's log *)
(* puts out the error": a fatal error before bootLog is reported too.      *)
FatalIsReported == ended # "logPanic"
=============================================================================
