# go-rainbow in TLA+

go-rainbow is a small microservice framework in Go. A process is a gateway or a
service. It registers in etcd, keeps a list of the nodes of every service, and
forwards calls (http or rpcx) to them with load balancing, a limiter, a circuit
breaker and retries; an edit of `routes.yml` on one process is copied to all.
None of this takes a lock: requests are goroutines that share maps, slices and
counters with the goroutines that follow etcd and the configuration file. The
repository has no tests. This directory specifies what these goroutines do to
each other, checks it with TLC, and proves with TLAPS every safety property that
the passing runs check.

- [Inventory](#inventory) · [Modules](#modules) · [Runs](#runs) ·
  [Bounds](#bounds) · [Fairness](#fairness) · [Proofs](#proofs) ·
  [What the checks found](#what-the-checks-found) ·
  [Not modelled](#not-modelled) · [Plan](#plan)

## Inventory

| component | source (`src/core`) | state | operations | what makes it correct |
|---|---|---|---|---|
| node list, balancer | `service_manager.go` | `services[name].Nodes` with `Waiting`, `Finish` | `serviceManageWatch` (addNode, delNode), `selectService`, address lookups | waiting counts are the attempts under way; a delete removes every entry of the address; the node chosen is the node called |
| call with retries | `request.go`, `retry.go`, `rpc.go` | the index and address a call carries | `callService`, `CallRpc`, `retryGo`, `requestServiceHttp`, `rpcCall` | no retry after a timeout or a 404; every request ends; an error is answered, not a panic |
| gateway, middleware | `gateway.go`, `gin.go`, `request.go` | `requestProcess`, `requestFinish`; the reply and the trace headers of each request | the chain of `ginListen` (pprof, tracing, cors, metrics, auth, routes, notFound), `gateway`, `requestServiceHttp` | one reply; a refused request runs no handler; the reply says what happened; the gauges count what they say |
| limiter | `limiter.go` | `limiterMap`: path → window start, quantity | `limiterInspect`, `resetLimiterIndex` | at most *quantity* per window; a window ends |
| circuit breaker | `fusing.go`, `retry.go` | `fusingMap`: path → window start, errors | `fusingInspect`, `addFusingQuantity`, `resetFusingIndex` | opens at *quantity* errors, closes when the window ends |
| service directory | `service_manager.go`, `run.go` | the key in etcd, lease, watch | `serviceRegister`, `getAllServices`, `serviceWatcher`, `RebootFunc`; a key is built by `GetServiceId` and taken apart in two places | the node lists follow etcd; an entry is the server that put it |
| routes.yml sync | `sync.go`, `config.go`, `utils.go` | file, `syncCache`, `cfg.Routes` | the watcher's handler, `sendRoutes`, `SyncRoutes`, `writeFile` | all nodes end with the same file and stop sending |
| boot, container, log | `bootstrap.go`, `instance.go`, `container.go`, `log.go` | `container`, `logBoot` | `New`, `bootstrap`, `Get`, `Set`, `Log` | what a goroutine needs is there when it starts; failures are reported; a dead process leaves the directory |
| configuration | `config.go` | `cfg`, `cfg.Routes` | `bootConfig`, `checkConfig`, the watcher, the getters | a server listens with what it was configured with; a reload races only with what it must |
| servers | `run.go`, `rpc.go`, `gin.go` | listening or not | `Run`, `runHttpServer`, `runRpcServer` | a registered process gets to listen |
| tracing | `opentracing.go` | the global tracer, the spans | `StartSpanFromHeader`, `Inject`, `connJaeger`, `connZipkin` | one trace per request, through gateway and service |
| metrics | `prometheus.go` | `metrics` | `SetMetric`, `pushMetrics` | |
| drivers, generator | `../drives`, `../tools/rainbow` | | `Connect`, `Publish`, `Consumer`; project templates | |

How they interact. A request runs middleware → `gateway` → `callService`, which
asks the balancer for an index into the node list, the limiter and the breaker
for permission (by the *address*), and gives the *index* to `retryGo`, which
uses it up to six times per attempt. `serviceWatcher` turns etcd events into
messages on an unbuffered channel; `serviceManageWatch` receives them and edits
the node list in place. `retryGo` charges errors to the breaker. The viper
watcher calls `sendRoutes`, which walks the node lists and calls `SyncRoutes`
on each node, which writes the file its own viper watches. A gateway and a
service are the same program: the request that `requestServiceHttp` sends passes
the same chain of middlewares at the service, whose `Call-Key` check
(`CheckCallSafeMiddleware`) is there to let only gateways in.

What is hard: an index held across edits of the list; check-then-act on shared
counters; windows replaced while in use; a list and a watch with a gap between
them; leases, restarts, panics and one-shot recovery; a broadcast that every
receiver relays, with failures, late calls and a file that is emptied before it
is written; goroutines started before what they need is ready; two maps that
goroutines read without a lock while others may write them, which Go's runtime
may answer by ending the process; a request that is retried while its first
attempt goes on, between two processes with middlewares and keys of their own. `PROJECT.json`
lists the hazards line by line with the properties that watch them.

## Modules

Every model follows the same conventions. One action is what a goroutine does
between two points where another can interfere; `pc` says where each goroutine
is; actions carry the name of the function or the step they translate.
Definitions that follow a comment "Slip: ..." are plausible mistakes in the
code, each one breaking one property (the *mutants* of `PROJECT.json`); no
specification uses them.

**`Dispatch`** (`MCDispatch`, `DispatchProofs`): one process, one remote
service, any number of requests, and the manager goroutine. Requests go
Begin → Select → Pick → Gate → (Acquire → Address → Request → Release →
Charge)\* → Finish → Reply → Count. Each access `Nodes[nodeIndex]` is a step of
its own with Go's bounds check: out of range, the goroutine ends
(`pc = "panicked"`; net/http recovers it, the rest of the process goes on). The
manager's `append` on a full slice is two steps (copy, publish), so increments
can be lost; a delete is shift, truncate, repeat. `Gate` is the verdict of the
two modules below. The scan of `selectService` is taken as one atomic read; its
second read of the address (`Pick`) is separate, and so are the bounds check and
the read of `getServiceHttpAddr` (`Address`, `Lookup`). An address may lack its
ports (`Portless`), which panics there. Sleep between attempts only
takes time. A panic of the scan itself needs the list to shrink during it; the
later accesses show the same effect.

**`Limiter`**, **`Fusing`** (`MC...`, `...Proofs`): one path, any number of
requests, each between `sync.Map` load, allocation, store, clock, check and
add. Some of the request goroutines are present, one or more of them. A counter
object is a *cell*: calls keep working on the cell they hold
after it has been replaced in the map. Time is the age of each cell, saturating
at the window length, since the code only compares the two. `Fusing` has both
keys of a route (the inspected and the charged one differ for rpc routes).
**`FixedWindow`** is the abstract limiter; where one goroutine is present,
`Limiter` implements it under the mapping `count` ↦ the quantity of the standing
window, `age` ↦ its age (expired when there is none), `answer` ↦ the caller's
`pc`. Where more are, the mapping is constant and nothing is claimed.
**`Breaker`** is the abstract circuit breaker, which lets a request through to
its attempts or refuses it; where one goroutine is present on an http route,
`Fusing` implements it: `errors` and `age` are those of the standing cell,
`request` says in which stage of `fusingInspect` and `retryGo` the caller is,
`tries` how many turns of the loop it has left.

**`Gateway`** (`MCGateway`, `GatewayProofs`): one client request through a
gateway and a service. A *run* is one passage through an engine that `ginListen`
built: run 0 is the client's request at the gateway, run *n* the *n*th request
sent to the service. `stage` says where a run is (one action per middleware, in
the order they are registered), `ask` the request it received, `written` the
replies it wrote. Around them are `callService`'s refusals, the attempts of
`retryGo` with what its `result` holds at each point, and `requestServiceHttp`:
which headers it forwards, what an answer, an error and a timeout become. Each
attempt sends one request; `client.Do` may send it again when it is one that may
be replayed and its connection breaks (`Resend`), and follows redirects
(`Follow`). An answer can be used as soon as it is written, whether its run has
left the engine or not, and the gateway may give up on a run that goes on; a
handler may answer, panic or hang; the node list may lose `nodeIndex` and get it
back. Replies are a code and a kind of message; a trace header is absent, or
names the client's span or the gateway's, or has no ids. Which headers a tracer
writes and reads is external: zipkin writes `X-B3-*` and prefers a `b3` it finds.
A body that is read has arrived (`getBody` has no timeout).
**`RemoteCall`** is what a client may count on: a refusal means that the handler
has not run and never will, data that it has; the handler runs at most once per
attempt if the request is a *single* one, which nothing but `retryGo` repeats.
`Gateway` implements it under the mapping `single` ↦ a request that may not be
replayed, to a service that does not redirect, `runs` ↦ the number of runs in
the handler, `answer` ↦ what the client's reply says. The requests of rpc
routes, whose middleware is the developer's, are in `Dispatch` only.

**`Directory`** (`MCDirectory`, `DirectoryProofs`): etcd, the servers' keys and
leases, and one viewer: boot list, hand-over, watch, events, panics with
`RebootFunc`. The hand-over over the unbuffered channel is one step with the
manager's work on it (`Dispatch` has that in detail); the node lists are a count
of entries per address. etcd itself is external: keys under leases, and a watch
that delivers in order what changes after it is opened.

**`RoutesSync`** (`MCRoutesSync`, `RoutesSyncProofs`): the file, the live
routes, the cache and the handler of every node, and the `SyncRoutes` calls
under way. A file is the set of services it routes; `{}` is the emptied file;
overlapping writes of different lengths leave `Garbled`. A call may fail before
it is executed, time out and be executed later, or be repeated by rpcx
(Failtry); calls that carry the same file to the same node are numbered (`mine`
is the one a handler waits for); a write may fail silently. Node lists are fixed and include the own
node, as the code's test for it never holds. The order of the loop over a
service's nodes is left open, as Go's map order is. An operator's save is one
write.

**`Boot`** (`MCBoot`, `BootProofs`): main through `bootstrap`, user code and
`Run`, for any `config.yml` (which options are set, which tracer, what kind of
entry the databases have, the `etcdKey`, the own name); every step that can fail
or panic; the goroutines it starts, the two servers among them; the container;
the key in etcd and its lease; and the two maps that are read without a lock
(`r.services`, written by the manager at the first node of a name, `cfg.Routes`,
written by the watcher).

**`ServiceKey`**: a key in etcd as a sequence of atoms (any set of them with `_`
in it), how `GetServiceId` builds it and the two ways it is taken apart. `Boot`
uses it for what main lists and the manager is handed; operators only, no state.

**`LeastElement`**: two lemmas on sets of naturals that the proofs of `Dispatch`
and `Boot` share; it models nothing.

## Runs

One run per question; `PROJECT.json` describes each. Passing runs:

| run | checks |
|---|---|
| `dispatch_joins` | two requests of every proper kind while nodes join, in place, by a reallocation, and one address twice: `NoPanic`, `ServedByChosen`, and `WaitingIsInFlight` until the first reallocation |
| `dispatch_churn` | one request, also `CallRpc` on an http route, while nodes join and leave, one of them without ports: `DeleteRemovesAll`, `NoRetryAfterFinalOutcome`, `GaugeCountsPanics`, types, and `RequestsEnd` (liveness) |
| `limiter_shared` | requests on one path, one at a time or two at once: `OvershootBounded`, types, refinement of `FixedWindow`, and `LimiterReopens` (liveness) |
| `gateway_all` | one request of every kind through every pair of configurations, with lost, early and late answers, requests sent again or redirected, handlers that panic or hang, and a changing node list: `AnsweredOnce`, `KeyedOnly`, `OneTrace`, `MeansWhatItSays`, types, refinement of `RemoteCall`, and `RequestEnds` (liveness) |
| `fusing_http` | requests that fail and retry, one at a time or two at once: `ErrorsBounded`, types, refinement of `Breaker`, and `BreakerRecloses` (liveness) |
| `directory_watch` | restarts within the lease, lost leases, changes between list and watch, failed lists, malformed keys, cancelled watches: `OnlyBehind`, types, and `ViewConverges` (liveness) |
| `routes_serial` | edits one at a time, nothing fails: `SettledFilesAgree`, and `SyncSettles` (liveness) |
| `routes_rough` | overlapping edits; calls that fail, are repeated or come late; failing disks: `NoChangeMissed`, and types (an emptied file is never sent) |
| `boot_all` | every configuration, failing step, goroutine and user code: `InstancesFound`, `ListensReady`, `PanicsOnlyOnBadInput`, `EntriesAreServers`, `RacesAtFirstNodes`, types, and `BootEnds`, `KeyExpires`, `RegisteredServes` (liveness) |

The other three runs each end in a counterexample to something the repository
says of itself; see [below](#what-the-checks-found).

## Bounds

- `Dispatch`: 1 or 2 requests, 2 addresses, lists of up to 3 entries
  (`MaxNodes`), 2 or 3 attempts. Two requests are what a shared count needs: one
  to hold a place, one to disturb it; three entries are what the delete loop
  needs: two of one address and a neighbour. In `dispatch_joins` the slice has
  room for one more node, so that the first join is in place and the second
  reallocates. `dispatch_churn` has one request because it checks liveness.
- `Gateway`: two attempts, the least with a retry and a last one; two keys, so
  that gateway and service agree or not and the client guesses right or wrong;
  the node list loses `nodeIndex` and regains it once (`MaxMoves` = 2), which is
  what the reply "Success" of a failure takes; one request besides one per
  attempt (`MaxAgain`), so that one can be sent again or redirected in either
  attempt. Every request is combined with every setting of the switches that its
  path meets (debug mode with one setting of the others, as the pprof routes
  precede them all); a route without a timeout, a service without the path or
  with redirects, and the trace headers of both tracers are cases of their own
  with the rest as it should be, as nothing else looks at them.
- `Limiter`, `Fusing`: 1 or 2 requests, quantity 2 or 3, windows of 1 to 3
  seconds, one cell more than can be referred to at a time (two for the two keys
  of `Fusing`): with fewer a step would block that never blocks in Go. Free
  cells are interchangeable, so `Fresh` takes one of them. `MaxErrors` stops
  attempts from failing when a counter is that high; it lies above the bound of
  `ErrorsBounded`.
- `Directory`: 2 servers and one malformed key, up to 6 changes (`MaxChanges`):
  enough for a restart, an expiry and a return around the list, the watch, one
  panic and the second watch.
- `RoutesSync`: 2 nodes, 2 services (so three files, one longer than the
  others), up to 3 edits (`MaxEdits`), 2 or 3 calls executing at a time
  (`MaxCalls`). Two nodes relay to each other and to themselves, which is how
  two writers meet on one file.
- `Boot`: one name of user code; a good configuration and all that differ from it
  in one respect, so that each error is met with everything else in order; its
  own name may end in the `etcdKey`, have it and an underscore in the middle, and
  its address may have an underscore; three other keys: a plain one, one whose
  name has an underscore, one without an address. Each is handed to the manager
  at most once per way.

`CHECK_DEADLOCK` stays on but for `gateway_all`, where a request ends and a
handler may hang; `Quiet` and `Rest` are the states in which a process has
nothing left to do within the bounds. Symmetry is used only in runs without
liveness.

## Fairness

Weak fairness of every goroutine's steps, because the Go scheduler runs what can
run and every wait of a modelled step ends: an attempt by the route's timeout
(`Dispatch`; a timeout of 0 over http would not, see the hazards), a
`SyncRoutes` call by the 10 seconds of `sendRoutes`. Each goroutine has its
own condition. `Limiter` and `Fusing` also assume that time passes and that
requests keep coming, without which "some request is admitted again" says
nothing; nothing is assumed of which request. `Directory` assumes only that the
viewer runs, not that any server does anything. `Boot` assumes that main goes on
(a step may fail, but none has to) and that etcd answers
(the calls of `serviceRegister` use `context.TODO()`, without a timeout), that
the manager finishes what it writes, that each server's goroutine gets to listen
or to fail, and that etcd ends the leases of dead processes. `Gateway` assumes
that the gateway's goroutine runs on and that the http client's timer goes off
on a route that has one; of the service and the network it assumes nothing, so
that `RequestEnds` is claimed for routes with a timeout only. That the client's
own body has arrived is part of the model: `getBody` reads it without a timeout.

## Proofs

Each `...Proofs` module proves, for all values of the constants that satisfy the
named assumption of its module (finite sets where they are counted, positive
attempts, limits of zero and more, distinct model values, `_` among the atoms of a text):

| theorem | says | argument |
|---|---|---|
| `Dispatch…TypeCorrect` | types | inductive as it is, one lemma on sequences per shape of edit |
| `NoPanicWhileNodesJoin`, `ServedByChosenWhileNodesJoin` | assuming `OnlyJoins` (no delNode, no CallRpc on an http route, no address without its ports) | `JoinInv`: an index once chosen stays in range and at the same address, and the copy being published extends the list |
| `WaitingIsInFlightUntilMoved` | assuming `OnlyJoins` | `UnmovedInv`: the capacity never returns to that of the boot; on top of `JoinInv`, the set of holders of an index grows or shrinks by one where the count does, and is empty for an index that a join is about to use |
| `GaugeIsInFlightPlusPanics` | unconditionally | counted over the sets of requests in the handler and panicked |
| `FinalOutcomesAreFinal` | unconditionally | `ChargeInv`: what is charged was no success; the rest is the verdict of `GivesUp` |
| `DeletesAreComplete` | unconditionally | `PassedInv`: what the loop has passed is free of the address, also while a shift leaves the last entry twice and the index steps back |
| `RequestsTakeBoundedSteps` | unconditionally | `StepsLeft`: six steps per attempt left and thirteen at most beside them, lowered by each step of the request and by no one else's; `UntriedInv`: outside the loop no attempt was made |
| `SelectionSucceeds` | unconditionally | the scan of `selectService` finds the first least element of a list (`ScanFindsLeast`), by induction over its length |
| `Limiter…TypeCorrect`, `OvershootIsBounded` | unconditionally | `DecidedInv`: quantity *plus the requests already let through and not yet counted* is bounded; `OvershootBounded` alone is not inductive |
| `SerialLimiterIsFixedWindow` | unconditionally (the mapping claims nothing when several goroutines are present) | `SerialInv` says which window the caller holds at each point; each step is a step of `FixedWindow` or a stutter |
| `ZeroSecondsNeverRefuses` | assuming `Second = 0` and `Quantity > 0` (with a quantity of 0 every request is refused, `limiter.go:49`) | `OwnCounters`: past the clock a goroutine holds a counter that no other past it holds, still empty |
| `Fusing…TypeCorrect`, `RpcBreakerNeverOpens` | unconditionally; the second claims nothing for a quantity of 0, which is always broken | `ApartInv`: the cells of the inspected key and of the charged key stay apart, for callers still holding replaced ones too |
| `ErrorsAreBounded` | for http routes | `AheadInv`: a full counter *plus the attempts that requests past the inspection have left* is bounded; the set of those attempts only shrinks once the counter is full; with a quantity of 0 none gets past the inspection (`ClosedInv`) |
| `HttpBreakerTrips` | for http routes and one request at a time | `HoldsEntryInv`: what a request inspects is the standing entry. Both conditions are needed: the first by `fusing_rpc`, the second because a request may inspect a counter that another has replaced |
| `SerialBreaker` | unconditionally (the mapping claims nothing for an rpc route or when several requests are present) | `SerialInv`: the caller holds the standing cell, and replaces it only when its window is over; each step is a step of `Breaker` or a stutter |
| `Directory…TypeCorrect`, `ViewIsOnlyBehind` | unconditionally | `BehindInv`: for every server the viewer missed nothing about, what is listed or queued agrees with etcd, carried through list, load, attach, the queue lost in a panic and the second watch; two lemmas on the two ends of the queue |
| `RoutesSync…TypeCorrect`, `ChangesAreHandled` | unconditionally | `HandledInv`: the same for a node busy telling the others |
| `SettledNodesAgree` | edits one at a time, nothing fails | `WaveInv`: one contents `c` is all that is sent, cached by a caller, or found in a file just written; every node is *reached* (holds `c`, or a call is about to write it there), or some node has all that are not reached left on its list |
| `RelayingEnds` | the same | `WorkLeft`: the nodes that have not sent `c`, each worth a call to every node, then calls, half-written files, events and comparisons, weighted so that each step lowers the sum. There is one wave at a time (`OneWave`) |
| `Boot…TypeCorrect`, `InstancesAreFound`, `ListenersAreReady` | unconditionally | `StagesInv` and `ServeInv`: what the container holds and which goroutines run at each stage, whatever `config.yml` says |
| `RacesOnlyAtFirstNodes` | unconditionally | while the manager writes a name, exactly one key of that name has been handed to it; a race needs a write |
| `PanicsOnBadInput`, `SuffixPanics`, `ServersAreRead` | for all texts; `SuffixPanics` for names without an underscore | what `strings.Split` does: the first occurrence of a separator exists (`LeastNat`), is where the key was joined, and what lies before and after it (`FirstFound`, `SplitAt`, `ListReads`, `WatchReads`); `HandInv`: the list hands over no key that it panics on |
| `Gateway…TypeCorrect`, `OneAnswer`, `KeyKeepsOthersOut`, `SpansAreOneTrace`, `RepliesMeanWhatTheySay` | unconditionally | `Inv`: per run at the service what it was sent and what is past its door (`AskInv`, `CallInv`); for the client's run how many requests there can be and which of them are under way (`CountInv`, `SendInv`), what `result` says of the last one (`AnswerInv`, `ResultInv`), what the list did (`MoveInv`) and what the reply means (`TellInv`). The seven middlewares share one lemma (`ChainEffect`), the steps of `retryGo` two (`SilentStep`, `TellingStep`). `SpansAreOneTrace` adds which header each tracer finds in what was forwarded (`SameRequest`, `ClientsTrace`) |
| `RunsTakeBoundedSteps` | unconditionally | `StepsLeft`, as in `Dispatch`, for the client's run and for those at the service; `CountInv` has it that a request goes to a run that had none |
| `GatewayIsRemoteCall` | unconditionally | each step is a step of `RemoteCall` or a stutter: a single request enters the handler once per attempt at most (`SingleRuns`), and `TellInv` says of a refusal that nothing was sent and of data that its run entered the handler |

Every invariant, action property and refinement of the passing runs has its
theorem. Only model-checked are the liveness properties (`RequestsEnd`,
`LimiterReopens`, `BreakerRecloses`, `RequestEnds`, `ViewConverges`,
`SyncSettles`, `BootEnds`, `KeyExpires`, `RegisteredServes`), since fairness and
ENABLED are beyond the prover. Of three of them the part that is safety is
proved, that there is an end to come to: `RequestsTakeBoundedSteps` and
`SelectionSucceeds` leave of `RequestsEnd` only that the goroutine is scheduled,
`RunsTakeBoundedSteps` of `RequestEnds` that it is and that the timer goes off,
and `RelayingEnds` of `SyncSettles` that handlers and servers go on. Of
`BreakerRecloses`, `SerialBreaker` has it for one request at a time that only a
window not yet over refuses; that time passes is left.

The library states induction with an operator as a parameter, which the provers
cannot instantiate. Where it is needed (a scan, the first occurrence of a
separator) it is done over a *set* of naturals: `LeastElement` has it from the
library's theorem on well-founded orders.

## What the checks found

| run | property | the code |
|---|---|---|
| `dispatch_least` | `SelectsLeastWaiting` | one idle node makes the choice random over *all* nodes (`service_manager.go:254`); the comments say least waiting, random only when all are idle |
| `fusing_rpc` | `TripsAtQuantity` | rpc routes charge another key than they inspect (`retry.go:60`, `:72`), so their breaker never opens (`RpcBreakerNeverOpens`) |
| `boot_fatal` | `FatalIsReported` | `Log` before `bootLog` panics (`log.go:47`) instead of reporting |

What the properties' own form says of the code is worth a reader's attention
too: `WaitingIsInFlight` ends with the first reallocation of the list, because
increments made between `append`'s copy and the assignment are lost;
`NoPanic` and `ServedByChosen` need that no node leaves; `GaugeCountsPanics`
has the panics in it, because the decrement is not deferred (`gin.go:141`);
`OvershootBounded` is above *quantity*, because check and add are separate
(`limiter.go:49-53`); `OnlyBehind` excepts `missed`, because the watch does not
start at the list's revision (`service_manager.go:202`); `SettledFilesAgree`
needs edits one at a time and no failure, because every node relays to every
node, itself included (`sync.go:55`), and one failed call ends the broadcast
(`sync.go:67`). `PanicsOnlyOnBadInput` has a case that no one would call bad
input: a key with `etcdKey_` in it a second time. That of a service whose name
ends in the `etcdKey` is one (`SuffixPanics` proves it of every such name), and
makes every boot after its own registration panic (`service_manager.go:145`),
its own first. A project that is generated under the name *rainbow* is one, as
the template's `etcdKey` is *rainbow* too. `EntriesAreServers` is claimed only
for names and addresses (a host name may have one) without an underscore, and
for the watch only if the `etcdKey` has none. `ErrorsBounded` and, for one
request at a time, `TripsAtQuantity` hold on http routes, so that what
`fusing_rpc` finds is the key's fault alone.
`RacesAtFirstNodes` names the two moments at which Go may end a process for a
map read while it is written. `MeansWhatItSays` admits a failure whose message
is "Success", for a node list that shrinks between two statements and grows
again (`retry.go:48`), and a server error under the service's own 2xx code
(`request.go:126` takes any code but 200 for a failure). `RequestEnds` needs a
route with a timeout (`request.go:91`). A client that reads a failure knows
nothing: `RemoteCall` lets the handler run before, after and several times, and
bounds how often only for a single request, since `client.Do` (`request.go:120`)
repeats idempotent requests by itself and follows redirects. `OneTrace` has an
exception for a client's `b3` header, which `request.go:106-108` passes on and
zipkin at the service prefers to what the gateway injects: with ids in it the
service's span is the client's child and not the gateway's, without ids it is in
a trace of its own. The gateway's span may also be finished before the service's,
as an answer can be used before its run has left the engine.

## Not modelled

- Formatting, span tags, metric text, the content of bodies; the typed getters
  of the configuration, which are lookups; `SetMetric` (one store into a
  `sync.Map`) and the push of metrics to a gateway.
- rpc routes in `Gateway`: the service's side of an rpc call is the developer's
  function, which opens its own span and checks the key by a call of its own.
- The `amqp` driver: a library for user code, which nothing in the program
  calls; each function hands its arguments to the client in order and keeps no
  state. The `db` and `redis` drivers are in `Boot` as far as the boot depends on
  them, etcd's as a call that may fail.
- The project generator: it writes files once. `Gateway` takes from its
  templates which auth middleware a gateway and a service have.
- rpcx, gin, net/http, the tracers, viper, fsnotify, etcd: external, as far as the
  code relies on them. Left out of them are gin's own redirect of a path with or
  without a slash at its end, which answers before the middlewares and runs no
  handler, a `Location` at another server, and http/2.
- When a span is finished: what depends on it is the tracer's.

## Plan

Done: `Dispatch`, `Limiter` with `FixedWindow`, `Fusing` with `Breaker`,
`Directory`, `RoutesSync`, `Boot` with `ServiceKey`, `Gateway` with
`RemoteCall`, each with its proofs, in the order of their weight in the
program.

The safety properties of all of them are proved, and for three liveness
properties that a bounded number of steps is left. Next, proofs: those of the
modules below.

Next, modelling:

1. The composition of `Directory` with `Dispatch`: a lost event or a gap seen
   as requests sent to a node that is gone, and the manager's channel as a
   rendezvous of two senders.
2. The scan of `selectService` node by node.
3. The pure parts against reference definitions: `capitalize`, the analysis of
   `limiter`, `fusing` and `callRetry`.
