------------------------------ MODULE Gateway ------------------------------
(***************************************************************************)
(* One client request on its way through a gateway to a service and back.  *)
(* Gateway and service are processes of go-rainbow, so both answer http    *)
(* with the engine ginListen builds: the same middlewares in the same      *)
(* order, around a handler that is the gateway function in one and the     *)
(* developer's code in the other. A run is one passage of a request        *)
(* through such an engine: run 0 is the client's request at the gateway,   *)
(* run n the nth request sent to the service. An attempt of retryGo sends  *)
(* one, and net/http may send it again or follow a redirect. The gateway   *)
(* may give up on a run that goes on.                                      *)
(*                                                                         *)
(* selectService and the two gates are a verdict here (Dispatch, Limiter   *)
(* and Fusing model them); the node list is only whether nodeIndex is      *)
(* inside it, which the goroutine that edits the list may change.          *)
(***************************************************************************)
EXTENDS Integers, Sequences, FiniteSets

CONSTANTS
  Attempts,   \* length of the retry slice
  Keys,       \* values of callKey
  NoKey,      \* "no Call-Key header"
  Cases,      \* how the two processes may be configured, with what the
              \* client may send
  MaxMoves,   \* bound: changes of the node list that matter to nodeIndex
  MaxAgain    \* bound: requests net/http sends besides one per attempt

Processes == [cors : BOOLEAN, debug : BOOLEAN, auth : BOOLEAN, key : Keys,
              tracer : {"zipkin", "jaeger"}]

(* timed: the route has a timeout. served: the service has the path that   *)
(* routes.yml gives for the action. moved: its handlers may redirect.      *)
ConfigTypes == [gateway : Processes, service : Processes,
                timed : BOOLEAN, served : BOOLEAN, moved : BOOLEAN]

(* The trace headers: b3 and the X-B3-* ones of zipkin, uber-trace-id of   *)
(* jaeger. Each is absent, names the client's span or the gateway's, or    *)
(* holds no ids: only the decision to sample.                              *)
Headers == {"b3", "x-b3", "uber-trace-id"}
Spans == {"none", "client", "gateway", "decision"}

(* replay: net/http may send it again on its own (GET, HEAD, OPTIONS,      *)
(* TRACE, or an Idempotency-Key).                                          *)
Paths == {"metrics", "pprof", "api", "elsewhere"}
RequestTypes ==
  [to : Paths, options : BOOLEAN, replay : BOOLEAN, badJson : BOOLEAN,
   key : Keys \cup {NoKey}, trace : [Headers -> Spans]]

ASSUME GatewayAssumption ==
  /\ Attempts \in Nat \ {0}
  /\ NoKey \notin Keys
  /\ Cases \subseteq ConfigTypes \X RequestTypes
  /\ \A c \in Cases : /\ c[2].options => c[2].replay
                      /\ \A h \in Headers : c[2].trace[h] # "gateway"
  /\ MaxMoves \in Nat /\ MaxAgain \in Nat

VARIABLES
  conf,      \* the configuration, for good
  stage,     \* where each run is
  ask,       \* the request it received
  written,   \* the replies it wrote
  ran,       \* the runs that entered the developer's handler
  try,       \* the attempt retryGo is at
  sent,      \* how many requests went to the service; an attempt waits
             \* for the last of them
  result,    \* code, result and err of retryGo
  inList,    \* whether nodeIndex is inside the node list
  moves      \* how often that changed

vars == <<conf, stage, ask, written, ran, try, sent, result, inList, moves>>

Runs == 0 .. Attempts + MaxAgain
Calls == 1 .. Attempts + MaxAgain
Host(a) == IF a = 0 THEN conf.gateway ELSE conf.service

Stages == {"unsent", "sent", "cors", "metrics", "auth", "route", "handler",
           "running", "acquire", "address", "wait", "release", "charge",
           "finish", "leave", "left", "dead"}

Codes == {200, 201, 204, 302, 400, 404, 500}
Messages == {"", "data", "text", "metrics", "pprof", "cors", "badRequest",
             "noAuth", "notFound", "limiter", "fusing", "timeout",
             "serverError", "Success"}
Replies == [code : Codes, msg : Messages]
Reply(c, m) == [code |-> c, msg |-> m]
NotFound == Reply(404, "notFound")
ServerError(c) == Reply(c, "serverError")

(* What the developer's handler may answer; 302 stands for all redirects.  *)
Moved == Reply(302, "text")
Answers == {Reply(200, "data"), Reply(200, "text"), Reply(201, "data"),
            Reply(404, "data"), Reply(500, "data"), Moved}

Results == [code : Codes, msg : Messages, err : {"none", "failed", "timeout"}]
Outcome(c, m, e) == [code |-> c, msg |-> m, err |-> e]

-----------------------------------------------------------------------------
Goto(a, s) == stage' = [stage EXCEPT ![a] = s]

(* A reply, and the rest of the chain is skipped.                          *)
Write(a, r) == /\ written' = [written EXCEPT ![a] = Append(@, r)]
               /\ Goto(a, "leave")
Pass(a, s) == Goto(a, s) /\ UNCHANGED written

chainRest == <<conf, ask, ran, try, sent, result, inList, moves>>

(* The pprof routes are registered before the middlewares.                 *)
Pprof(a) ==
  /\ stage[a] = "sent"
  /\ ask[a].to = "pprof" /\ Host(a).debug /\ ~ask[a].options
  /\ written' = [written EXCEPT ![a] = Append(@, Reply(200, "pprof"))]
  /\ Goto(a, "left")
  /\ UNCHANGED chainRest

(* openTracingMiddleware up to c.Next. BindJSON answers 400 and aborts on  *)
(* a body that is not the JSON its header promises (getBody, which waits   *)
(* for the body without a timeout: here it has arrived).                   *)
BadBody(a) == ask[a].badJson

Enter(a) ==
  /\ stage[a] = "sent"
  /\ ~(ask[a].to = "pprof" /\ Host(a).debug /\ ~ask[a].options)
  /\ IF BadBody(a) THEN Write(a, Reply(400, "badRequest"))
                       ELSE Pass(a, "cors")
  /\ UNCHANGED chainRest

Cors(a) ==
  /\ stage[a] = "cors"
  /\ IF Host(a).cors /\ ask[a].options THEN Write(a, Reply(204, "cors"))
                                       ELSE Pass(a, "metrics")
  /\ UNCHANGED chainRest

(* /metrics is registered before the auth middleware.                      *)
Metrics(a) ==
  /\ stage[a] = "metrics"
  /\ IF ask[a].to = "metrics" /\ ~ask[a].options
     THEN Write(a, Reply(200, "metrics"))
     ELSE Pass(a, "auth")
  /\ UNCHANGED chainRest

(* CheckCallSafeMiddleware; a generated gateway has one that lets pass.    *)
(* Slip: the refusal is written, but the chain goes on.                    *)
Unsafe(a) == Host(a).auth /\ ask[a].key # Host(a).key

AuthNoAbort(a) ==
  /\ stage[a] = "auth"
  /\ Goto(a, "route")
  /\ written' = IF Unsafe(a)
                THEN [written EXCEPT ![a] = Append(@, Reply(404, "noAuth"))]
                ELSE written
  /\ UNCHANGED chainRest

Auth(a) ==
  /\ stage[a] = "auth"
  /\ IF Unsafe(a) THEN Write(a, Reply(404, "noAuth")) ELSE Pass(a, "route")
  /\ UNCHANGED chainRest

(* The gateway takes any method of api/:service/:action, a service those   *)
(* of the routes it registered; notFound answers the rest.                 *)
Routed(a) == /\ ask[a].to = "api"
             /\ a = 0 \/ (conf.served /\ ~ask[a].options)

Route(a) ==
  /\ stage[a] = "route"
  /\ IF Routed(a) THEN Pass(a, "handler") ELSE Write(a, NotFound)
  /\ UNCHANGED chainRest

(* The rest of the developer's handler, if it answered, which may panic,   *)
(* and of openTracingMiddleware, which a panic skips.                      *)
Leave(a) ==
  /\ stage[a] = "leave"
  /\ \/ Pass(a, "left")
     \/ a \in ran /\ Pass(a, "dead")
  /\ UNCHANGED chainRest

Chain(a) == \/ Pprof(a) \/ Enter(a) \/ Cors(a) \/ Metrics(a) \/ Auth(a)
            \/ Route(a) \/ Leave(a)

-----------------------------------------------------------------------------
(* StartSpanFromHeader. A header the tracer writes, and the one it reads:  *)
(* zipkin prefers b3, which it never writes.                               *)
Injects(p) == IF p.tracer = "jaeger" THEN "uber-trace-id" ELSE "x-b3"
Extracts(p, trace) == IF p.tracer = "zipkin" /\ trace["b3"] # "none"
                      THEN "b3" ELSE Injects(p)

(* The span a run's own is a child of, if any, and the trace it is in.     *)
Parent(a) == ask[a].trace[Extracts(Host(a), ask[a].trace)]
GatewayTrace == IF Parent(0) = "client" THEN Extracts(Host(0), ask[0].trace)
                                        ELSE "gateway"
Trace(a) == CASE Parent(a) = "client"  -> Extracts(Host(a), ask[a].trace)
              [] Parent(a) = "gateway" -> GatewayTrace
              [] OTHER                 -> "own"

-----------------------------------------------------------------------------
(* The developer's handler at the service: it may answer, panic or hang.   *)
Handle(a) ==
  /\ a \in Calls /\ stage[a] = "handler"
  /\ ran' = ran \cup {a}
  /\ Goto(a, "running")
  /\ UNCHANGED <<conf, ask, written, try, sent, result, inList, moves>>

Complete(a) ==
  /\ stage[a] = "running"
  /\ \/ \E r \in Answers : (r = Moved => conf.moved) /\ Write(a, r)
     \/ Pass(a, "dead")
  /\ UNCHANGED chainRest

-----------------------------------------------------------------------------
(* The gateway function. callService's refusals: no such service or route, *)
(* no node, the limiter, the breaker.                                      *)
CallService ==
  /\ stage[0] = "handler"
  /\ \/ \E r \in {NotFound, Reply(404, "limiter"), Reply(404, "fusing")} :
          Write(0, r)
     \/ Pass(0, "acquire")
  /\ UNCHANGED chainRest

(* An attempt: Nodes[nodeIndex] twice, the second time with an error where *)
(* the first panics, which leaves the loop with what the attempt before    *)
(* left in result.                                                         *)
Acquire ==
  /\ stage[0] = "acquire"
  /\ Pass(0, IF inList THEN "address" ELSE "dead")
  /\ UNCHANGED chainRest

(* requestServiceHttp: the client's headers, with the gateway's own        *)
(* Call-Key, Content-Type and the span's header written over them; the     *)
(* method is the client's.                                                 *)
(* Slips: headers the client sent are kept.                                *)
Injected(q) == [q.trace EXCEPT ![Injects(conf.gateway)] = "gateway"]

ForwardKeepsKey(q) ==
  [q EXCEPT !.to = "api", !.badJson = FALSE, !.trace = Injected(q),
            !.key = IF q.key = NoKey THEN conf.gateway.key ELSE q.key]
ForwardKeepsTrace(q) ==
  [q EXCEPT !.to = "api", !.badJson = FALSE, !.key = conf.gateway.key,
            !.trace = IF Parent(0) = "client" THEN q.trace ELSE Injected(q)]

Forward(q) ==
  [q EXCEPT !.to = "api", !.badJson = FALSE, !.key = conf.gateway.key,
            !.trace = Injected(q)]

(* client.Do puts a request on the wire.                                   *)
Request(q) ==
  /\ sent' = sent + 1
  /\ stage' = [stage EXCEPT ![0] = "wait", ![sent + 1] = "sent"]
  /\ ask' = [ask EXCEPT ![sent + 1] = q]
  /\ UNCHANGED <<conf, written, ran, try, result, inList, moves>>

Send == /\ stage[0] = "address" /\ inList
        /\ Request(Forward(ask[0]))

(* net/http sends a request that it may replay again when the connection,  *)
(* one it had kept alive, breaks before an answer. The run it breaks off   *)
(* goes on.                                                                *)
(* Slip: any request.                                                      *)
ResendAny == /\ stage[0] = "wait" /\ sent < try + MaxAgain
             /\ Request(ask[sent])

Resend == /\ stage[0] = "wait" /\ sent < try + MaxAgain
          /\ ask[sent].replay
          /\ Request(ask[sent])

(* An answer is flushed, or larger than net/http's buffers, or waits in    *)
(* them until its run has left: which, the payloads do not say, so it can  *)
(* be used once it is written.                                             *)
Arrived(a) == written[a] # <<>>

(* It follows a redirect within the service: 307 and 308 with the same     *)
(* request, the others with a GET. The headers stay.                       *)
Redirected(q) == {[q EXCEPT !.to = t] : t \in Paths} \cup
  {[q EXCEPT !.to = t, !.options = FALSE, !.replay = TRUE] : t \in Paths}

Follow == /\ stage[0] = "wait" /\ sent < try + MaxAgain
          /\ Arrived(sent) /\ Head(written[sent]).code = 302
          /\ \E q \in Redirected(ask[sent]) : Request(q)

NoAddress ==
  /\ stage[0] = "address" /\ ~inList
  /\ Goto(0, "finish")
  /\ result' = [result EXCEPT !.code = 500, !.err = "failed"]
  /\ UNCHANGED <<conf, ask, written, ran, try, sent, inList, moves>>

(* The answer; any code but 200 is an error without a body, a redirect to  *)
(* nowhere among them.                                                     *)
Back(o) ==
  /\ stage[0] = "wait"
  /\ Goto(0, "release")
  /\ result' = o
  /\ UNCHANGED <<conf, ask, written, ran, try, sent, inList, moves>>

Answered ==
  /\ stage[0] = "wait" /\ Arrived(sent)
  /\ LET r == Head(written[sent]) IN
       Back(IF r.code = 200 THEN Outcome(200, r.msg, "none")
                            ELSE Outcome(r.code, "", "failed"))

(* Refused, reset, closed by a panic and not sent again, or redirected too *)
(* often: whether the request arrived and whether its run goes on, the     *)
(* gateway cannot know.                                                    *)
Lost == Back(Outcome(500, "", "failed"))

(* The http client's Timeout; 0 is none.                                   *)
(* Slip: the client is made without it.                                    *)
NeverTimedOut == FALSE /\ Back(Outcome(500, "", "timeout"))

TimedOut == conf.timed /\ Back(Outcome(500, "", "timeout"))

Release ==
  /\ stage[0] = "release"
  /\ Pass(0, IF ~inList THEN "dead"
             ELSE IF result.err = "none" THEN "finish" ELSE "charge")
  /\ UNCHANGED chainRest

Verdict ==
  IF result.err = "timeout" THEN Reply(result.code, "timeout")
  ELSE IF result.code = 404 THEN NotFound
  ELSE ServerError(result.code)

(* Slip: the last attempt is not noticed.                                  *)
FinalLate == \/ result.err = "timeout" \/ result.code = 404 \/ try > Attempts

Final == \/ result.err = "timeout" \/ result.code = 404 \/ try = Attempts

Charge ==
  /\ stage[0] = "charge"
  /\ \/ ~inList /\ Pass(0, "dead") /\ UNCHANGED try
     \/ inList /\ Final /\ Write(0, Verdict) /\ UNCHANGED try
     \/ inList /\ ~Final /\ Pass(0, "acquire") /\ try' = try + 1
  /\ UNCHANGED <<conf, ask, ran, sent, result, inList, moves>>

(* Out of the loop: one more index, then the reply. A result that is no    *)
(* JSON is a server error.                                                 *)
(* Slip: no index after the address error.                                 *)
FinalReply ==
  IF result.err # "none" THEN Reply(result.code, result.msg)
  ELSE IF result.msg = "data" THEN Reply(200, "data") ELSE ServerError(500)

FinishUnindexed ==
  /\ stage[0] = "finish"
  /\ IF inList \/ result.err # "none" THEN Write(0, FinalReply)
                                      ELSE Pass(0, "dead")
  /\ UNCHANGED chainRest

Finish ==
  /\ stage[0] = "finish"
  /\ IF inList THEN Write(0, FinalReply) ELSE Pass(0, "dead")
  /\ UNCHANGED chainRest

Gateway == \/ CallService \/ Acquire \/ Send \/ Resend \/ Follow \/ NoAddress
           \/ Answered \/ Lost \/ TimedOut \/ Release \/ Charge \/ Finish

(* The list gets shorter than nodeIndex, or longer again. A change while   *)
(* an attempt waits is one right after it.                                 *)
Move ==
  /\ moves < MaxMoves
  /\ stage[0] \in {"acquire", "address", "release", "charge", "finish"}
  /\ inList' = ~inList
  /\ moves' = moves + 1
  /\ UNCHANGED <<conf, stage, ask, written, ran, try, sent, result>>

-----------------------------------------------------------------------------
Init ==
  /\ \E c \in Cases : conf = c[1] /\ ask = [a \in Runs |-> c[2]]
  /\ stage = [a \in Runs |-> IF a = 0 THEN "sent" ELSE "unsent"]
  /\ written = [a \in Runs |-> <<>>]
  /\ ran = {}
  /\ try = 1
  /\ sent = 0
  /\ result = Outcome(200, "Success", "none")
  /\ inList = TRUE
  /\ moves = 0

Next == \/ Gateway \/ Move
        \/ \E a \in Runs : Chain(a) \/ Handle(a) \/ Complete(a)

Spec == Init /\ [][Next]_vars

(* The gateway's goroutine runs on, and a timer that is due goes off. The  *)
(* network may swallow a request and a handler may hang: nothing is asked  *)
(* of the service's runs.                                                  *)
FairSpec == /\ Spec
            /\ WF_vars(Chain(0) \/ CallService \/ Acquire \/ Send \/ NoAddress
                         \/ Release \/ Charge \/ Finish)
            /\ WF_vars(TimedOut)

-----------------------------------------------------------------------------
(* Properties.                                                             *)

(* The variables have their types.                                         *)
TypeOK ==
  /\ conf \in ConfigTypes
  /\ stage \in [Runs -> Stages]
  /\ ask \in [Runs -> RequestTypes]
  /\ written \in [Runs -> Seq(Replies)]
  /\ ran \subseteq Calls
  /\ try \in 1 .. Attempts
  /\ sent \in Runs
  /\ result \in Results
  /\ inList \in BOOLEAN
  /\ moves \in 0 .. MaxMoves

(* Whichever middleware answers, no other and no handler answers again:    *)
(* a run writes no second reply, and has written one when it leaves its    *)
(* engine without a panic.                                                 *)
AnsweredOnce ==
  \A a \in Runs : /\ Len(written[a]) <= 1
                  /\ stage[a] \in {"leave", "left"} => written[a] # <<>>

(* The developer's handler behind CheckCallSafeMiddleware runs only when   *)
(* the two processes share a callKey, and behind a gateway that checks too *)
(* only when the client has it: a Call-Key of the client's is worth        *)
(* nothing to the service.                                                 *)
KeyedOnly ==
  ran # {} =>
    /\ conf.service.auth => conf.gateway.key = conf.service.key
    /\ conf.gateway.auth => ask[0].key = conf.gateway.key

(* Where both processes have the same tracer, the service's span is in the *)
(* trace of the gateway's, and its child unless zipkin finds a b3 header   *)
(* of the client's: that is passed on and preferred to what the gateway    *)
(* injects. A b3 header without ids parts the two traces.                  *)
ClientB3 == IF conf.gateway.tracer = "zipkin" THEN ask[0].trace["b3"]
                                             ELSE "none"

OneTrace ==
  conf.gateway.tracer = conf.service.tracer /\ ClientB3 # "decision"
    => \A a \in 1 .. sent : /\ Trace(a) = GatewayTrace
                            /\ Parent(a) = "gateway" \/ ClientB3 = "client"

(* What the client reads is what happened: data is what the handler of the *)
(* last request sent answered; a failure comes with a 2xx code only if the *)
(* service answered that code; and gatewayFail("Success"), the message     *)
(* retryGo starts with, takes a node list that shrank and grew again.      *)
MeansWhatItSays ==
  \A i \in DOMAIN written[0] :
    LET r == written[0][i] IN
    /\ r.msg = "data" => sent \in ran /\ written[sent] = <<Reply(200, "data")>>
    /\ r.msg = "serverError" /\ r.code < 300
         => Head(written[sent]).code = r.code
    /\ r.msg = "Success" => moves >= 2

(* The client can count on RemoteCall: with one run per attempt when its   *)
(* request is not one to replay and the service does not redirect.         *)
Refusals == {"metrics", "pprof", "cors", "badRequest", "noAuth", "limiter",
             "fusing"}
Told == IF written[0] = <<>> THEN "none"
        ELSE LET r == Head(written[0]) IN
             IF r.msg \in Refusals THEN "refused"
             ELSE IF r.msg = "data" THEN "served" ELSE "failed"

Single == ~ask[0].replay /\ ~conf.moved

Client == INSTANCE RemoteCall WITH
  Attempts <- Attempts, single <- Single, runs <- Cardinality(ran),
  answer <- Told

ImplementsRemoteCall == Client!Spec

(* On a route with a timeout every request ends, whatever the service and  *)
(* the network do.                                                         *)
RequestEnds == conf.timed => <>(stage[0] \in {"left", "dead"})
=============================================================================
