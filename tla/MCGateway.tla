----------------------------- MODULE MCGateway -----------------------------
(* An instance of Gateway for TLC: the configurations and the requests     *)
(* that differ in what the middlewares look at. The gateway has key k1.    *)
EXTENDS Gateway

TwoKeys == {"k1", "k2"}

(* Every request through every gateway and service here. cors matters to   *)
(* OPTIONS alone, which skips auth where it is answered.                   *)
Process(cors, debug, auth, key) ==
  [cors |-> cors, debug |-> debug, auth |-> auth, key |-> key,
   tracer |-> "zipkin"]
GatewayConfigs == {Process(FALSE, FALSE, FALSE, "k1"),
                   Process(FALSE, FALSE, TRUE, "k1"),
                   Process(TRUE, TRUE, TRUE, "k1")}
ServiceConfigs == {Process(FALSE, FALSE, TRUE, "k1"),
                   Process(TRUE, FALSE, TRUE, "k2"),
                   Process(TRUE, FALSE, FALSE, "k2")}

Untraced == [h \in Headers |-> "none"]
AllRequests ==
  {q \in [to : Paths, options : BOOLEAN, replay : BOOLEAN, badJson : BOOLEAN,
          key : TwoKeys \cup {NoKey}, trace : {Untraced}] :
     q.options = q.replay}

AllCases == [gateway : GatewayConfigs, service : ServiceConfigs,
             timed : {TRUE}, served : {TRUE}, moved : {FALSE}] \X AllRequests

(* One request through one pair of processes: without a timeout, without   *)
(* such a path, redirected and sent again, and with trace headers.         *)
Plain == Process(FALSE, FALSE, TRUE, "k1")
Pair == [gateway |-> Plain, service |-> Plain,
         timed |-> TRUE, served |-> TRUE, moved |-> FALSE]
Call(trace) == [to |-> "api", options |-> FALSE, replay |-> FALSE,
                badJson |-> FALSE, key |-> "k1", trace |-> trace]
OtherCases == {<<[Pair EXCEPT !.timed = FALSE], Call(Untraced)>>,
               <<[Pair EXCEPT !.served = FALSE], Call(Untraced)>>,
               <<[Pair EXCEPT !.moved = TRUE],
                 [Call(Untraced) EXCEPT !.replay = TRUE]>>}

JaegerPair == [Pair EXCEPT !.gateway.tracer = "jaeger",
                           !.service.tracer = "jaeger"]
Traces(p, h, spans) ==
  {<<p, Call([g \in Headers |-> IF g = h THEN t ELSE "client"])>> : t \in spans}
TraceCases == Traces(Pair, "b3", {"none", "client", "decision"})
              \cup Traces(JaegerPair, "b3", {"none", "client", "decision"})
              \cup Traces(JaegerPair, "uber-trace-id", {"none"})

GatewayCases == AllCases \cup OtherCases \cup TraceCases
=============================================================================
