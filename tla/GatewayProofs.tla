--------------------------- MODULE GatewayProofs ---------------------------
(***************************************************************************)
(* What a request can rely on at any gateway and service: for any number   *)
(* of attempts, any keys, configurations and requests, and any behaviour   *)
(* of the network, the service and the node list.                          *)
(***************************************************************************)
EXTENDS Gateway, FiniteSetTheorems, TLAPS

-----------------------------------------------------------------------------
(* The inductive invariant. Loop is where retryGo may be.                  *)
ChainStages == {"sent", "cors", "metrics", "auth", "route"}
Early == ChainStages \cup {"handler"}
Loop == {"acquire", "address", "wait", "release", "charge", "finish"}
Over == {"leave", "left"}

(* The messages of a result that holds none.                               *)
NoText == ""
NoTexts == {NoText, "Success"}

(* A reply is written in the step that leaves the chain; a handler may     *)
(* panic after it.                                                         *)
Replied(a) == \E r \in Replies : written[a] = <<r>>

WriteInv(a) == /\ written[a] = <<>> \/ Replied(a)
               /\ stage[a] \in Over => Replied(a)
               /\ stage[a] \notin Over \cup {"dead"} => written[a] = <<>>

(* What Forward writes over the client's headers, and redirects keep.      *)
AskInv(q) == /\ q.key = conf.gateway.key
             /\ q.trace = Injected(ask[0])
             /\ Single => ~q.replay

(* One run at the service: what it was sent, and what is past its door.    *)
CallInv(a) ==
  /\ stage[a] \notin Loop
  /\ WriteInv(a)
  /\ stage[a] # "unsent" => AskInv(ask[a])
  /\ stage[a] \in {"route", "handler", "running"} => ~Unsafe(a)
  /\ a \in ran => ~Unsafe(a) /\ stage[a] \in {"running", "dead"} \cup Over
  /\ stage[a] = "running" => a \in ran
  /\ \A r \in Replies : written[a] = <<r>> =>
       (r.msg = "data" => a \in ran) /\ (r.code = 302 => conf.moved)

(* The client's run, and which requests it has sent.                       *)
Extra == IF Single THEN 0 ELSE MaxAgain

CountInv ==
  /\ sent <= try + Extra
  /\ stage[0] \in Early \cup {"acquire", "address"} => sent < try + Extra
  /\ stage[0] \in Early => sent = 0
  /\ \A a \in Calls : stage[a] = "unsent" <=> a > sent

SendInv ==
  /\ stage[0] \notin {"unsent", "running"}
  /\ 0 \notin ran /\ WriteInv(0)
  /\ stage[0] = "dead" => written[0] = <<>>
  /\ stage[0] = "wait" => sent \in Calls /\ stage[sent] # "unsent"
  /\ stage[0] \in {"route", "handler"} \cup Loop => ~Unsafe(0)
  /\ \A a \in Calls : stage[a] # "unsent" => ~Unsafe(0)

(* What retryGo's result says of the last request sent.                    *)
AnswerInv ==
  /\ stage[0] \in {"release", "finish"} /\ result.err = "none"
       => sent \in Calls /\ written[sent] = <<Reply(200, result.msg)>>
  /\ stage[0] \in {"release", "charge"} /\ result.err = "failed" /\ result.code # 500
       => sent \in Calls /\ Arrived(sent) /\ Head(written[sent]).code = result.code

ResultInv ==
  /\ stage[0] = "charge" => result.err # "none"
  /\ stage[0] \in {"release", "charge"} /\ result.err # "none"
       => result.msg = NoText /\ (result.err = "timeout" => result.code = 500)
  /\ stage[0] \in Early \cup {"acquire", "address"} => result.msg \in NoTexts
  /\ stage[0] = "finish" /\ result.err # "none"
       => result.msg \in NoTexts /\ result.code = 500

MoveInv ==
  /\ ~inList => moves >= 1
  /\ stage[0] = "finish" /\ result.err # "none"
       => moves >= 1 /\ (inList => moves >= 2)

(* What the client's reply says.                                           *)
TellInv ==
  \A r \in Replies : written[0] = <<r>> =>
    /\ r.msg = "data" => sent \in ran /\ written[sent] = <<Reply(200, "data")>>
    /\ r.msg = "serverError" /\ r.code < 300
         => sent \in Calls /\ Arrived(sent) /\ Head(written[sent]).code = r.code
    /\ r.msg = "Success" => moves >= 2
    /\ r.msg \in Refusals => \A a \in Calls : stage[a] = "unsent"

ClientInv == CountInv /\ SendInv /\ AnswerInv /\ ResultInv /\ MoveInv /\ TellInv
Inv == (\A a \in Calls : CallInv(a)) /\ ClientInv

-----------------------------------------------------------------------------
LEMMA RunsFacts == /\ 0 \in Runs /\ Calls \subseteq Runs /\ 0 \notin Calls
                   /\ Calls \subseteq Nat /\ 1 \in Calls /\ Runs \subseteq Nat
                   /\ \A a \in Runs : a = 0 \/ a \in Calls
                   /\ \A n \in Nat : n <= Attempts + MaxAgain => n \in Runs
                   /\ Attempts \in Nat /\ MaxAgain \in Nat
BY GatewayAssumption DEF Runs, Calls

LEMMA ReplyType ==
  ASSUME NEW c \in Codes, NEW m \in Messages
  PROVE  Reply(c, m) \in Replies /\ Reply(c, m).msg = m /\ Reply(c, m).code = c
BY DEF Reply, Replies

LEMMA NoTextFacts ==
  /\ NoText \in NoTexts /\ "Success" \in NoTexts /\ NoTexts \subseteq Messages
  /\ NoTexts \cap Refusals = {} /\ "data" \notin NoTexts /\ "serverError" \notin NoTexts
BY DEF NoText, NoTexts, Messages, Refusals

LEMMA OneReply ==
  ASSUME NEW r \in Replies
  PROVE  /\ Append(<<>>, r) = <<r>> /\ <<r>> # <<>> /\ Head(<<r>>) = r
         /\ Len(<<r>>) = 1 /\ <<r>>[1] = r /\ DOMAIN <<r>> = {1}
         /\ <<r>> \in Seq(Replies)
         /\ \A q \in Replies : <<q>> = <<r>> => q = r
OBVIOUS

(* A reply is the first one of its run.                                    *)
LEMMA FirstReply ==
  ASSUME TypeOK, NEW a \in Runs, WriteInv(a), stage[a] \notin Over \cup {"dead"},
         NEW r \in Replies, written' = [written EXCEPT ![a] = Append(@, r)]
  PROVE  written' = [written EXCEPT ![a] = <<r>>]
<1>1. written[a] = <<>>
  BY DEF WriteInv
<1> QED BY <1>1, OneReply DEF TypeOK

(* Every step of the chain either goes on to the next stage or answers.    *)
ChainOn(a) ==
  \E s \in ChainStages \cup {"handler", "left", "dead"} :
    /\ stage' = [stage EXCEPT ![a] = s] /\ written' = written
    /\ \/ stage[a] = "leave" /\ s = "left"
       \/ stage[a] = "leave" /\ s = "dead" /\ a \in ran
       \/ stage[a] \in ChainStages /\ s \notin {"left", "dead"}
    /\ s = "route" => ~Unsafe(a)
    /\ s = "handler" => stage[a] = "route"

Tells(a, r) == written' = [written EXCEPT ![a] = <<r>>]

ChainAnswers(a) ==
  \E s \in Over, r \in Replies :
    /\ stage[a] \in ChainStages
    /\ Goto(a, s) /\ Tells(a, r)
    /\ r.msg \in Refusals \cup {"notFound"} /\ r.code # 302

LEMMA ChainEffect ==
  ASSUME TypeOK, NEW a \in Runs, WriteInv(a), Chain(a)
  PROVE  /\ UNCHANGED chainRest
         /\ stage[a] # "unsent"
         /\ ChainOn(a) \/ ChainAnswers(a)
<1>0. \A c \in Codes, m \in Messages :
        Reply(c, m) \in Replies /\ Reply(c, m).msg = m /\ Reply(c, m).code = c
  BY ReplyType
<1>1. UNCHANGED chainRest /\ stage[a] # "unsent"
  BY DEF Chain, Pprof, Enter, Cors, Metrics, Auth, Route, Leave
<1>3. ASSUME NEW s \in Over, NEW r \in Replies, stage[a] \in ChainStages,
             r.msg \in Refusals \cup {"notFound"}, r.code # 302,
             Goto(a, s), written' = [written EXCEPT ![a] = Append(@, r)]
      PROVE  ChainAnswers(a)
  <2>1. stage[a] \notin Over \cup {"dead"}
    BY <1>3 DEF Over, ChainStages
  <2>2. Tells(a, r)
    BY <1>3, <2>1, FirstReply DEF Tells
  <2> QED BY <1>3, <2>2 DEF ChainAnswers
<1>4. ASSUME NEW s \in ChainStages \cup {"handler"}, stage[a] \in ChainStages,
             Pass(a, s), s = "route" => ~Unsafe(a), s = "handler" => stage[a] = "route"
      PROVE  ChainOn(a)
  <2>1. s \notin {"left", "dead"}
    BY DEF ChainStages
  <2> QED BY <1>4, <2>1 DEF Pass, Goto, ChainOn
<1>a. ASSUME NEW c \in Codes \ {302}, NEW m \in Messages, stage[a] \in ChainStages,
             m \in Refusals \cup {"notFound"}, Write(a, Reply(c, m))
      PROVE  ChainAnswers(a)
  <2>1. PICK r \in Replies : r = Reply(c, m) /\ r.msg = m /\ r.code = c
    BY <1>0
  <2>2. r.msg \in Refusals \cup {"notFound"} /\ r.code # 302 /\ "leave" \in Over
    BY <1>a, <2>1 DEF Over
  <2>3. Goto(a, "leave") /\ written' = [written EXCEPT ![a] = Append(@, r)]
    BY <1>a, <2>1 DEF Write
  <2> QED BY <1>3, <1>a, <2>2, <2>3
<1>b. /\ {200, 204, 400, 404} \subseteq Codes \ {302}
      /\ {"pprof", "cors", "metrics", "badRequest", "noAuth", "notFound"}
           \subseteq Messages \cap (Refusals \cup {"notFound"})
  BY DEF Codes, Messages, Refusals
<1> SUFFICES ChainOn(a) \/ ChainAnswers(a)
  BY <1>1
<1>5. CASE Pprof(a)
  <2>1. 200 \in Codes /\ "pprof" \in Messages
    BY DEF Codes, Messages
  <2>2. PICK r \in Replies : r = Reply(200, "pprof") /\ r.msg = "pprof" /\ r.code = 200
    BY <1>0, <2>1
  <2>3. r.msg \in Refusals \cup {"notFound"} /\ r.code # 302 /\ "left" \in Over
    BY <2>2 DEF Refusals, Over
  <2>4. /\ stage[a] \in ChainStages /\ Goto(a, "left")
        /\ written' = [written EXCEPT ![a] = Append(@, r)]
    BY <1>5, <2>2 DEF Pprof, ChainStages
  <2> QED BY <1>3, <2>3, <2>4
<1>6. CASE Enter(a)
  <2>1. stage[a] \in ChainStages
    BY <1>6 DEF Enter, ChainStages
  <2>2. Write(a, Reply(400, "badRequest")) \/ Pass(a, "cors")
    BY <1>6 DEF Enter
  <2> QED BY <1>4, <1>a, <1>b, <2>1, <2>2 DEF ChainStages
<1>7. CASE Cors(a)
  <2>1. stage[a] \in ChainStages
    BY <1>7 DEF Cors, ChainStages
  <2>2. Write(a, Reply(204, "cors")) \/ Pass(a, "metrics")
    BY <1>7 DEF Cors
  <2> QED BY <1>4, <1>a, <1>b, <2>1, <2>2 DEF ChainStages
<1>8. CASE Metrics(a)
  <2>1. stage[a] \in ChainStages
    BY <1>8 DEF Metrics, ChainStages
  <2>2. Write(a, Reply(200, "metrics")) \/ Pass(a, "auth")
    BY <1>8 DEF Metrics
  <2> QED BY <1>4, <1>a, <1>b, <2>1, <2>2 DEF ChainStages
<1>9. CASE Auth(a)
  <2>1. stage[a] \in ChainStages
    BY <1>9 DEF Auth, ChainStages
  <2>2. Write(a, Reply(404, "noAuth")) \/ (Pass(a, "route") /\ ~Unsafe(a))
    BY <1>9 DEF Auth
  <2> QED BY <1>4, <1>a, <1>b, <2>1, <2>2 DEF ChainStages
<1>10. CASE Route(a)
  <2>1. stage[a] = "route" /\ "route" \in ChainStages
    BY <1>10 DEF Route, ChainStages
  <2>2. Write(a, Reply(404, "notFound")) \/ Pass(a, "handler")
    BY <1>10 DEF Route, NotFound
  <2> QED BY <1>4, <1>a, <1>b, <2>1, <2>2
<1>11. CASE Leave(a)
  <2>1. PICK s \in {"left", "dead"} : Pass(a, s) /\ (s = "dead" => a \in ran)
    BY <1>11 DEF Leave
  <2>2. /\ stage[a] = "leave" /\ stage' = [stage EXCEPT ![a] = s] /\ written' = written
        /\ s \in ChainStages \cup {"handler", "left", "dead"}
    BY <1>11, <2>1 DEF Leave, Pass, Goto
  <2>3. s # "route" /\ s # "handler"
    BY <2>1
  <2> QED BY <2>1, <2>2, <2>3 DEF ChainOn
<1> QED BY <1>5, <1>6, <1>7, <1>8, <1>9, <1>10, <1>11 DEF Chain

-----------------------------------------------------------------------------
LEMMA StringsDistinct == Loop \cup ChainStages \cup {"handler"} \cup Over \subseteq Stages
BY DEF Loop, ChainStages, Over, Stages

(* One write keeps the type of the replies.                                *)
LEMMA WriteTypes ==
  ASSUME TypeOK, NEW a \in Runs, NEW r \in Replies, Write(a, r)
  PROVE  stage' \in [Runs -> Stages] /\ written' \in [Runs -> Seq(Replies)]
<1>1. written[a] \in Seq(Replies)
  BY DEF TypeOK
<1>2. Append(written[a], r) \in Seq(Replies)
  BY <1>1
<1>3. written' = [written EXCEPT ![a] = Append(written[a], r)]
  BY DEF Write
<1>4. stage' = [stage EXCEPT ![a] = "leave"] /\ "leave" \in Stages
  BY DEF Write, Goto, Stages
<1> QED BY <1>2, <1>3, <1>4 DEF TypeOK

LEMMA PassTypes ==
  ASSUME TypeOK, NEW a \in Runs, NEW s \in Stages, Pass(a, s)
  PROVE  stage' \in [Runs -> Stages] /\ written' \in [Runs -> Seq(Replies)]
BY DEF TypeOK, Pass, Goto

LEMMA RequestType ==
  ASSUME TypeOK
  PROVE  /\ Forward(ask[0]) \in RequestTypes
         /\ \A a \in Runs : /\ ask[a] \in RequestTypes
                            /\ Redirected(ask[a]) \subseteq RequestTypes
<1>1. conf \in ConfigTypes /\ \A a \in Runs : ask[a] \in RequestTypes
  BY DEF TypeOK
<1>2. conf.gateway.key \in Keys /\ conf.gateway \in Processes
  BY <1>1 DEF ConfigTypes, Processes
<1>3. ask[0] \in RequestTypes
  BY <1>1, RunsFacts
<1>4. Injected(ask[0]) \in [Headers -> Spans]
  BY <1>3 DEF Injected, RequestTypes, Spans
<1>5. Forward(ask[0]) \in RequestTypes
  BY <1>2, <1>3, <1>4 DEF Forward, RequestTypes, Paths
<1>6. ASSUME NEW q \in RequestTypes PROVE Redirected(q) \subseteq RequestTypes
  <2>1. \A t \in Paths : /\ [q EXCEPT !.to = t] \in RequestTypes
                         /\ [q EXCEPT !.to = t, !.options = FALSE, !.replay = TRUE] \in RequestTypes
    BY DEF RequestTypes
  <2> QED BY <2>1 DEF Redirected
<1> QED BY <1>1, <1>5, <1>6

(* A request is what AskInv says when Forward makes it, and stays so.      *)
LEMMA AskFacts ==
  ASSUME TypeOK
  PROVE  /\ AskInv(Forward(ask[0]))
         /\ \A q \in RequestTypes : AskInv(q) /\ conf.moved =>
              \A p \in Redirected(q) : AskInv(p)
<1>1. ask[0] \in RequestTypes
  BY RunsFacts DEF TypeOK
<1>2. AskInv(Forward(ask[0]))
  <2>1. /\ Forward(ask[0]).key = conf.gateway.key
        /\ Forward(ask[0]).trace = Injected(ask[0])
        /\ Forward(ask[0]).replay = ask[0].replay
    BY <1>1 DEF Forward, RequestTypes
  <2> QED BY <2>1 DEF AskInv, Single
<1>3. ASSUME NEW q \in RequestTypes, AskInv(q), conf.moved, NEW p \in Redirected(q)
      PROVE  AskInv(p)
  <2>1. p.key = q.key /\ p.trace = q.trace
    BY <1>3 DEF Redirected, RequestTypes
  <2> QED BY <1>3, <2>1 DEF AskInv, Single
<1> QED BY <1>2, <1>3

LEMMA OutcomeType ==
  ASSUME NEW c \in Codes, NEW m \in Messages, NEW e \in {"none", "failed", "timeout"}
  PROVE  /\ Outcome(c, m, e) \in Results
         /\ Outcome(c, m, e).code = c /\ Outcome(c, m, e).msg = m
         /\ Outcome(c, m, e).err = e
BY DEF Outcome, Results

-----------------------------------------------------------------------------
(* Steps elsewhere leave a run at the service as it is.                    *)
LEMMA AskFrame ==
  ASSUME conf' = conf, ask'[0] = ask[0]
  PROVE  /\ \A a : ask'[a] = ask[a] => (AskInv(ask[a])' <=> AskInv(ask[a]))
         /\ (Single' <=> Single) /\ Injected(ask[0])' = Injected(ask[0])
         /\ Extra' = Extra /\ (Unsafe(0)' <=> Unsafe(0))
<1>1. Single' <=> Single
  BY DEF Single
<1> QED BY <1>1 DEF AskInv, Injected, Injects, Extra, Unsafe, Host

LEMMA CallFrame ==
  ASSUME NEW a \in Calls, CallInv(a), conf' = conf, ask'[0] = ask[0],
         stage'[a] = stage[a], written'[a] = written[a], ask'[a] = ask[a],
         a \in ran' <=> a \in ran
  PROVE  CallInv(a)'
<1>1. AskInv(ask[a])' <=> AskInv(ask[a])
  <2>1. Single' <=> Single
    BY DEF Single
  <2> QED BY <2>1 DEF AskInv, Injected, Injects
<1>2. Unsafe(a)' <=> Unsafe(a)
  BY DEF Unsafe, Host
<1>3. WriteInv(a)' <=> WriteInv(a)
  BY DEF WriteInv, Replied
<1> QED BY <1>1, <1>2, <1>3 DEF CallInv

(* A run at the service, at a time: one that others may wait for keeps its *)
(* answer, and the client's run and the gateway's count stay as they are.  *)
LEMMA ServiceStep ==
  ASSUME TypeOK, Inv, NEW a \in Calls, NEW s \in Stages, NEW w \in Seq(Replies),
         stage' = [stage EXCEPT ![a] = s], written' = [written EXCEPT ![a] = w],
         stage[a] # "unsent", s # "unsent", written[a] # <<>> => w = written[a],
         UNCHANGED <<conf, ask, try, sent, result, inList, moves>>,
         ran \subseteq ran', 0 \notin ran'
  PROVE  /\ ClientInv'
         /\ stage'[a] = s /\ written'[a] = w
         /\ \A b \in Calls : b # a => stage'[b] = stage[b] /\ written'[b] = written[b]
<1>1. a \in Runs /\ a # 0 /\ 0 \in Runs /\ Calls \subseteq Runs
  BY RunsFacts
<1>2. /\ stage'[a] = s /\ written'[a] = w
      /\ \A b \in Runs : b # a => stage'[b] = stage[b] /\ written'[b] = written[b]
  BY <1>1 DEF TypeOK
<1>3. /\ stage'[0] = stage[0] /\ written'[0] = written[0]
      /\ \A b \in Calls : stage'[b] = "unsent" <=> stage[b] = "unsent"
      /\ \A b \in Calls : written[b] # <<>> => written'[b] = written[b]
  BY <1>1, <1>2
<1>4. Extra' = Extra /\ (Unsafe(0)' <=> Unsafe(0))
  BY AskFrame
<1>5. CountInv'
  BY <1>3, <1>4 DEF Inv, ClientInv, CountInv, Early, ChainStages
<1>6. SendInv'
  BY <1>3, <1>4 DEF Inv, ClientInv, SendInv, WriteInv, Replied
<1>7. ResultInv'
  BY <1>3 DEF Inv, ClientInv, ResultInv, Early, ChainStages
<1>8. AnswerInv'
  <2>1. /\ sent \in Calls /\ written[sent] # <<>> => written'[sent] = written[sent]
        /\ <<Reply(200, result.msg)>> # <<>>
    BY <1>3
  <2>2. sent \in Calls /\ Arrived(sent) => Arrived(sent)' /\ written'[sent] = written[sent]
    BY <1>3 DEF Arrived
  <2>3. UNCHANGED <<stage[0], sent, result>>
    BY <1>3
  <2>4. AnswerInv
    BY DEF Inv, ClientInv
  <2>5. stage[0] \in {"release", "finish"} /\ result.err = "none"
          => sent \in Calls /\ written'[sent] = <<Reply(200, result.msg)>>
    <3> SUFFICES ASSUME stage[0] \in {"release", "finish"}, result.err = "none"
                 PROVE  sent \in Calls /\ written'[sent] = <<Reply(200, result.msg)>>
      OBVIOUS
    <3>1. sent \in Calls /\ written[sent] = <<Reply(200, result.msg)>>
      BY <2>4 DEF AnswerInv
    <3> QED BY <2>1, <3>1
  <2>6. stage[0] \in {"release", "charge"} /\ result.err = "failed" /\ result.code # 500
          => sent \in Calls /\ Arrived(sent)' /\ Head(written'[sent]).code = result.code
    BY <2>2, <2>4 DEF AnswerInv
  <2> QED BY <2>3, <2>5, <2>6 DEF AnswerInv, Reply
<1>9. MoveInv'
  BY <1>3 DEF Inv, ClientInv, MoveInv
<1>10. TellInv'
  <2> SUFFICES ASSUME NEW r \in Replies, written[0] = <<r>>
               PROVE  /\ r.msg = "data" => sent \in ran' /\ written'[sent] = <<Reply(200, "data")>>
                      /\ r.msg = "serverError" /\ r.code < 300
                           => sent \in Calls /\ Arrived(sent)' /\ Head(written'[sent]).code = r.code
                      /\ r.msg = "Success" => moves >= 2
                      /\ r.msg \in Refusals => \A b \in Calls : stage'[b] = "unsent"
    BY <1>3 DEF TellInv, Reply
  <2>1. /\ ran \subseteq Calls
        /\ sent \in Calls /\ written[sent] # <<>> => written'[sent] = written[sent]
        /\ <<Reply(200, "data")>> # <<>>
    BY <1>3 DEF TypeOK
  <2>2. /\ r.msg = "data" => sent \in ran /\ written[sent] = <<Reply(200, "data")>>
        /\ r.msg = "serverError" /\ r.code < 300
             => sent \in Calls /\ Arrived(sent) /\ Head(written[sent]).code = r.code
        /\ r.msg = "Success" => moves >= 2
        /\ r.msg \in Refusals => \A b \in Calls : stage[b] = "unsent"
    BY DEF Inv, ClientInv, TellInv
  <2>3. r.msg \in Refusals => \A b \in Calls : stage'[b] = "unsent"
    BY <1>3, <2>2
  <2> QED BY <2>1, <2>2, <2>3 DEF Arrived
<1> QED BY <1>1, <1>2, <1>5, <1>6, <1>7, <1>8, <1>9, <1>10 DEF ClientInv

LEMMA ChainAtService ==
  ASSUME TypeOK, Inv, NEW a \in Calls, Chain(a)
  PROVE  TypeOK' /\ Inv'
<1>1. a \in Runs /\ CallInv(a) /\ WriteInv(a) /\ a # 0
  BY RunsFacts DEF Inv, CallInv
<1>2. UNCHANGED chainRest /\ stage[a] # "unsent" /\ (ChainOn(a) \/ ChainAnswers(a))
  BY <1>1, ChainEffect
<1> DEFINE Effect(s, w) ==
        /\ stage' = [stage EXCEPT ![a] = s] /\ written' = [written EXCEPT ![a] = w]
        /\ stage[a] \in ChainStages \cup {"leave"}
        /\ stage[a] = "leave" => w = written[a] /\ s \in Over \cup {"dead"}
        /\ s \in Over \cup {"dead"} => \E r \in Replies :
             w = <<r>> /\ (stage[a] = "leave" \/ (r.msg # "data" /\ r.code # 302))
        /\ s \notin Over \cup {"dead"} => w = <<>>
        /\ s \in {"route", "handler"} => ~Unsafe(a)
        /\ stage[a] # "leave" => s # "dead" /\ written[a] = <<>>
<1>3. PICK s \in Early \cup Over \cup {"dead"}, w \in Seq(Replies) : Effect(s, w)
  <2>1. CASE ChainOn(a)
    <3>1. PICK s \in ChainStages \cup {"handler", "left", "dead"} :
            /\ stage' = [stage EXCEPT ![a] = s] /\ written' = written
            /\ \/ stage[a] = "leave" /\ s = "left"
               \/ stage[a] = "leave" /\ s = "dead" /\ a \in ran
               \/ stage[a] \in ChainStages /\ s \notin {"left", "dead"}
            /\ s = "route" => ~Unsafe(a)
            /\ s = "handler" => stage[a] = "route"
      BY <2>1 DEF ChainOn
    <3>2. written' = [written EXCEPT ![a] = written[a]] /\ written[a] \in Seq(Replies)
      BY <1>1, <3>1 DEF TypeOK
    <3>3. s \in Early \cup Over \cup {"dead"}
      BY DEF Early, Over
    <3>4. s \in Over \cup {"dead"} =>
            stage[a] = "leave" /\ \E r \in Replies : written[a] = <<r>>
      BY <1>1, <3>1 DEF WriteInv, Replied, Over, ChainStages
    <3>5. s \notin Over \cup {"dead"} => written[a] = <<>>
      BY <1>1, <3>1 DEF WriteInv, Over, ChainStages
    <3>6. s \in {"route", "handler"} => ~Unsafe(a)
      BY <1>1, <3>1 DEF CallInv
    <3>7. /\ stage[a] \in ChainStages \cup {"leave"}
          /\ stage[a] = "leave" => s \in Over \cup {"dead"}
          /\ stage[a] # "leave" => s # "dead" /\ written[a] = <<>>
      BY <1>1, <3>1 DEF WriteInv, Over, ChainStages
    <3>8. Effect(s, written[a])
      BY <3>1, <3>2, <3>4, <3>5, <3>6, <3>7
    <3> QED BY <3>2, <3>3, <3>8
  <2>2. CASE ChainAnswers(a)
    <3>1. PICK s \in Over, r \in Replies :
            /\ stage[a] \in ChainStages
            /\ Goto(a, s) /\ Tells(a, r)
            /\ r.msg \in Refusals \cup {"notFound"} /\ r.code # 302
      BY <2>2 DEF ChainAnswers
    <3>2. r.msg # "data" /\ <<r>> \in Seq(Replies)
      BY <3>1, OneReply DEF Refusals
    <3>3. stage[a] # "leave" /\ s \notin {"route", "handler", "dead"}
      BY <3>1 DEF ChainStages, Over
    <3>4. written[a] = <<>>
      BY <1>1, <3>1 DEF WriteInv, ChainStages, Over
    <3>5. Effect(s, <<r>>)
      BY <3>1, <3>2, <3>3, <3>4 DEF Goto, Tells
    <3> QED BY <3>2, <3>5
  <2> QED BY <1>2, <2>1, <2>2
<1>4. UNCHANGED <<conf, ask, ran, try, sent, result, inList, moves>>
  BY <1>2 DEF chainRest
<1>5. s \in Stages /\ s # "unsent" /\ s # "running" /\ s \notin Loop
  BY DEF Stages, Early, Over, ChainStages, Loop
<1>6. TypeOK'
  BY <1>1, <1>3, <1>4, <1>5 DEF TypeOK
<1>7. /\ ClientInv' /\ stage'[a] = s /\ written'[a] = w
      /\ \A b \in Calls : b # a => stage'[b] = stage[b] /\ written'[b] = written[b]
  <2>1. 0 \notin ran' /\ ran \subseteq ran'
    BY <1>4 DEF Inv, ClientInv, SendInv
  <2>2. written[a] # <<>> => w = written[a]
    BY <1>3
  <2> QED BY <1>2, <1>3, <1>4, <1>5, <2>1, <2>2, ServiceStep
<1>8. ASSUME NEW b \in Calls PROVE CallInv(b)'
  <2>1. CASE b # a
    BY <1>4, <1>7, <2>1, CallFrame DEF Inv
  <2>2. CASE b = a
    <3>1. WriteInv(a)'
      <4>1. s \in Over \cup {"dead"} => Replied(a)'
        BY <1>3, <1>7 DEF Replied
      <4> QED BY <1>3, <1>7, <4>1 DEF WriteInv, Replied
    <3>2. Unsafe(a)' <=> Unsafe(a)
      BY <1>4 DEF Unsafe, Host
    <3>3. AskInv(ask[a])'
      BY <1>1, <1>2, <1>4, AskFrame DEF CallInv
    <3>4. a \in ran => stage[a] = "leave" /\ s \in Over \cup {"dead"}
      BY <1>1, <1>3 DEF CallInv, ChainStages, Over
    <3>5. \A r \in Replies : written'[a] = <<r>> =>
            (r.msg = "data" => a \in ran) /\ (r.code = 302 => conf.moved)
      BY <1>1, <1>3, <1>7, OneReply DEF CallInv
    <3> QED BY <1>1, <1>3, <1>4, <1>5, <1>7, <2>2, <3>1, <3>2, <3>3, <3>4, <3>5 DEF CallInv
  <2> QED BY <2>1, <2>2
<1> QED BY <1>6, <1>7, <1>8 DEF Inv

-----------------------------------------------------------------------------
(* A step of the client's run alone: to another stage without a reply, or  *)
(* with one.                                                               *)
ClientOn(s) == stage' = [stage EXCEPT ![0] = s] /\ written' = written
ClientTold(s, r) == /\ stage' = [stage EXCEPT ![0] = s]
                    /\ written' = [written EXCEPT ![0] = <<r>>]

LEMMA ClientAlone ==
  ASSUME TypeOK, Inv, NEW s \in Stages \ {"unsent", "running"},
         ClientOn(s) \/ \E r \in Replies : ClientTold(s, r),
         conf' = conf, ask' = ask, ran' = ran
  PROVE  /\ \A a \in Calls : CallInv(a)'
         /\ stage' \in [Runs -> Stages] /\ written' \in [Runs -> Seq(Replies)]
         /\ \A a \in Calls : stage'[a] = stage[a] /\ written'[a] = written[a]
         /\ stage'[0] = s
<1>1. \A a \in Calls : stage'[a] = stage[a] /\ written'[a] = written[a]
  BY RunsFacts DEF ClientOn, ClientTold, TypeOK
<1>2. stage' \in [Runs -> Stages] /\ stage'[0] = s
  BY RunsFacts DEF ClientOn, ClientTold, TypeOK
<1>3. written' \in [Runs -> Seq(Replies)]
  <2>1. ASSUME NEW r \in Replies, ClientTold(s, r)
        PROVE  written' \in [Runs -> Seq(Replies)]
    <3>1. <<r>> \in Seq(Replies)
      BY OneReply
    <3> QED BY <2>1, <3>1 DEF ClientTold, TypeOK
  <2> QED BY <2>1 DEF ClientOn, TypeOK
<1>4. ASSUME NEW a \in Calls PROVE CallInv(a)'
  BY <1>1, CallFrame DEF Inv
<1> QED BY <1>1, <1>2, <1>3, <1>4

LEMMA ChainAtGateway ==
  ASSUME TypeOK, Inv, Chain(0)
  PROVE  TypeOK' /\ Inv'
<1>1. 0 \in Runs /\ WriteInv(0) /\ stage[0] # "unsent" /\ 0 \notin ran
  BY RunsFacts DEF Inv, ClientInv, SendInv
<1>2. UNCHANGED chainRest /\ (ChainOn(0) \/ ChainAnswers(0))
  BY <1>1, ChainEffect
<1>3. UNCHANGED <<conf, ask, ran, try, sent, result, inList, moves>>
  BY <1>2 DEF chainRest
<1>4. Extra' = Extra /\ (Unsafe(0)' <=> Unsafe(0))
  BY <1>3, AskFrame
<1>5. written \in [Runs -> Seq(Replies)] /\ 0 \notin Calls
  BY RunsFacts DEF TypeOK
<1>6. CASE ChainOn(0)
  <2>1. PICK s \in ChainStages \cup {"handler", "left"} :
          /\ ClientOn(s)
          /\ \/ stage[0] = "leave" /\ s = "left"
             \/ stage[0] \in ChainStages /\ s # "left"
          /\ s = "route" => ~Unsafe(0)
          /\ s = "handler" => stage[0] = "route"
    BY <1>1, <1>6 DEF ChainOn, ClientOn
  <2>2. s \in Stages \ {"unsent", "running"} /\ s # "dead"
    BY DEF Stages, ChainStages
  <2>3. /\ \A a \in Calls : CallInv(a)'
        /\ stage' \in [Runs -> Stages] /\ written' \in [Runs -> Seq(Replies)]
        /\ \A a \in Calls : stage'[a] = stage[a] /\ written'[a] = written[a]
        /\ stage'[0] = s /\ written' = written
    BY <1>3, <2>1, <2>2, ClientAlone DEF ClientOn
  <2>4. TypeOK'
    BY <1>3, <2>3 DEF TypeOK
  <2>5. CountInv'
    BY <1>3, <1>4, <2>1, <2>2, <2>3
    DEF Inv, ClientInv, CountInv, Early, ChainStages
  <2>6. SendInv'
    <3>1. WriteInv(0)'
      BY <1>1, <2>1, <2>2, <2>3 DEF WriteInv, Replied, ChainStages, Over
    <3> QED BY <1>3, <1>4, <2>1, <2>2, <2>3, <3>1
        DEF Inv, ClientInv, SendInv, Early, ChainStages, Over, Loop
  <2>7. AnswerInv' /\ ResultInv' /\ MoveInv'
    BY <1>3, <2>1, <2>3
    DEF Inv, ClientInv, AnswerInv, ResultInv, MoveInv, Early, ChainStages
  <2>8. TellInv'
    BY <1>3, <2>3 DEF Inv, ClientInv, TellInv, Arrived
  <2> QED BY <2>3, <2>4, <2>5, <2>6, <2>7, <2>8 DEF Inv, ClientInv
<1>7. CASE ChainAnswers(0)
  <2>1. PICK s \in Over, r \in Replies :
          /\ stage[0] \in ChainStages /\ ClientTold(s, r)
          /\ r.msg \in Refusals \cup {"notFound"}
    BY <1>7 DEF ChainAnswers, Goto, Tells, ClientTold
  <2>2. s \in Stages \ {"unsent", "running"} /\ s # "dead"
    BY DEF Stages, Over
  <2>3. /\ \A a \in Calls : CallInv(a)'
        /\ stage' \in [Runs -> Stages] /\ written' \in [Runs -> Seq(Replies)]
        /\ \A a \in Calls : stage'[a] = stage[a] /\ written'[a] = written[a]
        /\ stage'[0] = s /\ written'[0] = <<r>>
    BY <1>1, <1>3, <2>1, <2>2, ClientAlone DEF ClientTold, TypeOK
  <2>4. TypeOK'
    BY <1>3, <2>3 DEF TypeOK
  <2>5. /\ stage[0] \in Early /\ sent = 0 /\ sent < try + Extra /\ sent \in Nat
        /\ \A a \in Calls : stage[a] = "unsent"
    <3>1. stage[0] \in Early /\ sent = 0 /\ sent < try + Extra
      BY <2>1 DEF Inv, ClientInv, CountInv, Early
    <3>2. \A a \in Calls : a > sent
      BY <3>1 DEF Calls
    <3> QED BY <3>1, <3>2 DEF Inv, ClientInv, CountInv
  <2>6. CountInv'
    BY <1>3, <1>4, <2>3, <2>5 DEF Inv, ClientInv, CountInv, Early, ChainStages, Over
  <2>7. SendInv'
    <3>1. WriteInv(0)'
      BY <2>1, <2>3 DEF WriteInv, Replied
    <3> QED BY <1>1, <1>3, <2>2, <2>3, <2>5, <3>1 DEF SendInv, ChainStages, Over, Loop
  <2>8. AnswerInv' /\ ResultInv' /\ MoveInv'
    BY <1>3, <2>3 DEF Inv, ClientInv, AnswerInv, ResultInv, MoveInv, Early, ChainStages, Over
  <2>9. TellInv'
    <3>1. r.msg \notin {"data", "serverError", "Success"}
      BY <2>1 DEF Refusals
    <3> SUFFICES ASSUME NEW q \in Replies, written'[0] = <<q>>
                 PROVE  /\ q = r /\ \A a \in Calls : stage'[a] = "unsent"
      BY <3>1 DEF TellInv
    <3> QED BY <2>3, <2>5, OneReply
  <2> QED BY <2>3, <2>4, <2>6, <2>7, <2>8, <2>9 DEF Inv, ClientInv
<1> QED BY <1>2, <1>6, <1>7

-----------------------------------------------------------------------------
(* The developer's handler.                                                *)
LEMMA AnswerType == Answers \subseteq Replies /\ \A r \in Answers : r.code = 302 => r = Moved
<1>1. /\ {200, 201, 302, 404, 500} \subseteq Codes /\ {"data", "text"} \subseteq Messages
  BY DEF Codes, Messages
<1>2. \A c \in {200, 201, 302, 404, 500}, m \in {"data", "text"} :
        Reply(c, m) \in Replies /\ Reply(c, m).code = c
  BY <1>1, ReplyType
<1> QED BY <1>2 DEF Answers, Moved

LEMMA HandlerSteps ==
  ASSUME TypeOK, Inv, NEW a \in Runs, Handle(a) \/ Complete(a)
  PROVE  TypeOK' /\ Inv'
<1>1. a \in Calls /\ a # 0 /\ stage[a] \in {"handler", "running"}
  BY RunsFacts DEF Handle, Complete, Inv, ClientInv, SendInv
<1>2. CallInv(a) /\ WriteInv(a) /\ written[a] = <<>> /\ ~Unsafe(a)
  BY <1>1 DEF Inv, CallInv, WriteInv, Over
<1>3. UNCHANGED <<conf, ask, try, sent, result, inList, moves>>
  BY DEF Handle, Complete, chainRest
<1> DEFINE Effect(s, w) ==
             /\ stage' = [stage EXCEPT ![a] = s] /\ written' = [written EXCEPT ![a] = w]
             /\ ran' = ran \cup {a}
             /\ s = "leave" => \E r \in Replies : w = <<r>> /\ (r.code = 302 => conf.moved)
             /\ s # "leave" => w = <<>>
<1>4. PICK s \in {"running", "leave", "dead"}, w \in Seq(Replies) : Effect(s, w)
  <2>1. CASE Handle(a)
    <3>1. stage' = [stage EXCEPT ![a] = "running"] /\ written' = written /\ ran' = ran \cup {a}
      BY <2>1 DEF Handle, Goto
    <3>2. written' = [written EXCEPT ![a] = <<>>]
      BY <1>2, <3>1 DEF TypeOK
    <3>3. <<>> \in Seq(Replies)
      OBVIOUS
    <3>4. Effect("running", <<>>)
      BY <3>1, <3>2, Zenon
    <3> QED BY <3>3, <3>4
  <2>2. CASE Complete(a)
    <3>1. ran' = ran \cup {a}
      BY <1>1, <1>2, <2>2 DEF Complete, chainRest, CallInv
    <3>2. ASSUME NEW r \in Answers, Write(a, r), r = Moved => conf.moved
          PROVE  Effect("leave", <<r>>) /\ <<r>> \in Seq(Replies)
      <4>1. r \in Replies /\ (r.code = 302 => conf.moved)
        BY <3>2, AnswerType
      <4>2. stage[a] \notin Over \cup {"dead"}
        BY <1>1 DEF Over
      <4>3. <<r>> \in Seq(Replies) /\ written' = [written EXCEPT ![a] = <<r>>]
        BY <1>1, <1>2, <3>2, <4>1, <4>2, FirstReply, OneReply, RunsFacts DEF Write
      <4> QED BY <3>1, <3>2, <4>1, <4>3 DEF Write, Goto
    <3>3. ASSUME Pass(a, "dead")
          PROVE  /\ stage' = [stage EXCEPT ![a] = "dead"]
                 /\ written' = [written EXCEPT ![a] = <<>>]
      BY <1>2, <3>3 DEF Pass, Goto, TypeOK
    <3>4. CASE \E r \in Answers : (r = Moved => conf.moved) /\ Write(a, r)
      BY <3>2, <3>4
    <3>5. CASE Pass(a, "dead")
      <4>1. Effect("dead", <<>>) /\ <<>> \in Seq(Replies)
        BY <3>1, <3>3, <3>5
      <4> QED BY <4>1
    <3> QED BY <2>2, <3>4, <3>5 DEF Complete
  <2> QED BY <2>1, <2>2
<1>5. TypeOK'
  BY <1>1, <1>3, <1>4 DEF TypeOK, Stages
<1>6. /\ ClientInv' /\ stage'[a] = s /\ written'[a] = w
      /\ \A b \in Calls : b # a => stage'[b] = stage[b] /\ written'[b] = written[b]
  <2>1. 0 \notin ran' /\ ran \subseteq ran'
    BY <1>1, <1>4 DEF Inv, ClientInv, SendInv
  <2>2. s \in Stages /\ s # "unsent" /\ stage[a] # "unsent"
    BY <1>1 DEF Stages
  <2> QED BY <1>1, <1>2, <1>3, <1>4, <2>1, <2>2, ServiceStep
<1>7. ASSUME NEW b \in Calls PROVE CallInv(b)'
  <2>1. CASE b # a
    BY <1>3, <1>4, <1>6, <2>1, CallFrame DEF Inv
  <2>2. CASE b = a
    <3>1. s # "unsent" /\ s \notin Loop /\ s \notin {"route", "handler"}
      BY DEF Loop
    <3>2. WriteInv(a)'
      BY <1>4, <1>6 DEF WriteInv, Replied, Over
    <3>3. ~Unsafe(a)'
      BY <1>2, <1>3 DEF Unsafe, Host
    <3>4. AskInv(ask[a])'
      BY <1>1, <1>2, <1>3, AskFrame DEF CallInv
    <3>5. a \in ran' /\ s \in {"running", "dead"} \cup Over
      BY <1>4 DEF Over
    <3>6. \A r \in Replies : written'[a] = <<r>> => (r.code = 302 => conf.moved)
      BY <1>4, <1>6, OneReply
    <3> QED BY <1>3, <1>6, <2>2, <3>1, <3>2, <3>3, <3>4, <3>5, <3>6 DEF CallInv
  <2> QED BY <2>1, <2>2
<1> QED BY <1>5, <1>6, <1>7 DEF Inv

-----------------------------------------------------------------------------
(* The node list. What a step that changes nothing else keeps.             *)
LEMMA QuietStep ==
  ASSUME TypeOK, Inv, UNCHANGED <<conf, stage, ask, written, ran, try, sent, result>>
  PROVE  CountInv' /\ SendInv' /\ AnswerInv' /\ ResultInv'
<1>1. Extra' = Extra /\ (Unsafe(0)' <=> Unsafe(0))
  BY AskFrame
<1>2. CountInv'
  BY <1>1 DEF Inv, ClientInv, CountInv, Early, ChainStages
<1>3. SendInv'
  BY <1>1 DEF Inv, ClientInv, SendInv, WriteInv, Replied
<1>4. AnswerInv'
  BY DEF Inv, ClientInv, AnswerInv, Reply, Arrived
<1>5. ResultInv'
  BY DEF Inv, ClientInv, ResultInv, Early, ChainStages
<1> QED BY <1>2, <1>3, <1>4, <1>5

LEMMA MoveStep == ASSUME TypeOK, Inv, Move PROVE TypeOK' /\ Inv'
<1>1. /\ UNCHANGED <<conf, stage, ask, written, ran, try, sent, result>>
      /\ inList' = ~inList /\ moves' = moves + 1 /\ moves < MaxMoves
  BY DEF Move
<1>2. moves \in Nat /\ moves' \in 0 .. MaxMoves
  BY <1>1, GatewayAssumption DEF TypeOK
<1>3. TypeOK'
  BY <1>1, <1>2 DEF TypeOK
<1>4. ASSUME NEW a \in Calls PROVE CallInv(a)'
  BY <1>1, CallFrame DEF Inv
<1>5. CountInv' /\ SendInv' /\ AnswerInv' /\ ResultInv'
  BY <1>1, QuietStep
<1>6. MoveInv'
  BY <1>1, <1>2 DEF Inv, ClientInv, MoveInv
<1>7. TellInv'
  BY <1>1, <1>2 DEF Inv, ClientInv, TellInv, Arrived
<1> QED BY <1>3, <1>4, <1>5, <1>6, <1>7 DEF Inv, ClientInv

-----------------------------------------------------------------------------
(* retryGo. A step that writes nothing, and one that answers the client.   *)
LEMMA SilentStep ==
  ASSUME TypeOK, Inv, stage[0] \in Loop \cup {"handler"},
         NEW s \in (Loop \ {"wait"}) \cup {"dead"}, ClientOn(s),
         UNCHANGED <<conf, ask, ran, sent, inList, moves>>,
         try' \in 1 .. Attempts, try' >= try, result' \in Results,
         s \in {"acquire", "address"} => sent < try' + Extra,
         stage'[0] = s => AnswerInv' /\ ResultInv' /\ MoveInv'
  PROVE  TypeOK' /\ Inv'
<1>1. s \in Stages \ {"unsent", "running"} /\ s \notin Early /\ s \notin Over
  BY DEF Loop, Stages, Early, ChainStages, Over
<1>2. /\ \A a \in Calls : CallInv(a)'
      /\ stage' \in [Runs -> Stages] /\ written' \in [Runs -> Seq(Replies)]
      /\ \A a \in Calls : stage'[a] = stage[a] /\ written'[a] = written[a]
      /\ stage'[0] = s
  BY <1>1, ClientAlone
<1>3. TypeOK'
  BY <1>2 DEF TypeOK
<1>4. /\ written[0] = <<>> /\ written'[0] = <<>> /\ ~Unsafe(0) /\ 0 \notin ran
      /\ ~Replied(0)'
  <2>1. written[0] = <<>> /\ ~Unsafe(0) /\ 0 \notin ran
    BY DEF Inv, ClientInv, SendInv, WriteInv, Loop, Over
  <2>2. written'[0] = <<>>
    BY <2>1 DEF ClientOn
  <2> QED BY <2>1, <2>2, OneReply DEF Replied
<1>5. Extra' = Extra /\ ~Unsafe(0)'
  BY <1>4, AskFrame
<1>6. CountInv'
  <2>1. sent <= try + Extra
    BY DEF Inv, ClientInv, CountInv
  <2>2. sent \in Nat /\ try \in Nat /\ try' \in Nat /\ Extra \in Nat
    BY RunsFacts DEF TypeOK, Extra
  <2>3. try <= try'
    BY <2>2
  <2>4. \A i, j, k, l \in Nat : i <= j + l /\ j <= k => i <= k + l
    OBVIOUS
  <2>5. sent <= try' + Extra
    BY <2>1, <2>2, <2>3, <2>4
  <2> QED BY <1>1, <1>2, <1>5, <2>5 DEF Inv, ClientInv, CountInv
<1>7. SendInv'
  <2>1. s # "wait" /\ s # "unsent" /\ s # "running"
    BY <1>1 DEF Loop
  <2> QED BY <1>1, <1>2, <1>4, <1>5, <2>1 DEF SendInv, WriteInv
<1>8. TellInv'
  BY <1>4 DEF TellInv, Replied
<1> QED BY <1>2, <1>3, <1>6, <1>7, <1>8, <1>1 DEF Inv, ClientInv, AnswerInv, ResultInv, MoveInv

LEMMA TellingStep ==
  ASSUME TypeOK, Inv, stage[0] \in Loop \cup {"handler"},
         NEW r \in Replies, Write(0, r),
         UNCHANGED <<conf, ask, ran, try, sent, result, inList, moves>>,
         r.msg = "data" => sent \in ran /\ written[sent] = <<Reply(200, "data")>>,
         r.msg = "serverError" /\ r.code < 300
           => sent \in Calls /\ Arrived(sent) /\ Head(written[sent]).code = r.code,
         r.msg = "Success" => moves >= 2,
         r.msg \in Refusals => \A a \in Calls : stage[a] = "unsent"
  PROVE  TypeOK' /\ Inv'
<1>1. "leave" \in Stages \ {"unsent", "running"}
  BY DEF Stages
<1>2. /\ WriteInv(0) /\ stage[0] \notin Over \cup {"dead"} /\ 0 \in Runs
      /\ ~Unsafe(0) /\ 0 \notin ran
  BY RunsFacts DEF Inv, ClientInv, SendInv, Loop, Over
<1>3. ClientTold("leave", r)
  BY <1>2, FirstReply DEF Write, Goto, ClientTold
<1>4. /\ \A a \in Calls : CallInv(a)'
      /\ stage' \in [Runs -> Stages] /\ written' \in [Runs -> Seq(Replies)]
      /\ \A a \in Calls : stage'[a] = stage[a] /\ written'[a] = written[a]
      /\ stage'[0] = "leave"
  BY <1>1, <1>3, ClientAlone
<1>5. written'[0] = <<r>>
  BY <1>2, <1>3 DEF ClientTold, TypeOK
<1>6. TypeOK' /\ ran \subseteq Calls
  BY <1>4 DEF TypeOK
<1>a. Extra' = Extra /\ ~Unsafe(0)'
  BY <1>2, AskFrame
<1>b. CountInv'
  BY <1>4, <1>a DEF Inv, ClientInv, CountInv, Early, ChainStages
<1>7. SendInv'
  <2>1. WriteInv(0)'
    BY <1>4, <1>5 DEF WriteInv, Replied, Over
  <2> QED BY <1>2, <1>4, <1>a, <2>1 DEF SendInv, Early, ChainStages, Loop
<1>8. AnswerInv' /\ ResultInv'
  BY <1>4 DEF AnswerInv, ResultInv, Early, ChainStages
<1>9. MoveInv'
  BY <1>4 DEF Inv, ClientInv, MoveInv
<1>10. TellInv'
  <2> SUFFICES ASSUME NEW q \in Replies, written'[0] = <<q>>
               PROVE  /\ q.msg = "data" => sent \in ran /\ written'[sent] = <<Reply(200, "data")>>
                      /\ q.msg = "serverError" /\ q.code < 300
                           => sent \in Calls /\ Arrived(sent)' /\ Head(written'[sent]).code = q.code
                      /\ q.msg = "Success" => moves >= 2
                      /\ q.msg \in Refusals => \A a \in Calls : stage'[a] = "unsent"
    BY DEF TellInv, Reply
  <2>1. q = r
    BY <1>5, OneReply
  <2> QED BY <1>4, <1>6, <2>1 DEF Arrived
<1> QED BY <1>4, <1>6, <1>b, <1>7, <1>8, <1>9, <1>10 DEF Inv, ClientInv

(* callService.                                                            *)
LEMMA CallStep == ASSUME TypeOK, Inv, CallService PROVE TypeOK' /\ Inv'
<1>1. /\ stage[0] = "handler" /\ stage[0] \in Loop \cup {"handler"}
      /\ UNCHANGED <<conf, ask, ran, try, sent, result, inList, moves>>
  BY DEF CallService, chainRest
<1>2. try \in 1 .. Attempts /\ try >= try /\ result \in Results
  BY DEF TypeOK
<1>3. stage[0] \in Early /\ sent < try + Extra /\ \A a \in Calls : stage[a] = "unsent"
  <2>1. stage[0] \in Early /\ sent < try + Extra /\ sent = 0
    BY <1>1 DEF Inv, ClientInv, CountInv, Early
  <2>2. \A a \in Calls : a > sent
    BY <2>1 DEF Calls
  <2> QED BY <2>1, <2>2 DEF Inv, ClientInv, CountInv
<1>4. CASE \E r \in {NotFound, Reply(404, "limiter"), Reply(404, "fusing")} : Write(0, r)
  <2>1. PICK r \in {NotFound, Reply(404, "limiter"), Reply(404, "fusing")} : Write(0, r)
    BY <1>4
  <2>2. 404 \in Codes /\ {"notFound", "limiter", "fusing"} \subseteq Messages
    BY DEF Codes, Messages
  <2>3. r \in Replies /\ r.msg \in {"notFound", "limiter", "fusing"}
    BY <2>1, <2>2, ReplyType DEF NotFound
  <2>4. r.msg # "data" /\ r.msg # "serverError" /\ r.msg # "Success"
    BY <2>3
  <2> QED BY <1>1, <1>3, <2>1, <2>3, <2>4, TellingStep
<1>5. CASE Pass(0, "acquire")
  <2>1. ClientOn("acquire") /\ "acquire" \in (Loop \ {"wait"}) \cup {"dead"}
    BY <1>5 DEF Pass, Goto, ClientOn, Loop
  <2>2. ASSUME stage'[0] = "acquire" PROVE AnswerInv' /\ ResultInv' /\ MoveInv'
    <3>1. result.msg \in NoTexts
      BY <1>3 DEF Inv, ClientInv, ResultInv
    <3>2. AnswerInv'
      BY <2>2 DEF AnswerInv
    <3>3. ResultInv'
      BY <1>1, <2>2, <3>1 DEF ResultInv
    <3>4. MoveInv'
      BY <1>1, <2>2 DEF Inv, ClientInv, MoveInv
    <3> QED BY <3>2, <3>3, <3>4
  <2> QED BY <1>1, <1>2, <1>3, <2>1, <2>2, SilentStep
<1> QED BY <1>4, <1>5 DEF CallService

(* Where nothing more can be wrong: the goroutine has panicked.            *)
LEMMA PanicStep ==
  ASSUME TypeOK, Inv, stage[0] \in Loop, Pass(0, "dead"),
         UNCHANGED <<conf, ask, ran, try, sent, result, inList, moves>>
  PROVE  TypeOK' /\ Inv'
<1>1. ClientOn("dead") /\ "dead" \in (Loop \ {"wait"}) \cup {"dead"} /\ stage[0] \in Loop \cup {"handler"}
  BY DEF Pass, Goto, ClientOn
<1>2. try \in 1 .. Attempts /\ try >= try /\ result \in Results
  BY DEF TypeOK
<1>3. ASSUME stage'[0] = "dead" PROVE AnswerInv' /\ ResultInv' /\ MoveInv'
  <2>1. AnswerInv'
    BY <1>3 DEF AnswerInv
  <2>2. ResultInv'
    BY <1>3 DEF ResultInv, Early, ChainStages
  <2>3. MoveInv'
    BY <1>3 DEF Inv, ClientInv, MoveInv
  <2> QED BY <2>1, <2>2, <2>3
<1> QED BY <1>1, <1>2, <1>3, SilentStep

LEMMA AcquireStep == ASSUME TypeOK, Inv, Acquire PROVE TypeOK' /\ Inv'
<1>1. /\ stage[0] = "acquire" /\ stage[0] \in Loop
      /\ UNCHANGED <<conf, ask, ran, try, sent, result, inList, moves>>
  BY DEF Acquire, chainRest, Loop
<1>2. CASE Pass(0, "address")
  <2>1. ClientOn("address") /\ "address" \in (Loop \ {"wait"}) \cup {"dead"}
    BY <1>2 DEF Pass, Goto, ClientOn, Loop
  <2>2. /\ try \in 1 .. Attempts /\ try >= try /\ result \in Results
        /\ sent < try + Extra
    BY <1>1 DEF TypeOK, Inv, ClientInv, CountInv
  <2>3. ASSUME stage'[0] = "address" PROVE AnswerInv' /\ ResultInv' /\ MoveInv'
    <3>1. result.msg \in NoTexts
      BY <1>1 DEF Inv, ClientInv, ResultInv
    <3>2. AnswerInv'
      BY <2>3 DEF AnswerInv
    <3>3. ResultInv'
      BY <1>1, <2>3, <3>1 DEF ResultInv
    <3>4. MoveInv'
      BY <1>1, <2>3 DEF Inv, ClientInv, MoveInv
    <3> QED BY <3>2, <3>3, <3>4
  <2> QED BY <1>1, <2>1, <2>2, <2>3, SilentStep
<1> QED BY <1>1, <1>2, PanicStep DEF Acquire

LEMMA NoAddressStep == ASSUME TypeOK, Inv, NoAddress PROVE TypeOK' /\ Inv'
<1>1. /\ stage[0] = "address" /\ ~inList /\ stage[0] \in Loop \cup {"handler"}
      /\ UNCHANGED <<conf, ask, ran, try, sent, inList, moves>>
  BY DEF NoAddress, Loop
<1>2. ClientOn("finish") /\ "finish" \in (Loop \ {"wait"}) \cup {"dead"}
  BY DEF NoAddress, Goto, ClientOn, Loop
<1>3. /\ result' \in Results /\ result'.code = 500 /\ result'.err = "failed"
      /\ result'.msg = result.msg
  <2>1. 500 \in Codes
    BY DEF Codes
  <2>2. result' = [result EXCEPT !.code = 500, !.err = "failed"] /\ result \in Results
    BY DEF NoAddress, TypeOK
  <2>3. result' \in Results
    <3>1. result' = Outcome(500, result.msg, "failed") /\ result.msg \in Messages
      BY <2>2 DEF Outcome, Results
    <3> QED BY <2>1, <3>1 DEF Outcome, Results
  <2>4. result'.code = 500 /\ result'.err = "failed" /\ result'.msg = result.msg
    BY <2>2 DEF Results
  <2> QED BY <2>3, <2>4
<1>4. try' \in 1 .. Attempts /\ try' >= try
  BY <1>1 DEF TypeOK
<1>5. ASSUME stage'[0] = "finish" PROVE AnswerInv' /\ ResultInv' /\ MoveInv'
  <2>1. result.msg \in NoTexts
    BY <1>1 DEF Inv, ClientInv, ResultInv
  <2>2. AnswerInv'
    BY <1>3, <1>5 DEF AnswerInv
  <2>3. ResultInv'
    BY <1>3, <1>5, <2>1 DEF ResultInv, Early, ChainStages
  <2>4. MoveInv'
    BY <1>1, <1>5 DEF Inv, ClientInv, MoveInv
  <2> QED BY <2>2, <2>3, <2>4
<1> QED BY <1>1, <1>2, <1>3, <1>4, <1>5, SilentStep

(* The three ways an attempt ends.                                         *)
LEMMA BackStep ==
  ASSUME TypeOK, Inv, NEW o \in Results, Back(o),
         o.err = "none" => sent \in Calls /\ written[sent] = <<Reply(200, o.msg)>>,
         o.err = "failed" /\ o.code # 500
           => sent \in Calls /\ Arrived(sent) /\ Head(written[sent]).code = o.code,
         o.err # "none" => o.msg = NoText /\ (o.err = "timeout" => o.code = 500)
  PROVE  TypeOK' /\ Inv'
<1>1. /\ stage[0] = "wait" /\ stage[0] \in Loop \cup {"handler"}
      /\ UNCHANGED <<conf, ask, ran, try, sent, inList, moves>> /\ result' = o
  BY DEF Back, Loop
<1>2. ClientOn("release") /\ "release" \in (Loop \ {"wait"}) \cup {"dead"}
  BY DEF Back, Goto, ClientOn, Loop
<1>3. try' \in 1 .. Attempts /\ try' >= try
  BY <1>1 DEF TypeOK
<1>4. ASSUME stage'[0] = "release" PROVE AnswerInv' /\ ResultInv' /\ MoveInv'
  <2>1. written' = written
    BY <1>2 DEF ClientOn
  <2>2. AnswerInv'
    BY <1>1, <2>1 DEF AnswerInv, Reply, Arrived
  <2>3. ResultInv'
    BY <1>1, <1>4 DEF ResultInv, Early, ChainStages
  <2>4. MoveInv'
    BY <1>1, <1>4 DEF Inv, ClientInv, MoveInv
  <2> QED BY <2>2, <2>3, <2>4
<1> QED BY <1>1, <1>2, <1>3, <1>4, SilentStep

LEMMA AnsweredStep == ASSUME TypeOK, Inv, Answered PROVE TypeOK' /\ Inv'
<1>1. sent \in Calls /\ Arrived(sent) /\ WriteInv(sent)
  BY DEF Inv, ClientInv, SendInv, CallInv, Answered
<1>2. PICK r \in Replies : written[sent] = <<r>>
  BY <1>1 DEF WriteInv, Replied, Arrived
<1>3. Head(written[sent]) = r /\ r.code \in Codes /\ r.msg \in Messages
  BY <1>2, OneReply DEF Replies
<1>4. CASE r.code = 200
  <2>1. Back(Outcome(200, r.msg, "none"))
    BY <1>3, <1>4 DEF Answered
  <2>2. r = Reply(200, r.msg)
    BY <1>4 DEF Replies, Reply
  <2>3. /\ Outcome(200, r.msg, "none") \in Results
        /\ Outcome(200, r.msg, "none").msg = r.msg /\ Outcome(200, r.msg, "none").err = "none"
    BY <1>3, <1>4, OutcomeType
  <2>4. written[sent] = <<Reply(200, Outcome(200, r.msg, "none").msg)>>
    BY <1>2, <2>2, <2>3
  <2> QED BY <1>1, <2>1, <2>3, <2>4, BackStep
<1>5. CASE r.code # 200
  <2>1. Back(Outcome(r.code, NoText, "failed"))
    BY <1>3, <1>5 DEF Answered, NoText
  <2>2. NoText \in Messages /\ "failed" \in {"none", "failed", "timeout"}
    BY NoTextFacts
  <2>3. /\ Outcome(r.code, NoText, "failed") \in Results
        /\ Outcome(r.code, NoText, "failed").msg = NoText
        /\ Outcome(r.code, NoText, "failed").err = "failed"
        /\ Outcome(r.code, NoText, "failed").code = r.code
    BY <1>3, <2>2, OutcomeType
  <2> QED BY <1>1, <1>3, <2>1, <2>3, BackStep
<1> QED BY <1>4, <1>5

LEMMA FailedStep ==
  ASSUME TypeOK, Inv, NEW e \in {"failed", "timeout"}, Back(Outcome(500, NoText, e))
  PROVE  TypeOK' /\ Inv'
<1>1. 500 \in Codes /\ NoText \in Messages
  BY NoTextFacts DEF Codes
<1>2. e \in {"none", "failed", "timeout"} /\ e # "none"
  OBVIOUS
<1>3. /\ Outcome(500, NoText, e) \in Results /\ Outcome(500, NoText, e).code = 500
      /\ Outcome(500, NoText, e).msg = NoText /\ Outcome(500, NoText, e).err = e
  BY <1>1, <1>2, OutcomeType
<1> QED BY <1>2, <1>3, BackStep

LEMMA ReleaseStep == ASSUME TypeOK, Inv, Release PROVE TypeOK' /\ Inv'
<1>1. /\ stage[0] = "release" /\ stage[0] \in Loop
      /\ UNCHANGED <<conf, ask, ran, try, sent, result, inList, moves>>
  BY DEF Release, chainRest, Loop
<1>2. try' \in 1 .. Attempts /\ try' >= try /\ result' \in Results
  BY <1>1 DEF TypeOK
<1>3. ASSUME NEW s \in {"finish", "charge"}, Pass(0, s),
             IF result.err = "none" THEN s = "finish" ELSE s = "charge"
      PROVE  TypeOK' /\ Inv'
  <2>1. ClientOn(s) /\ s \in (Loop \ {"wait"}) \cup {"dead"} /\ s \notin {"acquire", "address"}
    BY <1>3 DEF Pass, Goto, ClientOn, Loop
  <2>2. ASSUME stage'[0] = s PROVE AnswerInv' /\ ResultInv' /\ MoveInv'
    <3>1. written' = written /\ sent' = sent /\ result' = result
      BY <1>1, <2>1 DEF ClientOn
    <3>2. AnswerInv'
      BY <1>1, <1>3, <2>2, <3>1 DEF Inv, ClientInv, AnswerInv, Reply, Arrived
    <3>3. ResultInv'
      BY <1>1, <1>3, <2>2 DEF Inv, ClientInv, ResultInv, Early, ChainStages
    <3>4. MoveInv'
      BY <1>1, <1>3, <2>2 DEF Inv, ClientInv, MoveInv
    <3> QED BY <3>2, <3>3, <3>4
  <2> QED BY <1>1, <1>2, <2>1, <2>2, SilentStep
<1>4. CASE ~inList
  BY <1>1, <1>4, PanicStep DEF Release
<1>5. CASE inList /\ result.err = "none"
  BY <1>3, <1>5 DEF Release
<1>6. CASE inList /\ result.err # "none"
  BY <1>3, <1>6 DEF Release
<1> QED BY <1>4, <1>5, <1>6

LEMMA ChargeStep == ASSUME TypeOK, Inv, Charge PROVE TypeOK' /\ Inv'
<1>1. /\ stage[0] = "charge" /\ stage[0] \in Loop
      /\ UNCHANGED <<conf, ask, ran, sent, result, inList, moves>>
  BY DEF Charge, Loop
<1>2. try \in 1 .. Attempts /\ result \in Results /\ result.err # "none"
  BY <1>1 DEF TypeOK, Inv, ClientInv, ResultInv
<1>a. result.msg = NoText
  BY <1>1, <1>2 DEF Inv, ClientInv, ResultInv
<1>b. result.err = "failed" /\ result.code # 500
        => sent \in Calls /\ Arrived(sent) /\ Head(written[sent]).code = result.code
  BY <1>1 DEF Inv, ClientInv, AnswerInv
<1>3. CASE ~inList /\ Pass(0, "dead") /\ UNCHANGED try
  BY <1>1, <1>3, PanicStep
<1>4. CASE inList /\ Final /\ Write(0, Verdict) /\ UNCHANGED try
  <2>1. result.code \in Codes /\ result.err \in {"failed", "timeout"}
    BY <1>2 DEF Results
  <2>2. /\ 404 \in Codes /\ {"timeout", "notFound", "serverError"} \subseteq Messages
        /\ Refusals \cap {"timeout", "notFound", "serverError"} = {}
    BY DEF Codes, Messages, Refusals
  <2>3. PICK c \in Codes, m \in {"timeout", "notFound", "serverError"} :
          Verdict = Reply(c, m) /\ (m = "serverError" => c = result.code /\ result.err = "failed")
    BY <2>1, <2>2 DEF Verdict, NotFound, ServerError
  <2>4. Verdict \in Replies /\ Verdict.msg = m /\ Verdict.code = c
    BY <2>2, <2>3, ReplyType
  <2>5. Verdict.msg = "serverError" /\ Verdict.code < 300
          => sent \in Calls /\ Arrived(sent) /\ Head(written[sent]).code = Verdict.code
    <3>1. ASSUME Verdict.msg = "serverError", Verdict.code < 300
          PROVE  result.err = "failed" /\ result.code # 500 /\ Verdict.code = result.code
      BY <2>3, <2>4, <3>1
    <3> QED BY <1>b, <3>1
  <2>6. Verdict.msg # "data" /\ Verdict.msg # "Success" /\ Verdict.msg \notin Refusals
    BY <2>2, <2>4
  <2>7. UNCHANGED <<conf, ask, ran, try, sent, result, inList, moves>>
    BY <1>1, <1>4
  <2> QED BY <1>1, <1>4, <2>4, <2>5, <2>6, <2>7, TellingStep
<1>5. CASE inList /\ ~Final /\ Pass(0, "acquire") /\ try' = try + 1
  <2>1. try' \in 1 .. Attempts /\ try' >= try /\ try' = try + 1
    <3>1. try # Attempts /\ try' = try + 1
      BY <1>5 DEF Final
    <3> QED BY <1>2, <3>1, GatewayAssumption
  <2>2. sent < try' + Extra
    <3>1. sent <= try + Extra
      BY DEF Inv, ClientInv, CountInv
    <3>2. sent \in Nat /\ Extra \in Nat
      BY RunsFacts DEF TypeOK, Extra
    <3> QED BY <1>2, <2>1, <3>1, <3>2
  <2>3. ClientOn("acquire") /\ "acquire" \in (Loop \ {"wait"}) \cup {"dead"}
    BY <1>5 DEF Pass, Goto, ClientOn, Loop
  <2>4. ASSUME stage'[0] = "acquire" PROVE AnswerInv' /\ ResultInv' /\ MoveInv'
    <3>1. AnswerInv'
      BY <2>4 DEF AnswerInv
    <3>2. ResultInv'
      <4>1. result'.msg \in NoTexts
        BY <1>1, <1>a, NoTextFacts
      <4> QED BY <2>4, <4>1 DEF ResultInv
    <3>3. MoveInv'
      BY <1>1, <2>4 DEF Inv, ClientInv, MoveInv
    <3> QED BY <3>1, <3>2, <3>3
  <2>5. result' \in Results
    BY <1>1, <1>2
  <2> QED BY <1>1, <2>1, <2>2, <2>3, <2>4, <2>5, SilentStep
<1> QED BY <1>3, <1>4, <1>5 DEF Charge

LEMMA FinishStep == ASSUME TypeOK, Inv, Finish PROVE TypeOK' /\ Inv'
<1>1. /\ stage[0] = "finish" /\ stage[0] \in Loop
      /\ UNCHANGED <<conf, ask, ran, try, sent, result, inList, moves>>
  BY DEF Finish, chainRest, Loop
<1>2. CASE ~inList
  BY <1>1, <1>2, PanicStep DEF Finish
<1>3. CASE inList /\ result.err # "none"
  <2>1. /\ FinalReply = Reply(result.code, result.msg) /\ result.code = 500
        /\ result.msg \in NoTexts /\ moves >= 2
    BY <1>1, <1>3 DEF FinalReply, Inv, ClientInv, ResultInv, MoveInv
  <2>2. 500 \in Codes /\ NoTexts \subseteq Messages
    BY NoTextFacts DEF Codes
  <2>3. FinalReply \in Replies /\ FinalReply.msg \in NoTexts
    BY <2>1, <2>2, ReplyType
  <2>4. FinalReply.msg # "data" /\ FinalReply.msg # "serverError" /\ FinalReply.msg \notin Refusals
    BY <2>3, NoTextFacts
  <2>5. Write(0, FinalReply)
    BY <1>3 DEF Finish
  <2> QED BY <1>1, <2>1, <2>3, <2>4, <2>5, TellingStep
<1>4. CASE inList /\ result.err = "none"
  <2>1. sent \in Calls /\ written[sent] = <<Reply(200, result.msg)>>
    BY <1>1, <1>4 DEF Inv, ClientInv, AnswerInv
  <2>2. Write(0, FinalReply)
    BY <1>4 DEF Finish
  <2>3. 200 \in Codes /\ 500 \in Codes /\ "data" \in Messages /\ "serverError" \in Messages
    BY DEF Codes, Messages
  <2>4. CASE result.msg = "data"
    <3>1. FinalReply = Reply(200, "data") /\ FinalReply \in Replies /\ FinalReply.msg = "data"
      BY <1>4, <2>3, <2>4, ReplyType DEF FinalReply
    <3>2. written[sent] = <<Reply(200, "data")>>
      BY <2>1, <2>4
    <3>3. sent \in ran
      <4>1. CallInv(sent)
        BY <2>1 DEF Inv
      <4> QED BY <3>1, <3>2, <4>1 DEF CallInv
    <3>4. FinalReply.msg # "serverError" /\ FinalReply.msg # "Success" /\ FinalReply.msg \notin Refusals
      BY <3>1 DEF Refusals
    <3> QED BY <1>1, <2>1, <2>2, <3>1, <3>2, <3>3, <3>4, TellingStep
  <2>5. CASE result.msg # "data"
    <3>1. /\ FinalReply = Reply(500, "serverError") /\ FinalReply \in Replies
          /\ FinalReply.msg = "serverError" /\ FinalReply.code = 500
      BY <1>4, <2>3, <2>5, ReplyType DEF FinalReply, ServerError
    <3>2. FinalReply.msg # "data" /\ FinalReply.msg # "Success" /\ FinalReply.msg \notin Refusals
      BY <3>1 DEF Refusals
    <3>3. ~(FinalReply.code < 300)
      BY <3>1
    <3> QED BY <1>1, <2>2, <3>1, <3>2, <3>3, TellingStep
  <2> QED BY <2>4, <2>5
<1> QED BY <1>2, <1>3, <1>4

(* A request on the wire: the first of an attempt, or net/http's own.      *)
LEMMA RequestStep ==
  ASSUME TypeOK, Inv, NEW q \in RequestTypes, AskInv(q), Request(q),
         stage[0] \in {"address", "wait"},
         sent < try + Extra
  PROVE  TypeOK' /\ Inv'
<1> DEFINE b == sent + 1
<1>1. /\ sent' = b /\ stage' = [stage EXCEPT ![0] = "wait", ![b] = "sent"]
      /\ ask' = [ask EXCEPT ![b] = q]
      /\ UNCHANGED <<conf, written, ran, try, result, inList, moves>>
  BY DEF Request
<1>2. b \in Calls /\ b \in Runs /\ 0 \in Runs /\ b # 0 /\ b > sent
  <2>1. sent \in Nat /\ try \in 1 .. Attempts
    BY RunsFacts DEF TypeOK
  <2>2. Extra \in Nat /\ Extra <= MaxAgain
    BY RunsFacts DEF Extra
  <2>3. b \in Nat /\ b <= Attempts + MaxAgain /\ b # 0 /\ b > sent
    BY <2>1, <2>2, RunsFacts
  <2> QED BY <2>3, RunsFacts DEF Calls
<1>3. /\ stage[b] = "unsent" /\ written[0] = <<>> /\ ~Unsafe(0) /\ 0 \notin ran
      /\ \A a \in Calls : stage[a] = "unsent" <=> a > sent
  <2>1. \A a \in Calls : stage[a] = "unsent" <=> a > sent
    BY DEF Inv, ClientInv, CountInv
  <2>2. written[0] = <<>> /\ ~Unsafe(0) /\ 0 \notin ran
    BY DEF Inv, ClientInv, SendInv, WriteInv, Loop, Over
  <2> QED BY <1>2, <2>1, <2>2
<1>4. /\ stage'[0] = "wait" /\ stage'[b] = "sent"
      /\ \A a \in Calls : a # b => stage'[a] = stage[a]
  BY <1>1, <1>2, RunsFacts DEF TypeOK
<1>5. /\ ask'[0] = ask[0] /\ ask'[b] = q
      /\ \A a \in Calls : a # b => ask'[a] = ask[a]
  BY <1>1, <1>2, RunsFacts DEF TypeOK
<1>6. TypeOK'
  <2>1. stage' \in [Runs -> Stages]
    BY <1>1, <1>2 DEF TypeOK, Stages
  <2>2. ask' \in [Runs -> RequestTypes]
    BY <1>1, <1>2 DEF TypeOK
  <2> QED BY <1>1, <1>2, <2>1, <2>2 DEF TypeOK
<1>a. /\ (Single' <=> Single) /\ Injected(ask[0])' = Injected(ask[0])
      /\ Extra' = Extra /\ ~Unsafe(0)'
  BY <1>1, <1>3, <1>5, AskFrame
<1>7. ASSUME NEW a \in Calls PROVE CallInv(a)'
  <2>1. CASE a # b
    BY <1>1, <1>4, <1>5, <2>1, CallFrame DEF Inv
  <2>2. CASE a = b
    <3>1. CallInv(a)
      BY DEF Inv
    <3>2. stage'[a] = "sent" /\ ask'[a] = q /\ stage[a] = "unsent"
      BY <1>3, <1>4, <1>5, <2>2
    <3>3. written[a] = <<>> /\ a \notin ran /\ written'[a] = <<>> /\ a \notin ran'
      BY <1>1, <3>1, <3>2 DEF CallInv, WriteInv, Over
    <3>4. \A r \in Replies : written'[a] # <<r>>
      BY <3>3, OneReply
    <3>5. WriteInv(a)'
      BY <3>2, <3>3 DEF WriteInv, Over
    <3>6. AskInv(ask[a])'
      <4>1. q.key = conf.gateway.key /\ q.trace = Injected(ask[0]) /\ (Single => ~q.replay)
        BY DEF AskInv
      <4> QED BY <1>1, <1>a, <3>2, <4>1 DEF AskInv
    <3>7. stage'[a] \notin Loop /\ stage'[a] \notin {"route", "handler", "running"}
      BY <3>2 DEF Loop
    <3> QED BY <3>3, <3>4, <3>5, <3>6, <3>7 DEF CallInv
  <2> QED BY <2>1, <2>2
<1>8. ClientInv'
  <2>1. CountInv'
    <3>1. \A a \in Calls : IF a = b THEN ~(a > sent') ELSE a > sent' <=> a > sent
      BY <1>1, <1>2, RunsFacts DEF TypeOK
    <3>2. sent' <= try + Extra
      <4>1. sent \in Nat /\ try \in Nat /\ Extra \in Nat
        BY RunsFacts DEF TypeOK, Extra
      <4> QED BY <1>1, <4>1
    <3> QED BY <1>1, <1>3, <1>4, <1>a, <3>1, <3>2 DEF CountInv, Early, ChainStages
  <2>2. SendInv'
    <3>1. WriteInv(0)'
      BY <1>1, <1>3, <1>4, OneReply DEF WriteInv, Replied, Over
    <3> QED BY <1>1, <1>2, <1>3, <1>4, <1>a, <3>1 DEF SendInv
  <2>3. AnswerInv' /\ ResultInv'
    BY <1>4 DEF AnswerInv, ResultInv, Early, ChainStages
  <2>4. MoveInv'
    BY <1>1, <1>4 DEF Inv, ClientInv, MoveInv
  <2>5. TellInv'
    BY <1>1, <1>3, OneReply DEF TellInv
  <2> QED BY <2>1, <2>2, <2>3, <2>4, <2>5 DEF ClientInv
<1> QED BY <1>6, <1>7, <1>8 DEF Inv

LEMMA SendStep == ASSUME TypeOK, Inv, Send PROVE TypeOK' /\ Inv'
<1>1. stage[0] = "address" /\ Request(Forward(ask[0]))
  BY DEF Send
<1>2. sent < try + Extra
  BY <1>1 DEF Inv, ClientInv, CountInv
<1> QED BY <1>1, <1>2, RequestType, AskFacts, RequestStep

(* A single request is neither sent again nor redirected.                  *)
LEMMA AgainStep == ASSUME TypeOK, Inv, Resend \/ Follow PROVE TypeOK' /\ Inv'
<1>1. stage[0] = "wait" /\ sent < try + MaxAgain
  BY DEF Resend, Follow
<1>2. /\ sent \in Calls /\ sent \in Runs /\ CallInv(sent) /\ AskInv(ask[sent])
      /\ ask[sent] \in RequestTypes
  <2>1. sent \in Calls /\ stage[sent] # "unsent"
    BY <1>1 DEF Inv, ClientInv, SendInv
  <2> QED BY <2>1, RunsFacts, RequestType DEF Inv, CallInv
<1>3. CASE Resend
  <2>1. ask[sent].replay /\ Request(ask[sent])
    BY <1>3 DEF Resend
  <2>2. Extra = MaxAgain
    BY <1>2, <2>1 DEF AskInv, Extra
  <2> QED BY <1>1, <1>2, <2>1, <2>2, RequestStep
<1>4. CASE Follow
  <2>1. PICK q \in Redirected(ask[sent]) : Request(q)
    BY <1>4 DEF Follow
  <2>2. conf.moved
    <3>1. Arrived(sent) /\ Head(written[sent]).code = 302
      BY <1>4 DEF Follow
    <3>2. PICK r \in Replies : written[sent] = <<r>>
      BY <1>2, <3>1 DEF CallInv, WriteInv, Replied, Arrived
    <3>3. r.code = 302
      BY <3>1, <3>2, OneReply
    <3> QED BY <1>2, <3>2, <3>3 DEF CallInv
  <2>3. Extra = MaxAgain
    BY <2>2 DEF Extra, Single
  <2>4. q \in RequestTypes /\ AskInv(q)
    BY <1>2, <2>1, <2>2, RequestType, AskFacts
  <2> QED BY <1>1, <2>1, <2>3, <2>4, RequestStep
<1> QED BY <1>3, <1>4

-----------------------------------------------------------------------------
LEMMA InitHolds == Init => TypeOK /\ Inv
<1> SUFFICES ASSUME Init PROVE TypeOK /\ Inv
  OBVIOUS
<1>1. PICK c \in Cases : conf = c[1] /\ ask = [a \in Runs |-> c[2]]
  BY DEF Init
<1>2. /\ stage = [a \in Runs |-> IF a = 0 THEN "sent" ELSE "unsent"]
      /\ written = [a \in Runs |-> <<>>]
      /\ ran = {} /\ try = 1 /\ sent = 0 /\ inList = TRUE /\ moves = 0
      /\ result = Outcome(200, "Success", "none")
  BY DEF Init
<1>3. 0 \in Runs /\ 1 \in Calls /\ \A a \in Calls : a \in Runs /\ a # 0 /\ a > 0
  BY RunsFacts DEF Calls
<1>4. /\ result \in Results /\ result.msg = "Success" /\ result.err = "none"
  <2>1. 200 \in Codes /\ "Success" \in Messages /\ "none" \in {"none", "failed", "timeout"}
    BY DEF Codes, Messages
  <2> QED BY <1>2, <2>1, OutcomeType
<1>5. TypeOK
  <2>1. c[1] \in ConfigTypes /\ c[2] \in RequestTypes
    BY GatewayAssumption
  <2>2. <<>> \in Seq(Replies) /\ 0 \in 0 .. MaxMoves /\ 1 \in 1 .. Attempts
    BY GatewayAssumption
  <2>3. stage \in [Runs -> Stages]
    BY <1>2 DEF Stages
  <2> QED BY <1>1, <1>2, <1>3, <1>4, <2>1, <2>2, <2>3 DEF TypeOK
<1>6. stage[0] = "sent" /\ written[0] = <<>>
  BY <1>2, <1>3
<1>7. \A a \in Calls : stage[a] = "unsent" /\ written[a] = <<>>
  BY <1>2, <1>3
<1>8. ASSUME NEW a \in Calls PROVE CallInv(a)
  <2>1. \A r \in Replies : written[a] # <<r>>
    BY <1>7, OneReply
  <2> QED BY <1>2, <1>7, <2>1 DEF CallInv, WriteInv, Loop, Over
<1>9. CountInv
  <2>1. Extra \in Nat
    BY RunsFacts DEF Extra
  <2> QED BY <1>2, <1>3, <1>6, <1>7, <2>1 DEF CountInv
<1>10. SendInv
  BY <1>2, <1>6, <1>7 DEF SendInv, WriteInv, Over, Loop
<1>11. AnswerInv /\ ResultInv /\ MoveInv
  BY <1>2, <1>4, <1>6, NoTextFacts DEF AnswerInv, ResultInv, MoveInv
<1>12. TellInv
  BY <1>6, OneReply DEF TellInv
<1> QED BY <1>5, <1>8, <1>9, <1>10, <1>11, <1>12 DEF Inv, ClientInv

LEMMA StutterStep == ASSUME TypeOK, Inv, UNCHANGED vars PROVE TypeOK' /\ Inv'
<1>1. UNCHANGED <<conf, stage, ask, written, ran, try, sent, result, inList, moves>>
  BY DEF vars
<1>2. TypeOK'
  BY <1>1 DEF TypeOK
<1>3. \A a \in Calls : CallInv(a)'
  BY <1>1, CallFrame DEF Inv
<1>4. CountInv' /\ SendInv' /\ AnswerInv' /\ ResultInv'
  BY <1>1, QuietStep
<1>5. MoveInv'
  BY <1>1 DEF Inv, ClientInv, MoveInv
<1>6. TellInv'
  BY <1>1 DEF Inv, ClientInv, TellInv, Arrived, Reply
<1> QED BY <1>2, <1>3, <1>4, <1>5, <1>6 DEF Inv, ClientInv

LEMMA StepHolds == TypeOK /\ Inv /\ [Next]_vars => TypeOK' /\ Inv'
<1> SUFFICES ASSUME TypeOK, Inv, [Next]_vars PROVE TypeOK' /\ Inv'
  OBVIOUS
<1>1. CASE CallService
  BY <1>1, CallStep
<1>2. CASE Acquire
  BY <1>2, AcquireStep
<1>3. CASE Send
  BY <1>3, SendStep
<1>4. CASE NoAddress
  BY <1>4, NoAddressStep
<1>5. CASE Answered
  BY <1>5, AnsweredStep
<1>6. CASE Lost
  BY <1>6, FailedStep DEF Lost, NoText
<1>7. CASE TimedOut
  BY <1>7, FailedStep DEF TimedOut, NoText
<1>8. CASE Release
  BY <1>8, ReleaseStep
<1>9. CASE Charge
  BY <1>9, ChargeStep
<1>10. CASE Finish
  BY <1>10, FinishStep
<1>11. CASE Move
  BY <1>11, MoveStep
<1>12. ASSUME NEW a \in Runs, Chain(a) PROVE TypeOK' /\ Inv'
  <2>1. CASE a = 0
    BY <1>12, <2>1, ChainAtGateway
  <2>2. CASE a \in Calls
    BY <1>12, <2>2, ChainAtService
  <2> QED BY <2>1, <2>2, RunsFacts
<1>13. ASSUME NEW a \in Runs, Handle(a) \/ Complete(a) PROVE TypeOK' /\ Inv'
  BY <1>13, HandlerSteps
<1>14. CASE UNCHANGED vars
  BY <1>14, StutterStep
<1>15. CASE Resend \/ Follow
  BY <1>15, AgainStep
<1> QED BY <1>1, <1>2, <1>3, <1>4, <1>5, <1>6, <1>7, <1>8, <1>9, <1>10, <1>11,
           <1>12, <1>13, <1>14, <1>15 DEF Next, Gateway

LEMMA InvHolds == Spec => [](TypeOK /\ Inv)
<1>1. TypeOK /\ Inv /\ [Next]_vars => (TypeOK /\ Inv)'
  BY StepHolds
<1> QED BY <1>1, InitHolds, PTL DEF Spec

(* The variables keep their types: no attempt beyond the retry slice, no   *)
(* code or message the code does not have.                                 *)
THEOREM TypeCorrect == Spec => []TypeOK
BY InvHolds, PTL

(* A run writes at most one reply, and has one when it leaves its engine   *)
(* without a panic, whichever middleware or handler answers.               *)
THEOREM OneAnswer == Spec => []AnsweredOnce
<1>1. TypeOK /\ Inv => AnsweredOnce
  <2> SUFFICES ASSUME TypeOK, Inv, NEW a \in Runs
               PROVE  /\ Len(written[a]) <= 1
                      /\ stage[a] \in {"leave", "left"} => written[a] # <<>>
    BY DEF AnsweredOnce
  <2>1. WriteInv(a)
    BY RunsFacts DEF Inv, CallInv, ClientInv, SendInv
  <2>2. CASE Replied(a)
    <3>1. PICK r \in Replies : written[a] = <<r>>
      BY <2>2 DEF Replied
    <3> QED BY <3>1, OneReply
  <2>3. CASE ~Replied(a)
    <3>1. written[a] = <<>> /\ stage[a] \notin {"leave", "left"}
      BY <2>1, <2>3 DEF WriteInv, Over
    <3> QED BY <3>1
  <2> QED BY <2>2, <2>3
<1> QED BY <1>1, InvHolds, PTL

(* What a service's handler can rely on when CheckCallSafeMiddleware is    *)
(* on: the gateway has the key, and so does the client if the gateway      *)
(* checks too.                                                             *)
THEOREM KeyKeepsOthersOut == Spec => []KeyedOnly
<1>1. TypeOK /\ Inv => KeyedOnly
  <2> SUFFICES ASSUME TypeOK, Inv, NEW a \in ran
               PROVE  /\ conf.service.auth => conf.gateway.key = conf.service.key
                      /\ conf.gateway.auth => ask[0].key = conf.gateway.key
    BY DEF KeyedOnly
  <2>1. a \in Calls /\ a # 0 /\ CallInv(a)
    BY RunsFacts DEF TypeOK, Inv
  <2>2. ~Unsafe(a) /\ stage[a] # "unsent" /\ ask[a].key = conf.gateway.key
    BY <2>1 DEF CallInv, AskInv, Over
  <2>3. ~Unsafe(0)
    BY <2>1, <2>2 DEF Inv, ClientInv, SendInv
  <2> QED BY <2>1, <2>2, <2>3 DEF Unsafe, Host
<1> QED BY <1>1, InvHolds, PTL

(* Which request it is does not change.                                    *)
LEMMA SameRequest == ASSUME TypeOK, [Next]_vars PROVE conf' = conf /\ ask'[0] = ask[0]
<1>1. conf' = conf
  BY DEF Next, vars, Gateway, CallService, Acquire, Send, Resend, Follow, Request,
     NoAddress, Answered, Lost, TimedOut, Back, Release, Charge, Finish, Move, Chain,
     Pprof, Enter, Cors, Metrics, Auth, Route, Leave, Handle, Complete, chainRest
<1>2. ASSUME NEW q, Request(q) PROVE ask'[0] = ask[0]
  <2>1. sent + 1 # 0
    BY RunsFacts DEF TypeOK
  <2> QED BY <1>2, <2>1, RunsFacts DEF Request, TypeOK
<1>3. CASE Send \/ Resend \/ Follow
  BY <1>1, <1>2, <1>3 DEF Send, Resend, Follow
<1>4. CASE ~(Send \/ Resend \/ Follow)
  BY <1>4 DEF Next, vars, Gateway, CallService, Acquire, NoAddress, Answered, Lost,
     TimedOut, Back, Release, Charge, Finish, Move, Chain, Pprof, Enter, Cors, Metrics,
     Auth, Route, Leave, Handle, Complete, chainRest
<1> QED BY <1>1, <1>3, <1>4

(* The gateway's span is none that a client could name.                    *)
LEMMA ClientsTrace == Spec => [](TypeOK /\ Inv /\ ask[0].trace["b3"] # "gateway")
<1>1. Init => ask[0].trace["b3"] # "gateway"
  <2> SUFFICES ASSUME NEW c \in Cases, ask = [a \in Runs |-> c[2]]
               PROVE  ask[0].trace["b3"] # "gateway"
    BY DEF Init
  <2>1. c[2].trace["b3"] # "gateway"
    BY GatewayAssumption DEF Headers
  <2> QED BY <2>1, RunsFacts
<1>2. TypeOK /\ ask[0].trace["b3"] # "gateway" /\ [Next]_vars
        => (ask[0].trace["b3"] # "gateway")'
  BY SameRequest
<1> QED BY <1>1, <1>2, InvHolds, PTL DEF Spec

(* Where the two processes have the same tracer, every span of the service *)
(* is in the trace of the gateway's: its child, or, if the client sent a   *)
(* b3 header and the tracer is zipkin, its sister. A b3 header without ids *)
(* is the exception.                                                       *)
THEOREM SpansAreOneTrace == Spec => []OneTrace
<1>1. TypeOK /\ Inv /\ ask[0].trace["b3"] # "gateway" => OneTrace
  <2> SUFFICES ASSUME TypeOK, Inv, ask[0].trace["b3"] # "gateway", NEW a \in 1 .. sent,
                      conf.gateway.tracer = conf.service.tracer, ClientB3 # "decision"
               PROVE  Trace(a) = GatewayTrace /\ (Parent(a) = "gateway" \/ ClientB3 = "client")
    BY DEF OneTrace
  <2>1. a \in Calls /\ a # 0
    BY RunsFacts DEF TypeOK, Runs, Calls
  <2>2. ask[a].trace = [ask[0].trace EXCEPT ![Injects(conf.gateway)] = "gateway"]
    <3>1. stage[a] # "unsent"
      BY <2>1, RunsFacts DEF TypeOK, Inv, ClientInv, CountInv
    <3> QED BY <2>1, <3>1 DEF Inv, CallInv, AskInv, Injected
  <2>3. /\ ask[0].trace \in [Headers -> Spans] /\ Injects(conf.gateway) \in Headers
    BY RunsFacts DEF TypeOK, RequestTypes, Injects, Headers
  <2> DEFINE h == Injects(conf.gateway)
             b == ask[0].trace["b3"]
  <2>4. Injects(conf.service) = h /\ Host(a) = conf.service /\ Host(0) = conf.gateway
    BY <2>1 DEF Injects, Host
  <2>5. ask[a].trace[h] = "gateway" /\ (h # "b3" => ask[a].trace["b3"] = b)
    BY <2>2, <2>3 DEF Headers
  <2>6. h # "b3"
    BY DEF Injects
  <2>7. CASE conf.gateway.tracer = "zipkin" /\ b # "none"
    <3>1. b = "client"
      BY <2>3, <2>7 DEF ClientB3, Spans, Headers
    <3>2. Parent(a) = "client" /\ Parent(0) = "client"
      BY <2>4, <2>5, <2>6, <2>7, <3>1 DEF Parent, Extracts
    <3> QED BY <2>4, <2>5, <2>6, <2>7, <3>1, <3>2 DEF Trace, GatewayTrace, Extracts, ClientB3
  <2>8. CASE ~(conf.gateway.tracer = "zipkin" /\ b # "none")
    <3>1. Parent(a) = "gateway"
      BY <2>4, <2>5, <2>6, <2>8 DEF Parent, Extracts
    <3> QED BY <3>1 DEF Trace
  <2> QED BY <2>7, <2>8
<1> QED BY <1>1, ClientsTrace, PTL

(* What the client reads is what happened.                                 *)
THEOREM RepliesMeanWhatTheySay == Spec => []MeansWhatItSays
<1>1. TypeOK /\ Inv => MeansWhatItSays
  <2> SUFFICES ASSUME TypeOK, Inv, NEW i \in DOMAIN written[0]
               PROVE  LET r == written[0][i] IN
                      /\ r.msg = "data" => sent \in ran /\ written[sent] = <<Reply(200, "data")>>
                      /\ r.msg = "serverError" /\ r.code < 300
                           => Head(written[sent]).code = r.code
                      /\ r.msg = "Success" => moves >= 2
    BY DEF MeansWhatItSays
  <2>1. WriteInv(0) /\ written[0] # <<>>
    BY DEF Inv, ClientInv, SendInv
  <2>2. PICK r \in Replies : written[0] = <<r>>
    BY <2>1 DEF WriteInv, Replied
  <2>3. written[0][i] = r
    BY <2>2, OneReply
  <2> QED BY <2>2, <2>3 DEF Inv, ClientInv, TellInv
<1> QED BY <1>1, InvHolds, PTL

-----------------------------------------------------------------------------
(* The refinement.                                                         *)
LEMMA RanCount ==
  ASSUME TypeOK
  PROVE  /\ IsFiniteSet(ran) /\ Cardinality(ran) \in Nat
         /\ Cardinality(ran) = 0 <=> ran = {}
<1>1. IsFiniteSet(Calls)
  BY GatewayAssumption, FS_Interval DEF Calls
<1>2. IsFiniteSet(ran)
  BY <1>1, FS_Subset DEF TypeOK
<1> QED BY <1>2, FS_CardinalityType, FS_EmptySet

(* A single request runs only in runs that an attempt began.               *)
SingleBound == Single => Cardinality(ran) <= Attempts

LEMMA SingleRuns == TypeOK /\ Inv => SingleBound
<1> SUFFICES ASSUME TypeOK, Inv, Single PROVE Cardinality(ran) <= Attempts
  BY DEF SingleBound
<1>1. IsFiniteSet(1 .. Attempts) /\ Cardinality(1 .. Attempts) = Attempts
  BY RunsFacts, FS_Interval
<1>2. ASSUME NEW a \in ran PROVE a \in 1 .. Attempts
  <2>1. a \in Calls /\ stage[a] # "unsent"
    BY <1>2 DEF TypeOK, Inv, CallInv, Over
  <2>2. ~(a > sent) /\ sent <= try + 0
    BY <2>1 DEF Inv, ClientInv, CountInv, Extra
  <2>3. a \in Nat /\ a >= 1 /\ sent \in Nat /\ try \in 1 .. Attempts
    BY <2>1, RunsFacts DEF TypeOK, Calls
  <2> QED BY <2>2, <2>3, RunsFacts
<1> QED BY <1>1, <1>2, FS_Subset

LEMMA RanGrowsInHandle ==
  ASSUME [Next]_vars, \A a \in Runs : ~Handle(a) PROVE ran' = ran
BY DEF Next, vars, Gateway, CallService, Acquire, Send, Resend, Follow, Request,
   NoAddress, Answered, Lost, TimedOut, Back, Release, Charge, Finish, Move, Chain,
   Pprof, Enter, Cors, Metrics, Auth, Route, Leave, Complete, chainRest

(* An answer is never taken back.                                          *)
LEMMA ToldOnce ==
  ASSUME TypeOK, Inv, [Next]_vars, stage[0] \in Over PROVE written'[0] = written[0]
<1>1. CASE UNCHANGED vars \/ Move
  BY <1>1 DEF vars, Move
<1>2. ~Gateway
  BY DEF Over, Gateway, CallService, Acquire, Send, Resend, Follow, NoAddress, Answered,
     Lost, TimedOut, Back, Release, Charge, Finish
<1>3. ASSUME NEW a \in Runs, Chain(a) \/ Handle(a) \/ Complete(a)
      PROVE  written'[0] = written[0]
  <2>1. CASE a = 0
    BY <1>3, <2>1 DEF Over, Chain, Pprof, Enter, Cors, Metrics, Auth, Route, Leave,
       Pass, Handle, Complete
  <2>2. CASE a # 0
    <3>1. written' = written \/ \E r : written' = [written EXCEPT ![a] = r]
      BY <1>3 DEF Chain, Pprof, Enter, Cors, Metrics, Auth, Route, Leave,
         Handle, Complete, Write, Pass
    <3> QED BY <2>2, <3>1, RunsFacts DEF TypeOK
  <2> QED BY <2>1, <2>2
<1> QED BY <1>1, <1>2, <1>3 DEF Next

(* Told, by what the client's run wrote.                                   *)
LEMMA ToldCases ==
  ASSUME WriteInv(0)
  PROVE  /\ written[0] = <<>> => Told = "none"
         /\ \A r \in Replies : written[0] = <<r>> =>
              Told = IF r.msg \in Refusals THEN "refused"
                     ELSE IF r.msg = "data" THEN "served" ELSE "failed"
         /\ written[0] = <<>> \/ \E r \in Replies : written[0] = <<r>>
<1>1. \A r \in Replies : <<r>> # <<>> /\ Head(<<r>>) = r
  BY OneReply
<1> QED BY <1>1 DEF Told, WriteInv, Replied

LEMMA StepRefines ==
  TypeOK /\ Inv /\ (TypeOK /\ Inv /\ SingleBound)' /\ [Next]_vars
    => [Client!Next]_(Client!cvars)
<1> SUFFICES ASSUME TypeOK, Inv, TypeOK', Inv', SingleBound', [Next]_vars
             PROVE  \/ Client!Run \/ Client!Refuse \/ Client!Serve \/ Client!Fail
                    \/ UNCHANGED Client!cvars
  BY DEF Client!Next
<1>1. WriteInv(0) /\ WriteInv(0)'
  BY DEF Inv, ClientInv, SendInv
<1>a. Single' = Single
  BY SameRequest DEF Single
<1>2. CASE \E a \in Runs : Handle(a)
  <2>1. PICK a \in Calls : stage[a] = "handler" /\ ran' = ran \cup {a} /\ written' = written
    BY <1>2 DEF Handle
  <2>2. a \notin ran
    BY <2>1 DEF Inv, CallInv, Over
  <2>3. Cardinality(ran') = Cardinality(ran) + 1
    BY <2>1, <2>2, RanCount, FS_AddElement
  <2>4. Single => Cardinality(ran') <= Attempts
    BY <1>a DEF SingleBound
  <2>5. Single => Cardinality(ran) < Attempts
    BY <2>3, <2>4, RanCount, RunsFacts
  <2>6. Told' = Told
    BY <2>1 DEF Told
  <2>7. Told # "refused"
    <3>1. CASE written[0] = <<>>
      BY <1>1, <3>1, ToldCases
    <3>2. ASSUME NEW r \in Replies, written[0] = <<r>> PROVE Told # "refused"
      <4>1. r.msg \notin Refusals
        BY <2>1, <3>2 DEF Inv, ClientInv, TellInv
      <4> QED BY <1>1, <3>2, <4>1, ToldCases
    <3> QED BY <1>1, <3>1, <3>2, ToldCases
  <2> QED BY <1>a, <2>3, <2>5, <2>6, <2>7 DEF Client!Run
<1>3. CASE ~ \E a \in Runs : Handle(a)
  <2>1. ran' = ran
    BY <1>3, RanGrowsInHandle
  <2>2. CASE written'[0] = written[0]
    BY <1>a, <2>1, <2>2 DEF Told, Client!cvars
  <2>3. CASE written'[0] # written[0]
    <3>1. stage[0] \notin Over
      BY <2>3, ToldOnce
    <3>2. written[0] = <<>> /\ Told = "none"
      BY <1>1, <3>1, ToldCases DEF WriteInv, Inv, ClientInv, SendInv
    <3>3. PICK r \in Replies : written'[0] = <<r>>
      BY <1>1, <2>3, <3>2 DEF WriteInv, Replied
    <3>4. Told' = IF r.msg \in Refusals THEN "refused"
                  ELSE IF r.msg = "data" THEN "served" ELSE "failed"
      <4>1. <<r>> # <<>> /\ Head(<<r>>) = r
        BY OneReply
      <4> QED BY <3>3, <4>1 DEF Told
    <3>5. CASE r.msg \in Refusals
      <4>1. \A a \in Calls : stage'[a] = "unsent"
        BY <3>3, <3>5 DEF Inv, ClientInv, TellInv
      <4>2. ran' = {}
        BY <4>1 DEF Inv, CallInv, TypeOK, Over
      <4>3. Cardinality(ran) = 0
        BY <2>1, <4>2, RanCount
      <4> QED BY <1>a, <2>1, <3>2, <3>4, <3>5, <4>3 DEF Client!Refuse
    <3>6. CASE r.msg = "data"
      <4>1. sent' \in ran'
        BY <3>3, <3>6 DEF Inv, ClientInv, TellInv
      <4>2. Cardinality(ran) > 0
        BY <2>1, <4>1, RanCount
      <4>3. "data" \notin Refusals
        BY DEF Refusals
      <4> QED BY <1>a, <2>1, <3>2, <3>4, <3>6, <4>2, <4>3 DEF Client!Serve
    <3>7. CASE r.msg \notin Refusals /\ r.msg # "data"
      BY <1>a, <2>1, <3>2, <3>4, <3>7 DEF Client!Fail
    <3> QED BY <3>5, <3>6, <3>7
  <2> QED BY <2>2, <2>3
<1> QED BY <1>2, <1>3

(* The gateway implements RemoteCall: a refusal means that the handler     *)
(* never runs, data that it has run; and it runs at most Attempts times    *)
(* for a request that net/http may not send again by itself, to a service  *)
(* that does not redirect.                                                 *)
THEOREM GatewayIsRemoteCall == Spec => ImplementsRemoteCall
<1>1. Init => Client!Init
  <2> SUFFICES ASSUME Init PROVE Single \in BOOLEAN /\ Cardinality(ran) = 0 /\ Told = "none"
    BY DEF Client!Init
  <2>1. ran = {} /\ written[0] = <<>>
    BY RunsFacts DEF Init
  <2>2. Single \in BOOLEAN
    BY DEF Single
  <2> QED BY <2>1, <2>2, FS_EmptySet DEF Told
<1>2. TypeOK /\ Inv /\ (TypeOK /\ Inv /\ SingleBound)' /\ [Next]_vars
        => [Client!Next]_(Client!cvars)
  BY StepRefines
<1> QED BY <1>1, <1>2, SingleRuns, InvHolds, PTL DEF Spec, ImplementsRemoteCall, Client!Spec

-----------------------------------------------------------------------------
(* What is left of a run, in steps: those from its stage to its end and,   *)
(* for the client's, five to each attempt left.                            *)
StageLeft(s) ==
  CASE s = "unsent" -> 15   [] s = "sent" -> 14    [] s = "cors" -> 13
    [] s = "metrics" -> 12  [] s = "auth" -> 11    [] s = "route" -> 10
    [] s = "handler" -> 9   [] s = "acquire" -> 8  [] s = "address" -> 7
    [] s = "wait" -> 6      [] s = "release" -> 5  [] s = "charge" -> 4
    [] s \in {"finish", "running"} -> 3  [] s = "leave" -> 2
    [] s \in {"left", "dead"} -> 0

StepsLeft(a) ==
  StageLeft(stage[a]) + IF a = 0 THEN 5 * (Attempts - try) ELSE 0

LEMMA StageLeftType == \A s \in Stages : StageLeft(s) \in 0 .. 15
BY DEF StageLeft, Stages

LEMMA StepsLeftType ==
  ASSUME TypeOK, NEW a \in Runs
  PROVE  StepsLeft(a) \in 0 .. 5 * Attempts + 10
<1>1. StageLeft(stage[a]) \in 0 .. 15
  BY StageLeftType DEF TypeOK
<1>2. try \in 1 .. Attempts /\ Attempts \in Nat \ {0}
  BY GatewayAssumption DEF TypeOK
<1> QED BY <1>1, <1>2 DEF StepsLeft

(* One run's step through a chain or a handler.                            *)
LEMMA ChainFalls ==
  ASSUME TypeOK, NEW b \in Runs, Chain(b) \/ Handle(b) \/ Complete(b)
  PROVE  /\ try' = try /\ \A a \in Runs : a # b => stage'[a] = stage[a]
         /\ stage'[b] \in Stages /\ StageLeft(stage'[b]) < StageLeft(stage[b])
<1>1. ASSUME NEW s \in Stages, Goto(b, s)
      PROVE  stage'[b] = s /\ \A a \in Runs : a # b => stage'[a] = stage[a]
  BY <1>1 DEF Goto, TypeOK
<1>2. try' = try
  BY DEF Chain, Pprof, Enter, Cors, Metrics, Auth, Route, Leave, Handle, Complete, chainRest
<1>3. \E s \in Stages : Goto(b, s) /\ StageLeft(s) < StageLeft(stage[b])
  <2>1. CASE Pprof(b)
    BY <2>1 DEF Pprof, StageLeft, Stages
  <2>2. CASE Enter(b)
    BY <2>2 DEF Enter, Write, Pass, StageLeft, Stages
  <2>3. CASE Cors(b)
    BY <2>3 DEF Cors, Write, Pass, StageLeft, Stages
  <2>4. CASE Metrics(b)
    BY <2>4 DEF Metrics, Write, Pass, StageLeft, Stages
  <2>5. CASE Auth(b)
    BY <2>5 DEF Auth, Write, Pass, StageLeft, Stages
  <2>6. CASE Route(b)
    BY <2>6 DEF Route, Write, Pass, StageLeft, Stages
  <2>7. CASE Leave(b)
    BY <2>7 DEF Leave, Pass, StageLeft, Stages
  <2>8. CASE Handle(b)
    BY <2>8 DEF Handle, StageLeft, Stages
  <2>9. CASE Complete(b)
    BY <2>9 DEF Complete, Write, Pass, StageLeft, Stages
  <2> QED BY <2>1, <2>2, <2>3, <2>4, <2>5, <2>6, <2>7, <2>8, <2>9 DEF Chain
<1> QED BY <1>1, <1>2, <1>3

(* A step of callService or the retry loop: a request is sent only for a   *)
(* run that was not, and only the next attempt goes back to the start of   *)
(* the loop. The attempt waits on when net/http sends again.               *)
LEMMA GatewayFalls ==
  ASSUME TypeOK, Inv, Gateway
  PROVE  /\ IF Resend \/ Follow THEN stage'[0] = stage[0] /\ StepsLeft(0)' = StepsLeft(0)
                               ELSE stage'[0] # stage[0] /\ StepsLeft(0)' < StepsLeft(0)
         /\ \A a \in Calls : \/ stage'[a] = stage[a]
                             \/ stage[a] = "unsent" /\ stage'[a] = "sent"
<1>1. /\ 0 \in Runs /\ 0 \notin Calls /\ Calls \subseteq Runs
      /\ Attempts \in Nat /\ try \in Nat
  BY RunsFacts, GatewayAssumption DEF TypeOK
<1>2. ASSUME NEW s \in Stages, Goto(0, s)
      PROVE  stage'[0] = s /\ \A a \in Calls : stage'[a] = stage[a]
  BY <1>1, <1>2 DEF Goto, TypeOK
<1>3. StageLeft(stage[0]) \in 0 .. 15
  BY <1>1, StageLeftType DEF TypeOK
<1>4. ASSUME try' = try, NEW s \in Stages, stage'[0] = s, StageLeft(s) < StageLeft(stage[0])
      PROVE  StepsLeft(0)' < StepsLeft(0) /\ stage'[0] # stage[0]
  <2>1. StageLeft(s) \in 0 .. 15
    BY StageLeftType
  <2> QED BY <1>1, <1>3, <1>4, <2>1 DEF StepsLeft
<1>5. ASSUME NEW q, Request(q)
      PROVE  /\ stage'[0] = "wait" /\ try' = try
             /\ \A a \in Calls : \/ stage'[a] = stage[a]
                                 \/ stage[a] = "unsent" /\ stage'[a] = "sent"
  <2>1. stage' = [stage EXCEPT ![0] = "wait", ![sent + 1] = "sent"] /\ try' = try
    BY <1>5 DEF Request
  <2>2. sent \in Nat /\ sent + 1 # 0
    BY RunsFacts DEF TypeOK
  <2>3. sent + 1 \in Calls => stage[sent + 1] = "unsent"
    BY <2>2 DEF Inv, ClientInv, CountInv
  <2> QED BY <1>1, <2>1, <2>2, <2>3 DEF TypeOK
<1>a. CASE Resend \/ Follow
  <2>1. stage[0] = "wait" /\ \E q : Request(q)
    BY <1>a DEF Resend, Follow
  <2> QED BY <1>5, <1>a, <2>1 DEF StepsLeft
<1>b. CASE Send
  <2>1. stage[0] = "address" /\ Request(Forward(ask[0]))
    BY <1>b DEF Send
  <2>2. StageLeft("wait") < StageLeft(stage[0]) /\ "wait" \in Stages
    BY <2>1 DEF StageLeft, Stages
  <2>3. ~(Resend \/ Follow)
    BY <2>1 DEF Resend, Follow
  <2> QED BY <1>4, <1>5, <2>1, <2>2, <2>3
<1>6. CASE Charge /\ try' # try
  <2>1. Goto(0, "acquire") /\ try' = try + 1 /\ stage[0] = "charge"
    BY <1>6 DEF Charge, Pass
  <2>2. stage'[0] = "acquire" /\ \A a \in Calls : stage'[a] = stage[a]
    BY <1>2, <2>1 DEF Stages
  <2>3. StageLeft(stage'[0]) = 8 /\ StageLeft(stage[0]) = 4
    BY <2>1, <2>2 DEF StageLeft
  <2>4. ~(Resend \/ Follow)
    BY <2>1 DEF Resend, Follow
  <2> QED BY <1>1, <2>1, <2>2, <2>3, <2>4 DEF StepsLeft
<1>7. CASE ~(Send \/ Resend \/ Follow) /\ ~(Charge /\ try' # try)
  <2>1. try' = try
    BY <1>7 DEF Gateway, CallService, Acquire, NoAddress, Answered, Lost, TimedOut, Back,
       Release, Finish, chainRest
  <2>2. \E s \in Stages : Goto(0, s) /\ StageLeft(s) < StageLeft(stage[0])
    <3>1. CASE CallService
      BY <3>1 DEF CallService, Write, Pass, StageLeft, Stages
    <3>2. CASE Acquire
      BY <3>2 DEF Acquire, Pass, StageLeft, Stages
    <3>3. CASE NoAddress
      BY <3>3 DEF NoAddress, StageLeft, Stages
    <3>4. CASE Answered \/ Lost \/ TimedOut
      <4>1. Goto(0, "release") /\ stage[0] = "wait"
        BY <3>4 DEF Answered, Lost, TimedOut, Back
      <4> QED BY <4>1 DEF StageLeft, Stages
    <3>5. CASE Release
      BY <3>5 DEF Release, Pass, StageLeft, Stages
    <3>6. CASE Charge
      <4>1. Goto(0, "dead") \/ Goto(0, "leave")
        BY <1>1, <1>7, <3>6 DEF Charge, Write, Pass
      <4> QED BY <3>6, <4>1 DEF Charge, StageLeft, Stages
    <3>7. CASE Finish
      BY <3>7 DEF Finish, Write, Pass, StageLeft, Stages
    <3> QED BY <1>7, <3>1, <3>2, <3>3, <3>4, <3>5, <3>6, <3>7 DEF Gateway
  <2> QED BY <1>2, <1>4, <1>7, <2>1, <2>2
<1> QED BY <1>6, <1>7, <1>a, <1>b

(* Every run only goes forward: what it does brings its end nearer, and    *)
(* nothing another run, net/http or the node list does takes that back; a  *)
(* request sent again is another run. The client's run takes               *)
(* 5 * Attempts + 9 steps at most, whatever the number sent; what          *)
(* RequestEnds adds is that it goes on.                                    *)
THEOREM RunsTakeBoundedSteps ==
  Spec => [][\A a \in Runs :
               /\ StepsLeft(a) \in 0 .. 5 * Attempts + 10
               /\ stage'[a] # stage[a] => StepsLeft(a)' < StepsLeft(a)
               /\ stage'[a] = stage[a] => StepsLeft(a)' = StepsLeft(a)]_vars
<1>1. TypeOK /\ Inv /\ [Next]_vars
        => [\A a \in Runs :
              /\ StepsLeft(a) \in 0 .. 5 * Attempts + 10
              /\ stage'[a] # stage[a] => StepsLeft(a)' < StepsLeft(a)
              /\ stage'[a] = stage[a] => StepsLeft(a)' = StepsLeft(a)]_vars
  <2> SUFFICES ASSUME TypeOK, Inv, Next, NEW a \in Runs
               PROVE  /\ StepsLeft(a) \in 0 .. 5 * Attempts + 10
                      /\ stage'[a] # stage[a] => StepsLeft(a)' < StepsLeft(a)
                      /\ stage'[a] = stage[a] => StepsLeft(a)' = StepsLeft(a)
    OBVIOUS
  <2>0. a = 0 \/ a \in Calls
    BY DEF Runs, Calls
  <2>1. StepsLeft(a) \in 0 .. 5 * Attempts + 10
    BY StepsLeftType
  <2>2. CASE Move
    BY <2>1, <2>2 DEF Move, StepsLeft
  <2>3. CASE Gateway
    <3>1. CASE a = 0
      BY <2>1, <2>3, <3>1, GatewayFalls
    <3>2. CASE a # 0
      <4>1. \/ stage'[a] = stage[a]
            \/ stage[a] = "unsent" /\ stage'[a] = "sent"
        BY <2>0, <2>3, <3>2, GatewayFalls
      <4>2. StageLeft("sent") < StageLeft("unsent")
        BY DEF StageLeft
      <4>3. StepsLeft(a) = StageLeft(stage[a]) + 0 /\ StepsLeft(a)' = StageLeft(stage'[a]) + 0
        BY <3>2 DEF StepsLeft
      <4>4. StageLeft("sent") \in Nat /\ StageLeft("unsent") \in Nat
        BY DEF StageLeft
      <4> QED BY <2>1, <4>1, <4>2, <4>3, <4>4
    <3> QED BY <3>1, <3>2
  <2>4. ASSUME NEW b \in Runs, Chain(b) \/ Handle(b) \/ Complete(b)
        PROVE  /\ stage'[a] # stage[a] => StepsLeft(a)' < StepsLeft(a)
               /\ stage'[a] = stage[a] => StepsLeft(a)' = StepsLeft(a)
    <3>1. /\ try' = try
          /\ a # b => stage'[a] = stage[a]
          /\ stage'[b] \in Stages /\ StageLeft(stage'[b]) < StageLeft(stage[b])
      BY <2>4, ChainFalls
    <3>2. StageLeft(stage'[b]) \in 0 .. 15 /\ StageLeft(stage[b]) \in 0 .. 15
      BY <3>1, StageLeftType DEF TypeOK
    <3>3. try \in Nat /\ Attempts \in Nat
      BY GatewayAssumption DEF TypeOK
    <3>4. CASE a # b
      BY <3>1, <3>4 DEF StepsLeft
    <3>5. CASE a = b
      <4>1. StepsLeft(b)' < StepsLeft(b)
        BY <3>1, <3>2, <3>3 DEF StepsLeft
      <4>2. stage'[b] # stage[b]
        BY <3>1, <3>2
      <4> QED BY <3>5, <4>1, <4>2
    <3> QED BY <3>4, <3>5
  <2> QED BY <2>1, <2>2, <2>3, <2>4 DEF Next
<1> QED BY <1>1, InvHolds, PTL DEF Spec
=============================================================================
