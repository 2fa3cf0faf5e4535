------------------------------- MODULE MCBoot -------------------------------
(* Instances of Boot for TLC: one good configuration, and those that       *)
(* differ from it in one respect.                                          *)
EXTENDS Boot, TLC

CustomNames == {"cache"}

TextAtoms == {"_", "rain", "bow", "shop", "my", "v2", "user", "pay", "note",
              "a1", "a2", "a3", "host"}

Good == [set |-> Options, tracer |-> "jaeger", db |-> "good", redis |-> "good",
         etcdKey |-> <<"rain">>,
         self |-> [name |-> <<"shop">>, addr |-> <<"a1">>]]

GoodAndFaulty ==
  {[Good EXCEPT !.set = @ \ {o}] : o \in Options} \cup
  {[Good EXCEPT !.tracer = t] : t \in {"jaeger", "zipkin", "other"}} \cup
  {[Good EXCEPT !.db = d] : d \in DbConfigs} \cup
  {[Good EXCEPT !.redis = d] : d \in RedisConfigs} \cup
  {[Good EXCEPT !.etcdKey = <<"rain", "_", "bow">>],
   [Good EXCEPT !.self.name = <<"my", "rain">>],
   [Good EXCEPT !.self.name = <<"my", "rain", "_", "v2">>],
   [Good EXCEPT !.self.addr = <<"my", "_", "host">>]}

(* Another service, one with "_" in its name, and a key that is none.      *)
OtherServers == {[name |-> <<"user">>, addr |-> <<"a2">>],
                 [name |-> <<"pay", "_", "v2">>, addr |-> <<"a3">>],
                 [name |-> <<"note">>, addr |-> <<>>]}
=============================================================================
