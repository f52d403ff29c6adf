------------------------------ MODULE MCPolicy ------------------------------
(* Small policies, requests and URLs for PolicyStore and PolicyRules.      *)
EXTENDS PolicyRules

MCLowerOf == [EX |-> "ex"]
MCUpperOf == [get |-> "GET"]
MCMaxInt == 99999

Rule(name, hosts, methods, paths, ports) ==
  [name |-> name, hosts |-> hosts, methods |-> methods, paths |-> paths,
   ports |-> ports, empty |-> {}]

Dot == "."
Apex == <<"ex", Dot, "com">>
Below == <<"*", Dot>> \o Apex

RulePool ==
  { Rule("apex", {Apex}, {}, {}, {}),
    Rule("shout", {<<" ", "EX", Dot, "com">>}, {}, {}, {8080}),
    Rule("wild", {Below}, {"get"}, {}, {443, 8080}),
    Rule("reader", {Apex, Below}, {"get"}, {<<"/", "v1">>}, {}),
    Rule("below", {Apex}, {}, {<<"/", "v1", "/">>, <<"/", "log">>}, {}) }

Doc(default, rules) == [version |-> 1, default |-> default, rules |-> rules]

(* Documents Parse refuses, one for each reason.                           *)
Broken(r) ==
  LET only(x) == Doc("deny", <<x>>)
  IN { Unparsable,
       [Doc("deny", <<r>>) EXCEPT !.version = 0], Doc("", <<r>>), Doc("deny", <<r, r>>),
       only([r EXCEPT !.name = ""]), only([r EXCEPT !.hosts = {}]),
       only([r EXCEPT !.hosts = {<<" ">>}]), only([r EXCEPT !.hosts = {<<"*">>}]),
       only([r EXCEPT !.hosts = {Wildcard}]),
       only([r EXCEPT !.hosts = {<<"a", Dot, "*", Dot, "com">>}]),
       only([r EXCEPT !.hosts = {<<"*", Dot, "*", Dot, "com">>}]),
       only([r EXCEPT !.empty = {"methods"}]), only([r EXCEPT !.methods = {"FETCH"}]),
       only([r EXCEPT !.paths = {<<"v1">>}]), only([r EXCEPT !.paths = {<<>>}]),
       only([r EXCEPT !.ports = {0}]), only([r EXCEPT !.ports = {65536}]) }

(* Every policy of at most two rules of the pool.                          *)
RuleLists ==
  {rules \in UNION {[1..n -> RulePool] : n \in 0..2} :
     \A i, j \in DOMAIN rules : i # j => rules[i] # rules[j]}
MCRuleDocuments == {Doc(d, rules) : d \in {"allow", "deny"}, rules \in RuleLists}
MCNoRewrites == {}

Hosts == { Apex, <<"EX", Dot, "com">>, <<"a", Dot, "EX", Dot, "com">>,
           <<"a", Dot, "b", Dot, "ex", Dot, "com">>, <<"evil", "ex", Dot, "com">>,
           <<Dot, "ex", Dot, "com">>, <<"a", Dot, Dot, "ex", Dot, "com">>, <<"com">> }
Paths == { <<>>, <<"/">>, <<"/", "v1">>, <<"/", "v1", "/">>, <<"/", "v1", "/", "x">>,
           <<"/", "v1", "-admin">>, <<"/", "log">>, <<"/", "log", "s", "/", "x">> }

MCQuestions ==
  [kind : {"connect"}, host : Hosts, port : {443, 8080}, method : {""}, path : {<<>>}]
    \cup [kind : {"http"}, host : Hosts, port : {80, 8080},
          method : {"GET", "POST"}, path : Paths]

LinkPaths == { <<>>, <<"/", "v1">>, <<"/", "v1", "/", "..", "/", "secret">>,
               <<"/", "v1", "%2f", "x">>, <<"/", "v1", "/", ".">> }

MCLinks ==
  [scheme : {"http", "https"}, host : {Apex, <<"a", Dot, "ex", Dot, "com">>},
   port : {<<>>, <<8080>>, <<0>>, <<65536>>, <<100000>>}, path : LinkPaths]
MCVerbs == {"get", "POST"}

(* A few documents and requests for the interleavings.                     *)
Pick(name) == CHOOSE r \in RulePool : r.name = name
MCReloadDocuments ==
  { Doc("deny", <<Pick("shout")>>), Doc("allow", <<Pick("wild")>>),
    Doc("deny", <<>>) } \cup Broken(Pick("reader"))

MCWires ==
  { [kind |-> "connect", scheme |-> "", host |-> Apex, port |-> <<8080>>,
     method |-> "", path |-> <<>>],
    [kind |-> "connect", scheme |-> "", host |-> <<>>, port |-> <<443>>,
     method |-> "", path |-> <<>>],
    [kind |-> "http", scheme |-> "http", host |-> <<"a", Dot, "ex", Dot, "com">>,
     port |-> <<8080>>, method |-> "GET", path |-> <<"/">>] }
=============================================================================
