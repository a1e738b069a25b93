---------------------------- MODULE MCGatekeeper ----------------------------
(* One service with two endpoints behind a protected, rotating route and   *)
(* an open one; another document has other secrets and one endpoint, a     *)
(* third has no endpoint.                                                  *)
EXTENDS Gatekeeper, TLC

CONSTANTS t1, t2
MCSymmetry == Permutations({t1, t2})

x1 == <<"s", "e1">>
x2 == <<"s", "e2">>

MCMethod(code, type, secret) ==
  [code |-> code, type |-> type, enabled |-> TRUE, secret |-> secret,
   cached |-> type = "external"]

NoHooks == <<>>
OpenHooks == [key \in {<<"service", "s">>, <<"route", "open">>} |-> {key[2]}]
MCHooks == {NoHooks, OpenHooks}

MCRoute(slug, protected, targets) ==
  [slug |-> slug, paths |-> {slug}, protected |-> protected, rotates |-> protected,
   targets |-> targets, keeps |-> TRUE, hooks |-> IF protected THEN NoHooks ELSE OpenHooks]

MCConfig(secret, endpoints) ==
  [routes |-> <<MCRoute("closed", TRUE, <<x1, x2>>), MCRoute("open", FALSE, <<x1>>)>>,
   endpoints |-> endpoints,
   clients |->
     <<[code |-> "a", enabled |-> TRUE, scope |-> {x2}, allowed |-> {"in"},
        methods |-> <<MCMethod("key", "secret", secret), MCMethod("token", "oauth", secret)>>],
       [code |-> "b", enabled |-> endpoints = {x1, x2}, scope |-> {x1, x2},
        allowed |-> {"in", "out"}, methods |-> <<MCMethod("script", "external", None)>>]>>]

MCDocument ==
  [first |-> MCConfig("old", {x1, x2}), second |-> MCConfig("new", {x2}),
   bare |-> MCConfig("old", {})]

MCAsk(path, presents, ip) ==
  [path |-> path, presents |-> presents, ip |-> ip, subject |-> "user"]

MCAsks ==
  {MCAsk("closed", {"old"}, "in"), MCAsk("closed", {}, "out"), MCAsk("open", {}, "in"),
   MCAsk("none", {}, "in")}
=============================================================================
