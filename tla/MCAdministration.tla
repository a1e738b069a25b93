--------------------------- MODULE MCAdministration ---------------------------
(* Two administrators of a gateway with one service and two endpoints.     *)
EXTENDS Administration, TLC

CONSTANTS t1, t2
MCSymmetry == Permutations({t1, t2})

\* "E" has no slug of its own, "F" has one; the other labels are slugs.
MCLabels == {"E", "F", "e", "f", "f2", "r1", "r2", "r3", "c", "d", "p", "q"}
MCLower == [l \in MCLabels |-> CASE l = "E" -> "e" [] l = "F" -> "f" [] OTHER -> l]

MCEndpoints ==
  {[service |-> "s1", name |-> "E", slug |-> None, path |-> "/e", profile |-> "p"],
   [service |-> "s1", name |-> "F", slug |-> "f2", path |-> "/f", profile |-> None]}

MCClient ==
  [slug |-> "c", code |-> "c", services |-> {"s1"},
   endpoints |-> {<<"s1", "E">>, <<"s1", "f2">>}]

MCRoute(slug, path, targets) ==
  [slug |-> slug, path |-> path, targets |-> targets, profile |-> "p",
   auth |-> "required"]

\* A document whose endpoints have paths of their own, and one with routes.
MCLegacy ==
  [services |-> {"s1"}, secured |-> {"s1"}, endpoints |-> MCEndpoints,
   routes |-> {}, clients |-> {MCClient}, profiles |-> {"p"},
   responses |-> [mode |-> "profile", profile |-> "p"], bad |-> {}]

MCRouted ==
  [MCLegacy EXCEPT
     !.endpoints = {[e EXCEPT !.path = None] : e \in @},
     !.routes = {MCRoute("r1", "/e", {<<"s1", "E">>, <<"s1", "f2">>}),
                 MCRoute("r2", "/f", {<<"s1", "F">>})}]

MCFirstConfigs == {MCLegacy, MCRouted}

MCSecurity ==
  [DefaultSecurity EXCEPT !.users =
     {[name |-> "u", roles |-> {"operator"}, enabled |-> TRUE, hashed |-> TRUE]}]

MCImport(scope) ==
  [op |-> "import", scope |-> scope, payload |-> MCLegacy,
   security |-> DefaultSecurity]

MCRequests ==
  {[op |-> "save_settings", responses |-> [mode |-> "inline", profile |-> "p"]],
   [op |-> "save_service", original |-> "s1", name |-> "s2", bad |-> FALSE],
   [op |-> "delete_service", name |-> "s1"],
   [op |-> "save_client", original |-> None, client |-> [MCClient EXCEPT !.slug = "d", !.code = "d"], bad |-> FALSE],
   [op |-> "delete_client", slug |-> "c"],
   [op |-> "save_endpoint", service |-> "s1", original |-> "E", originalSlug |-> "e",
    name |-> "E", slug |-> "f", profile |-> None, bad |-> FALSE],
   [op |-> "delete_endpoint", service |-> "s1", name |-> "F"],
   [op |-> "save_route", original |-> None, bad |-> FALSE,
    route |-> MCRoute("r3", "/r", {<<"s1", "F">>})],
   [op |-> "delete_route", slug |-> "e"],
   [op |-> "delete_route", slug |-> "r1"],
   [op |-> "delete_route", slug |-> "f2"],
   [op |-> "save_profile", original |-> "p", slug |-> "q", bad |-> FALSE],
   [op |-> "save_profile", original |-> None, slug |-> "q", bad |-> TRUE],
   [op |-> "delete_profile", slug |-> "p"],
   [op |-> "save_role", original |-> "operator", name |-> "monitor", permissions |-> {}],
   [op |-> "save_role", original |-> "admin", name |-> "admin", permissions |-> {"admin_access"}],
   [op |-> "delete_role", name |-> "operator"],
   [op |-> "save_user", original |-> "u", name |-> "v", roles |-> {"admin"},
    enabled |-> TRUE, hashed |-> FALSE],
   [op |-> "delete_user", name |-> "u"]}
  \cup {MCImport(scope) : scope \in {"full", "services", "roles"}}
=============================================================================
