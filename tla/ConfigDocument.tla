--------------------------- MODULE ConfigDocument ---------------------------
(***************************************************************************)
(* The configuration document and what administrators do to it             *)
(* (gateway/admin_ops.py), with the checks a document has to pass before   *)
(* it is saved or served (gateway/config.py).                              *)
(*                                                                         *)
(* Kept of a document are its names and what refers to what; everything    *)
(* else a block may say is either fine or makes the block bad.  An edit    *)
(* is the set of documents it may leave, empty when it raises.  A list of  *)
(* the document is a set here: where the code takes the first match, any   *)
(* match may be the first.                                                 *)
(***************************************************************************)
CONSTANTS
  Services,   \* names of services
  Labels,     \* names and slugs of endpoints, routes, clients, profiles
  Lower,      \* a name in lower case, which is the slug when none is given
  Paths,      \* gateway paths, with their methods
  None

ASSUME DocumentAssumption ==
  /\ Lower \in [Labels -> Labels]
  /\ None \notin Services \cup Labels \cup Paths

Blocks ==
  {"services", "routes", "clients", "output_profiles", "gateway_responses",
   "observability"}

References == Services \X Labels

\* path: the gateway path of an endpoint that is its own, legacy route.
Endpoints ==
  [service : Services, name : Labels, slug : Labels \cup {None},
   path : Paths \cup {None}, profile : Labels \cup {None}]

\* auth: what the route says itself; "inherited" when it has no auth block.
Routes ==
  [slug : Labels, path : Paths, targets : SUBSET References,
   profile : Labels \cup {None}, auth : {"required", "open", "inherited"}]

Clients ==
  [slug : Labels, code : Labels, services : SUBSET Services,
   endpoints : SUBSET References]

Responses == [mode : {"default", "inline", "profile"}, profile : Labels \cup {None}]

\* secured: the services whose auth is required; bad: the blocks with an entry
\* that no loader accepts.
Documents ==
  [services : SUBSET Services, secured : SUBSET Services,
   endpoints : SUBSET Endpoints, routes : SUBSET Routes,
   clients : SUBSET Clients, profiles : SUBSET Labels, responses : Responses,
   bad : SUBSET Blocks]

\* An empty file: every block gets its default.
EmptyDocument ==
  [services |-> {}, secured |-> {}, endpoints |-> {}, routes |-> {},
   clients |-> {}, profiles |-> {},
   responses |-> [mode |-> "default", profile |-> None], bad |-> {}]

-----------------------------------------------------------------------------
(* What loads, and what it is loaded as.                                   *)

\* An endpoint's slug is its lower-case name unless it has one of its own.
Slug(e) == IF e.slug = None THEN Lower[e.name] ELSE e.slug

ClientsLoad(doc) ==
  /\ "clients" \notin doc.bad
  /\ \A c, d \in doc.clients : c.slug = d.slug \/ c.code = d.code => c = d

ProfilesLoad(doc) == "output_profiles" \notin doc.bad

ResponsesLoad(doc) ==
  /\ "gateway_responses" \notin doc.bad
  /\ doc.responses.mode = "profile" => doc.responses.profile \in doc.profiles

ObservabilityLoads(doc) == "observability" \notin doc.bad

ServicesLoad(doc) ==
  /\ "services" \notin doc.bad
  /\ \A e, f \in doc.endpoints :
       e.service = f.service /\ (e.name = f.name \/ Slug(e) = Slug(f)) => e = f

\* Only routes that are written down have to differ.
RoutesLoad(doc) ==
  /\ "routes" \notin doc.bad
  /\ \A r, s \in doc.routes : r.slug = s.slug \/ r.path = s.path => r = s

Loads(doc) ==
  /\ ClientsLoad(doc)
  /\ ProfilesLoad(doc)
  /\ ResponsesLoad(doc)
  /\ ObservabilityLoads(doc)
  /\ ServicesLoad(doc)
  /\ RoutesLoad(doc)

\* The routes of endpoints with a gateway path of their own.
LegacyRoutes(doc) ==
  {[slug |-> Slug(e), path |-> e.path, targets |-> {<<e.service, e.name>>},
    profile |-> e.profile, auth |-> "inherited"] :
     e \in {f \in doc.endpoints : f.path # None}}

\* They count only in a document without routes.
EnsuredRoutes(doc) == IF doc.routes = {} THEN LegacyRoutes(doc) ELSE doc.routes

\* What a reference may stand for: an endpoint's name or its slug.
Resolved(doc, ref) ==
  {e \in doc.endpoints : e.service = ref[1] /\ ref[2] \in {e.name, Slug(e)}}

LiveTargets(doc, r) == {ref \in r.targets : Resolved(doc, ref) # {}}

\* A route as it is served: without the targets and the profile that are gone.
ServedRoute(doc, r) ==
  [slug |-> r.slug,
   path |-> r.path,
   targets |-> LiveTargets(doc, r),
   profile |-> IF r.profile \in doc.profiles THEN r.profile ELSE None,
   protected |->
     \/ r.auth = "required"
     \/ /\ r.auth = "inherited"
        /\ \E ref \in LiveTargets(doc, r) : ref[1] \in doc.secured]

ServedRoutes(doc) == {ServedRoute(doc, r) : r \in EnsuredRoutes(doc)}

-----------------------------------------------------------------------------
(* The edits.                                                              *)

Unless(refused, doc) == IF refused THEN {} ELSE {doc}

Given(label, other) == IF label = None THEN other ELSE label

Spoilt(doc, r, block) == IF r.bad THEN doc.bad \cup {block} ELSE doc.bad

\* The grants and targets that name what is gone.
WithoutReferences(doc, gone) ==
  [doc EXCEPT !.clients = {[c EXCEPT !.endpoints = @ \ gone] : c \in @},
              !.routes = {[r EXCEPT !.targets = @ \ gone] : r \in @}]

WithoutService(doc, s) ==
  [WithoutReferences(doc, {s} \X Labels) EXCEPT
     !.clients = {[c EXCEPT !.services = @ \ {s}] : c \in @}]

\* A profile's name wherever it is used; None clears it, and gateway responses
\* that have lost their profile are the default ones again.
ProfileReplaced(doc, old, new) ==
  [doc EXCEPT
     !.endpoints = {IF e.profile = old THEN [e EXCEPT !.profile = new] ELSE e :
                      e \in @},
     !.routes = {IF r.profile = old THEN [r EXCEPT !.profile = new] ELSE r :
                   r \in @}]

ProfileCleared(doc, old) ==
  [ProfileReplaced(doc, old, None) EXCEPT
     !.responses =
       IF @.profile # old THEN @
       ELSE [mode |-> IF @.mode = "profile" THEN "default" ELSE @.mode,
             profile |-> None]]

ProfileRenamed(doc, old, new) ==
  [ProfileReplaced(doc, old, new) EXCEPT
     !.responses.profile = IF @ = old THEN new ELSE @]

\* Mutant of Stripped: the endpoints keep their own paths.
StrippedOfNothing(doc) == doc

\* Once routes are written down, endpoints have no paths of their own.
Stripped(doc) ==
  [doc EXCEPT !.endpoints = {[e EXCEPT !.path = None] : e \in @}]

SaveSettings(doc, r) == {[doc EXCEPT !.responses = r.responses]}

\* A renamed service takes its endpoints along; what refers to it keeps the
\* old name.
SaveService(doc, r) ==
  LET renames == r.original \notin {None, r.name}
      taken(s) == IF renames /\ s = r.original THEN r.name ELSE s
      Taken(S) == {taken(s) : s \in S}
  IN Unless(renames /\ r.name \in doc.services,
       [doc EXCEPT !.services = Taken(@) \cup {r.name},
                   !.secured = Taken(@),
                   !.endpoints = {[e EXCEPT !.service = taken(@)] : e \in @},
                   !.bad = Spoilt(doc, r, "services")])

DeleteService(doc, r) ==
  Unless(r.name \notin doc.services,
    [WithoutService(doc, r.name) EXCEPT
       !.services = @ \ {r.name},
       !.secured = @ \ {r.name},
       !.endpoints = {e \in @ : e.service # r.name}])

\* A new client whose slug exists takes that client's place.
SaveClient(doc, r) ==
  LET key == Given(r.original, r.client.slug)
      others == {c \in doc.clients : c.slug # key}
  IN Unless(\E c \in others : c.code = r.client.code \/ c.slug = r.client.slug,
       [doc EXCEPT !.clients = others \cup {r.client},
                   !.bad = Spoilt(doc, r, "clients")])

DeleteClient(doc, r) ==
  LET others == {c \in doc.clients : c.slug # r.slug}
  IN Unless(others = doc.clients, [doc EXCEPT !.clients = others])

\* The form names the endpoint it edits by name and by slug; the first endpoint
\* that has either is replaced and loses its own path.
SaveEndpoint(doc, r) ==
  LET siblings == {e \in doc.endpoints : e.service = r.service}
      name == Given(r.original, r.name)
      slug == Given(r.originalSlug, r.slug)
      edited == {e \in siblings : e.name = name \/ Slug(e) = slug}
      refused ==
        \/ r.service \notin doc.services
        \/ r.original \notin {None, r.name} /\ \E e \in siblings : e.name = r.name
        \/ \E e \in siblings \ edited : Slug(e) = r.slug
      endpoint == [service |-> r.service, name |-> r.name, slug |-> r.slug,
                   path |-> None, profile |-> r.profile]
      With(replaced) ==
        [doc EXCEPT !.endpoints = (@ \ replaced) \cup {endpoint},
                    !.bad = Spoilt(doc, r, "services")]
  IN IF refused THEN {}
     ELSE IF edited = {} THEN {With({})}
     ELSE {With({e}) : e \in edited}

\* Mutant of DeleteEndpoint: references by slug stay.
DeleteEndpointByName(doc, r) ==
  LET deleted == {e \in doc.endpoints : e.service = r.service /\ e.name = r.name}
  IN Unless(r.service \notin doc.services \/ deleted = {},
       [WithoutReferences(doc, {<<r.service, r.name>>}) EXCEPT
          !.endpoints = @ \ deleted])

\* References by the slug the endpoint has of its own go with it.
DeleteEndpoint(doc, r) ==
  LET deleted == {e \in doc.endpoints : e.service = r.service /\ e.name = r.name}
      refs == {r.name} \cup ({e.slug : e \in deleted} \ {None})
  IN Unless(r.service \notin doc.services \/ deleted = {},
       [WithoutReferences(doc, {r.service} \X refs) EXCEPT
          !.endpoints = @ \ deleted])

\* Legacy routes are written down with it.
SaveRoute(doc, r) ==
  LET routes == EnsuredRoutes(doc)
      edited == {x \in routes : x.slug = Given(r.original, r.route.slug)}
      With(replaced) ==
        Unless(\E x \in routes \ replaced : x.slug = r.route.slug,
          Stripped([doc EXCEPT !.routes = (routes \ replaced) \cup {r.route},
                               !.bad = Spoilt(doc, r, "routes")]))
  IN IF edited = {} THEN With({}) ELSE UNION {With({x}) : x \in edited}

DeleteRoute(doc, r) ==
  LET routes == EnsuredRoutes(doc)
      others == {x \in routes : x.slug # r.slug}
  IN Unless(others = routes, Stripped([doc EXCEPT !.routes = others]))

SaveProfile(doc, r) ==
  LET renames == r.original \notin {None, r.slug}
      renamed == IF renames THEN ProfileRenamed(doc, r.original, r.slug) ELSE doc
  IN Unless(renames /\ r.slug \in doc.profiles,
       [renamed EXCEPT
          !.profiles = (IF renames THEN @ \ {r.original} ELSE @) \cup {r.slug},
          !.bad = Spoilt(doc, r, "output_profiles")])

DeleteProfile(doc, r) ==
  Unless(r.slug \notin doc.profiles,
    [ProfileCleared(doc, r.slug) EXCEPT !.profiles = @ \ {r.slug}])

\* A whole document takes the stored one's place, or one block of it does.
ImportConfig(doc, r) ==
  LET new == r.payload
      bad(block) == (doc.bad \ {block}) \cup (new.bad \cap {block})
  IN {CASE r.scope \in {"config", "full"} -> new
        [] r.scope = "services" ->
             [doc EXCEPT !.services = new.services, !.secured = new.secured,
                         !.endpoints = new.endpoints, !.bad = bad("services")]
        [] r.scope = "routes" ->
             [doc EXCEPT !.routes = new.routes, !.bad = bad("routes")]
        [] r.scope = "clients" ->
             [doc EXCEPT !.clients = new.clients, !.bad = bad("clients")]
        [] r.scope = "output_profiles" ->
             [doc EXCEPT !.profiles = new.profiles, !.bad = bad("output_profiles")]
        [] r.scope = "gateway_responses" ->
             [doc EXCEPT !.responses = new.responses,
                         !.bad = bad("gateway_responses")]
        [] r.scope = "observability" -> [doc EXCEPT !.bad = bad("observability")]}

\* What a request makes of the document it has loaded.
Edited(doc, r) ==
  CASE r.op = "save_settings"  -> SaveSettings(doc, r)
    [] r.op = "save_service"   -> SaveService(doc, r)
    [] r.op = "delete_service" -> DeleteService(doc, r)
    [] r.op = "save_client"    -> SaveClient(doc, r)
    [] r.op = "delete_client"  -> DeleteClient(doc, r)
    [] r.op = "save_endpoint"  -> SaveEndpoint(doc, r)
    [] r.op = "delete_endpoint" -> DeleteEndpoint(doc, r)
    [] r.op = "save_route"     -> SaveRoute(doc, r)
    [] r.op = "delete_route"   -> DeleteRoute(doc, r)
    [] r.op = "save_profile"   -> SaveProfile(doc, r)
    [] r.op = "delete_profile" -> DeleteProfile(doc, r)
    [] r.op = "import"         -> ImportConfig(doc, r)

\* The saver validates it: a document that would not load is not saved.
ConfigEdits(doc, r) == {new \in Edited(doc, r) : Loads(new)}
=============================================================================
