------------------------- MODULE AdministrationProofs -------------------------
(***************************************************************************)
(* Theorems about Administration, for any threads, requests, documents and *)
(* bounds: its types, that saves are whole, that answers tell the truth,   *)
(* that changes are permitted, what deletions and changes of routes leave  *)
(* of a configuration, and that it implements SerialEdits.                 *)
(***************************************************************************)
EXTENDS Administration, TLAPS

-----------------------------------------------------------------------------
(* What a request is.                                                      *)

LEMMA RequestForms ==
  ASSUME NEW r \in Requests
  PROVE  \/ r.op = "save_settings" /\ r \in SettingsForms
         \/ r.op = "save_service" /\ r \in ServiceForms
         \/ r.op = "delete_service" /\ r \in ServiceDeletions
         \/ r.op = "save_client" /\ r \in ClientForms
         \/ r.op = "delete_client" /\ r \in ClientDeletions
         \/ r.op = "save_endpoint" /\ r \in EndpointForms
         \/ r.op = "delete_endpoint" /\ r \in EndpointDeletions
         \/ r.op = "save_route" /\ r \in RouteForms
         \/ r.op = "delete_route" /\ r \in RouteDeletions
         \/ r.op = "save_profile" /\ r \in ProfileForms
         \/ r.op = "delete_profile" /\ r \in ProfileDeletions
         \/ r.op = "save_role" /\ r \in RoleForms
         \/ r.op = "delete_role" /\ r \in RoleDeletions
         \/ r.op = "save_user" /\ r \in UserForms
         \/ r.op = "delete_user" /\ r \in UserDeletions
         \/ r.op = "import" /\ r \in Imports
<1>1. /\ r \in SettingsForms => r.op = "save_settings"
      /\ r \in ServiceForms => r.op = "save_service"
      /\ r \in ServiceDeletions => r.op = "delete_service"
  BY DEF SettingsForms, ServiceForms, ServiceDeletions
<1>2. /\ r \in ClientForms => r.op = "save_client"
      /\ r \in ClientDeletions => r.op = "delete_client"
      /\ r \in EndpointForms => r.op = "save_endpoint"
      /\ r \in EndpointDeletions => r.op = "delete_endpoint"
  BY DEF ClientForms, ClientDeletions, EndpointForms, EndpointDeletions
<1>3. /\ r \in RouteForms => r.op = "save_route"
      /\ r \in RouteDeletions => r.op = "delete_route"
      /\ r \in ProfileForms => r.op = "save_profile"
      /\ r \in ProfileDeletions => r.op = "delete_profile"
  BY DEF RouteForms, RouteDeletions, ProfileForms, ProfileDeletions
<1>4. /\ r \in RoleForms => r.op = "save_role"
      /\ r \in RoleDeletions => r.op = "delete_role"
      /\ r \in UserForms => r.op = "save_user"
      /\ r \in UserDeletions => r.op = "delete_user"
      /\ r \in Imports => r.op = "import"
  BY DEF RoleForms, RoleDeletions, UserForms, UserDeletions, Imports
<1>5. r \in SettingsForms \cup ServiceForms \cup ServiceDeletions \cup ClientForms
              \cup ClientDeletions \cup EndpointForms \cup EndpointDeletions
              \cup RouteForms \cup RouteDeletions \cup ProfileForms
              \cup ProfileDeletions \cup RoleForms \cup RoleDeletions
              \cup UserForms \cup UserDeletions \cup Imports
  BY RequestsAssumption DEF RequestsAssumption
<1>6. QED
  BY <1>1, <1>2, <1>3, <1>4, <1>5

LEMMA ImportScopes ==
  ASSUME NEW r \in Imports
  PROVE  /\ r.op = "import"
         /\ r.scope \in ConfigScopes \cup SecurityScopes \cup {"full"}
         /\ r.payload \in Documents /\ r.security \in SecurityDocuments
BY DEF Imports

\* What a request is that saves a document of the kind.
LEMMA RequestsByKind ==
  ASSUME NEW r \in Requests
  PROVE  /\ Saved(r) \in SUBSET Kinds /\ Saved(r) # {}
         /\ "config" \in Saved(r) =>
              \/ r.op \in {"save_settings", "save_service", "delete_service",
                           "save_client", "delete_client", "save_endpoint",
                           "delete_endpoint", "save_route", "delete_route",
                           "save_profile", "delete_profile"}
              \/ r \in Imports /\ r.op = "import" /\ r.scope \in ConfigScopes \cup {"full"}
         /\ "security" \in Saved(r) =>
              \/ r.op \in {"save_role", "delete_role", "save_user", "delete_user"}
              \/ r \in Imports /\ r.op = "import" /\ r.scope \in SecurityScopes \cup {"full"}
         /\ \A k \in Saved(r) : PermissionOver[k] \in RequiredPermissions(r)
<1>1. CASE r.op = "import"
  <2>1. r \in Imports
    BY <1>1, RequestForms
  <2>2. r.scope \in {"config", "full"} \cup Blocks \cup SecurityScopes
    BY <2>1, ImportScopes DEF ConfigScopes
  <2>3. CASE r.scope = "full"
    BY <1>1, <2>1, <2>3 DEF Saved, RequiredPermissions, Kinds, PermissionOver
  <2>4. CASE r.scope \in SecurityScopes
    <3>1. r.scope # "full"
      BY <2>4 DEF SecurityScopes
    <3>2. RequiredPermissions(r) = {"security_manage"}
      BY <1>1, <2>4 DEF RequiredPermissions, SecurityScopes
    <3>3. Saved(r) = {"security"}
      BY <3>1, <3>2 DEF Saved
    <3>4. QED
      BY <1>1, <2>1, <2>4, <3>2, <3>3 DEF Kinds, PermissionOver
  <2>5. CASE r.scope \in ConfigScopes
    <3>1. r.scope # "full" /\ r.scope \notin SecurityScopes
      BY <2>5 DEF SecurityScopes, ConfigScopes, Blocks
    <3>2. RequiredPermissions(r) = {"services_manage"}
      BY <1>1, <3>1 DEF RequiredPermissions
    <3>3. Saved(r) = {"config"}
      BY <3>1, <3>2 DEF Saved
    <3>4. QED
      BY <1>1, <2>1, <2>5, <3>2, <3>3 DEF Kinds, PermissionOver
  <2>6. QED
    BY <2>2, <2>3, <2>4, <2>5 DEF ConfigScopes
<1>2. CASE r.op \in {"save_role", "delete_role", "save_user", "delete_user"}
  <2>1. RequiredPermissions(r) = {"security_manage"}
    BY <1>2 DEF RequiredPermissions
  <2>2. Saved(r) = {"security"}
    BY <1>2, <2>1 DEF Saved
  <2>3. QED
    BY <1>2, <2>1, <2>2 DEF Kinds, PermissionOver
<1>3. CASE r.op \in {"save_settings", "save_service", "delete_service",
                     "save_client", "delete_client", "save_endpoint",
                     "delete_endpoint", "save_route", "delete_route",
                     "save_profile", "delete_profile"}
  <2>1. RequiredPermissions(r) = {"services_manage"}
    BY <1>3 DEF RequiredPermissions
  <2>2. Saved(r) = {"config"}
    BY <1>3, <2>1 DEF Saved
  <2>3. QED
    BY <1>3, <2>1, <2>2 DEF Kinds, PermissionOver
<1>4. QED
  BY <1>1, <1>2, <1>3, RequestForms

-----------------------------------------------------------------------------
(* An edit of a document leaves a document.                                *)

LEMMA SettingsType ==
  ASSUME NEW doc \in Documents, NEW r \in SettingsForms
  PROVE  SaveSettings(doc, r) \subseteq Documents
BY DEF SaveSettings, SettingsForms, Documents

LEMMA SpoiltType ==
  ASSUME NEW doc \in Documents, NEW r, NEW block \in Blocks
  PROVE  Spoilt(doc, r, block) \in SUBSET Blocks
BY DEF Spoilt, Documents

LEMMA SaveServiceType ==
  ASSUME NEW doc \in Documents, NEW r \in ServiceForms
  PROVE  SaveService(doc, r) \subseteq Documents
<1> DEFINE renames == r.original \notin {None, r.name}
           taken(s) == IF renames /\ s = r.original THEN r.name ELSE s
           Taken(S) == {taken(s) : s \in S}
           services == Taken(doc.services) \cup {r.name}
           secured == Taken(doc.secured)
           endpoints == {[e EXCEPT !.service = taken(@)] : e \in doc.endpoints}
<1>1. r.name \in Services
  BY DEF ServiceForms
<1>2. services \in SUBSET Services /\ secured \in SUBSET Services
  BY <1>1 DEF Documents
<1>3. endpoints \in SUBSET Endpoints
  BY <1>1 DEF Documents, Endpoints
<1>4. Spoilt(doc, r, "services") \in SUBSET Blocks
  BY SpoiltType DEF Blocks
<1>5. SaveService(doc, r) =
        Unless(renames /\ r.name \in doc.services,
          [doc EXCEPT !.services = services, !.secured = secured,
                      !.endpoints = endpoints, !.bad = Spoilt(doc, r, "services")])
  BY DEF SaveService
<1> HIDE DEF renames, services, secured, endpoints
<1>6. [doc EXCEPT !.services = services, !.secured = secured,
                  !.endpoints = endpoints, !.bad = Spoilt(doc, r, "services")]
        \in Documents
  BY <1>2, <1>3, <1>4 DEF Documents
<1>7. QED
  BY <1>5, <1>6 DEF Unless

\* Without what refers to something that is gone, the rest stays.
LEMMA WithoutReferencesType ==
  ASSUME NEW doc \in Documents, NEW gone
  PROVE  /\ WithoutReferences(doc, gone) \in Documents
         /\ WithoutReferences(doc, gone).clients =
              {[c EXCEPT !.endpoints = @ \ gone] : c \in doc.clients}
         /\ WithoutReferences(doc, gone).routes =
              {[x EXCEPT !.targets = @ \ gone] : x \in doc.routes}
         /\ WithoutReferences(doc, gone).endpoints = doc.endpoints
         /\ WithoutReferences(doc, gone).services = doc.services
         /\ WithoutReferences(doc, gone).secured = doc.secured
<1> DEFINE clients == {[c EXCEPT !.endpoints = @ \ gone] : c \in doc.clients}
           routes == {[x EXCEPT !.targets = @ \ gone] : x \in doc.routes}
<1>1. clients \in SUBSET Clients
  BY DEF Documents, Clients
<1>2. routes \in SUBSET Routes
  BY DEF Documents, Routes
<1>3. WithoutReferences(doc, gone) = [doc EXCEPT !.clients = clients, !.routes = routes]
  BY DEF WithoutReferences
<1> HIDE DEF clients, routes
<1>4. [doc EXCEPT !.clients = clients, !.routes = routes] \in Documents
  BY <1>1, <1>2 DEF Documents
<1>5. LET new == [doc EXCEPT !.clients = clients, !.routes = routes]
      IN /\ new.clients = clients /\ new.routes = routes
         /\ new.endpoints = doc.endpoints /\ new.services = doc.services
         /\ new.secured = doc.secured
  BY DEF Documents
<1>6. QED
  BY <1>3, <1>4, <1>5 DEF clients, routes

\* What is left of the document when a service is deleted.
LEMMA DeleteServiceLeaves ==
  ASSUME NEW doc \in Documents, NEW r \in ServiceDeletions,
         NEW new \in DeleteService(doc, r)
  PROVE  /\ new \in Documents
         /\ \A c \in new.clients :
              \E d \in Clients :
                /\ c.services = d.services \ {r.name}
                /\ c.endpoints = d.endpoints \ ({r.name} \X Labels)
         /\ \A x \in new.routes :
              \E y \in Routes : x.targets = y.targets \ ({r.name} \X Labels)
<1> DEFINE base == WithoutReferences(doc, {r.name} \X Labels)
           clients == {[c EXCEPT !.services = @ \ {r.name}] : c \in base.clients}
           endpoints == {e \in doc.endpoints : e.service # r.name}
<1>1. /\ base \in Documents
      /\ base.clients =
           {[c EXCEPT !.endpoints = @ \ ({r.name} \X Labels)] : c \in doc.clients}
      /\ base.routes =
           {[x EXCEPT !.targets = @ \ ({r.name} \X Labels)] : x \in doc.routes}
  BY WithoutReferencesType
<1> HIDE DEF base
<1>2. clients \in SUBSET Clients
  BY <1>1 DEF Documents, Clients
<1>3. endpoints \in SUBSET Endpoints
  BY DEF Documents
<1> DEFINE mid == [base EXCEPT !.clients = clients]
           left2 == [mid EXCEPT !.services = @ \ {r.name}, !.secured = @ \ {r.name},
                                !.endpoints = {e \in @ : e.service # r.name}]
<1>4. WithoutService(doc, r.name) = mid
  BY DEF WithoutService, base
<1>5. DeleteService(doc, r) = Unless(r.name \notin doc.services, left2)
  BY <1>4 DEF DeleteService
<1> HIDE DEF clients
<1>6. mid \in Documents /\ mid.clients = clients /\ mid.routes = base.routes
  BY <1>1, <1>2 DEF Documents
<1> HIDE DEF mid
<1>7. left2 \in Documents /\ left2.clients = clients /\ left2.routes = base.routes
  BY <1>6 DEF Documents
<1>8. new = left2
  BY <1>5 DEF Unless
<1>9. ASSUME NEW c \in clients
      PROVE  \E d \in Clients :
               /\ c.services = d.services \ {r.name}
               /\ c.endpoints = d.endpoints \ ({r.name} \X Labels)
  <2>1. PICK d \in doc.clients :
          c = [[d EXCEPT !.endpoints = @ \ ({r.name} \X Labels)] EXCEPT
                 !.services = @ \ {r.name}]
    BY <1>1, <1>9 DEF clients
  <2>2. d \in Clients
    BY DEF Documents
  <2>3. QED
    BY <2>1, <2>2 DEF Clients
<1>10. ASSUME NEW x \in base.routes
       PROVE  \E y \in Routes : x.targets = y.targets \ ({r.name} \X Labels)
  <2>1. PICK y \in doc.routes : x = [y EXCEPT !.targets = @ \ ({r.name} \X Labels)]
    BY <1>1, <1>10
  <2>2. y \in Routes
    BY DEF Documents
  <2>3. QED
    BY <2>1, <2>2 DEF Routes
<1>11. QED
  BY <1>7, <1>8, <1>9, <1>10

LEMMA SaveClientLeaves ==
  ASSUME NEW doc \in Documents, NEW r \in ClientForms, NEW new \in SaveClient(doc, r)
  PROVE  /\ new \in Documents
         /\ new.routes = doc.routes /\ new.endpoints = doc.endpoints
         /\ new.profiles = doc.profiles /\ new.secured = doc.secured
<1> DEFINE others == {c \in doc.clients : c.slug # Given(r.original, r.client.slug)}
           clients == others \cup {r.client}
           bad == Spoilt(doc, r, "clients")
<1>1. new = [doc EXCEPT !.clients = clients, !.bad = bad]
  BY DEF SaveClient, Unless
<1>2. clients \in SUBSET Clients
  BY DEF Documents, ClientForms
<1>3. bad \in SUBSET Blocks
  BY SpoiltType DEF Blocks
<1> HIDE DEF clients, bad
<1>4. QED
  BY <1>1, <1>2, <1>3 DEF Documents

LEMMA DeleteClientLeaves ==
  ASSUME NEW doc \in Documents, NEW r \in ClientDeletions,
         NEW new \in DeleteClient(doc, r)
  PROVE  /\ new \in Documents
         /\ new.routes = doc.routes /\ new.endpoints = doc.endpoints
         /\ new.profiles = doc.profiles /\ new.secured = doc.secured
<1> DEFINE others == {c \in doc.clients : c.slug # r.slug}
<1>1. new = [doc EXCEPT !.clients = others]
  BY DEF DeleteClient, Unless
<1>2. others \in SUBSET Clients
  BY DEF Documents
<1> HIDE DEF others
<1>3. QED
  BY <1>1, <1>2 DEF Documents

LEMMA SaveSettingsLeaves ==
  ASSUME NEW doc \in Documents, NEW r \in SettingsForms,
         NEW new \in SaveSettings(doc, r)
  PROVE  /\ new \in Documents
         /\ new.routes = doc.routes /\ new.endpoints = doc.endpoints
         /\ new.profiles = doc.profiles /\ new.secured = doc.secured
<1>1. new = [doc EXCEPT !.responses = r.responses] /\ r.responses \in Responses
  BY DEF SaveSettings, SettingsForms
<1>2. QED
  BY <1>1 DEF Documents

LEMMA SaveEndpointType ==
  ASSUME NEW doc \in Documents, NEW r \in EndpointForms,
         NEW new \in SaveEndpoint(doc, r)
  PROVE  new \in Documents
<1> DEFINE endpoint == [service |-> r.service, name |-> r.name, slug |-> r.slug,
                        path |-> None, profile |-> r.profile]
           bad == Spoilt(doc, r, "services")
<1>1. PICK replaced :
        new = [doc EXCEPT !.endpoints = (@ \ replaced) \cup {endpoint}, !.bad = bad]
  BY DEF SaveEndpoint
<1>2. endpoint \in Endpoints
  BY DEF EndpointForms, Endpoints
<1>3. bad \in SUBSET Blocks
  BY SpoiltType DEF Blocks
<1> HIDE DEF endpoint, bad
<1> DEFINE endpoints == (doc.endpoints \ replaced) \cup {endpoint}
<1>4. endpoints \in SUBSET Endpoints
  BY <1>2 DEF Documents
<1>5. new = [doc EXCEPT !.endpoints = endpoints, !.bad = bad]
  BY <1>1
<1> HIDE DEF endpoints
<1>6. QED
  BY <1>3, <1>4, <1>5 DEF Documents

\* What is left of the document when an endpoint is deleted.
LEMMA DeleteEndpointLeaves ==
  ASSUME NEW doc \in Documents, NEW r \in EndpointDeletions,
         NEW new \in DeleteEndpoint(doc, r)
  PROVE  /\ new \in Documents
         /\ LET deleted == {e \in doc.endpoints : e.service = r.service /\ e.name = r.name}
                gone == {r.service} \X ({r.name} \cup ({e.slug : e \in deleted} \ {None}))
            IN /\ \A c \in new.clients :
                    \E d \in Clients : c.endpoints = d.endpoints \ gone
               /\ \A x \in new.routes :
                    \E y \in Routes : x.targets = y.targets \ gone
<1> DEFINE deleted == {e \in doc.endpoints : e.service = r.service /\ e.name = r.name}
           gone == {r.service} \X ({r.name} \cup ({e.slug : e \in deleted} \ {None}))
           base == WithoutReferences(doc, gone)
           endpoints == base.endpoints \ deleted
<1>1. new = [base EXCEPT !.endpoints = endpoints]
  BY DEF DeleteEndpoint, Unless
<1> HIDE DEF gone, deleted
<1>2. /\ base \in Documents
      /\ base.clients = {[c EXCEPT !.endpoints = @ \ gone] : c \in doc.clients}
      /\ base.routes = {[x EXCEPT !.targets = @ \ gone] : x \in doc.routes}
  BY WithoutReferencesType
<1> HIDE DEF base
<1>3. endpoints \in SUBSET Endpoints
  BY <1>2 DEF Documents
<1> HIDE DEF endpoints
<1>4. new \in Documents /\ new.clients = base.clients /\ new.routes = base.routes
  BY <1>1, <1>2, <1>3 DEF Documents
<1>5. ASSUME NEW c \in base.clients
      PROVE  \E d \in Clients : c.endpoints = d.endpoints \ gone
  <2>1. PICK d \in doc.clients : c = [d EXCEPT !.endpoints = @ \ gone]
    BY <1>2, <1>5
  <2>2. d \in Clients
    BY DEF Documents
  <2>3. QED
    BY <2>1, <2>2 DEF Clients
<1>6. ASSUME NEW x \in base.routes
      PROVE  \E y \in Routes : x.targets = y.targets \ gone
  <2>1. PICK y \in doc.routes : x = [y EXCEPT !.targets = @ \ gone]
    BY <1>2, <1>6
  <2>2. y \in Routes
    BY DEF Documents
  <2>3. QED
    BY <2>1, <2>2 DEF Routes
<1>7. QED
  BY <1>4, <1>5, <1>6 DEF gone, deleted

\* The routes of a document, and those its endpoints stand for, are routes.
LEMMA EnsuredRoutesType ==
  ASSUME NEW doc \in Documents
  PROVE  EnsuredRoutes(doc) \in SUBSET Routes
<1>1. ASSUME NEW e \in doc.endpoints, e.path # None
      PROVE  [slug |-> Slug(e), path |-> e.path, targets |-> {<<e.service, e.name>>},
              profile |-> e.profile, auth |-> "inherited"] \in Routes
  <2>1. e \in Endpoints
    BY DEF Documents
  <2>2. /\ e.service \in Services /\ e.name \in Labels /\ e.path \in Paths
        /\ e.profile \in Labels \cup {None} /\ e.slug \in Labels \cup {None}
    BY <1>1, <2>1 DEF Endpoints
  <2>3. Slug(e) \in Labels
    BY <2>2, DocumentAssumption DEF Slug
  <2>4. {<<e.service, e.name>>} \in SUBSET References
    BY <2>2 DEF References
  <2>5. QED
    BY <2>2, <2>3, <2>4 DEF Routes
<1>2. LegacyRoutes(doc) \in SUBSET Routes
  BY <1>1 DEF LegacyRoutes
<1>3. doc.routes \in SUBSET Routes
  BY DEF Documents
<1>4. QED
  BY <1>2, <1>3 DEF EnsuredRoutes

\* Endpoints lose their paths and nothing else.
LEMMA StrippedLeaves ==
  ASSUME NEW doc \in Documents
  PROVE  /\ Stripped(doc) \in Documents
         /\ Stripped(doc).routes = doc.routes
         /\ Stripped(doc).profiles = doc.profiles
         /\ Stripped(doc).secured = doc.secured
         /\ Stripped(doc).endpoints = {[e EXCEPT !.path = None] : e \in doc.endpoints}
<1> DEFINE endpoints == {[e EXCEPT !.path = None] : e \in doc.endpoints}
<1>1. endpoints \in SUBSET Endpoints
  BY DEF Documents, Endpoints
<1>2. Stripped(doc) = [doc EXCEPT !.endpoints = endpoints]
  BY DEF Stripped
<1> HIDE DEF endpoints
<1>3. [doc EXCEPT !.endpoints = endpoints] \in Documents
  BY <1>1 DEF Documents
<1>4. LET new == [doc EXCEPT !.endpoints = endpoints]
      IN /\ new.routes = doc.routes /\ new.profiles = doc.profiles
         /\ new.secured = doc.secured /\ new.endpoints = endpoints
  BY DEF Documents
<1>5. QED
  BY <1>2, <1>3, <1>4 DEF endpoints

\* What a change of a route makes of the others.
LEMMA SaveRouteLeaves ==
  ASSUME NEW doc \in Documents, NEW r \in RouteForms, NEW new \in SaveRoute(doc, r)
  PROVE  /\ new \in Documents
         /\ new.profiles = doc.profiles /\ new.secured = doc.secured
         /\ new.endpoints = {[e EXCEPT !.path = None] : e \in doc.endpoints}
         /\ \E replaced :
              /\ new.routes = (EnsuredRoutes(doc) \ replaced) \cup {r.route}
              /\ \A x \in replaced : x.slug = Given(r.original, r.route.slug)
<1> DEFINE routes == EnsuredRoutes(doc)
           edited == {x \in routes : x.slug = Given(r.original, r.route.slug)}
           bad == Spoilt(doc, r, "routes")
           With(replaced) ==
             Unless(\E x \in routes \ replaced : x.slug = r.route.slug,
               Stripped([doc EXCEPT !.routes = (routes \ replaced) \cup {r.route},
                                    !.bad = bad]))
<1>1. PICK replaced \in SUBSET edited : new \in With(replaced)
  <2>1. SaveRoute(doc, r) =
          IF edited = {} THEN With({}) ELSE UNION {With({x}) : x \in edited}
    BY DEF SaveRoute
  <2> HIDE DEF With, edited
  <2>2. CASE edited = {}
    <3>1. new \in With({})
      BY <2>1, <2>2
    <3>2. QED
      BY <3>1
  <2>3. CASE edited # {}
    <3>1. new \in UNION {With({x}) : x \in edited}
      BY <2>1, <2>3
    <3>2. PICK x \in edited : new \in With({x})
      BY <3>1
    <3>3. QED
      BY <3>2
  <2>4. QED
    BY <2>2, <2>3
<1> DEFINE after == (routes \ replaced) \cup {r.route}
           mid == [doc EXCEPT !.routes = after, !.bad = bad]
<1>2. new = Stripped(mid)
  BY <1>1 DEF Unless
<1>3. after \in SUBSET Routes
  BY EnsuredRoutesType DEF RouteForms
<1>4. bad \in SUBSET Blocks
  BY SpoiltType DEF Blocks
<1> HIDE DEF after, bad
<1>5. /\ mid \in Documents /\ mid.routes = after /\ mid.profiles = doc.profiles
      /\ mid.secured = doc.secured /\ mid.endpoints = doc.endpoints
  BY <1>3, <1>4 DEF Documents
<1> HIDE DEF mid
<1>6. QED
  BY <1>1, <1>2, <1>5, StrippedLeaves DEF after

LEMMA DeleteRouteLeaves ==
  ASSUME NEW doc \in Documents, NEW r \in RouteDeletions, NEW new \in DeleteRoute(doc, r)
  PROVE  /\ new \in Documents
         /\ new.profiles = doc.profiles /\ new.secured = doc.secured
         /\ new.endpoints = {[e EXCEPT !.path = None] : e \in doc.endpoints}
         /\ new.routes = {x \in EnsuredRoutes(doc) : x.slug # r.slug}
<1> DEFINE others == {x \in EnsuredRoutes(doc) : x.slug # r.slug}
           mid == [doc EXCEPT !.routes = others]
<1>1. new = Stripped(mid)
  BY DEF DeleteRoute, Unless
<1>2. others \in SUBSET Routes
  BY EnsuredRoutesType
<1> HIDE DEF others
<1>3. /\ mid \in Documents /\ mid.routes = others /\ mid.profiles = doc.profiles
      /\ mid.secured = doc.secured /\ mid.endpoints = doc.endpoints
  BY <1>2 DEF Documents
<1> HIDE DEF mid
<1>4. QED
  BY <1>1, <1>3, StrippedLeaves DEF others

\* A profile that is renamed, or gone, is replaced wherever it is used.
LEMMA ProfileReplacedLeaves ==
  ASSUME NEW doc \in Documents, NEW old, NEW other \in Labels \cup {None}
  PROVE  LET new == ProfileReplaced(doc, old, other)
         IN /\ new \in Documents
            /\ new.responses = doc.responses /\ new.profiles = doc.profiles
            /\ \A x \in new.endpoints \cup new.routes : x.profile # old \/ other = old
<1> DEFINE endpoints == {IF e.profile = old THEN [e EXCEPT !.profile = other] ELSE e :
                           e \in doc.endpoints}
           routes == {IF x.profile = old THEN [x EXCEPT !.profile = other] ELSE x :
                        x \in doc.routes}
           new == [doc EXCEPT !.endpoints = endpoints, !.routes = routes]
<1>1. ASSUME NEW e \in doc.endpoints
      PROVE  LET f == IF e.profile = old THEN [e EXCEPT !.profile = other] ELSE e
             IN f \in Endpoints /\ (f.profile # old \/ other = old)
  BY DEF Documents, Endpoints
<1>2. ASSUME NEW x \in doc.routes
      PROVE  LET y == IF x.profile = old THEN [x EXCEPT !.profile = other] ELSE x
             IN y \in Routes /\ (y.profile # old \/ other = old)
  BY DEF Documents, Routes
<1>3. ProfileReplaced(doc, old, other) = new
  BY DEF ProfileReplaced
<1>4. /\ endpoints \in SUBSET Endpoints
      /\ \A e \in endpoints : e.profile # old \/ other = old
  BY <1>1
<1>5. /\ routes \in SUBSET Routes
      /\ \A x \in routes : x.profile # old \/ other = old
  BY <1>2
<1> HIDE DEF endpoints, routes
<1>6. /\ new \in Documents /\ new.endpoints = endpoints /\ new.routes = routes
      /\ new.responses = doc.responses /\ new.profiles = doc.profiles
  BY <1>4, <1>5 DEF Documents
<1>7. QED
  BY <1>3, <1>4, <1>5, <1>6

LEMMA SaveProfileType ==
  ASSUME NEW doc \in Documents, NEW r \in ProfileForms, NEW new \in SaveProfile(doc, r)
  PROVE  new \in Documents
<1> DEFINE renames == r.original \notin {None, r.slug}
           base == ProfileReplaced(doc, r.original, r.slug)
           renamed == IF renames THEN ProfileRenamed(doc, r.original, r.slug) ELSE doc
           profiles == (IF renames THEN renamed.profiles \ {r.original}
                                   ELSE renamed.profiles) \cup {r.slug}
           bad == Spoilt(doc, r, "output_profiles")
<1>1. r.slug \in Labels
  BY DEF ProfileForms
<1>2. renamed \in Documents
  <2>1. base \in Documents
    BY <1>1, ProfileReplacedLeaves
  <2> DEFINE responses == [base.responses EXCEPT !.profile =
                             IF @ = r.original THEN r.slug ELSE @]
  <2>2. responses \in Responses
    BY <1>1, <2>1 DEF Documents, Responses
  <2>3. ProfileRenamed(doc, r.original, r.slug) = [base EXCEPT !.responses = responses]
    BY DEF ProfileRenamed
  <2> HIDE DEF base, responses
  <2>4. [base EXCEPT !.responses = responses] \in Documents
    BY <2>1, <2>2 DEF Documents
  <2>5. QED
    BY <2>3, <2>4
<1>3. new = [renamed EXCEPT !.profiles = profiles, !.bad = bad]
  BY DEF SaveProfile, Unless
<1>4. bad \in SUBSET Blocks
  BY SpoiltType DEF Blocks
<1> HIDE DEF renamed, bad
<1>5. profiles \in SUBSET Labels
  BY <1>1, <1>2 DEF Documents
<1> HIDE DEF profiles
<1>6. QED
  BY <1>2, <1>3, <1>4, <1>5 DEF Documents

LEMMA DeleteProfileLeaves ==
  ASSUME NEW doc \in Documents, NEW r \in ProfileDeletions,
         NEW new \in DeleteProfile(doc, r)
  PROVE  /\ new \in Documents
         /\ \A x \in new.endpoints \cup new.routes : x.profile # r.slug
         /\ new.responses.profile # r.slug
<1> DEFINE base == ProfileReplaced(doc, r.slug, None)
           responses ==
             IF base.responses.profile # r.slug THEN base.responses
             ELSE [mode |-> IF base.responses.mode = "profile" THEN "default"
                            ELSE base.responses.mode,
                   profile |-> None]
           cleared == [base EXCEPT !.responses = responses]
           profiles == cleared.profiles \ {r.slug}
<1>1. r.slug \in Labels /\ r.slug # None
  BY DocumentAssumption DEF ProfileDeletions
<1>2. /\ base \in Documents
      /\ \A x \in base.endpoints \cup base.routes : x.profile # r.slug
  BY <1>1, ProfileReplacedLeaves
<1>3. ProfileCleared(doc, r.slug) = cleared
  BY DEF ProfileCleared
<1>4. new = [cleared EXCEPT !.profiles = profiles]
  BY <1>3 DEF DeleteProfile, Unless
<1> HIDE DEF base
<1>5. responses \in Responses /\ responses.profile # r.slug
  BY <1>1, <1>2 DEF Documents, Responses
<1> HIDE DEF responses
<1>6. /\ cleared \in Documents /\ cleared.responses = responses
      /\ cleared.endpoints = base.endpoints /\ cleared.routes = base.routes
  BY <1>2, <1>5 DEF Documents
<1> HIDE DEF cleared
<1>7. profiles \in SUBSET Labels
  BY <1>6 DEF Documents
<1> HIDE DEF profiles
<1>8. /\ new \in Documents /\ new.responses = responses
      /\ new.endpoints = base.endpoints /\ new.routes = base.routes
  BY <1>4, <1>6, <1>7 DEF Documents
<1>9. QED
  BY <1>2, <1>5, <1>8

LEMMA ImportConfigType ==
  ASSUME NEW doc \in Documents, NEW r \in Imports,
         r.scope \in ConfigScopes \cup {"full"}, NEW new \in ImportConfig(doc, r)
  PROVE  new \in Documents
<1> DEFINE bad(block) == (doc.bad \ {block}) \cup (r.payload.bad \cap {block})
<1>1. r.payload \in Documents
  BY ImportScopes
<1>2. \A block : bad(block) \in SUBSET Blocks
  BY <1>1 DEF Documents
<1>3. ImportConfig(doc, r) =
        {CASE r.scope \in {"config", "full"} -> r.payload
           [] r.scope = "services" ->
                [doc EXCEPT !.services = r.payload.services,
                            !.secured = r.payload.secured,
                            !.endpoints = r.payload.endpoints, !.bad = bad("services")]
           [] r.scope = "routes" ->
                [doc EXCEPT !.routes = r.payload.routes, !.bad = bad("routes")]
           [] r.scope = "clients" ->
                [doc EXCEPT !.clients = r.payload.clients, !.bad = bad("clients")]
           [] r.scope = "output_profiles" ->
                [doc EXCEPT !.profiles = r.payload.profiles,
                            !.bad = bad("output_profiles")]
           [] r.scope = "gateway_responses" ->
                [doc EXCEPT !.responses = r.payload.responses,
                            !.bad = bad("gateway_responses")]
           [] r.scope = "observability" -> [doc EXCEPT !.bad = bad("observability")]}
  BY DEF ImportConfig
<1> HIDE DEF bad
<1>4. CASE r.scope \in {"config", "full"}
  BY <1>1, <1>3, <1>4
<1>5. CASE r.scope = "services"
  <2>1. new = [doc EXCEPT !.services = r.payload.services,
                          !.secured = r.payload.secured,
                          !.endpoints = r.payload.endpoints, !.bad = bad("services")]
    BY <1>3, <1>5
  <2>2. QED
    BY <1>1, <1>2, <2>1 DEF Documents
<1>6. CASE r.scope = "routes"
  <2>1. new = [doc EXCEPT !.routes = r.payload.routes, !.bad = bad("routes")]
    BY <1>3, <1>6
  <2>2. QED
    BY <1>1, <1>2, <2>1 DEF Documents
<1>7. CASE r.scope = "clients"
  <2>1. new = [doc EXCEPT !.clients = r.payload.clients, !.bad = bad("clients")]
    BY <1>3, <1>7
  <2>2. QED
    BY <1>1, <1>2, <2>1 DEF Documents
<1>8. CASE r.scope = "output_profiles"
  <2>1. new = [doc EXCEPT !.profiles = r.payload.profiles,
                          !.bad = bad("output_profiles")]
    BY <1>3, <1>8
  <2>2. QED
    BY <1>1, <1>2, <2>1 DEF Documents
<1>9. CASE r.scope = "gateway_responses"
  <2>1. new = [doc EXCEPT !.responses = r.payload.responses,
                          !.bad = bad("gateway_responses")]
    BY <1>3, <1>9
  <2>2. QED
    BY <1>1, <1>2, <2>1 DEF Documents
<1>10. CASE r.scope = "observability"
  <2>1. new = [doc EXCEPT !.bad = bad("observability")]
    BY <1>3, <1>10
  <2>2. QED
    BY <1>2, <2>1 DEF Documents
<1>11. QED
  BY <1>4, <1>5, <1>6, <1>7, <1>8, <1>9, <1>10 DEF ConfigScopes, Blocks

\* What is saved of a configuration is a document that loads.
LEMMA ConfigEditsType ==
  ASSUME NEW doc \in Documents, NEW r \in Requests, "config" \in Saved(r),
         NEW new \in ConfigEdits(doc, r)
  PROVE  new \in Documents /\ Loads(new)
<1>1. new \in Edited(doc, r) /\ Loads(new)
  BY DEF ConfigEdits
<1>2. CASE r.op = "save_settings"
  BY <1>1, <1>2, RequestForms, SaveSettingsLeaves DEF Edited
<1>3. CASE r.op = "save_service"
  BY <1>1, <1>3, RequestForms, SaveServiceType DEF Edited
<1>4. CASE r.op = "delete_service"
  BY <1>1, <1>4, RequestForms, DeleteServiceLeaves DEF Edited
<1>5. CASE r.op = "save_client"
  BY <1>1, <1>5, RequestForms, SaveClientLeaves DEF Edited
<1>6. CASE r.op = "delete_client"
  BY <1>1, <1>6, RequestForms, DeleteClientLeaves DEF Edited
<1>7. CASE r.op = "save_endpoint"
  BY <1>1, <1>7, RequestForms, SaveEndpointType DEF Edited
<1>8. CASE r.op = "delete_endpoint"
  BY <1>1, <1>8, RequestForms, DeleteEndpointLeaves DEF Edited
<1>9. CASE r.op = "save_route"
  BY <1>1, <1>9, RequestForms, SaveRouteLeaves DEF Edited
<1>10. CASE r.op = "delete_route"
  BY <1>1, <1>10, RequestForms, DeleteRouteLeaves DEF Edited
<1>11. CASE r.op = "save_profile"
  BY <1>1, <1>11, RequestForms, SaveProfileType DEF Edited
<1>12. CASE r.op = "delete_profile"
  BY <1>1, <1>12, RequestForms, DeleteProfileLeaves DEF Edited
<1>13. CASE r.op = "import" /\ r \in Imports /\ r.scope \in ConfigScopes \cup {"full"}
  BY <1>1, <1>13, ImportConfigType DEF Edited
<1>14. QED
  BY <1>1, <1>2, <1>3, <1>4, <1>5, <1>6, <1>7, <1>8, <1>9, <1>10, <1>11, <1>12,
     <1>13, RequestsByKind

-----------------------------------------------------------------------------
(* The same for the security document.                                     *)

LEMMA SaveRoleType ==
  ASSUME NEW doc \in SecurityDocuments, NEW r \in RoleForms, NEW new \in SaveRole(doc, r)
  PROVE  new \in SecurityDocuments
<1> DEFINE Reassigned(names) ==
             IF Renames(r) /\ r.original \in names
             THEN (names \ {r.original}) \cup {r.name} ELSE names
           entry == [name |-> r.name, permissions |-> r.permissions]
           roles == Replacing(doc.roles,
                              IF Renames(r) THEN {r.original, r.name} ELSE {r.name},
                              entry)
           users == {[u EXCEPT !.roles = Reassigned(@)] : u \in doc.users}
<1>1. new = [doc EXCEPT !.roles = roles, !.users = users]
  BY DEF SaveRole, Allowed
<1>2. entry \in RoleEntries /\ r.name \in Roles
  BY DEF RoleForms, RoleEntries
<1> HIDE DEF entry
<1>3. roles \in SUBSET RoleEntries
  BY <1>2 DEF Replacing, SecurityDocuments
<1>4. users \in SUBSET UserEntries
  BY <1>2 DEF SecurityDocuments, UserEntries
<1> HIDE DEF roles, users
<1>5. QED
  BY <1>1, <1>3, <1>4 DEF SecurityDocuments

LEMMA DeleteRoleType ==
  ASSUME NEW doc \in SecurityDocuments, NEW r, NEW new \in DeleteRole(doc, r)
  PROVE  new \in SecurityDocuments
<1> DEFINE roles == doc.roles \ Entry(doc.roles, r.name)
<1>1. new = [doc EXCEPT !.roles = roles]
  BY DEF DeleteRole, Allowed
<1>2. roles \in SUBSET RoleEntries
  BY DEF SecurityDocuments
<1> HIDE DEF roles
<1>3. QED
  BY <1>1, <1>2 DEF SecurityDocuments

LEMMA SaveUserType ==
  ASSUME NEW doc \in SecurityDocuments, NEW r \in UserForms, NEW new \in SaveUser(doc, r)
  PROVE  new \in SecurityDocuments
<1> DEFINE user == [name |-> r.name, roles |-> r.roles, enabled |-> r.enabled,
                    hashed |-> TRUE]
           users == Replacing(doc.users,
                              IF Renames(r) THEN {r.original, r.name} ELSE {r.name},
                              user)
<1>1. new = [doc EXCEPT !.users = users]
  BY DEF SaveUser, Allowed
<1>2. user \in UserEntries
  BY DEF UserForms, UserEntries
<1> HIDE DEF user
<1>3. users \in SUBSET UserEntries
  BY <1>2 DEF Replacing, SecurityDocuments
<1> HIDE DEF users
<1>4. QED
  BY <1>1, <1>3 DEF SecurityDocuments

LEMMA DeleteUserType ==
  ASSUME NEW doc \in SecurityDocuments, NEW r, NEW new \in DeleteUser(doc, r)
  PROVE  new \in SecurityDocuments
<1> DEFINE users == doc.users \ Entry(doc.users, r.name)
<1>1. new = [doc EXCEPT !.users = users]
  BY DEF DeleteUser, Allowed
<1>2. users \in SUBSET UserEntries
  BY DEF SecurityDocuments
<1> HIDE DEF users
<1>3. QED
  BY <1>1, <1>2 DEF SecurityDocuments

LEMMA ImportSecurityType ==
  ASSUME NEW doc \in SecurityDocuments, NEW r \in Imports,
         r.scope \in SecurityScopes \cup {"full"}, NEW new \in ImportSecurity(doc, r)
  PROVE  new \in SecurityDocuments
<1>1. r.security \in SecurityDocuments
  BY ImportScopes
<1>2. CASE r.scope \in {"security", "full"}
  BY <1>1, <1>2 DEF ImportSecurity
<1>3. CASE r.scope = "roles"
  <2>1. new = [doc EXCEPT !.roles = r.security.roles, !.bad = r.security.bad]
    BY <1>3 DEF ImportSecurity
  <2>2. QED
    BY <1>1, <2>1 DEF SecurityDocuments
<1>4. CASE r.scope = "users"
  <2>1. new = [doc EXCEPT !.users = r.security.users, !.bad = r.security.bad]
    BY <1>4 DEF ImportSecurity
  <2>2. QED
    BY <1>1, <2>1 DEF SecurityDocuments
<1>5. QED
  BY <1>2, <1>3, <1>4 DEF SecurityScopes

LEMMA SecurityEditsType ==
  ASSUME NEW doc \in SecurityDocuments, NEW r \in Requests, "security" \in Saved(r),
         NEW new \in SecurityEdits(doc, r)
  PROVE  new \in SecurityDocuments /\ SecurityLoads(new)
<1>1. SecurityLoads(new)
  BY DEF SecurityEdits
<1>2. CASE r.op = "save_role"
  BY <1>2, RequestForms, SaveRoleType DEF SecurityEdits
<1>3. CASE r.op = "delete_role"
  BY <1>3, DeleteRoleType DEF SecurityEdits
<1>4. CASE r.op = "save_user"
  BY <1>4, RequestForms, SaveUserType DEF SecurityEdits
<1>5. CASE r.op = "delete_user"
  BY <1>5, DeleteUserType DEF SecurityEdits
<1>6. CASE r.op = "import" /\ r \in Imports /\ r.scope \in SecurityScopes \cup {"full"}
  BY <1>6, ImportSecurityType DEF SecurityEdits
<1>7. QED
  BY <1>1, <1>2, <1>3, <1>4, <1>5, <1>6, RequestsByKind

LEMMA PermissionsType ==
  ASSUME NEW doc \in SecurityDocuments, NEW u
  PROVE  PermissionsOf(doc, u) \in SUBSET Permissions
BY DEF PermissionsOf, SecurityDocuments, RoleEntries

LEMMA DefaultsType ==
  EmptyDocument \in Documents /\ DefaultSecurity \in SecurityDocuments
<1>1. EmptyDocument \in Documents
  BY DEF EmptyDocument, Documents, Responses
<1>2. DefaultSecurity \in SecurityDocuments
  BY SecurityAssumption
     DEF DefaultSecurity, SecurityDocuments, RoleEntries, Permissions
<1>3. QED
  BY <1>1, <1>2

-----------------------------------------------------------------------------
(* What a file is read as, and what a request makes of it.                 *)

DocumentsOf(k) == IF k = "config" THEN Documents ELSE SecurityDocuments

LEMMA NoDocument ==
  ASSUME NEW k \in Kinds
  PROVE  /\ Blank \notin DocumentsOf(k) /\ Garbled \notin DocumentsOf(k)
         /\ Contents(k) = DocumentsOf(k) \cup {Blank, Garbled}
BY RequestsAssumption DEF RequestsAssumption, DocumentsOf, Contents

LEMMA ReadingsType ==
  ASSUME NEW k \in Kinds, NEW content \in Contents(k)
  PROVE  /\ Readings(k, content) \in SUBSET DocumentsOf(k)
         /\ Loadable(k, content) \in SUBSET DocumentsOf(k)
         /\ content \in DocumentsOf(k) => Readings(k, content) = {content}
         /\ content \in DocumentsOf(k) /\ DocumentLoads(k, content) =>
              Loadable(k, content) = {content}
<1>1. Contents(k) = DocumentsOf(k) \cup {Blank, Garbled}
  BY NoDocument
<1>2. CASE content \in DocumentsOf(k)
  <2>1. Readings(k, content) = {content}
    BY <1>2, NoDocument DEF Readings
  <2>2. QED
    BY <1>2, <2>1 DEF Loadable
<1>3. CASE content \in {Blank, Garbled}
  <2>1. Readings(k, content) \in SUBSET DocumentsOf(k)
    BY <1>3, DefaultsType DEF Readings, DocumentsOf, Kinds
  <2>2. QED
    BY <1>3, <2>1, NoDocument DEF Loadable
<1>4. QED
  BY <1>1, <1>2, <1>3

LEMMA EditsType ==
  ASSUME NEW r \in Requests, NEW k \in Saved(r), NEW doc \in DocumentsOf(k),
         NEW new \in Edits(k, doc, r)
  PROVE  new \in DocumentsOf(k) /\ DocumentLoads(k, new)
<1>1. k \in Kinds
  BY RequestsByKind
<1>2. CASE k = "config"
  BY <1>2, ConfigEditsType DEF DocumentsOf, Edits, DocumentLoads
<1>3. CASE k = "security"
  BY <1>3, SecurityEditsType DEF DocumentsOf, Edits, DocumentLoads
<1>4. QED
  BY <1>1, <1>2, <1>3 DEF Kinds

\* What a request saves is a document that loads, whatever it found.
LEMMA OutcomesType ==
  ASSUME NEW r \in Requests, NEW k \in Saved(r), disk[k] \in Contents(k),
         NEW new \in Outcomes(k, r)
  PROVE  new \in DocumentsOf(k) /\ DocumentLoads(k, new)
<1>1. k \in Kinds
  BY RequestsByKind
<1>2. PICK doc \in Loadable(k, Blank) \cup Readings(k, disk[k]) : new \in Edits(k, doc, r)
  BY DEF Outcomes, Applied, Whole
<1>3. Blank \in Contents(k)
  BY <1>1, NoDocument
<1>4. doc \in DocumentsOf(k)
  BY <1>1, <1>2, <1>3, ReadingsType
<1>5. QED
  BY <1>2, <1>4, EditsType

\* What the gateway serves after it has looked at a file.
LEMMA RefreshedType ==
  ASSUME NEW k \in Kinds, disk[k] \in Contents(k), live[k] \in DocumentsOf(k)
  PROVE  /\ Refreshed(k) \in DocumentsOf(k)
         /\ disk[k] \in DocumentsOf(k) /\ DocumentLoads(k, disk[k]) =>
              Refreshed(k) = disk[k]
<1>1. Loadable(k, disk[k]) \in SUBSET DocumentsOf(k)
  BY ReadingsType
<1>2. CASE Loadable(k, disk[k]) = {}
  <2>1. Refreshed(k) = live[k]
    BY <1>2 DEF Refreshed
  <2>2. ~(disk[k] \in DocumentsOf(k) /\ DocumentLoads(k, disk[k]))
    BY <1>2, ReadingsType
  <2>3. QED
    BY <2>1, <2>2
<1>3. CASE Loadable(k, disk[k]) # {}
  <2>1. Refreshed(k) = CHOOSE doc \in Loadable(k, disk[k]) : TRUE
    BY <1>3 DEF Refreshed
  <2>2. Refreshed(k) \in Loadable(k, disk[k])
    BY <1>3, <2>1
  <2>3. QED
    BY <1>1, <2>2, ReadingsType
<1>4. QED
  BY <1>2, <1>3

-----------------------------------------------------------------------------
(* Types.                                                                  *)

AnyDocument == Documents \cup SecurityDocuments
AnyContent == AnyDocument \cup {Blank, Garbled}
AnyDraft == {<<>>} \cup UNION {[K -> AnyDocument] : K \in SUBSET Kinds}
FileStates == {"none", "temp", "disk", "gone"}

\* The thread has loaded what it edits, and not answered.
Active(t) == pc[t] \in {"opening", "writing", "replacing", "reloading"}

\* A request that is handled is a permitted one; what it saves are documents that
\* load, and only its own.
ThreadOK(t) ==
  /\ pc[t] = "idle" <=> req[t] = None
  /\ file[t] # "none" <=> pc[t] = "writing"
  /\ pc[t] \in {"opening", "writing", "replacing"} <=> left[t] # {}
  /\ pc[t] # "idle" =>
       req[t] \in Requests /\ RequiredPermissions(req[t]) \subseteq held[t]
  /\ Active(t) =>
       /\ DOMAIN draft[t] = Saved(req[t])
       /\ left[t] \subseteq Saved(req[t])
       /\ \A k \in Saved(req[t]) :
            draft[t][k] \in DocumentsOf(k) /\ DocumentLoads(k, draft[t][k])

FilesOK ==
  \A k \in Kinds :
    /\ disk[k] \in Contents(k)
    /\ temp[k] \in {None} \cup Contents(k)
    /\ live[k] \in DocumentsOf(k)

TypeInv ==
  /\ pc \in [Threads -> Steps]
  /\ req \in [Threads -> Requests \cup {None}]
  /\ held \in [Threads -> {None} \cup SUBSET Permissions]
  /\ draft \in [Threads -> AnyDraft]
  /\ left \in [Threads -> SUBSET Kinds]
  /\ file \in [Threads -> FileStates]
  /\ disk \in [Kinds -> AnyContent]
  /\ temp \in [Kinds -> AnyContent \cup {None}]
  /\ live \in [Kinds -> AnyContent]
  /\ agreed \in [Kinds -> AnyContent]
  /\ served \in 0 .. MaxRequests
  /\ FilesOK
  /\ \A t \in Threads : ThreadOK(t)

LEMMA AnyContents ==
  ASSUME NEW k \in Kinds
  PROVE  Contents(k) \subseteq AnyContent /\ DocumentsOf(k) \subseteq AnyDocument
BY DEF Contents, AnyContent, AnyDocument, DocumentsOf

LEMMA TypeInvTypes == TypeInv => TypeOK
<1> SUFFICES ASSUME TypeInv PROVE TypeOK
  OBVIOUS
<1>1. ASSUME NEW t \in Threads
      PROVE  left[t] \subseteq DOMAIN draft[t]
  <2>1. ThreadOK(t) /\ pc[t] \in Steps
    BY DEF TypeInv
  <2>2. QED
    BY <2>1 DEF ThreadOK, Active
<1>2. \A k \in Kinds : live[k] \in Contents(k) \ {Blank, Garbled}
  BY NoDocument DEF TypeInv, FilesOK
<1>3. QED
  BY <1>1, <1>2 DEF TypeInv, TypeOK, ThreadOK, FilesOK

\* A thread whose request is left alone; others may rename its open file.
LEMMA ThreadKept ==
  ASSUME NEW t \in Threads, ThreadOK(t),
         pc'[t] = pc[t], req'[t] = req[t], draft'[t] = draft[t],
         left'[t] = left[t], held'[t] = held[t],
         file'[t] = "none" <=> file[t] = "none"
  PROVE  ThreadOK(t)'
BY DEF ThreadOK, Active

LEMMA InitTypes == Init => TypeInv
<1> SUFFICES ASSUME Init PROVE TypeInv
  OBVIOUS
<1>1. /\ disk["config"] \in Documents /\ disk["security"] \in SecurityDocuments
      /\ disk \in [Kinds -> FirstConfigs \cup {FirstSecurity}]
  BY RequestsAssumption DEF Init, RequestsAssumption
<1>2. \A k \in Kinds : disk[k] \in DocumentsOf(k)
  BY <1>1 DEF Kinds, DocumentsOf
<1>3. disk \in [Kinds -> AnyContent]
  BY <1>1, <1>2, AnyContents DEF AnyContent
<1>4. FilesOK
  BY <1>2, NoDocument DEF FilesOK, Init
<1>5. ASSUME NEW t \in Threads
      PROVE  ThreadOK(t)
  BY DEF Init, ThreadOK, Active
<1>6. 0 \in 0 .. MaxRequests
  BY RequestsAssumption DEF RequestsAssumption
<1>7. QED
  BY <1>3, <1>4, <1>5, <1>6 DEF Init, TypeInv, Steps, AnyDraft, FileStates

LEMMA ReloadedType ==
  ASSUME TypeInv, NEW K \in SUBSET Kinds
  PROVE  /\ Reloaded(K) \in [Kinds -> AnyContent]
         /\ \A k \in Kinds : Reloaded(K)[k] \in DocumentsOf(k)
<1>1. \A k \in Kinds : Reloaded(K)[k] \in DocumentsOf(k)
  BY RefreshedType DEF TypeInv, FilesOK, Reloaded
<1>2. Reloaded(K) = [k \in Kinds |-> Reloaded(K)[k]]
  BY DEF Reloaded
<1>3. QED
  BY <1>1, <1>2, AnyContents DEF AnyContent

\* The handler's end, whatever it comes from.
LEMMA FinishType ==
  ASSUME TypeInv, NEW t \in Threads, Finish(t), UNCHANGED held
  PROVE  /\ pc' \in [Threads -> Steps] /\ req' \in [Threads -> Requests \cup {None}]
         /\ held' \in [Threads -> {None} \cup SUBSET Permissions]
         /\ draft' \in [Threads -> AnyDraft] /\ left' \in [Threads -> SUBSET Kinds]
         /\ file' \in [Threads -> FileStates]
         /\ \A u \in Threads : ThreadOK(u)'
<1>1. /\ pc' \in [Threads -> Steps] /\ req' \in [Threads -> Requests \cup {None}]
      /\ held' \in [Threads -> {None} \cup SUBSET Permissions]
      /\ draft' \in [Threads -> AnyDraft] /\ left' \in [Threads -> SUBSET Kinds]
      /\ file' \in [Threads -> FileStates]
  BY DEF TypeInv, Finish, Go, Steps, AnyDraft, FileStates
<1>2. ThreadOK(t)'
  BY DEF TypeInv, Finish, Go, ThreadOK, Active
<1>3. ASSUME NEW u \in Threads, u # t
      PROVE  ThreadOK(u)'
  <2>1. /\ pc'[u] = pc[u] /\ req'[u] = req[u] /\ draft'[u] = draft[u]
        /\ left'[u] = left[u] /\ held'[u] = held[u] /\ file'[u] = file[u]
    BY <1>3 DEF TypeInv, Finish, Go
  <2>2. QED
    BY <2>1, ThreadKept DEF TypeInv
<1>4. QED
  BY <1>1, <1>2, <1>3

LEMMA FilesKept ==
  ASSUME TypeInv, disk' = disk, temp' = temp,
         \A k \in Kinds : live'[k] \in DocumentsOf(k)
  PROVE  FilesOK'
BY DEF TypeInv, FilesOK, Contents, DocumentsOf

LEMMA ArriveType ==
  ASSUME TypeInv, NEW t \in Threads, NEW r \in Requests, Arrive(t, r)
  PROVE  /\ live' \in [Kinds -> AnyContent]
         /\ \A k \in Kinds : live'[k] \in DocumentsOf(k)
         /\ held' \in [Threads -> {None} \cup SUBSET Permissions]
         /\ held' = [held EXCEPT ![t] = held'[t]]
         /\ held'[t] \in SUBSET Permissions
         /\ \A u \in Threads \ {t} : held'[u] = held[u]
         /\ served' \in 0 .. MaxRequests
<1>1. live' = Reloaded(Kinds)
  BY DEF Arrive, Reloaded
<1>2. /\ live' \in [Kinds -> AnyContent]
      /\ \A k \in Kinds : live'[k] \in DocumentsOf(k)
  BY <1>1, ReloadedType
<1>3. live'["security"] \in SecurityDocuments
  BY <1>2 DEF Kinds, DocumentsOf
<1>4. PICK p \in Principals(t, live'["security"]) : held' = [held EXCEPT ![t] = p]
  BY DEF Arrive
<1>5. p \in SUBSET Permissions
  BY <1>3, PermissionsType DEF Principals, TypeInv, Permissions
<1>6. served' \in 0 .. MaxRequests
  BY RequestsAssumption DEF Arrive, TypeInv, RequestsAssumption
<1>7. QED
  BY <1>2, <1>4, <1>5, <1>6 DEF TypeInv

LEMMA AcceptTypes ==
  ASSUME TypeInv, NEW t \in Threads, NEW r \in Requests, Accept(t, r)
  PROVE  TypeInv'
<1>1. Arrive(t, r) /\ pc[t] = "idle"
  BY DEF Accept, Arrive
<1>2. /\ pc' \in [Threads -> Steps] /\ req' \in [Threads -> Requests \cup {None}]
      /\ pc'[t] = "loading" /\ req'[t] = r
  BY DEF Accept, Go, TypeInv, Steps
<1>3. ThreadOK(t)'
  <2>1. ThreadOK(t)
    BY DEF TypeInv
  <2>2. file'[t] = "none" /\ left'[t] = {}
    BY <1>1, <2>1 DEF Accept, files, ThreadOK, TypeInv, Steps, FileStates
  <2>3. r # None
    BY RequestsAssumption DEF RequestsAssumption
  <2>4. RequiredPermissions(r) \subseteq held'[t]
    BY DEF Accept
  <2>5. QED
    BY <1>2, <2>2, <2>3, <2>4 DEF ThreadOK, Active
<1>4. ASSUME NEW u \in Threads, u # t
      PROVE  ThreadOK(u)'
  <2>1. /\ pc'[u] = pc[u] /\ req'[u] = req[u] /\ draft'[u] = draft[u]
        /\ left'[u] = left[u] /\ held'[u] = held[u] /\ file'[u] = file[u]
    BY <1>1, <1>4, ArriveType DEF TypeInv, Accept, Go, files
  <2>2. QED
    BY <2>1, ThreadKept DEF TypeInv
<1>5. FilesOK'
  BY <1>1, ArriveType, FilesKept DEF Accept, files
<1>6. QED
  BY <1>1, <1>2, <1>3, <1>4, <1>5, ArriveType DEF TypeInv, Accept, files

LEMMA RefuseTypes ==
  ASSUME TypeInv, NEW t \in Threads, NEW r \in Requests, Refuse(t, r)
  PROVE  TypeInv'
<1>1. Arrive(t, r) /\ pc[t] = "idle"
  BY DEF Refuse, Arrive
<1>2. ThreadOK(t)'
  BY <1>1 DEF Refuse, TypeInv, ThreadOK, Active, files
<1>3. ASSUME NEW u \in Threads, u # t
      PROVE  ThreadOK(u)'
  BY <1>1, <1>3, ArriveType, ThreadKept DEF TypeInv, Refuse, files
<1>4. FilesOK'
  BY <1>1, ArriveType, FilesKept DEF Refuse, files
<1>5. QED
  BY <1>1, <1>2, <1>3, <1>4, ArriveType DEF TypeInv, Refuse, files

\* What a request saves is found document by document.
LEMMA DraftsType ==
  ASSUME TypeInv, NEW r \in Requests, NEW new \in Drafts(r)
  PROVE  /\ new \in AnyDraft /\ DOMAIN new = Saved(r)
         /\ \A k \in Saved(r) : /\ new[k] \in Outcomes(k, r)
                                /\ new[k] \in DocumentsOf(k)
                                /\ DocumentLoads(k, new[k])
<1>1. /\ new \in [Saved(r) -> UNION {Outcomes(k, r) : k \in Saved(r)}]
      /\ \A k \in Saved(r) : new[k] \in Outcomes(k, r)
  BY DEF Drafts
<1>2. Saved(r) \in SUBSET Kinds
  BY RequestsByKind
<1>3. \A k \in Saved(r) : new[k] \in DocumentsOf(k) /\ DocumentLoads(k, new[k])
  BY <1>1, <1>2, OutcomesType DEF TypeInv, FilesOK
<1>4. new \in [Saved(r) -> AnyDocument]
  BY <1>1, <1>2, <1>3, AnyContents
<1>5. QED
  BY <1>1, <1>2, <1>3, <1>4 DEF AnyDraft

LEMMA LoadTypes ==
  ASSUME TypeInv, NEW t \in Threads, Load(t)
  PROVE  TypeInv'
<1>1. CASE Finish(t)
  <2>1. \A k \in Kinds : live'[k] \in DocumentsOf(k)
    BY DEF Load, TypeInv, FilesOK
  <2>2. FilesOK'
    BY <2>1, FilesKept DEF Load
  <2>3. QED
    BY <1>1, <2>2, FinishType DEF Load, TypeInv, history
<1>2. ASSUME NEW new \in Drafts(req[t]), Go(t, "opening"),
             draft' = [draft EXCEPT ![t] = new],
             left' = [left EXCEPT ![t] = Saved(req[t])], UNCHANGED <<req, file>>
      PROVE  TypeInv'
  <2>1. ThreadOK(t) /\ pc[t] = "loading"
    BY DEF TypeInv, Load
  <2>2. req[t] \in Requests
    BY <2>1 DEF ThreadOK
  <2>3. Saved(req[t]) \in SUBSET Kinds /\ Saved(req[t]) # {}
    BY <2>2, RequestsByKind
  <2>4. /\ new \in AnyDraft /\ DOMAIN new = Saved(req[t])
        /\ \A k \in Saved(req[t]) : new[k] \in DocumentsOf(k) /\ DocumentLoads(k, new[k])
    BY <2>2, DraftsType
  <2>5. /\ pc' \in [Threads -> Steps] /\ draft' \in [Threads -> AnyDraft]
        /\ left' \in [Threads -> SUBSET Kinds]
        /\ pc'[t] = "opening" /\ draft'[t] = new /\ left'[t] = Saved(req[t])
    BY <1>2, <2>3, <2>4 DEF TypeInv, Go, Steps
  <2>6. ThreadOK(t)'
    BY <1>2, <2>1, <2>3, <2>4, <2>5 DEF Load, ThreadOK, Active
  <2>7. ASSUME NEW u \in Threads, u # t
        PROVE  ThreadOK(u)'
    <3>1. /\ pc'[u] = pc[u] /\ req'[u] = req[u] /\ draft'[u] = draft[u]
          /\ left'[u] = left[u] /\ held'[u] = held[u] /\ file'[u] = file[u]
      BY <1>2, <2>7 DEF TypeInv, Load, Go
    <3>2. QED
      BY <3>1, ThreadKept DEF TypeInv
  <2>8. FilesOK'
    BY FilesKept DEF Load, TypeInv, FilesOK
  <2>9. QED
    BY <1>2, <2>5, <2>6, <2>7, <2>8 DEF Load, TypeInv, history
<1>3. QED
  BY <1>1, <1>2 DEF Load

LEMMA SavingType ==
  ASSUME TypeInv, NEW t \in Threads, pc[t] \in {"opening", "writing", "replacing"}
  PROVE  /\ Saving(t) \in left[t] /\ Saving(t) \in Kinds /\ Active(t)
         /\ req[t] \in Requests /\ Saving(t) \in Saved(req[t])
         /\ draft[t][Saving(t)] \in DocumentsOf(Saving(t))
         /\ DocumentLoads(Saving(t), draft[t][Saving(t)])
<1>1. ThreadOK(t) /\ left[t] \in SUBSET Kinds
  BY DEF TypeInv
<1>2. left[t] # {} /\ Active(t) /\ req[t] \in Requests
  BY <1>1 DEF ThreadOK, Active
<1>3. Saving(t) \in left[t]
  BY <1>1, <1>2 DEF Saving, Kinds
<1>4. QED
  BY <1>1, <1>2, <1>3 DEF ThreadOK

LEMMA OpenTypes ==
  ASSUME TypeInv, NEW t \in Threads, Open(t)
  PROVE  TypeInv'
<1> DEFINE k == Saving(t)
<1>1. k \in Kinds
  BY SavingType DEF Open
<1> HIDE DEF k
<1>2. /\ pc' \in [Threads -> Steps] /\ pc'[t] = "writing"
      /\ file' \in [Threads -> FileStates] /\ file'[t] = "temp"
  BY DEF Open, Go, TypeInv, Steps, FileStates
<1>3. ThreadOK(t)'
  BY <1>2 DEF Open, TypeInv, ThreadOK, Active
<1>4. ASSUME NEW u \in Threads, u # t
      PROVE  ThreadOK(u)'
  <2>1. /\ pc'[u] = pc[u] /\ req'[u] = req[u] /\ draft'[u] = draft[u]
        /\ left'[u] = left[u] /\ held'[u] = held[u] /\ file'[u] = file[u]
    BY <1>4 DEF TypeInv, Open, Go
  <2>2. QED
    BY <2>1, ThreadKept DEF TypeInv
<1>5. temp' = [temp EXCEPT ![k] = Blank]
  BY DEF Open, k
<1>6. temp' \in [Kinds -> AnyContent \cup {None}]
  BY <1>5 DEF TypeInv, AnyContent
<1>7. ASSUME NEW j \in Kinds
      PROVE  temp'[j] \in {None} \cup Contents(j)
  BY <1>5, NoDocument DEF TypeInv, FilesOK
<1>8. FilesOK'
  BY <1>7 DEF Open, TypeInv, FilesOK, Contents, DocumentsOf
<1>9. QED
  BY <1>2, <1>3, <1>4, <1>6, <1>8 DEF Open, TypeInv

LEMMA WriteTypes ==
  ASSUME TypeInv, NEW t \in Threads, Write(t)
  PROVE  TypeInv'
<1> DEFINE k == Saving(t)
           text == draft[t][k]
<1>1. k \in Kinds /\ text \in DocumentsOf(k) /\ disk[k] \in Contents(k)
  BY SavingType DEF Write, TypeInv, FilesOK
<1>2. \A content : Overwritten(content, text) \subseteq Contents(k)
  BY <1>1, NoDocument DEF Overwritten
<1>3. /\ \/ temp' = temp
         \/ \E c \in Contents(k) : temp' = [temp EXCEPT ![k] = c]
      /\ \/ disk' = disk
         \/ \E c \in Contents(k) : disk' = [disk EXCEPT ![k] = c]
  BY <1>2 DEF Write
<1> HIDE DEF k, text
<1>4. /\ temp' \in [Kinds -> AnyContent \cup {None}]
      /\ disk' \in [Kinds -> AnyContent]
      /\ \A j \in Kinds : temp'[j] \in {None} \cup Contents(j) /\ disk'[j] \in Contents(j)
  BY <1>1, <1>3, AnyContents DEF TypeInv, FilesOK
<1>5. /\ pc' \in [Threads -> Steps] /\ pc'[t] = "replacing"
      /\ file' \in [Threads -> FileStates] /\ file'[t] = "none"
  BY DEF Write, Go, TypeInv, Steps, FileStates
<1>6. ThreadOK(t)'
  BY <1>5 DEF Write, TypeInv, ThreadOK, Active
<1>7. ASSUME NEW u \in Threads, u # t
      PROVE  ThreadOK(u)'
  <2>1. /\ pc'[u] = pc[u] /\ req'[u] = req[u] /\ draft'[u] = draft[u]
        /\ left'[u] = left[u] /\ held'[u] = held[u] /\ file'[u] = file[u]
    BY <1>7 DEF TypeInv, Write, Go
  <2>2. QED
    BY <2>1, ThreadKept DEF TypeInv
<1>8. FilesOK'
  BY <1>4 DEF Write, TypeInv, FilesOK, Contents, DocumentsOf
<1>9. QED
  BY <1>4, <1>5, <1>6, <1>7, <1>8 DEF Write, TypeInv, history

\* A renamed file stays open for whom it is open.
LEMMA RenamedType ==
  ASSUME TypeInv, NEW k \in Kinds
  PROVE  /\ Renamed(k) \in [Threads -> FileStates]
         /\ \A u \in Threads : Renamed(k)[u] = "none" <=> file[u] = "none"
BY DEF Renamed, TypeInv, FileStates

LEMMA ReplaceTypes ==
  ASSUME TypeInv, NEW t \in Threads, Replace(t)
  PROVE  TypeInv'
<1> DEFINE k == Saving(t)
<1>1. k \in Kinds /\ k \in left[t] /\ Active(t)
  BY SavingType DEF Replace
<1>2. /\ disk' = [disk EXCEPT ![k] = temp[k]] /\ temp' = [temp EXCEPT ![k] = None]
      /\ temp[k] # None /\ file' = Renamed(k) /\ left' = [left EXCEPT ![t] = @ \ {k}]
      /\ pc[t] = "replacing" /\ pc' = [pc EXCEPT ![t] = IF left[t] = {k} THEN "reloading" ELSE "opening"]
  BY DEF Replace, Go
<1> HIDE DEF k
<1>3. temp[k] \in Contents(k)
  BY <1>1, <1>2 DEF TypeInv, FilesOK
<1>4. /\ temp' \in [Kinds -> AnyContent \cup {None}]
      /\ disk' \in [Kinds -> AnyContent]
      /\ \A j \in Kinds : temp'[j] \in {None} \cup Contents(j) /\ disk'[j] \in Contents(j)
  BY <1>1, <1>2, <1>3, AnyContents DEF TypeInv, FilesOK
<1>5. /\ pc' \in [Threads -> Steps] /\ left' \in [Threads -> SUBSET Kinds]
      /\ pc'[t] = IF left'[t] = {} THEN "reloading" ELSE "opening"
      /\ left'[t] \subseteq left[t]
  BY <1>1, <1>2 DEF TypeInv, Steps
<1>6. ThreadOK(t)'
  <2>1. ThreadOK(t)
    BY DEF TypeInv
  <2>2. /\ req'[t] = req[t] /\ draft'[t] = draft[t] /\ held'[t] = held[t]
        /\ file'[t] = "none"
    BY <1>1, <1>2, <2>1, RenamedType DEF Replace, ThreadOK
  <2>3. QED
    BY <1>2, <1>5, <2>1, <2>2 DEF ThreadOK, Active
<1>7. ASSUME NEW u \in Threads, u # t
      PROVE  ThreadOK(u)'
  <2>1. /\ pc'[u] = pc[u] /\ req'[u] = req[u] /\ draft'[u] = draft[u]
        /\ left'[u] = left[u] /\ held'[u] = held[u]
    BY <1>2, <1>7 DEF TypeInv, Replace
  <2>2. file'[u] = "none" <=> file[u] = "none"
    BY <1>1, <1>2, RenamedType
  <2>3. QED
    BY <2>1, <2>2, ThreadKept DEF TypeInv
<1>8. FilesOK'
  BY <1>4 DEF Replace, TypeInv, FilesOK, Contents, DocumentsOf
<1>9. QED
  BY <1>1, <1>2, <1>4, <1>5, <1>6, <1>7, <1>8, RenamedType DEF Replace, TypeInv

LEMMA SaveFailsTypes ==
  ASSUME TypeInv, NEW t \in Threads, SaveFails(t)
  PROVE  TypeInv'
<1>1. Finish(t) /\ held' = held
  BY DEF SaveFails
<1>2. FilesOK'
  BY FilesKept DEF SaveFails, TypeInv, FilesOK
<1>3. QED
  BY <1>1, <1>2, FinishType DEF SaveFails, TypeInv

LEMMA LoadedType ==
  ASSUME NEW r \in Requests
  PROVE  Loaded(r) \in SUBSET Kinds /\ Saved(r) \subseteq Loaded(r)
BY RequestsByKind DEF Loaded

LEMMA ReloadTypes ==
  ASSUME TypeInv, NEW t \in Threads, Reload(t)
  PROVE  TypeInv'
<1>1. ThreadOK(t) /\ pc[t] = "reloading" /\ Active(t)
  BY DEF TypeInv, Reload, Active
<1>2. req[t] \in Requests
  BY <1>1 DEF ThreadOK
<1>3. /\ live' \in [Kinds -> AnyContent]
      /\ \A k \in Kinds : live'[k] \in DocumentsOf(k)
  BY <1>2, LoadedType, ReloadedType DEF Reload
<1>4. agreed' \in [Kinds -> AnyContent]
  BY <1>1, AnyContents DEF Reload, ThreadOK, TypeInv, AnyContent
<1>5. FilesOK'
  BY <1>3, FilesKept DEF Reload
<1>6. Finish(t) /\ held' = held
  BY DEF Reload
<1>7. QED
  BY <1>3, <1>4, <1>5, <1>6, FinishType DEF Reload, TypeInv

LEMMA ReloadFailsTypes ==
  ASSUME TypeInv, NEW t \in Threads, ReloadFails(t)
  PROVE  TypeInv'
<1>1. PICK K \in SUBSET Kinds : live' = Reloaded(K)
  BY DEF ReloadFails, Kinds
<1>2. /\ live' \in [Kinds -> AnyContent]
      /\ \A k \in Kinds : live'[k] \in DocumentsOf(k)
  BY <1>1, ReloadedType
<1>3. FilesOK'
  BY <1>2, FilesKept DEF ReloadFails
<1>4. Finish(t) /\ held' = held
  BY DEF ReloadFails
<1>5. QED
  BY <1>2, <1>3, <1>4, FinishType DEF ReloadFails, TypeInv

LEMMA CloseTypes ==
  ASSUME TypeInv, NEW t \in Threads, Close(t)
  PROVE  TypeInv'
<1>1. ThreadOK(t)'
  BY DEF Close, TypeInv, ThreadOK, Active, files
<1>2. ASSUME NEW u \in Threads, u # t
      PROVE  ThreadOK(u)'
  BY <1>2, ThreadKept DEF TypeInv, Close, files
<1>3. FilesOK'
  BY FilesKept DEF Close, TypeInv, FilesOK, files
<1>4. QED
  BY <1>1, <1>2, <1>3 DEF Close, TypeInv, files, history

LEMMA RefreshTypes ==
  ASSUME TypeInv, Refresh
  PROVE  TypeInv'
<1>1. live' = Reloaded(Kinds)
  BY DEF Refresh, Reloaded
<1>2. /\ live' \in [Kinds -> AnyContent]
      /\ \A k \in Kinds : live'[k] \in DocumentsOf(k)
  BY <1>1, ReloadedType
<1>3. FilesOK'
  BY <1>2, FilesKept DEF Refresh, files
<1>4. \A t \in Threads : ThreadOK(t)'
  BY DEF Refresh, TypeInv, ThreadOK, Active, files, threadVars
<1>5. QED
  BY <1>2, <1>3, <1>4 DEF Refresh, TypeInv, files, threadVars, history

LEMMA RestartTypes ==
  ASSUME TypeInv, Restart
  PROVE  TypeInv'
<1>1. /\ live' \in [Kinds -> AnyContent]
      /\ \A k \in Kinds : live'[k] \in DocumentsOf(k)
  BY ReloadedType DEF Restart
<1>2. FilesOK'
  BY <1>1, FilesKept DEF Restart
<1>3. ASSUME NEW t \in Threads
      PROVE  ThreadOK(t)'
  BY DEF Restart, ThreadOK, Active
<1>4. QED
  BY <1>1, <1>2, <1>3 DEF Restart, TypeInv, Steps, AnyDraft, FileStates

LEMMA NextTypes == TypeInv /\ [Next]_vars => TypeInv'
<1> SUFFICES ASSUME TypeInv, [Next]_vars PROVE TypeInv'
  OBVIOUS
<1>1. CASE UNCHANGED vars
  BY <1>1
     DEF vars, files, threadVars, history, TypeInv, ThreadOK, Active, FilesOK, DocumentsOf,
         Contents
<1>2. ASSUME NEW t \in Threads, Handle(t)
      PROVE  TypeInv'
  BY <1>2, LoadTypes, OpenTypes, WriteTypes, ReplaceTypes, SaveFailsTypes, ReloadTypes,
     ReloadFailsTypes, CloseTypes, AcceptTypes, RefuseTypes
     DEF Handle
<1>3. QED
  BY <1>1, <1>2, RefreshTypes, RestartTypes DEF Next

\* Every variable stays in its type; a thread has a file open exactly while it
\* writes, and a draft of every document it has left to save.
THEOREM TypeCorrect == Spec => []TypeOK
<1>1. Spec => []TypeInv
  BY InitTypes, NextTypes, PTL DEF Spec
<1>2. QED
  BY <1>1, TypeInvTypes, PTL

-----------------------------------------------------------------------------
(* Whole saves.                                                            *)

\* Of a file that no two threads were saving at once: it is whole, at most one
\* thread writes, and what it writes is in the temporary file and nowhere else.
FileOK(k) ==
  /\ disk[k] \in DocumentsOf(k) /\ DocumentLoads(k, disk[k])
  /\ \A t, u \in Threads : Writes(t, k) /\ Writes(u, k) => t = u
  /\ \A t \in Threads : Writes(t, k) =>
       IF pc[t] = "writing" THEN file[t] = "temp" /\ temp[k] = Blank
                            ELSE temp[k] = draft[t][k]

WholeInv == \A k \in Kinds \ collided : FileOK(k)

LEMMA FileKept ==
  ASSUME NEW k \in Kinds, FileOK(k), disk'[k] = disk[k], temp'[k] = temp[k],
         \A t \in Threads : Writes(t, k)' =>
           /\ Writes(t, k) /\ pc'[t] = pc[t] /\ file'[t] = file[t]
           /\ draft'[t][k] = draft[t][k]
  PROVE  FileOK(k)'
<1>1. (disk[k] \in DocumentsOf(k) /\ DocumentLoads(k, disk[k]))'
  BY DEF FileOK, DocumentsOf, DocumentLoads
<1>2. \A t, u \in Threads : Writes(t, k)' /\ Writes(u, k)' => t = u
  BY DEF FileOK
<1>3. ASSUME NEW t \in Threads, Writes(t, k)'
      PROVE  IF pc'[t] = "writing" THEN file'[t] = "temp" /\ temp'[k] = Blank
                                   ELSE temp'[k] = draft'[t][k]
  BY <1>3 DEF FileOK
<1>4. QED
  BY <1>1, <1>2, <1>3 DEF FileOK

\* A step that neither touches a file nor takes a thread to writing.
LEMMA WholeKept ==
  ASSUME WholeInv, UNCHANGED <<disk, temp, collided>>,
         \A u \in Threads : pc'[u] \in {"writing", "replacing"} =>
           /\ pc'[u] = pc[u] /\ left'[u] = left[u]
           /\ draft'[u] = draft[u] /\ file'[u] = file[u]
  PROVE  WholeInv'
<1>1. ASSUME NEW k \in Kinds \ collided
      PROVE  FileOK(k)'
  <2>1. ASSUME NEW t \in Threads, Writes(t, k)'
        PROVE  /\ Writes(t, k) /\ pc'[t] = pc[t] /\ file'[t] = file[t]
               /\ draft'[t][k] = draft[t][k]
    BY <2>1 DEF Writes, Saving
  <2>2. QED
    BY <2>1, FileKept DEF WholeInv
<1>2. QED
  BY <1>1 DEF WholeInv

LEMMA OpenWhole ==
  ASSUME TypeInv, WholeInv, NEW t \in Threads, Open(t)
  PROVE  WholeInv'
<1>0. PICK k \in Kinds : k = Saving(t)
  BY SavingType DEF Open
<1>1. k \in Kinds /\ Saving(t) = k
  BY <1>0
<1>2. /\ pc'[t] = "writing" /\ file'[t] = "temp" /\ temp' = [temp EXCEPT ![k] = Blank]
      /\ disk' = disk /\ left' = left /\ draft' = draft
      /\ \A u \in Threads \ {t} : pc'[u] = pc[u] /\ file'[u] = file[u]
      /\ collided \subseteq collided'
      /\ k \notin collided' => \A u \in Threads \ {t} : ~Writes(u, k)
  BY <1>0 DEF Open, Go, TypeInv
<1>3. \A u \in Threads : Saving(u)' = Saving(u)
  BY <1>2 DEF Saving
<1>4. ASSUME NEW j \in Kinds \ collided', j # k
      PROVE  FileOK(j)'
  <2>1. FileOK(j)
    BY <1>2, <1>4 DEF WholeInv
  <2>2. disk'[j] = disk[j] /\ temp'[j] = temp[j]
    BY <1>2, <1>4 DEF TypeInv
  <2>3. ASSUME NEW u \in Threads, Writes(u, j)'
        PROVE  /\ Writes(u, j) /\ pc'[u] = pc[u] /\ file'[u] = file[u]
               /\ draft'[u][j] = draft[u][j]
    <3>1. u # t
      BY <1>0, <1>3, <1>4, <2>3 DEF Writes
    <3>2. QED
      BY <1>2, <1>3, <2>3, <3>1 DEF Writes
  <2>4. QED
    BY <2>1, <2>2, <2>3, FileKept
<1>5. ASSUME k \notin collided'
      PROVE  FileOK(k)'
  <2>1. FileOK(k)
    BY <1>1, <1>2, <1>5 DEF WholeInv
  <2>2. (disk[k] \in DocumentsOf(k) /\ DocumentLoads(k, disk[k]))'
    BY <1>2, <2>1 DEF FileOK, DocumentsOf, DocumentLoads
  <2>3. \A u \in Threads : Writes(u, k)' => u = t
    BY <1>2, <1>3, <1>5 DEF Writes
  <2>4. temp'[k] = Blank
    BY <1>1, <1>2 DEF TypeInv
  <2>5. QED
    BY <1>2, <2>2, <2>3, <2>4 DEF FileOK
<1>6. QED
  BY <1>4, <1>5 DEF WholeInv

LEMMA WriteWhole ==
  ASSUME TypeInv, WholeInv, NEW t \in Threads, Write(t)
  PROVE  WholeInv'
<1>0. PICK k \in Kinds : k = Saving(t)
  BY SavingType DEF Write
<1>1. k \in Kinds /\ Writes(t, k)
  BY <1>0, SavingType DEF Write, Writes
<1>2. /\ pc[t] = "writing" /\ pc'[t] = "replacing"
      /\ left' = left /\ draft' = draft /\ collided' = collided
      /\ \A u \in Threads \ {t} : pc'[u] = pc[u] /\ file'[u] = file[u]
      /\ IF file[t] = "temp"
         THEN \E c \in Overwritten(temp[k], draft[t][k]) : temp' = [temp EXCEPT ![k] = c]
         ELSE temp' = temp
      /\ IF file[t] = "disk"
         THEN \E c \in Overwritten(disk[k], draft[t][k]) : disk' = [disk EXCEPT ![k] = c]
         ELSE disk' = disk
  BY <1>0 DEF Write, Go, TypeInv, history
<1>3. \A u \in Threads : Saving(u)' = Saving(u)
  BY <1>2 DEF Saving
<1>4. \A u \in Threads : Saving(u) = k /\ Writes(u, k)' => u = t \/ Writes(u, k)
  BY <1>2, <1>3 DEF Writes
<1>6. ASSUME NEW j \in Kinds \ collided, j # k
      PROVE  FileOK(j)'
  <2>1. FileOK(j)
    BY DEF WholeInv
  <2>2. disk'[j] = disk[j] /\ temp'[j] = temp[j]
    BY <1>2, <1>6 DEF TypeInv
  <2>3. ASSUME NEW u \in Threads, Writes(u, j)'
        PROVE  /\ Writes(u, j) /\ pc'[u] = pc[u] /\ file'[u] = file[u]
               /\ draft'[u][j] = draft[u][j]
    <3>1. u # t
      BY <1>0, <1>3, <1>6, <2>3 DEF Writes
    <3>2. QED
      BY <1>2, <1>3, <2>3, <3>1 DEF Writes
  <2>4. QED
    BY <2>1, <2>2, <2>3, FileKept
<1>7. ASSUME k \notin collided
      PROVE  FileOK(k)'
  <2>1. FileOK(k)
    BY <1>1, <1>7 DEF WholeInv
  <2>2. file[t] = "temp" /\ temp[k] = Blank
    BY <1>1, <1>2, <2>1 DEF FileOK
  <2>3. temp' = [temp EXCEPT ![k] = draft[t][k]] /\ disk' = disk
    BY <1>2, <2>2 DEF Overwritten
  <2>4. temp'[k] = draft'[t][k]
    BY <1>1, <1>2, <2>3 DEF TypeInv
  <2>5. (disk[k] \in DocumentsOf(k) /\ DocumentLoads(k, disk[k]))'
    BY <2>1, <2>3 DEF FileOK, DocumentsOf, DocumentLoads
  <2>6. \A u \in Threads : Writes(u, k)' => u = t
    BY <1>1, <1>3, <1>4, <2>1 DEF FileOK, Writes
  <2>7. QED
    BY <1>2, <2>4, <2>5, <2>6 DEF FileOK
<1>8. QED
  BY <1>2, <1>6, <1>7 DEF WholeInv

\* The temporary file holds what the thread that renames it has written.
LEMMA ReplaceWhole ==
  ASSUME TypeInv, WholeInv, NEW t \in Threads, Replace(t)
  PROVE  /\ WholeInv'
         /\ Saving(t) \notin collided => disk'[Saving(t)] = draft[t][Saving(t)]
<1>0. PICK k \in Kinds : k = Saving(t)
  BY SavingType DEF Replace
<1>1. /\ k \in Kinds /\ Writes(t, k)
      /\ draft[t][k] \in DocumentsOf(k) /\ DocumentLoads(k, draft[t][k])
  BY <1>0, SavingType DEF Replace, Writes
<1>2. /\ pc[t] = "replacing" /\ pc'[t] \in {"opening", "reloading"}
      /\ draft' = draft /\ collided' = collided /\ file' = Renamed(k)
      /\ disk' = [disk EXCEPT ![k] = temp[k]] /\ temp' = [temp EXCEPT ![k] = None]
      /\ \A u \in Threads \ {t} : pc'[u] = pc[u] /\ left'[u] = left[u]
  BY <1>0 DEF Replace, Go, TypeInv
<1>3. \A u \in Threads \ {t} : Saving(u)' = Saving(u)
  BY <1>2 DEF Saving
<1>4. ASSUME NEW j \in Kinds \ collided, j # k
      PROVE  FileOK(j)'
  <2>1. FileOK(j)
    BY DEF WholeInv
  <2>2. disk'[j] = disk[j] /\ temp'[j] = temp[j]
    BY <1>2, <1>4 DEF TypeInv
  <2>3. ASSUME NEW u \in Threads, Writes(u, j)'
        PROVE  /\ Writes(u, j) /\ pc'[u] = pc[u] /\ file'[u] = file[u]
               /\ draft'[u][j] = draft[u][j]
    <3>1. u # t
      BY <1>2, <2>3 DEF Writes
    <3>2. Saving(u) = j
      BY <1>3, <2>3, <3>1 DEF Writes
    <3>3. file'[u] = file[u]
      BY <1>2, <1>4, <3>2 DEF Renamed
    <3>4. QED
      BY <1>2, <1>3, <2>3, <3>1, <3>3 DEF Writes
  <2>4. QED
    BY <2>1, <2>2, <2>3, FileKept
<1>5. ASSUME k \notin collided
      PROVE  FileOK(k)' /\ disk'[k] = draft[t][k]
  <2>1. FileOK(k)
    BY <1>1, <1>5 DEF WholeInv
  <2>2. temp[k] = draft[t][k]
    BY <1>1, <1>2, <2>1 DEF FileOK
  <2>3. disk'[k] = draft[t][k]
    BY <1>1, <1>2, <2>2 DEF TypeInv
  <2>4. (disk[k] \in DocumentsOf(k) /\ DocumentLoads(k, disk[k]))'
    BY <1>1, <2>3 DEF DocumentsOf, DocumentLoads
  <2>5. \A u \in Threads : ~Writes(u, k)'
    BY <1>1, <1>2, <1>3, <2>1 DEF FileOK, Writes
  <2>6. QED
    BY <2>3, <2>4, <2>5 DEF FileOK
<1>6. QED
  BY <1>0, <1>2, <1>4, <1>5 DEF WholeInv

LEMMA FinishWhole ==
  ASSUME TypeInv, WholeInv, NEW t \in Threads, Finish(t),
         UNCHANGED <<disk, temp, collided>>
  PROVE  WholeInv'
<1>1. ASSUME NEW u \in Threads, pc'[u] \in {"writing", "replacing"}
      PROVE  /\ pc'[u] = pc[u] /\ left'[u] = left[u]
             /\ draft'[u] = draft[u] /\ file'[u] = file[u]
  BY <1>1 DEF TypeInv, Finish, Go
<1>2. QED
  BY <1>1, WholeKept

LEMMA NextWhole ==
  ASSUME TypeInv, WholeInv, [Next]_vars
  PROVE  WholeInv'
<1>1. CASE UNCHANGED vars
  BY <1>1, WholeKept DEF vars, files, threadVars, history
<1>2. CASE Refresh
  BY <1>2, WholeKept DEF Refresh, files, threadVars, history
<1>3. CASE Restart
  <2>1. \A u \in Threads : pc'[u] = "idle"
    BY <1>3 DEF Restart
  <2>2. QED
    BY <1>3, <2>1, WholeKept DEF Restart
<1>4. ASSUME NEW t \in Threads, Handle(t)
      PROVE  WholeInv'
  <2>1. CASE Load(t)
    <3>1. CASE Finish(t)
      BY <2>1, <3>1, FinishWhole DEF Load, history
    <3>2. CASE Go(t, "opening")
               /\ \E new : draft' = [draft EXCEPT ![t] = new]
               /\ left' = [left EXCEPT ![t] = Saved(req[t])] /\ UNCHANGED file
      <4>1. ASSUME NEW u \in Threads, pc'[u] \in {"writing", "replacing"}
            PROVE  /\ pc'[u] = pc[u] /\ left'[u] = left[u]
                   /\ draft'[u] = draft[u] /\ file'[u] = file[u]
        BY <3>2, <4>1 DEF TypeInv, Go
      <4>2. QED
        BY <2>1, <4>1, WholeKept DEF Load, history
    <3>3. QED
      BY <2>1, <3>1, <3>2 DEF Load
  <2>2. CASE SaveFails(t) \/ Reload(t) \/ ReloadFails(t)
    BY <2>2, FinishWhole DEF SaveFails, Reload, ReloadFails
  <2>3. CASE Close(t)
    BY <2>3, WholeKept DEF Close, files, history
  <2>4. ASSUME NEW r \in Requests, Accept(t, r)
        PROVE  WholeInv'
    <3>1. ASSUME NEW u \in Threads, pc'[u] \in {"writing", "replacing"}
          PROVE  /\ pc'[u] = pc[u] /\ left'[u] = left[u]
                 /\ draft'[u] = draft[u] /\ file'[u] = file[u]
      BY <2>4, <3>1 DEF TypeInv, Accept, Go, files
    <3>2. QED
      BY <2>4, <3>1, WholeKept DEF Accept, files
  <2>5. ASSUME NEW r \in Requests, Refuse(t, r)
        PROVE  WholeInv'
    BY <2>5, WholeKept DEF Refuse, files
  <2>6. QED
    BY <1>4, <2>1, <2>2, <2>3, <2>4, <2>5, OpenWhole, WriteWhole, ReplaceWhole DEF Handle
<1>5. QED
  BY <1>1, <1>2, <1>3, <1>4 DEF Next

LEMMA InitWhole == Init => WholeInv
<1> SUFFICES ASSUME Init PROVE WholeInv
  OBVIOUS
<1>1. ASSUME NEW k \in Kinds
      PROVE  FileOK(k)
  <2>1. disk[k] \in DocumentsOf(k) /\ DocumentLoads(k, disk[k])
    BY RequestsAssumption
       DEF Init, RequestsAssumption, Kinds, DocumentsOf, DocumentLoads
  <2>2. \A t \in Threads : ~Writes(t, k)
    BY DEF Init, Writes
  <2>3. QED
    BY <2>1, <2>2 DEF FileOK
<1>2. QED
  BY <1>1 DEF WholeInv

LEMMA WholeInvCorrect == Spec => [](TypeInv /\ WholeInv)
<1>1. Init => TypeInv /\ WholeInv
  BY InitTypes, InitWhole
<1>2. TypeInv /\ WholeInv /\ [Next]_vars => (TypeInv /\ WholeInv)'
  BY NextTypes, NextWhole
<1>3. QED
  BY <1>1, <1>2, PTL DEF Spec

\* A file that no two threads were saving at once holds a whole document that
\* loads, whatever failed or ended in between.
THEOREM WholeSaves == Spec => []SavesAreWhole
<1>1. WholeInv => SavesAreWhole
  BY NoDocument DEF WholeInv, FileOK, SavesAreWhole
<1>2. QED
  BY <1>1, WholeInvCorrect, PTL

-----------------------------------------------------------------------------
(* Permissions.                                                            *)

LEMMA StepPermitted ==
  ASSUME TypeInv, [Next]_vars, NEW k \in Kinds, disk'[k] # disk[k]
  PROVE  \E t \in Threads : Writes(t, k) /\ PermissionOver[k] \in held[t]
<1>1. PICK t \in Threads : Write(t) \/ Replace(t)
  BY DEF Next, vars, files, threadVars, history, Handle, Refresh, Restart, Load, Open,
         SaveFails, Reload, ReloadFails, Close, Accept, Refuse
<1>2. k = Saving(t)
  BY <1>1 DEF Write, Replace, TypeInv
<1>3. /\ pc[t] \in {"writing", "replacing"} /\ ThreadOK(t)
      /\ req[t] \in Requests /\ k \in Saved(req[t])
  BY <1>1, <1>2, SavingType DEF Write, Replace, TypeInv
<1>4. PermissionOver[k] \in RequiredPermissions(req[t])
  BY <1>3, RequestsByKind
<1>5. QED
  BY <1>2, <1>3, <1>4 DEF Writes, ThreadOK

\* A file changes only by the hand of a connection that was found to have the
\* permission over that document.
THEOREM PermissionsCorrect == Spec => ChangesArePermitted
<1>1. TypeInv /\ [Next]_vars =>
        [\A k \in Kinds :
           disk'[k] # disk[k] =>
             \E t \in Threads : Writes(t, k) /\ PermissionOver[k] \in held[t]]_vars
  BY StepPermitted
<1>2. QED
  BY <1>1, WholeInvCorrect, PTL DEF Spec, ChangesArePermitted

-----------------------------------------------------------------------------
(* Answers.                                                                *)

\* What a thread has saved and not answered for.
Pending(t, k) == Active(t) /\ k \in Saved(req[t]) \ left[t]

\* Of one document, as long as nothing went wrong: it is what was agreed on, or
\* what one thread has saved that has yet to answer.
StoryOK(k) ==
  /\ (\A t \in Threads : ~Pending(t, k)) => disk[k] = agreed[k] /\ live[k] = agreed[k]
  /\ \A t \in Threads : Pending(t, k) => disk[k] = draft[t][k]
  /\ \A t, u \in Threads : Pending(t, k) /\ Pending(u, k) => t = u

Smooth == ~overtaken /\ ~partial /\ collided = {}

AnswersInv == Smooth => \A k \in Kinds : StoryOK(k)

\* The gateway that looks at a whole file has what the file has.
LEMMA LookOK ==
  ASSUME TypeInv, WholeInv, collided = {}, NEW K \in SUBSET Kinds, NEW k \in Kinds
  PROVE  Reloaded(K)[k] = IF k \in K THEN disk[k] ELSE live[k]
<1>1. FileOK(k)
  BY DEF WholeInv
<1>2. Refreshed(k) = disk[k]
  BY <1>1, RefreshedType DEF FileOK, TypeInv, FilesOK
<1>3. QED
  BY <1>2 DEF Reloaded

\* A step that leaves the file alone, and what is pending.
LEMMA StoryKept ==
  ASSUME NEW k \in Kinds, StoryOK(k), disk'[k] = disk[k], agreed'[k] = agreed[k],
         live'[k] \in {live[k], disk[k]},
         \A t \in Threads : Pending(t, k)' <=> Pending(t, k),
         \A t \in Threads : Pending(t, k) => draft'[t][k] = draft[t][k]
  PROVE  StoryOK(k)'
BY DEF StoryOK

\* A thread that has nothing pending before and after, while the others stay.
LEMMA QuietStory ==
  ASSUME TypeInv, AnswersInv, Smooth' => Smooth, disk' = disk, agreed' = agreed,
         Smooth => \A k \in Kinds : live'[k] \in {live[k], disk[k]},
         \A t \in Threads :
           \/ /\ pc'[t] = pc[t] /\ req'[t] = req[t]
              /\ left'[t] = left[t] /\ draft'[t] = draft[t]
           \/ /\ \A k \in Kinds : ~Pending(t, k)
              /\ \A k \in Kinds : ~Pending(t, k)'
  PROVE  AnswersInv'
<1>1. ASSUME Smooth', NEW k \in Kinds
      PROVE  StoryOK(k)'
  <2>1. Smooth /\ StoryOK(k)
    BY <1>1 DEF AnswersInv
  <2>2. \A t \in Threads : Pending(t, k)' <=> Pending(t, k)
    BY DEF Pending, Active
  <2>3. \A t \in Threads : Pending(t, k) => draft'[t][k] = draft[t][k]
    OBVIOUS
  <2>4. QED
    BY <2>1, <2>2, <2>3, StoryKept
<1>2. QED
  BY <1>1 DEF AnswersInv

LEMMA ArriveStory ==
  ASSUME TypeInv, WholeInv, AnswersInv, NEW t \in Threads, NEW r \in Requests,
         Accept(t, r) \/ Refuse(t, r)
  PROVE  AnswersInv'
<1>1. Arrive(t, r) /\ live' = Reloaded(Kinds)
  BY DEF Accept, Refuse, Arrive, Reloaded
<1>2. Smooth => \A k \in Kinds : live'[k] \in {live[k], disk[k]}
  BY <1>1, LookOK DEF Smooth
<1>3. Smooth' => Smooth
  BY DEF Smooth, Accept, Refuse
<1>4. ASSUME NEW u \in Threads, u # t
      PROVE  /\ pc'[u] = pc[u] /\ req'[u] = req[u]
             /\ left'[u] = left[u] /\ draft'[u] = draft[u]
  BY <1>4 DEF Accept, Refuse, Go, TypeInv
<1>5. ~Active(t) /\ ~Active(t)'
  BY <1>1 DEF Arrive, Accept, Refuse, Go, TypeInv, Active
<1>6. QED
  BY <1>2, <1>3, <1>4, <1>5, QuietStory DEF Pending, Accept, Refuse, files

LEMMA LoadStory ==
  ASSUME TypeInv, AnswersInv, NEW t \in Threads, Load(t)
  PROVE  AnswersInv'
<1>1. Smooth' <=> Smooth
  BY DEF Smooth, Load, history
<1>2. ASSUME NEW u \in Threads, u # t
      PROVE  /\ pc'[u] = pc[u] /\ req'[u] = req[u]
             /\ left'[u] = left[u] /\ draft'[u] = draft[u]
  BY <1>2 DEF Load, Finish, Go, TypeInv
<1>3. ~Active(t) /\ \A k \in Kinds : ~Pending(t, k)'
  BY DEF Load, Finish, Go, TypeInv, Active, Pending
<1>4. QED
  BY <1>1, <1>2, <1>3, QuietStory DEF Pending, Load, history

LEMMA OpenStory ==
  ASSUME TypeInv, AnswersInv, NEW t \in Threads, Open(t)
  PROVE  AnswersInv'
<1>1. ASSUME Smooth', NEW k \in Kinds
      PROVE  StoryOK(k)'
  <2>1. collided' = {} => collided = {}
    BY DEF Open
  <2>2. StoryOK(k)
    BY <1>1, <2>1 DEF Smooth, AnswersInv, Open
  <2>3. \A u \in Threads : Pending(u, k)' <=> Pending(u, k)
    BY DEF Open, Go, TypeInv, Pending, Active
  <2>4. QED
    BY <2>2, <2>3, StoryKept DEF Open
<1>2. QED
  BY <1>1 DEF AnswersInv

LEMMA WriteStory ==
  ASSUME TypeInv, WholeInv, AnswersInv, NEW t \in Threads, Write(t)
  PROVE  AnswersInv'
<1>1. ASSUME Smooth', NEW k \in Kinds
      PROVE  StoryOK(k)'
  <2>1. StoryOK(k) /\ collided = {}
    BY <1>1 DEF Smooth, AnswersInv, Write, history
  <2>2. Saving(t) \in Kinds /\ Writes(t, Saving(t)) /\ pc[t] = "writing"
    BY SavingType DEF Write, Writes
  <2>3. file[t] = "temp"
    BY <2>1, <2>2 DEF WholeInv, FileOK
  <2>4. disk' = disk
    BY <2>3 DEF Write
  <2>5. \A u \in Threads : Pending(u, k)' <=> Pending(u, k)
    BY DEF Write, Go, TypeInv, Pending, Active
  <2>6. QED
    BY <2>1, <2>4, <2>5, StoryKept DEF Write, history
<1>2. QED
  BY <1>1 DEF AnswersInv

\* The document is the thread's own from now on, and nobody else's.
LEMMA ReplaceStory ==
  ASSUME TypeInv, WholeInv, AnswersInv, NEW t \in Threads, Replace(t)
  PROVE  AnswersInv'
<1>0. PICK j \in Kinds : j = Saving(t)
  BY SavingType DEF Replace
<1>1. /\ j \in left[t] /\ left[t] \subseteq Saved(req[t]) /\ j \in Saved(req[t])
      /\ Active(t)
  BY <1>0, SavingType DEF Replace, TypeInv, ThreadOK
<1>2. /\ Active(t)' /\ left'[t] = left[t] \ {j} /\ req' = req /\ draft' = draft
      /\ agreed' = agreed /\ live' = live
      /\ \A k \in Kinds \ {j} : disk'[k] = disk[k]
      /\ \A u \in Threads \ {t} : pc'[u] = pc[u] /\ left'[u] = left[u]
  BY <1>0 DEF Replace, Go, TypeInv, Active
<1>3. ASSUME Smooth', NEW k \in Kinds
      PROVE  StoryOK(k)'
  <2>1. Smooth /\ StoryOK(k)
    BY <1>3 DEF Smooth, AnswersInv, Replace
  <2>2. CASE k # j
    <3>1. \A u \in Threads : Pending(u, k)' <=> Pending(u, k)
      BY <1>1, <1>2, <2>2 DEF Pending, Active
    <3>2. QED
      BY <1>2, <2>1, <2>2, <3>1, StoryKept
  <2>3. CASE k = j
    <3>1. disk'[k] = draft'[t][k]
      BY <1>0, <1>2, <2>1, <2>3, ReplaceWhole DEF Smooth
    <3>2. ASSUME NEW u \in Threads, u # t
          PROVE  ~Pending(u, k)'
      <4>1. pc[u] \in {"idle", "loading"} \/ k \notin Saved(req[u])
        BY <1>0, <1>3, <2>3, <3>2 DEF Smooth, Replace
      <4>2. QED
        BY <1>2, <3>2, <4>1 DEF Pending, Active
    <3>3. Pending(t, k)'
      BY <1>1, <1>2, <2>3 DEF Pending
    <3>4. QED
      BY <3>1, <3>2, <3>3 DEF StoryOK
  <2>4. QED
    BY <2>2, <2>3
<1>4. QED
  BY <1>3 DEF AnswersInv

LEMMA SaveFailsStory ==
  ASSUME TypeInv, AnswersInv, NEW t \in Threads, SaveFails(t)
  PROVE  AnswersInv'
<1>1. ASSUME Smooth', NEW k \in Kinds
      PROVE  StoryOK(k)'
  <2>1. Smooth /\ StoryOK(k)
    BY <1>1 DEF Smooth, AnswersInv, SaveFails
  <2>2. left[t] = Saved(req[t])
    BY <1>1 DEF Smooth, SaveFails
  <2>3. ~Pending(t, k) /\ ~Pending(t, k)'
    BY <2>2 DEF SaveFails, Finish, Go, TypeInv, Pending, Active
  <2>4. ASSUME NEW u \in Threads, u # t
        PROVE  /\ Pending(u, k)' <=> Pending(u, k)
               /\ draft'[u] = draft[u]
    BY <2>4 DEF SaveFails, Finish, Go, TypeInv, Pending, Active
  <2>5. QED
    BY <2>1, <2>3, <2>4, StoryKept DEF SaveFails
<1>2. QED
  BY <1>1 DEF AnswersInv

\* The administrator is told of what the file and the gateway have.
LEMMA ReloadStory ==
  ASSUME TypeInv, WholeInv, AnswersInv, NEW t \in Threads, Reload(t)
  PROVE  AnswersInv'
<1>1. ThreadOK(t) /\ pc[t] = "reloading" /\ Active(t)
  BY DEF TypeInv, Reload, Active
<1>2. req[t] \in Requests /\ left[t] = {}
  BY <1>1 DEF ThreadOK
<1>3. Loaded(req[t]) \in SUBSET Kinds /\ Saved(req[t]) \subseteq Loaded(req[t])
  BY <1>2, LoadedType
<1>4. ASSUME Smooth', NEW k \in Kinds
      PROVE  StoryOK(k)'
  <2>1. Smooth /\ StoryOK(k)
    BY <1>4 DEF Smooth, AnswersInv, Reload
  <2>2. live'[k] = IF k \in Loaded(req[t]) THEN disk[k] ELSE live[k]
    BY <1>3, <2>1, LookOK DEF Reload, Smooth
  <2>3. ~Pending(t, k)'
    BY DEF Reload, Finish, Go, TypeInv, Pending, Active
  <2>4. ASSUME NEW u \in Threads, u # t
        PROVE  /\ Pending(u, k)' <=> Pending(u, k)
               /\ draft'[u] = draft[u]
    BY <2>4 DEF Reload, Finish, Go, TypeInv, Pending, Active
  <2>5. disk' = disk /\ agreed'[k] = IF k \in Saved(req[t]) THEN draft[t][k] ELSE agreed[k]
    BY DEF Reload
  <2>6. CASE k \in Saved(req[t])
    <3>1. Pending(t, k)
      BY <1>1, <1>2, <2>6 DEF Pending
    <3>2. disk[k] = draft[t][k] /\ \A u \in Threads \ {t} : ~Pending(u, k)
      BY <2>1, <3>1 DEF StoryOK
    <3>3. disk'[k] = agreed'[k] /\ live'[k] = agreed'[k]
      BY <1>3, <2>2, <2>5, <2>6, <3>2
    <3>4. \A u \in Threads : ~Pending(u, k)'
      BY <2>3, <2>4, <3>2
    <3>5. QED
      BY <3>3, <3>4 DEF StoryOK
  <2>7. CASE k \notin Saved(req[t])
    <3>1. ~Pending(t, k)
      BY <2>7 DEF Pending
    <3>2. QED
      BY <2>1, <2>2, <2>3, <2>4, <2>5, <2>7, <3>1, StoryKept
  <2>8. QED
    BY <2>6, <2>7
<1>5. QED
  BY <1>4 DEF AnswersInv

LEMMA RestartStory ==
  ASSUME TypeInv, WholeInv, AnswersInv, Restart
  PROVE  AnswersInv'
<1>1. ASSUME Smooth', NEW k \in Kinds
      PROVE  StoryOK(k)'
  <2>1. Smooth /\ StoryOK(k)
    BY <1>1 DEF Smooth, AnswersInv, Restart
  <2>2. ASSUME NEW t \in Threads
        PROVE  ~Pending(t, k) /\ ~Pending(t, k)'
    <3>1. pc[t] \in {"idle", "loading"} \/ left[t] = Saved(req[t])
      BY <1>1 DEF Smooth, Restart
    <3>2. pc'[t] = "idle"
      BY DEF Restart
    <3>3. QED
      BY <3>1, <3>2 DEF Pending, Active
  <2>3. live'[k] = disk[k]
    BY <2>1, LookOK DEF Restart, Smooth
  <2>4. QED
    BY <2>1, <2>2, <2>3, StoryKept DEF Restart
<1>2. QED
  BY <1>1 DEF AnswersInv

LEMMA NextStory ==
  ASSUME TypeInv, WholeInv, AnswersInv, [Next]_vars
  PROVE  AnswersInv'
<1>1. CASE UNCHANGED vars
  <2>1. UNCHANGED <<disk, agreed, live, pc, req, left, draft, overtaken, partial, collided>>
    BY <1>1 DEF vars, files, threadVars, history
  <2>2. QED
    BY <2>1, QuietStory DEF Smooth
<1>2. CASE Refresh
  <2>1. /\ UNCHANGED <<disk, agreed, pc, req, left, draft, overtaken, partial, collided>>
        /\ live' = Reloaded(Kinds)
    BY <1>2 DEF Refresh, Reloaded, files, threadVars, history
  <2>2. Smooth => \A k \in Kinds : live'[k] \in {live[k], disk[k]}
    BY <2>1, LookOK DEF Smooth
  <2>3. QED
    BY <2>1, <2>2, QuietStory DEF Smooth
<1>3. ASSUME NEW t \in Threads, Handle(t)
      PROVE  AnswersInv'
  <2>1. CASE Close(t)
    <3>1. UNCHANGED <<disk, agreed, live, pc, req, left, draft, overtaken, partial, collided>>
      BY <2>1 DEF Close, files, history
    <3>2. QED
      BY <3>1, QuietStory DEF Smooth
  <2>2. CASE ReloadFails(t)
    BY <2>2 DEF ReloadFails, AnswersInv, Smooth
  <2>3. QED
    BY <1>3, <2>1, <2>2, ArriveStory, LoadStory, OpenStory, WriteStory, ReplaceStory,
       SaveFailsStory, ReloadStory
       DEF Handle
<1>4. QED
  BY <1>1, <1>2, <1>3, RestartStory DEF Next

LEMMA InitStory == Init => AnswersInv
<1> SUFFICES ASSUME Init, NEW k \in Kinds PROVE StoryOK(k)
  BY DEF AnswersInv
<1>1. \A t \in Threads : ~Pending(t, k)
  BY DEF Init, Pending, Active
<1>2. QED
  BY <1>1 DEF Init, StoryOK

\* An administrator who is told that a change is saved finds it in the file and in
\* what the gateway serves, and one who is told that it is not finds the file as it
\* was, unless saves overlapped or a request failed after it had saved.
THEOREM AnswersCorrect == Spec => []AnswersTellTheTruth
<1>1. TypeInv /\ AnswersInv => AnswersTellTheTruth
  <2> SUFFICES ASSUME TypeInv, AnswersInv, Idle, Smooth
               PROVE  disk = agreed /\ live = agreed
    BY DEF AnswersTellTheTruth, Smooth
  <2>1. ASSUME NEW k \in Kinds
        PROVE  disk[k] = agreed[k] /\ live[k] = agreed[k]
    <3>1. StoryOK(k)
      BY DEF AnswersInv
    <3>2. \A t \in Threads : ~Pending(t, k)
      BY DEF Idle, Pending, Active
    <3>3. QED
      BY <3>1, <3>2 DEF StoryOK
  <2>2. QED
    BY <2>1 DEF TypeInv
<1>2. Spec => []AnswersInv
  BY InitStory, NextStory, WholeInvCorrect, PTL DEF Spec
<1>3. QED
  BY <1>1, <1>2, WholeInvCorrect, PTL

-----------------------------------------------------------------------------
(* What an edit leaves of references and of other routes.                  *)

LEMMA EditsClear ==
  ASSUME NEW doc \in Documents, NEW r \in Requests, NEW new \in ConfigEdits(doc, r)
  PROVE  NothingDangles(doc, new, r)
<1>1. new \in Edited(doc, r)
  BY DEF ConfigEdits
<1>2. CASE r.op = "delete_service"
  <2>1. r \in ServiceDeletions /\ new \in DeleteService(doc, r)
    BY <1>1, <1>2, RequestForms DEF Edited
  <2>2. /\ \A c \in new.clients :
             \E d \in Clients :
               /\ c.services = d.services \ {r.name}
               /\ c.endpoints = d.endpoints \ ({r.name} \X Labels)
        /\ \A x \in new.routes :
             \E y \in Routes : x.targets = y.targets \ ({r.name} \X Labels)
    BY <2>1, DeleteServiceLeaves
  <2>3. \A c \in new.clients : r.name \notin c.services
    BY <2>2
  <2>4. ASSUME NEW ref \in Referred(new)
        PROVE  ref[1] # r.name
    <3>1. ref \in References \ ({r.name} \X Labels)
      BY <2>2 DEF Referred, Clients, Routes
    <3>2. QED
      BY <3>1 DEF References
  <2>5. QED
    BY <1>2, <2>3, <2>4 DEF NothingDangles
<1>3. CASE r.op = "delete_endpoint"
  <2> DEFINE deleted == {e \in doc.endpoints : e.service = r.service /\ e.name = r.name}
             gone == {r.service} \X ({r.name} \cup ({e.slug : e \in deleted} \ {None}))
  <2>1. r \in EndpointDeletions /\ new \in DeleteEndpoint(doc, r)
    BY <1>1, <1>3, RequestForms DEF Edited
  <2>2. /\ \A c \in new.clients :
             \E d \in Clients : c.endpoints = d.endpoints \ gone
        /\ \A x \in new.routes :
             \E y \in Routes : x.targets = y.targets \ gone
    BY <2>1, DeleteEndpointLeaves
  <2>3. ASSUME NEW ref \in Referred(new), ref[1] = r.service
        PROVE  /\ ref[2] # r.name
               /\ \A e \in doc.endpoints :
                    <<e.service, e.name>> = <<r.service, r.name>> => ref[2] # e.slug
    <3>1. ref \in References \ gone
      <4> HIDE DEF gone
      <4>1. \/ \E x \in new.routes : ref \in x.targets
            \/ \E c \in new.clients : ref \in c.endpoints
        BY DEF Referred
      <4>2. QED
        BY <2>2, <4>1 DEF Clients, Routes
    <3>2. ref = <<r.service, ref[2]>> /\ ref[2] # None
      BY <2>3, <3>1, DocumentAssumption DEF References
    <3>3. QED
      BY <3>1, <3>2
  <2>4. QED
    BY <1>3, <2>3 DEF NothingDangles
<1>4. CASE r.op = "delete_profile"
  <2>1. r \in ProfileDeletions /\ new \in DeleteProfile(doc, r)
    BY <1>1, <1>4, RequestForms DEF Edited
  <2>2. QED
    BY <1>4, <2>1, DeleteProfileLeaves DEF NothingDangles
<1>5. CASE r.op \notin {"delete_service", "delete_endpoint", "delete_profile"}
  BY <1>5 DEF NothingDangles
<1>6. QED
  BY <1>2, <1>3, <1>4, <1>5

SameEndpoints(doc, new) ==
  \/ new.endpoints = doc.endpoints
  \/ new.endpoints = {[e EXCEPT !.path = None] : e \in doc.endpoints}

\* A route is served alike by two documents that differ in neither profiles,
\* secured services nor the names of endpoints.
LEMMA ServedAlike ==
  ASSUME NEW doc \in Documents, NEW new \in Documents, NEW r,
         new.profiles = doc.profiles, new.secured = doc.secured, SameEndpoints(doc, new)
  PROVE  ServedRoute(new, r) = ServedRoute(doc, r)
<1>1. ASSUME NEW ref
      PROVE  Resolved(new, ref) # {} <=> Resolved(doc, ref) # {}
  <2>1. CASE new.endpoints = doc.endpoints
    BY <2>1 DEF Resolved
  <2>2. CASE new.endpoints = {[e EXCEPT !.path = None] : e \in doc.endpoints}
    <3>1. ASSUME NEW e \in doc.endpoints
          PROVE  LET f == [e EXCEPT !.path = None]
                 IN f.service = e.service /\ f.name = e.name /\ Slug(f) = Slug(e)
      BY DEF Documents, Endpoints, Slug
    <3> DEFINE Matches(e) == e.service = ref[1] /\ ref[2] \in {e.name, Slug(e)}
    <3>2. \A e \in doc.endpoints : Matches([e EXCEPT !.path = None]) <=> Matches(e)
      BY <3>1
    <3>3. /\ Resolved(new, ref) = {e \in new.endpoints : Matches(e)}
          /\ Resolved(doc, ref) = {e \in doc.endpoints : Matches(e)}
      BY DEF Resolved
    <3> HIDE DEF Matches
    <3>4. (\E f \in new.endpoints : Matches(f)) <=>
          (\E e \in doc.endpoints : Matches([e EXCEPT !.path = None]))
      BY <2>2
    <3>5. (\E f \in new.endpoints : Matches(f)) <=> (\E e \in doc.endpoints : Matches(e))
      BY <3>2, <3>4
    <3>6. QED
      BY <3>3, <3>5
  <2>3. QED
    BY <2>1, <2>2 DEF SameEndpoints
<1>2. LiveTargets(new, r) = LiveTargets(doc, r)
  BY <1>1 DEF LiveTargets
<1>3. QED
  BY <1>2 DEF ServedRoute

Others(doc, r) == {s \in ServedRoutes(doc) : s.slug \notin RoutesNamed(r)}

LEMMA ServedSlug ==
  ASSUME NEW doc, NEW x
  PROVE  ServedRoute(doc, x).slug = x.slug
BY DEF ServedRoute

\* Two documents that serve the same routes but for the ones that a request names.
LEMMA OthersAlike ==
  ASSUME NEW doc \in Documents, NEW new \in Documents, NEW r,
         new.profiles = doc.profiles, new.secured = doc.secured, SameEndpoints(doc, new),
         \A x : x.slug \notin RoutesNamed(r) =>
                  (x \in EnsuredRoutes(new) <=> x \in EnsuredRoutes(doc))
  PROVE  Others(new, r) = Others(doc, r)
<1>1. ASSUME NEW s
      PROVE  s \in Others(new, r) <=> s \in Others(doc, r)
  <2>1. \A d : s \in Others(d, r) <=>
          \E x \in EnsuredRoutes(d) : s = ServedRoute(d, x) /\ x.slug \notin RoutesNamed(r)
    BY ServedSlug DEF Others, ServedRoutes
  <2>2. \A x : ServedRoute(new, x) = ServedRoute(doc, x)
    BY ServedAlike
  <2>3. QED
    BY <2>1, <2>2
<1>2. QED
  BY <1>1

\* Endpoints without paths stand for no route.
LEMMA NoLegacy ==
  ASSUME NEW doc \in Documents, NEW new,
         new.endpoints = {[e EXCEPT !.path = None] : e \in doc.endpoints}
  PROVE  EnsuredRoutes(new) = new.routes
<1>1. \A e \in new.endpoints : e.path = None
  BY DEF Documents, Endpoints
<1>2. LegacyRoutes(new) = {}
  BY <1>1 DEF LegacyRoutes
<1>3. QED
  BY <1>2 DEF EnsuredRoutes

LEMMA EditsSpareOthers ==
  ASSUME NEW doc \in Documents, NEW r \in Requests, NEW new \in ConfigEdits(doc, r),
         r.op \in {"save_route", "delete_route", "save_client", "delete_client",
                   "save_settings"}
  PROVE  /\ Others(new, r) = Others(doc, r)
         /\ r.op = "delete_route" => \A s \in ServedRoutes(new) : s.slug # r.slug
<1>1. new \in Edited(doc, r)
  BY DEF ConfigEdits
<1>2. CASE r.op = "save_route"
  <2>1. r \in RouteForms /\ new \in SaveRoute(doc, r)
    BY <1>1, <1>2, RequestForms DEF Edited
  <2>2. /\ new \in Documents
        /\ new.profiles = doc.profiles /\ new.secured = doc.secured
        /\ new.endpoints = {[e EXCEPT !.path = None] : e \in doc.endpoints}
    BY <2>1, SaveRouteLeaves
  <2>3. PICK replaced :
          /\ new.routes = (EnsuredRoutes(doc) \ replaced) \cup {r.route}
          /\ \A x \in replaced : x.slug = Given(r.original, r.route.slug)
    BY <2>1, SaveRouteLeaves
  <2>4. RoutesNamed(r) = {r.original, r.route.slug}
    BY <1>2 DEF RoutesNamed
  <2>5. ASSUME NEW x, x.slug \notin RoutesNamed(r)
        PROVE  x \in new.routes <=> x \in EnsuredRoutes(doc)
    <3>1. x # r.route /\ x \notin replaced
      BY <2>3, <2>4, <2>5 DEF Given
    <3>2. QED
      BY <2>3, <3>1
  <2>6. EnsuredRoutes(new) = new.routes
    BY <2>2, NoLegacy
  <2>7. Others(new, r) = Others(doc, r)
    BY <2>2, <2>5, <2>6, OthersAlike DEF SameEndpoints
  <2>8. QED
    BY <1>2, <2>7
<1>3. CASE r.op = "delete_route"
  <2>1. r \in RouteDeletions /\ new \in DeleteRoute(doc, r)
    BY <1>1, <1>3, RequestForms DEF Edited
  <2>2. /\ new \in Documents
        /\ new.profiles = doc.profiles /\ new.secured = doc.secured
        /\ new.endpoints = {[e EXCEPT !.path = None] : e \in doc.endpoints}
        /\ new.routes = {x \in EnsuredRoutes(doc) : x.slug # r.slug}
    BY <2>1, DeleteRouteLeaves
  <2>3. RoutesNamed(r) = {r.slug}
    BY <1>3 DEF RoutesNamed
  <2>4. EnsuredRoutes(new) = new.routes
    BY <2>2, NoLegacy
  <2>5. \A x : x.slug \notin RoutesNamed(r) =>
                 (x \in EnsuredRoutes(new) <=> x \in EnsuredRoutes(doc))
    BY <2>2, <2>3, <2>4
  <2>6. Others(new, r) = Others(doc, r)
    BY <2>2, <2>5, OthersAlike DEF SameEndpoints
  <2>7. \A s \in ServedRoutes(new) : s.slug # r.slug
    BY <2>2, <2>4, ServedSlug DEF ServedRoutes
  <2>8. QED
    BY <2>6, <2>7
<1>4. CASE r.op \in {"save_client", "delete_client", "save_settings"}
  <2>1. /\ new \in Documents
        /\ new.routes = doc.routes /\ new.endpoints = doc.endpoints
        /\ new.profiles = doc.profiles /\ new.secured = doc.secured
    <3>1. CASE r.op = "save_client"
      BY <1>1, <3>1, RequestForms, SaveClientLeaves DEF Edited
    <3>2. CASE r.op = "delete_client"
      BY <1>1, <3>2, RequestForms, DeleteClientLeaves DEF Edited
    <3>3. CASE r.op = "save_settings"
      BY <1>1, <3>3, RequestForms, SaveSettingsLeaves DEF Edited
    <3>4. QED
      BY <1>4, <3>1, <3>2, <3>3
  <2>2. EnsuredRoutes(new) = EnsuredRoutes(doc)
    BY <2>1 DEF EnsuredRoutes, LegacyRoutes
  <2>3. Others(new, r) = Others(doc, r)
    BY <2>1, <2>2, OthersAlike DEF SameEndpoints
  <2>4. QED
    BY <1>4, <2>3
<1>5. QED
  BY <1>2, <1>3, <1>4

-----------------------------------------------------------------------------
(* A draft is an edit of the document that it replaces.                    *)

\* As long as nobody is overtaken, what a thread has yet to save is what its
\* request makes of the document that the file has now.
FreshOK(t, k) ==
  \A r \in Requests : Active(t) /\ k \in left[t] /\ req[t] = r =>
    draft[t][k] \in Outcomes(k, r)

FreshInv == ~overtaken => \A k \in Kinds \ collided, t \in Threads : FreshOK(t, k)

LEMMA OutcomesKept ==
  ASSUME NEW k, NEW r, disk'[k] = disk[k]
  PROVE  Outcomes(k, r)' = Outcomes(k, r)
BY DEF Outcomes, Applied, Whole, Readings, Loadable, DocumentLoads

\* A step that leaves a thread's draft and file alone, or gives it up.
LEMMA FreshKept ==
  ASSUME NEW k \in Kinds, NEW t \in Threads, FreshOK(t, k), disk'[k] = disk[k],
         Active(t)' /\ k \in left'[t] =>
           /\ Active(t) /\ k \in left[t]
           /\ req'[t] = req[t] /\ draft'[t] = draft[t]
  PROVE  FreshOK(t, k)'
<1>1. ASSUME NEW r \in Requests, Active(t)', k \in left'[t], req'[t] = r
      PROVE  draft'[t][k] \in Outcomes(k, r)'
  <2>1. draft[t][k] \in Outcomes(k, r)
    BY <1>1 DEF FreshOK
  <2>2. draft'[t][k] = draft[t][k]
    BY <1>1
  <2>3. QED
    BY <2>1, <2>2, OutcomesKept
<1>2. QED
  BY <1>1 DEF FreshOK

LEMMA LoadFresh ==
  ASSUME TypeInv, FreshInv, NEW t \in Threads, Load(t)
  PROVE  FreshInv'
<1>1. disk' = disk /\ overtaken' = overtaken /\ collided' = collided
  BY DEF Load, history
<1>2. ASSUME ~overtaken, NEW k \in Kinds \ collided, NEW u \in Threads
      PROVE  FreshOK(u, k)'
  <2>1. FreshOK(u, k)
    BY <1>2 DEF FreshInv
  <2>2. CASE u # t
    <3>1. /\ pc'[u] = pc[u] /\ req'[u] = req[u]
          /\ left'[u] = left[u] /\ draft'[u] = draft[u]
      BY <2>2 DEF Load, Finish, Go, TypeInv
    <3>2. QED
      BY <1>1, <2>1, <3>1, FreshKept DEF Active
  <2>3. CASE u = t /\ Finish(t)
    <3>1. ~Active(t)'
      BY <2>3 DEF Finish, Go, TypeInv, Active
    <3>2. QED
      BY <1>1, <2>1, <2>3, <3>1, FreshKept
  <2>4. ASSUME u = t, NEW new \in Drafts(req[t]), draft' = [draft EXCEPT ![t] = new],
               left' = [left EXCEPT ![t] = Saved(req[t])], req' = req
        PROVE  FreshOK(u, k)'
    <3>1. draft'[t] = new /\ left'[t] = Saved(req[t])
      BY <2>4 DEF TypeInv
    <3>2. pc[t] = "loading" /\ req[t] \in Requests
      BY DEF Load, TypeInv, ThreadOK
    <3>3. ASSUME NEW r \in Requests, r = req[t], k \in Saved(r)
          PROVE  draft'[t][k] \in Outcomes(k, r)'
      <4>1. draft'[t][k] \in Outcomes(k, r)
        BY <2>4, <3>1, <3>3, DraftsType
      <4>2. QED
        BY <1>1, <4>1, OutcomesKept
    <3>4. QED
      BY <2>4, <3>1, <3>3 DEF FreshOK
  <2>5. QED
    BY <2>2, <2>3, <2>4 DEF Load
<1>3. QED
  BY <1>1, <1>2 DEF FreshInv

LEMMA WriteFresh ==
  ASSUME TypeInv, WholeInv, FreshInv, NEW t \in Threads, Write(t)
  PROVE  FreshInv'
<1>0. PICK j \in Kinds : j = Saving(t)
  BY SavingType DEF Write
<1>1. overtaken' = overtaken /\ collided' = collided
  BY DEF Write, history
<1>2. ASSUME ~overtaken, NEW k \in Kinds \ collided, NEW u \in Threads
      PROVE  FreshOK(u, k)'
  <2>1. FreshOK(u, k)
    BY <1>2 DEF FreshInv
  <2>2. disk'[k] = disk[k]
    <3>1. CASE k # j
      BY <1>0, <3>1 DEF Write, TypeInv
    <3>2. CASE k = j
      <4>1. Writes(t, j) /\ pc[t] = "writing"
        BY <1>0 DEF Write, Writes
      <4>2. file[t] = "temp"
        BY <1>2, <3>2, <4>1 DEF WholeInv, FileOK
      <4>3. QED
        BY <4>2 DEF Write
    <3>3. QED
      BY <3>1, <3>2
  <2>3. /\ Active(u)' <=> Active(u)
        /\ req'[u] = req[u] /\ left'[u] = left[u] /\ draft'[u] = draft[u]
    BY DEF Write, Go, TypeInv, Active
  <2>4. QED
    BY <2>1, <2>2, <2>3, FreshKept
<1>3. QED
  BY <1>1, <1>2 DEF FreshInv

\* Whoever still had this document to save is overtaken.
LEMMA ReplaceFresh ==
  ASSUME TypeInv, FreshInv, NEW t \in Threads, Replace(t)
  PROVE  FreshInv'
<1>0. PICK j \in Kinds : j = Saving(t)
  BY SavingType DEF Replace
<1>1. /\ collided' = collided /\ req' = req /\ draft' = draft
      /\ left' = [left EXCEPT ![t] = @ \ {j}]
      /\ \A k \in Kinds \ {j} : disk'[k] = disk[k]
      /\ \A u \in Threads : Active(u)' <=> Active(u)
  BY <1>0 DEF Replace, Go, TypeInv, Active
<1>2. ASSUME ~overtaken', NEW k \in Kinds \ collided, NEW u \in Threads
      PROVE  FreshOK(u, k)'
  <2>1. ~overtaken /\ FreshOK(u, k)
    BY <1>2 DEF FreshInv, Replace
  <2>2. CASE k # j
    <3>1. left'[u] \subseteq left[u] /\ disk'[k] = disk[k]
      BY <1>1, <2>2 DEF TypeInv
    <3>2. QED
      BY <1>1, <2>1, <3>1, FreshKept
  <2>3. CASE k = j
    <3>1. ~(Active(u)' /\ k \in left'[u])
      <4>1. CASE u = t
        BY <1>1, <2>3, <4>1 DEF TypeInv
      <4>2. CASE u # t
        <5>1. ~Active(u) \/ k \notin Saved(req[u])
          BY <1>0, <1>2, <2>3, <4>2 DEF Replace, Active
        <5>2. left[u] \subseteq Saved(req[u]) \/ ~Active(u)
          BY DEF TypeInv, ThreadOK
        <5>3. QED
          BY <1>1, <4>2, <5>1, <5>2 DEF TypeInv
      <4>3. QED
        BY <4>1, <4>2
    <3>2. QED
      BY <3>1 DEF FreshOK
  <2>4. QED
    BY <2>2, <2>3
<1>3. QED
  BY <1>1, <1>2 DEF FreshInv

\* The other steps leave the files alone, and every draft or its thread's request.
LEMMA FreshElsewhere ==
  ASSUME FreshInv, disk' = disk, overtaken' = overtaken, collided \subseteq collided',
         \A u \in Threads :
           Active(u)' => /\ Active(u) /\ req'[u] = req[u]
                         /\ left'[u] = left[u] /\ draft'[u] = draft[u]
  PROVE  FreshInv'
<1>1. ASSUME ~overtaken, NEW k \in Kinds \ collided', NEW u \in Threads
      PROVE  FreshOK(u, k)'
  <2>1. FreshOK(u, k)
    BY <1>1 DEF FreshInv
  <2>2. QED
    BY <2>1, FreshKept
<1>2. QED
  BY <1>1 DEF FreshInv

LEMMA NextFresh ==
  ASSUME TypeInv, WholeInv, FreshInv, [Next]_vars
  PROVE  FreshInv'
<1>1. CASE UNCHANGED vars
  BY <1>1, FreshElsewhere DEF vars, files, threadVars, history, Active
<1>2. CASE Refresh
  BY <1>2, FreshElsewhere DEF Refresh, files, threadVars, history, Active
<1>3. CASE Restart
  <2>1. \A u \in Threads : ~Active(u)'
    BY <1>3 DEF Restart, Active
  <2>2. QED
    BY <1>3, <2>1, FreshElsewhere DEF Restart
<1>4. ASSUME NEW t \in Threads, Handle(t)
      PROVE  FreshInv'
  <2>1. CASE Open(t)
    <3>1. \A u \in Threads :
            Active(u)' => /\ Active(u) /\ req'[u] = req[u]
                          /\ left'[u] = left[u] /\ draft'[u] = draft[u]
      BY <2>1 DEF Open, Go, TypeInv, Active
    <3>2. collided \subseteq collided'
      BY <2>1 DEF Open
    <3>3. QED
      BY <2>1, <3>1, <3>2, FreshElsewhere DEF Open
  <2>2. CASE SaveFails(t) \/ Reload(t) \/ ReloadFails(t)
    <3>1. Finish(t) /\ disk' = disk /\ overtaken' = overtaken /\ collided' = collided
      BY <2>2 DEF SaveFails, Reload, ReloadFails
    <3>2. \A u \in Threads :
            Active(u)' => /\ Active(u) /\ req'[u] = req[u]
                          /\ left'[u] = left[u] /\ draft'[u] = draft[u]
      BY <3>1 DEF Finish, Go, TypeInv, Active
    <3>3. QED
      BY <3>1, <3>2, FreshElsewhere
  <2>3. CASE Close(t)
    BY <2>3, FreshElsewhere DEF Close, files, history, Active
  <2>4. ASSUME NEW r \in Requests, Accept(t, r)
        PROVE  FreshInv'
    <3>1. \A u \in Threads :
            Active(u)' => /\ Active(u) /\ req'[u] = req[u]
                          /\ left'[u] = left[u] /\ draft'[u] = draft[u]
      BY <2>4 DEF Accept, Go, TypeInv, Active
    <3>2. QED
      BY <2>4, <3>1, FreshElsewhere DEF Accept, files
  <2>5. ASSUME NEW r \in Requests, Refuse(t, r)
        PROVE  FreshInv'
    BY <2>5, FreshElsewhere DEF Refuse, files, Active
  <2>6. QED
    BY <1>4, <2>1, <2>2, <2>3, <2>4, <2>5, LoadFresh, WriteFresh, ReplaceFresh DEF Handle
<1>5. QED
  BY <1>1, <1>2, <1>3, <1>4 DEF Next

LEMMA FreshCorrect == Spec => []FreshInv
<1>1. Init => FreshInv
  BY DEF Init, FreshInv, FreshOK, Active
<1>2. QED
  BY <1>1, NextFresh, WholeInvCorrect, PTL DEF Spec

\* A configuration that nobody has overtaken is an edit of the one it replaces.
LEMMA ReplacesEdits ==
  ASSUME TypeInv, WholeInv, FreshInv, NEW t \in Threads, Replaces(t)
  PROVE  /\ req[t] \in Requests /\ disk["config"] \in Documents
         /\ req[t].op # "import" =>
              disk'["config"] \in ConfigEdits(disk["config"], req[t])
<1>1. /\ Replace(t) /\ Saving(t) = "config" /\ ~overtaken /\ "config" \notin collided
      /\ pc[t] = "replacing" /\ "config" \in Kinds
  BY DEF Replaces, Replace, Kinds
<1>2. req[t] \in Requests /\ "config" \in left[t] /\ Active(t)
  BY <1>1, SavingType
<1>3. disk["config"] \in Documents /\ Loads(disk["config"])
  BY <1>1 DEF WholeInv, FileOK, DocumentsOf, DocumentLoads
<1>4. disk'["config"] = draft[t]["config"]
  BY <1>1, ReplaceWhole
<1>5. draft[t]["config"] \in Outcomes("config", req[t])
  BY <1>1, <1>2 DEF FreshInv, FreshOK
<1>6. Readings("config", disk["config"]) = {disk["config"]}
  BY <1>1, <1>3, ReadingsType DEF TypeInv, FilesOK, DocumentsOf
<1>7. req[t].op # "import" =>
        draft[t]["config"] \in Edits("config", disk["config"], req[t])
  BY <1>5, <1>6 DEF Outcomes, Applied, Whole
<1>8. QED
  BY <1>2, <1>3, <1>4, <1>7 DEF Edits

\* What an administrator deletes is not referred to any more, by its name or by the
\* slug it had of its own, whatever the document had in it.
THEOREM DeletesCorrect == Spec => DeletesClearReferences
<1>1. ASSUME TypeInv, WholeInv, FreshInv, NEW t \in Threads, Replaces(t)
      PROVE  NothingDangles(disk["config"], disk'["config"], req[t])
  <2>1. CASE req[t].op = "import"
    BY <2>1 DEF NothingDangles
  <2>2. CASE req[t].op # "import"
    BY <1>1, <2>2, ReplacesEdits, EditsClear
  <2>3. QED
    BY <2>1, <2>2
<1>2. TypeInv /\ WholeInv /\ FreshInv =>
        [\A t \in Threads :
           Replaces(t) => NothingDangles(disk["config"], disk'["config"], req[t])]_vars
  BY <1>1
<1>3. QED
  BY <1>2, FreshCorrect, WholeInvCorrect, PTL DEF Spec, DeletesClearReferences

\* A change of a route, a client or the settings leaves every other route served as
\* it was, and a deleted route is not served any more.
THEOREM OtherRoutesCorrect == Spec => OtherRoutesStay
<1> DEFINE Spared(t) ==
      /\ Replaces(t)
      /\ req[t].op \in {"save_route", "delete_route", "save_client",
                        "delete_client", "save_settings"}
      => LET OthersThen(doc) ==
               {s \in ServedRoutes(doc) : s.slug \notin RoutesNamed(req[t])}
         IN /\ OthersThen(disk'["config"]) = OthersThen(disk["config"])
            /\ req[t].op = "delete_route" =>
                 \A s \in ServedRoutes(disk'["config"]) : s.slug # req[t].slug
<1>1. ASSUME TypeInv, WholeInv, FreshInv, NEW t \in Threads
      PROVE  Spared(t)
  <2> SUFFICES ASSUME Replaces(t),
                      req[t].op \in {"save_route", "delete_route", "save_client",
                                     "delete_client", "save_settings"}
               PROVE  /\ Others(disk'["config"], req[t]) = Others(disk["config"], req[t])
                      /\ req[t].op = "delete_route" =>
                           \A s \in ServedRoutes(disk'["config"]) : s.slug # req[t].slug
    BY DEF Others
  <2>1. QED
    BY <1>1, ReplacesEdits, EditsSpareOthers
<1>2. TypeInv /\ WholeInv /\ FreshInv => [\A t \in Threads : Spared(t)]_vars
  BY <1>1
<1>3. QED
  BY <1>2, FreshCorrect, WholeInvCorrect, PTL DEF Spec, OtherRoutesStay

-----------------------------------------------------------------------------
(* Serial edits.  What a thread saves is an edit of what is stored unless    *)
(* somebody raced, and a thread that is not at work has nothing to save.    *)

\* What is left to save changes for one thread.
LEMMA TodoOf ==
  ASSUME NEW t \in Threads, NEW left_t, todo'[t] = left_t,
         \A u \in Threads \ {t} :
           pc'[u] = pc[u] /\ req'[u] = req[u] /\ left'[u] = left[u]
  PROVE  todo' = [todo EXCEPT ![t] = left_t]
<1>1. \A u \in Threads \ {t} : todo'[u] = todo[u]
  BY DEF todo
<1>2. QED
  BY <1>1 DEF todo

LEMMA TodoKept ==
  ASSUME \A u \in Threads :
           /\ pc'[u] = "loading" <=> pc[u] = "loading"
           /\ req'[u] = req[u] /\ left'[u] = left[u]
  PROVE  todo' = todo
<1>1. \A u \in Threads : todo'[u] = todo[u]
  BY DEF todo
<1>2. QED
  BY <1>1 DEF todo

\* A request makes of a stored document what the file's readings let it make.
LEMMA OutcomesEdit ==
  ASSUME TypeInv, NEW k \in Kinds, NEW r, disk[k] \in DocumentsOf(k)
  PROVE  Outcomes(k, r) = EditOf(k, disk[k], r)
<1>1. disk[k] \in Contents(k)
  BY DEF TypeInv, FilesOK
<1>2. Readings(k, disk[k]) = {disk[k]}
  BY <1>1, ReadingsType
<1>3. QED
  BY <1>2 DEF Outcomes, EditOf

\* A whole document that loads is a sound one.
LEMMA SoundDocument ==
  ASSUME NEW k \in Kinds, NEW doc \in DocumentsOf(k), DocumentLoads(k, doc)
  PROVE  Sound(k, doc)
BY NoDocument DEF Sound

LEMMA SerialInit == Init => Serial!Init
<1> SUFFICES ASSUME Init
             PROVE  Serial!Init
  OBVIOUS
<1>1. collided = {} /\ WholeInv
  BY InitWhole DEF Init
<1>2. \A k \in Kinds : Sound(k, disk[k])
  BY <1>1, SoundDocument DEF WholeInv, FileOK
<1>3. disk = [k \in Kinds |-> disk[k]]
  BY DEF Init
<1>4. todo = [t \in Threads |-> {}]
  BY DEF Init, todo
<1>5. QED
  BY <1>1, <1>2, <1>3, <1>4 DEF Init, Serial!Init

LEMMA AcceptSerial ==
  ASSUME TypeInv, NEW t \in Threads, NEW r \in Requests, Accept(t, r)
  PROVE  Serial!Next
<1>1. Arrive(t, r) /\ pc[t] = "idle"
  BY DEF Accept, Arrive
<1>2. /\ held' = [held EXCEPT ![t] = held'[t]] /\ held'[t] \in SUBSET Permissions
      /\ RequiredPermissions(r) \subseteq held'[t]
  BY <1>1, ArriveType DEF Accept
<1>3. req[t] = None
  BY <1>1 DEF TypeInv, ThreadOK
<1>4. /\ req' = [req EXCEPT ![t] = r] /\ pc' = [pc EXCEPT ![t] = "loading"]
      /\ UNCHANGED <<disk, left, overtaken, collided>>
  BY DEF Accept, Go, files
<1>5. /\ pc'[t] = "loading" /\ req'[t] = r
      /\ \A u \in Threads \ {t} :
           pc'[u] = pc[u] /\ req'[u] = req[u] /\ left'[u] = left[u]
  BY <1>4 DEF TypeInv
<1>6. todo'[t] = Saved(r)
  BY <1>5 DEF todo
<1>7. todo' = [todo EXCEPT ![t] = Saved(r)]
  BY <1>5, <1>6, TodoOf
<1>8. Serial!Begin(t, r, held'[t])
  BY <1>2, <1>3, <1>4, <1>7 DEF Serial!Begin
<1>9. QED
  BY <1>2, <1>8 DEF Serial!Next

LEMMA RefuseSerial ==
  ASSUME TypeInv, NEW t \in Threads, NEW r \in Requests, Refuse(t, r)
  PROVE  Serial!Next
<1>1. Arrive(t, r) /\ pc[t] = "idle"
  BY DEF Refuse, Arrive
<1>2. held' = [held EXCEPT ![t] = held'[t]] /\ held'[t] \in SUBSET Permissions
  BY <1>1, ArriveType
<1>3. req[t] = None
  BY <1>1 DEF TypeInv, ThreadOK
<1>4. UNCHANGED <<disk, pc, req, left, overtaken, collided>>
  BY DEF Refuse, files
<1>5. todo' = todo
  BY <1>4, TodoKept
<1>6. Serial!Meet(t, held'[t])
  BY <1>2, <1>3, <1>4, <1>5 DEF Serial!Meet
<1>7. QED
  BY <1>2, <1>6 DEF Serial!Next

LEMMA CloseSerial ==
  ASSUME TypeInv, NEW t \in Threads, Close(t)
  PROVE  Serial!Next
<1>1. req[t] = None
  BY DEF Close, TypeInv, ThreadOK
<1>2. /\ held' = [held EXCEPT ![t] = None]
      /\ UNCHANGED <<disk, pc, req, left, overtaken, collided>>
  BY DEF Close, files, history
<1>3. todo' = todo
  BY <1>2, TodoKept
<1>4. Serial!Meet(t, None)
  BY <1>1, <1>2, <1>3 DEF Serial!Meet
<1>5. QED
  BY <1>4 DEF Serial!Next

\* Whatever the answer is, the request saves nothing more.
LEMMA FinishSerial ==
  ASSUME TypeInv, NEW t \in Threads, Finish(t), pc[t] # "idle",
         UNCHANGED <<disk, held, overtaken, collided>>
  PROVE  Serial!Next
<1>1. req[t] # None
  BY DEF TypeInv, ThreadOK
<1>2. /\ req' = [req EXCEPT ![t] = None] /\ left' = [left EXCEPT ![t] = {}]
      /\ pc' = [pc EXCEPT ![t] = "idle"]
  BY DEF Finish, Go
<1>3. /\ pc'[t] = "idle" /\ left'[t] = {}
      /\ \A u \in Threads \ {t} :
           pc'[u] = pc[u] /\ req'[u] = req[u] /\ left'[u] = left[u]
  BY <1>2 DEF TypeInv
<1>4. todo'[t] = {}
  BY <1>3 DEF todo
<1>5. todo' = [todo EXCEPT ![t] = {}]
  BY <1>3, <1>4, TodoOf
<1>6. Serial!End(t)
  BY <1>1, <1>2, <1>5 DEF Serial!End
<1>7. QED
  BY <1>6 DEF Serial!Next

LEMMA LoadSerial ==
  ASSUME TypeInv, NEW t \in Threads, Load(t)
  PROVE  Serial!Next \/ UNCHANGED Serial!vars
<1>1. pc[t] = "loading" /\ UNCHANGED <<disk, held, overtaken, collided>>
  BY DEF Load, history
<1>2. CASE Finish(t)
  BY <1>1, <1>2, FinishSerial
<1>3. CASE Go(t, "opening") /\ left' = [left EXCEPT ![t] = Saved(req[t])] /\ req' = req
  <2>1. /\ pc'[t] = "opening" /\ left'[t] = Saved(req[t])
        /\ \A u \in Threads \ {t} :
             pc'[u] = pc[u] /\ req'[u] = req[u] /\ left'[u] = left[u]
    BY <1>3 DEF Go, TypeInv
  <2>2. todo[t] = Saved(req[t])
    BY <1>1 DEF todo
  <2>3. todo'[t] = todo[t]
    BY <2>1, <2>2 DEF todo
  <2>4. todo' = [todo EXCEPT ![t] = todo[t]]
    BY <2>1, <2>3, TodoOf
  <2>5. todo' = todo
    BY <2>4 DEF todo
  <2>6. QED
    BY <1>1, <1>3, <2>5 DEF Serial!vars
<1>4. QED
  BY <1>2, <1>3 DEF Load

\* A second thread that opens the file collides with the first.
LEMMA OpenSerial ==
  ASSUME TypeInv, NEW t \in Threads, Open(t)
  PROVE  Serial!Next \/ UNCHANGED Serial!vars
<1>0. PICK k \in Kinds : k = Saving(t)
  BY SavingType DEF Open
<1>1. /\ pc[t] = "opening" /\ k \in left[t]
      /\ UNCHANGED <<disk, held, req, left, overtaken>>
  BY <1>0, SavingType DEF Open
<1>2. \A u \in Threads : pc'[u] = "loading" <=> pc[u] = "loading"
  BY <1>1 DEF Open, Go, TypeInv
<1>3. todo' = todo
  BY <1>1, <1>2, TodoKept
<1>4. CASE \E u \in Threads \ {t} : Writes(u, k)
  <2>1. PICK u \in Threads \ {t} : Writes(u, k)
    BY <1>4
  <2>2. pc[u] \in {"writing", "replacing"} /\ k = Saving(u)
    BY <2>1 DEF Writes
  <2>3. k \in left[u]
    BY <2>2, SavingType
  <2>4. k \in todo[u] /\ k \in todo[t]
    BY <1>1, <2>2, <2>3 DEF todo
  <2>5. collided' = collided \cup {k}
    BY <1>0, <1>4 DEF Open
  <2>6. Serial!Collide(t, k)
    BY <1>1, <1>3, <2>4, <2>5 DEF Serial!Collide
  <2>7. QED
    BY <2>6 DEF Serial!Next
<1>5. CASE ~\E u \in Threads \ {t} : Writes(u, k)
  <2>1. collided' = collided
    BY <1>0, <1>5 DEF Open
  <2>2. QED
    BY <1>1, <1>3, <2>1 DEF Serial!vars
<1>6. QED
  BY <1>4, <1>5

\* Only a file that two were saving at once is written where it is read.
LEMMA WriteSerial ==
  ASSUME TypeInv, WholeInv, NEW t \in Threads, Write(t)
  PROVE  Serial!Next \/ UNCHANGED Serial!vars
<1>0. PICK k \in Kinds : k = Saving(t)
  BY SavingType DEF Write
<1>1. pc[t] = "writing" /\ UNCHANGED <<held, req, left, overtaken, collided>>
  BY DEF Write, history
<1>2. \A u \in Threads : pc'[u] = "loading" <=> pc[u] = "loading"
  BY <1>1 DEF Write, Go, TypeInv
<1>3. todo' = todo
  BY <1>1, <1>2, TodoKept
<1>4. CASE disk' = disk
  BY <1>1, <1>3, <1>4 DEF Serial!vars
<1>5. CASE disk' # disk
  <2>1. file[t] = "disk"
    BY <1>5 DEF Write
  <2>2. k \in collided
    <3>1. SUFFICES ASSUME k \notin collided
                   PROVE  FALSE
      OBVIOUS
    <3>2. FileOK(k) /\ Writes(t, k)
      BY <1>0, <1>1, <3>1 DEF WholeInv, Writes
    <3>3. QED
      BY <1>1, <2>1, <3>2 DEF FileOK
  <2>3. PICK c : disk' = [disk EXCEPT ![k] = c]
    BY <1>0, <2>1 DEF Write
  <2>4. disk' = [disk EXCEPT ![k] = disk'[k]]
    BY <2>3 DEF TypeInv
  <2>5. Serial!Scribble(k)
    BY <1>1, <1>3, <2>2, <2>4 DEF Serial!Scribble
  <2>6. QED
    BY <2>5 DEF Serial!Next
<1>6. QED
  BY <1>4, <1>5

\* A document is replaced by an edit of itself, unless somebody raced.
LEMMA ReplaceSerial ==
  ASSUME TypeInv, WholeInv, FreshInv, NEW t \in Threads, Replace(t)
  PROVE  Serial!Next
<1>0. PICK k \in Kinds : k = Saving(t)
  BY SavingType DEF Replace
<1>1. /\ pc[t] = "replacing" /\ k \in left[t] /\ Active(t) /\ req[t] \in Requests
      /\ UNCHANGED <<held, req, collided>>
  BY <1>0, SavingType DEF Replace
<1>2. k \in todo[t] /\ todo[t] = left[t]
  BY <1>1 DEF todo
<1>3. disk' = [disk EXCEPT ![k] = disk'[k]]
  BY <1>0 DEF Replace, TypeInv
<1>4. ASSUME k \notin collided
      PROVE  /\ Sound(k, disk'[k])
             /\ ~overtaken => disk'[k] \in EditOf(k, disk[k], req[t])
  <2>1. disk'[k] = draft[t][k]
    BY <1>0, <1>4, ReplaceWhole
  <2>2. draft[t][k] \in DocumentsOf(k) /\ DocumentLoads(k, draft[t][k])
    BY <1>0, <1>1, SavingType
  <2>3. Sound(k, disk'[k])
    BY <2>1, <2>2, SoundDocument
  <2>4. ASSUME ~overtaken
        PROVE  disk'[k] \in EditOf(k, disk[k], req[t])
    <3>1. draft[t][k] \in Outcomes(k, req[t])
      BY <1>1, <1>4, <2>4 DEF FreshInv, FreshOK
    <3>2. disk[k] \in DocumentsOf(k)
      BY <1>4 DEF WholeInv, FileOK
    <3>3. QED
      BY <2>1, <3>1, <3>2, OutcomesEdit
  <2>5. QED
    BY <2>3, <2>4
<1>5. /\ pc'[t] # "loading" /\ left'[t] = left[t] \ {k}
      /\ \A u \in Threads \ {t} :
           pc'[u] = pc[u] /\ req'[u] = req[u] /\ left'[u] = left[u]
  BY <1>0, <1>1 DEF Replace, Go, TypeInv
<1>6. todo'[t] = todo[t] \ {k}
  BY <1>2, <1>5 DEF todo
<1>7. todo' = [todo EXCEPT ![t] = todo[t] \ {k}]
  BY <1>5, <1>6, TodoOf
<1> DEFINE late == \E u \in Threads \ {t} :
                     pc[u] \notin {"idle", "loading"} /\ k \in Saved(req[u])
<1>8. /\ late \in BOOLEAN /\ overtaken' = (overtaken \/ late)
      /\ late => Serial!Contended(t, k)
  <2>1. late \in BOOLEAN
    OBVIOUS
  <2>2. overtaken' = (overtaken \/ late)
    BY <1>0 DEF Replace
  <2>3. ASSUME NEW u \in Threads \ {t},
               pc[u] \notin {"idle", "loading"}, k \in Saved(req[u])
        PROVE  Serial!Contended(t, k)
    <3>1. req[u] # None
      BY <2>3 DEF TypeInv, ThreadOK
    <3>2. QED
      BY <2>3, <3>1 DEF Serial!Contended
  <2>4. QED
    BY <2>1, <2>2, <2>3
<1> HIDE DEF late
<1>9. Serial!Save(t, k)
  BY <1>1, <1>2, <1>3, <1>4, <1>7, <1>8 DEF Serial!Save
<1>10. QED
  BY <1>9 DEF Serial!Next

LEMMA RestartSerial ==
  ASSUME Restart
  PROVE  Serial!Next
<1>1. todo' = [t \in Threads |-> {}]
  BY DEF Restart, todo
<1>2. Serial!Crash
  BY <1>1 DEF Restart, Serial!Crash
<1>3. QED
  BY <1>2 DEF Serial!Next

\* Every step of the administration is a step of serial edits, or none.
LEMMA StepSerial ==
  ASSUME TypeInv, WholeInv, FreshInv, [Next]_vars
  PROVE  [Serial!Next]_(Serial!vars)
<1>1. CASE UNCHANGED vars \/ Refresh
  <2>1. UNCHANGED <<disk, pc, req, left, held, overtaken, collided>>
    BY <1>1 DEF vars, Refresh, files, threadVars, history
  <2>2. todo' = todo
    BY <2>1, TodoKept
  <2>3. QED
    BY <2>1, <2>2 DEF Serial!vars
<1>2. CASE Restart
  BY <1>2, RestartSerial
<1>3. ASSUME NEW t \in Threads, Handle(t)
      PROVE  [Serial!Next]_(Serial!vars)
  <2>1. CASE SaveFails(t) \/ Reload(t) \/ ReloadFails(t)
    <3>1. /\ Finish(t) /\ pc[t] # "idle"
          /\ UNCHANGED <<disk, held, overtaken, collided>>
      BY <2>1 DEF SaveFails, Reload, ReloadFails
    <3>2. QED
      BY <3>1, FinishSerial
  <2>2. CASE Load(t) \/ Open(t) \/ Write(t)
    BY <2>2, LoadSerial, OpenSerial, WriteSerial
  <2>3. CASE Replace(t)
    BY <2>3, ReplaceSerial
  <2>4. CASE Close(t)
    BY <2>4, CloseSerial
  <2>5. ASSUME NEW r \in Requests, Accept(t, r) \/ Refuse(t, r)
        PROVE  [Serial!Next]_(Serial!vars)
    BY <2>5, AcceptSerial, RefuseSerial
  <2>6. QED
    BY <1>3, <2>1, <2>2, <2>3, <2>4, <2>5 DEF Handle
<1>4. QED
  BY <1>1, <1>2, <1>3 DEF Next

\* The stored documents are what the requests make of them one after the other, for
\* every set of connections, requests and documents (config.py, security.py,
\* admin_ops.py, the form handlers of main.py).
THEOREM SerialCorrect == Spec => EditsAreSerial
<1>1. Spec => Serial!Spec
  BY SerialInit, StepSerial, WholeInvCorrect, FreshCorrect, PTL DEF Spec, Serial!Spec
<1>2. QED
  BY <1>1 DEF EditsAreSerial
=============================================================================
