--------------------------- MODULE Administration ---------------------------
(***************************************************************************)
(* Administrators change the two documents of a gateway whose state is     *)
(* kept in files (gateway/main.py, gateway/admin_ops.py, gateway/          *)
(* state_store.py): a connection's thread authenticates, loads the         *)
(* document, edits it, saves it and has the gateway load it again.  No     *)
(* lock spans these steps, and every save of a document writes the same    *)
(* temporary file before it is renamed.                                    *)
(*                                                                         *)
(* A file holds a whole document, or is Blank (opened for writing), or     *)
(* Garbled (written by two): no loader is assumed to read the last.        *)
(* How a reload installs a document step by step is in ConfigReload.       *)
(***************************************************************************)
EXTENDS ConfigDocument, SecurityDocument, Naturals

CONSTANTS
  Threads,        \* the threads of admin connections
  Requests,       \* what administrators ask for
  MaxRequests,    \* bound: requests in a behaviour
  FirstConfigs,   \* what the configuration file may hold at first
  FirstSecurity,  \* what the security file holds at first
  Blank, Garbled  \* what a file may hold that is no document

SettingsForms ==
  {r \in [op : {"save_settings"}, responses : Responses] :
     r.responses.mode = "profile" => r.responses.profile # None}

ServiceForms ==
  [op : {"save_service"}, original : Services \cup {None}, name : Services,
   bad : BOOLEAN]
ServiceDeletions == [op : {"delete_service"}, name : Services]

ClientForms ==
  [op : {"save_client"}, original : Labels \cup {None}, client : Clients,
   bad : BOOLEAN]
ClientDeletions == [op : {"delete_client"}, slug : Labels]

EndpointForms ==
  [op : {"save_endpoint"}, service : Services, original : Labels \cup {None},
   originalSlug : Labels \cup {None}, name : Labels, slug : Labels,
   profile : Labels \cup {None}, bad : BOOLEAN]
EndpointDeletions == [op : {"delete_endpoint"}, service : Services, name : Labels]

\* A form's route says itself whether it wants a client.
RouteForms ==
  [op : {"save_route"}, original : Labels \cup {None},
   route : {x \in Routes : x.auth # "inherited"}, bad : BOOLEAN]
RouteDeletions == [op : {"delete_route"}, slug : Labels]

ProfileForms ==
  [op : {"save_profile"}, original : Labels \cup {None}, slug : Labels,
   bad : BOOLEAN]
ProfileDeletions == [op : {"delete_profile"}, slug : Labels]

RoleForms ==
  [op : {"save_role"}, original : Roles \cup {Unnamed}, name : Roles,
   permissions : SUBSET Permissions]
RoleDeletions == [op : {"delete_role"}, name : Roles]

\* hashed: the form has a new password.
UserForms ==
  [op : {"save_user"}, original : Users \cup {Unnamed}, name : Users,
   roles : SUBSET Roles, enabled : BOOLEAN, hashed : BOOLEAN]
UserDeletions == [op : {"delete_user"}, name : Users]

ConfigScopes == {"config"} \cup Blocks
SecurityScopes == {"security", "roles", "users"}

\* The API that replaces the whole configuration is an import of its scope.
Imports ==
  [op : {"import"}, scope : ConfigScopes \cup SecurityScopes \cup {"full"},
   payload : Documents, security : SecurityDocuments]

RequestsAssumption ==
  /\ \A r \in Requests :
       r \in SettingsForms \cup ServiceForms \cup ServiceDeletions \cup ClientForms
               \cup ClientDeletions \cup EndpointForms \cup EndpointDeletions
               \cup RouteForms \cup RouteDeletions \cup ProfileForms
               \cup ProfileDeletions \cup RoleForms \cup RoleDeletions
               \cup UserForms \cup UserDeletions \cup Imports
  /\ MaxRequests \in Nat
  /\ \A doc \in FirstConfigs : doc \in Documents /\ Loads(doc)
  /\ None \notin Requests
  /\ None # Blank /\ None # Garbled /\ Blank # Garbled
  /\ \A content \in {Blank, Garbled} :
       content \notin Documents /\ content \notin SecurityDocuments
  /\ FirstSecurity \in SecurityDocuments /\ SecurityLoads(FirstSecurity)
ASSUME RequestsAssumption

VARIABLES
  disk,       \* what each of the two files holds
  temp,       \* what its temporary file holds; None when there is none
  live,       \* the documents the gateway serves
  held,       \* the permissions a connection has been found to have
  pc, req,    \* where the thread is with its connection's request
  draft,      \* what the thread saves
  left,       \* the documents it has yet to save
  file,       \* what its open file is: "temp", or what became of that file
  served,     \* requests so far
  agreed,     \* what the answers given so far say the files hold
  collided,   \* the files that two threads were saving at once
  overtaken,  \* another document was saved after a thread had loaded its own
  partial     \* a request failed that had saved something

files == <<disk, temp, file>>
threadVars == <<held, pc, req, draft, left>>
history == <<served, agreed, collided, overtaken, partial>>
vars == <<files, live, threadVars, history>>

Kinds == {"config", "security"}

\* What a loader may make of a file's content; an empty file is a document.
Readings(k, content) ==
  CASE content = Garbled -> {}
    [] content = Blank ->
         {IF k = "config" THEN EmptyDocument ELSE DefaultSecurity}
    [] OTHER -> {content}

DocumentLoads(k, doc) == IF k = "config" THEN Loads(doc) ELSE SecurityLoads(doc)

Loadable(k, content) == {doc \in Readings(k, content) : DocumentLoads(k, doc)}

\* Mutant of RequiredPermissions: a full import asks for one of the two.
RequiredPermissionsOfOne(r) ==
  IF \/ r.op \in {"save_role", "delete_role", "save_user", "delete_user"}
     \/ r.op = "import" /\ r.scope \in SecurityScopes
  THEN {"security_manage"} ELSE {"services_manage"}

\* What a path, and the scope of an import, ask of the connection's principal.
RequiredPermissions(r) ==
  CASE r.op \in {"save_role", "delete_role", "save_user", "delete_user"} ->
         {"security_manage"}
    [] r.op = "import" /\ r.scope \in SecurityScopes -> {"security_manage"}
    [] r.op = "import" /\ r.scope = "full" -> {"services_manage", "security_manage"}
    [] OTHER -> {"services_manage"}

\* The documents a request saves, the configuration first.
Saved(r) ==
  CASE r.op = "import" /\ r.scope = "full" -> Kinds
    [] RequiredPermissions(r) = {"security_manage"} -> {"security"}
    [] OTHER -> {"config"}

Edits(k, doc, r) == IF k = "config" THEN ConfigEdits(doc, r) ELSE SecurityEdits(doc, r)

Idle == \A t \in Threads : pc[t] = "idle"

Init ==
  /\ disk \in [Kinds -> FirstConfigs \cup {FirstSecurity}]
  /\ disk["config"] \in FirstConfigs /\ disk["security"] = FirstSecurity
  /\ temp = [k \in Kinds |-> None]
  /\ file = [t \in Threads |-> "none"]
  /\ live = disk
  /\ held = [t \in Threads |-> None]
  /\ pc = [t \in Threads |-> "idle"]
  /\ req = [t \in Threads |-> None]
  /\ draft = [t \in Threads |-> <<>>]
  /\ left = [t \in Threads |-> {}]
  /\ served = 0
  /\ agreed = disk
  /\ collided = {}
  /\ overtaken = FALSE
  /\ partial = FALSE

Go(t, to) == pc' = [pc EXCEPT ![t] = to]

\* The gateway notices a document that has changed, and keeps the one it has
\* when the file does not load.
Refreshed(k) ==
  IF Loadable(k, disk[k]) = {} THEN live[k]
  ELSE CHOOSE doc \in Loadable(k, disk[k]) : TRUE

\* Any request to the gateway makes it look.
Refresh ==
  /\ live' = [k \in Kinds |-> Refreshed(k)]
  /\ UNCHANGED <<files, threadVars, history>>

\* Who a new connection may be: a user of the document, the bootstrap
\* administrator or nobody.  A connection that has asked once keeps the answer.
Principals(t, security) ==
  IF held[t] # None THEN {held[t]}
  ELSE {PermissionsOf(security, u) : u \in Users} \cup {Permissions, {}}

\* A request arrives, the documents are looked at and its sender is known.
Arrive(t, r) ==
  /\ pc[t] = "idle"
  /\ served < MaxRequests
  /\ served' = served + 1
  /\ live' = [k \in Kinds |-> Refreshed(k)]
  /\ \E p \in Principals(t, live'["security"]) : held' = [held EXCEPT ![t] = p]

\* The settings form knows profiles by the document that is served.
KnownProfile(r) ==
  r.op = "save_settings" =>
    r.responses.profile \in live'["config"].profiles \cup {None}

Accept(t, r) ==
  /\ Arrive(t, r)
  /\ RequiredPermissions(r) \subseteq held'[t]
  /\ KnownProfile(r)
  /\ Go(t, "loading")
  /\ req' = [req EXCEPT ![t] = r]
  /\ UNCHANGED <<files, draft, left, agreed, collided, overtaken, partial>>

\* No session, no permission, or a form that is refused before it is used.
Refuse(t, r) ==
  /\ Arrive(t, r)
  /\ UNCHANGED <<files, pc, req, draft, left, agreed, collided, overtaken, partial>>

\* The handler has answered.
Finish(t) ==
  /\ Go(t, "idle")
  /\ req' = [req EXCEPT ![t] = None]
  /\ draft' = [draft EXCEPT ![t] = <<>>]
  /\ left' = [left EXCEPT ![t] = {}]
  /\ file' = [file EXCEPT ![t] = "none"]

\* Only an import of whole documents does not read the stored one.
Whole(r) == r.op = "import" /\ r.scope \in {"config", "security", "full"}

\* What a request makes of the documents that it may have read.
Applied(k, docs, r) ==
  UNION {Edits(k, doc, r) : doc \in IF Whole(r) THEN Loadable(k, Blank) ELSE docs}

\* Mutant of Outcomes: the document that is served is edited, not the stored one.
OutcomesServed(k, r) == Applied(k, {live[k]}, r)

\* What it reads is what is stored.
Outcomes(k, r) == Applied(k, Readings(k, disk[k]), r)

\* What a request saves; a full import has both its documents validated first.
Drafts(r) ==
  {new \in [Saved(r) -> UNION {Outcomes(k, r) : k \in Saved(r)}] :
     \A k \in Saved(r) : new[k] \in Outcomes(k, r)}

Load(t) ==
  /\ pc[t] = "loading"
  /\ \/ \E new \in Drafts(req[t]) :
          /\ Go(t, "opening")
          /\ draft' = [draft EXCEPT ![t] = new]
          /\ left' = [left EXCEPT ![t] = Saved(req[t])]
          /\ UNCHANGED <<req, file>>
     \/ /\ Drafts(req[t]) = {}
        /\ Finish(t)
  /\ UNCHANGED <<disk, temp, live, held, history>>

\* The document a thread is saving.
Saving(t) == IF "config" \in left[t] THEN "config" ELSE "security"

\* A thread that is between the opening of the temporary file and its renaming.
Writes(t, k) == pc[t] \in {"writing", "replacing"} /\ Saving(t) = k

\* The temporary file is made, or emptied.
Open(t) ==
  /\ pc[t] = "opening"
  /\ Go(t, "writing")
  /\ temp' = [temp EXCEPT ![Saving(t)] = Blank]
  /\ file' = [file EXCEPT ![t] = "temp"]
  /\ collided' = IF \E u \in Threads \ {t} : Writes(u, Saving(t))
                 THEN collided \cup {Saving(t)} ELSE collided
  /\ UNCHANGED <<disk, live, held, req, draft, left, served, agreed, overtaken, partial>>

\* A text on top of another: the longer one's end stays.
Overwritten(content, text) ==
  IF content \in {Blank, text} THEN {text} ELSE {text, Garbled}

\* The text is written to the file that was opened, whatever its name is by now.
Write(t) ==
  LET k == Saving(t)
  IN /\ pc[t] = "writing"
     /\ Go(t, "replacing")
     /\ file' = [file EXCEPT ![t] = "none"]
     /\ IF file[t] = "temp"
        THEN \E c \in Overwritten(temp[k], draft[t][k]) : temp' = [temp EXCEPT ![k] = c]
        ELSE temp' = temp
     /\ IF file[t] = "disk"
        THEN \E c \in Overwritten(disk[k], draft[t][k]) : disk' = [disk EXCEPT ![k] = c]
        ELSE disk' = disk
     /\ UNCHANGED <<live, held, req, draft, left, history>>

\* Whoever has the temporary file open has the document's file open now.
Renamed(k) ==
  [u \in Threads |->
     IF Saving(u) # k THEN file[u]
     ELSE CASE file[u] = "temp" -> "disk"
            [] file[u] = "disk" -> "gone"
            [] OTHER -> file[u]]

\* The temporary file takes the place of the document's.
Replace(t) ==
  LET k == Saving(t)
  IN /\ pc[t] = "replacing"
     /\ temp[k] # None
     /\ disk' = [disk EXCEPT ![k] = temp[k]]
     /\ temp' = [temp EXCEPT ![k] = None]
     /\ file' = Renamed(k)
     /\ left' = [left EXCEPT ![t] = @ \ {k}]
     /\ Go(t, IF left[t] = {k} THEN "reloading" ELSE "opening")
     /\ overtaken' =
          (overtaken \/ \E u \in Threads \ {t} :
             pc[u] \notin {"idle", "loading"} /\ k \in Saved(req[u]))
     /\ UNCHANGED <<live, held, req, draft, served, agreed, collided, partial>>

\* The temporary file is gone, or cannot be opened, written or renamed.
SaveFails(t) ==
  /\ pc[t] \in {"opening", "writing", "replacing"}
  /\ Finish(t)
  /\ partial' = (partial \/ left[t] # Saved(req[t]))
  /\ UNCHANGED <<disk, temp, live, held, served, agreed, collided, overtaken>>

\* What the handler has loaded again: an import loads both documents.
Loaded(r) == IF r.op = "import" THEN Kinds ELSE Saved(r)

\* Mutant of Reloaded: the gateway goes on with what it has.
ReloadedNothing(K) == live

Reloaded(K) == [k \in Kinds |-> IF k \in K THEN Refreshed(k) ELSE live[k]]

\* The gateway serves what the file holds, and the administrator is told so.
Reload(t) ==
  /\ pc[t] = "reloading"
  /\ \A k \in Loaded(req[t]) : Loadable(k, disk[k]) # {}
  /\ live' = Reloaded(Loaded(req[t]))
  /\ agreed' = [k \in Kinds |->
                  IF k \in Saved(req[t]) THEN draft[t][k] ELSE agreed[k]]
  /\ Finish(t)
  /\ UNCHANGED <<disk, temp, held, served, collided, overtaken, partial>>

\* What was saved cannot be loaded, or a part of the gateway does not take it.
ReloadFails(t) ==
  /\ pc[t] = "reloading"
  /\ \E K \in {{}, Loaded(req[t]) \cap {"config"}} : live' = Reloaded(K)
  /\ partial' = TRUE
  /\ Finish(t)
  /\ UNCHANGED <<disk, temp, held, served, agreed, collided, overtaken>>

\* The connection is closed; the next one is somebody else's.
Close(t) ==
  /\ pc[t] = "idle"
  /\ held' = [held EXCEPT ![t] = None]
  /\ UNCHANGED <<files, live, pc, req, draft, left, history>>

\* The process ends and is started again, with the files as they are.
Restart ==
  /\ \A k \in Kinds : Loadable(k, disk[k]) # {}
  /\ live' = Reloaded(Kinds)
  /\ held' = [t \in Threads |-> None]
  /\ pc' = [t \in Threads |-> "idle"]
  /\ req' = [t \in Threads |-> None]
  /\ draft' = [t \in Threads |-> <<>>]
  /\ left' = [t \in Threads |-> {}]
  /\ file' = [t \in Threads |-> "none"]
  /\ partial' = (partial \/ \E t \in Threads :
                   pc[t] \notin {"idle", "loading"} /\ left[t] # Saved(req[t]))
  /\ UNCHANGED <<disk, temp, served, agreed, collided, overtaken>>

Handle(t) ==
  \/ Load(t)
  \/ Open(t)
  \/ Write(t)
  \/ Replace(t)
  \/ SaveFails(t)
  \/ Reload(t)
  \/ ReloadFails(t)
  \/ Close(t)
  \/ \E r \in Requests : Accept(t, r) \/ Refuse(t, r)

Next == Refresh \/ Restart \/ \E t \in Threads : Handle(t)

Spec == Init /\ [][Next]_vars

-----------------------------------------------------------------------------
Steps == {"idle", "loading", "opening", "writing", "replacing", "reloading"}
Contents(k) ==
  {Blank, Garbled} \cup IF k = "config" THEN Documents ELSE SecurityDocuments

\* The types; a thread has a file open exactly while it writes, and a draft of
\* every document it has left to save.
TypeOK ==
  /\ pc \in [Threads -> Steps]
  /\ \A k \in Kinds :
       /\ disk[k] \in Contents(k)
       /\ temp[k] \in {None} \cup Contents(k)
       /\ live[k] \in Contents(k) \ {Blank, Garbled}
  /\ \A t \in Threads :
       /\ held[t] \in {None} \cup SUBSET Permissions
       /\ pc[t] = "idle" <=> req[t] = None
       /\ file[t] # "none" <=> pc[t] = "writing"
       /\ left[t] \subseteq DOMAIN draft[t]
       /\ pc[t] \in {"opening", "writing", "replacing"} <=> left[t] # {}
  /\ served \in 0 .. MaxRequests

\* A file that no two threads were saving at once holds a whole document that
\* loads, whatever failed or ended in between (config.py writes a temporary file
\* and renames it).
SavesAreWhole ==
  \A k \in Kinds \ collided :
    disk[k] \notin {Blank, Garbled} /\ DocumentLoads(k, disk[k])

\* An administrator who is told that a change is saved finds it in the file and
\* in what the gateway serves, and one who is told that it is not finds the file
\* as it was: unless somebody else saved at the same time, or a request failed
\* after it had saved (main.py, the form handlers and the import).
AnswersTellTheTruth ==
  Idle /\ ~overtaken /\ ~partial /\ collided = {} =>
    disk = agreed /\ live = agreed

PermissionOver ==
  [k \in Kinds |-> IF k = "config" THEN "services_manage" ELSE "security_manage"]

\* A file changes only by the hand of a connection that was found to have the
\* permission over that document, a full import's second document included
\* (main.py, _require_backup_scope_permissions).
ChangesArePermitted ==
  [][\A k \in Kinds :
       disk'[k] # disk[k] =>
         \E t \in Threads : Writes(t, k) /\ PermissionOver[k] \in held[t]]_vars

\* The configuration is replaced by a thread that nobody has overtaken.
Replaces(t) ==
  /\ Replace(t)
  /\ Saving(t) = "config"
  /\ ~overtaken /\ "config" \notin collided

Referred(doc) ==
  UNION ({r.targets : r \in doc.routes} \cup {c.endpoints : c \in doc.clients})

\* What is deleted is no longer referred to, by its name or by the slug it had
\* of its own (README.md, "Admin delete actions clear dependent client scopes,
\* route targets, and output-profile references").
NothingDangles(doc, new, r) ==
  CASE r.op = "delete_service" ->
         /\ \A ref \in Referred(new) : ref[1] # r.name
         /\ \A c \in new.clients : r.name \notin c.services
    [] r.op = "delete_endpoint" ->
         \A ref \in Referred(new) : ref[1] = r.service =>
           /\ ref[2] # r.name
           /\ \A e \in doc.endpoints :
                <<e.service, e.name>> = <<r.service, r.name>> => ref[2] # e.slug
    [] r.op = "delete_profile" ->
         /\ \A x \in new.endpoints \cup new.routes : x.profile # r.slug
         /\ new.responses.profile # r.slug
    [] OTHER -> TRUE

DeletesClearReferences ==
  [][\A t \in Threads :
       Replaces(t) => NothingDangles(disk["config"], disk'["config"], req[t])]_vars

\* The slugs of the routes that a request is about.
RoutesNamed(r) ==
  CASE r.op = "save_route" -> {r.original, r.route.slug}
    [] r.op = "delete_route" -> {r.slug}
    [] OTHER -> {}

\* A change of a route, a client, a profile's content or the gateway's settings
\* leaves every other route served as it was, also when it turns the endpoints'
\* own paths into routes; and a deleted route is not served under an endpoint's
\* own path again (admin_ops.py, _ensure_explicit_routes_block).
OtherRoutesStay ==
  [][\A t \in Threads :
       /\ Replaces(t)
       /\ req[t].op \in {"save_route", "delete_route", "save_client",
                         "delete_client", "save_settings"}
       => LET Others(doc) ==
                {s \in ServedRoutes(doc) : s.slug \notin RoutesNamed(req[t])}
          IN /\ Others(disk'["config"]) = Others(disk["config"])
             /\ req[t].op = "delete_route" =>
                  \A s \in ServedRoutes(disk'["config"]) : s.slug # req[t].slug]_vars

-----------------------------------------------------------------------------
(* What it implements.                                                     *)

\* What a thread's request may still save.
todo == [t \in Threads |-> IF pc[t] = "loading" THEN Saved(req[t]) ELSE left[t]]

EditOf(k, doc, r) == Applied(k, {doc}, r)
Sound(k, doc) == doc \notin {Blank, Garbled} /\ DocumentLoads(k, doc)

Serial == INSTANCE SerialEdits WITH
  Actors <- Threads, Rights <- Permissions, Needs <- RequiredPermissions,
  Scope <- Saved, Edited <- EditOf, Sound <- Sound, document <- disk,
  asked <- req, rights <- held, raced <- overtaken, broken <- collided

\* The stored documents are what the requests make of them one after the other,
\* each about the document that is stored when it is replaced and for a connection
\* that may, as long as nobody saves the same document meanwhile; no request saves
\* a document twice, and one that fails or ends with the process saves the rest of
\* its documents no more (config.py, security.py, admin_ops.py, the form handlers).
EditsAreSerial == Serial!Spec

=============================================================================
