------------------------------ MODULE Gatekeeper ------------------------------
(***************************************************************************)
(* What happens to a proxied request before its upstream is called         *)
(* (gateway/runtime.py, handle_proxy to _execute_target): a route is       *)
(* matched and a target selected, a client is looked for by its            *)
(* credentials, and the hooks of the target run.  The configuration is     *)
(* read piece by piece on the way and may be replaced between two pieces.  *)
(* Scripts of external services and hooks keep what they find in a cache   *)
(* that every reload empties.                                              *)
(*                                                                         *)
(* A target is <<service, endpoint>>.  Every way to present a secret       *)
(* (api_key, bearer, basic, header_key) is one here: the request presents  *)
(* it or not.  What scripts decide and which variables hooks set is theirs.*)
(***************************************************************************)
EXTENDS Naturals, Sequences, FiniteSets, SequencesExt

CONSTANTS
  Threads,      \* the threads that serve requests
  Configs,      \* names of the documents that may be installed
  Document,     \* what they say: routes, endpoints, clients
  FirstConfig,
  Asks,         \* the requests
  Secrets,      \* what clients are known by
  Variables,    \* what hooks set
  Hooks,        \* which hooks a route has, and the variables that each sets
  None,
  MaxVersion,   \* bound: documents installed
  MaxAsks,      \* bound: requests in a behaviour
  MaxTokens     \* bound: tokens issued

Targets == STRING \X STRING

\* type "secret": known by presenting it; "oauth": by a token signed with it;
\* "external": by a script, whose verdict is kept when cached.
Methods ==
  [code : STRING, type : {"secret", "oauth", "external"}, enabled : BOOLEAN,
   secret : Secrets \cup {None}, cached : BOOLEAN]

Clients ==
  [code : STRING, enabled : BOOLEAN, scope : SUBSET Targets, allowed : SUBSET STRING,
   methods : Seq(Methods)]

\* hooks: the variables that the hook of a service, of the route or of a target may
\* set, by the hook's default cache key; keeps: whether they are cached.
Routes ==
  [slug : STRING, paths : SUBSET STRING, protected : BOOLEAN, rotates : BOOLEAN,
   targets : Seq(Targets), keeps : BOOLEAN, hooks : Hooks]

ASSUME GatekeeperAssumption ==
  /\ FirstConfig \in Configs
  /\ None \notin Asks
  /\ Document \in [Configs -> [routes : Seq(Routes), endpoints : SUBSET Targets,
                              clients : Seq(Clients)]]
  /\ {MaxVersion, MaxAsks, MaxTokens} \subseteq Nat

\* A route that rotates lists each target once and shares its slug with no other
\* route of its document: loading drops the target it has seen and refuses the slug.
ASSUME RotatesAlone ==
  \A c \in Configs : \A i, j \in DOMAIN Document[c].routes :
    LET r == Document[c].routes[i]
    IN r.rotates => /\ IsInjective(r.targets)
                    /\ Document[c].routes[j].slug = r.slug => j = i

VARIABLES
  config, version,   \* the document, and how many there have been
  turns,             \* the round robin's counter of each route
  cache,             \* what scripts found, by key
  tokens,            \* tokens that have not expired
  asked, issued,     \* counters for the bounds
  pc, job,           \* where a thread is, and what it knows of its request
  picked             \* how often each target was selected, since the last load

vars == <<config, version, turns, cache, tokens, asked, issued, pc, job, picked>>

\* The places of a route's targets that the document's services have.
LiveTargets(c, r) ==
  {n \in DOMAIN r.targets : r.targets[n] \in Document[c].endpoints}

InScope(c, x) == x \in c.scope

\* The attempts: each enabled method of each enabled client, by their places in
\* the document, for each of the targets that the client may use.
Attempts(c, r, live) ==
  LET cs == Document[c].clients
  IN {a \in UNION {{i} \X (DOMAIN cs[i].methods) \X live : i \in DOMAIN cs} :
        /\ cs[a[1]].enabled /\ cs[a[1]].methods[a[2]].enabled
        /\ InScope(cs[a[1]], r.targets[a[3]])}

\* They are made in the order of the document.
Sooner(a, b) ==
  \/ a[1] < b[1]
  \/ a[1] = b[1] /\ a[2] < b[2]
  \/ a[1] = b[1] /\ a[2] = b[2] /\ a[3] < b[3]

\* The cache keys of the hooks of a target, in the order they run.
HookSteps(r, x) == <<<<"service", x[1]>>, <<"route", r.slug>>, x>>

VerdictKey(attempt, a) ==
  <<"auth", attempt.client.code, attempt.method.code, a.subject>>
HookKey(key) == <<"pre_call", key>>

Cached(key) == key \in DOMAIN cache

Nobody == [attempt |-> <<0, 0, 0>>, token |-> None]
Nothing == [n \in Variables |-> None]
Slugs == {r.slug : r \in UNION {ToSet(Document[c].routes) : c \in Configs}}
NoTurns == [s \in Slugs |-> 0]
NoneTaken ==
  [s \in Slugs |-> [x \in UNION {Document[c].endpoints : c \in Configs} |-> 0]]

\* routes: the document, and since its version, that the routes are taken from;
\* clients, seen: those of the clients; route, target: places; open: whether a
\* client is only looked for, not required; attempts: those to be made; known: the
\* one that succeeded; at: the next hook; values: what hooks have set, and which of
\* them; kept: what the last hook leaves.
NoJob ==
  [ask |-> None, bearer |-> None, routes |-> None, since |-> 0, route |-> 0,
   open |-> FALSE, target |-> 0, targets |-> {}, clients |-> None, seen |-> 0,
   attempts |-> {}, known |-> Nobody, at |-> 1, values |-> Nothing, kept |-> None]

Init ==
  /\ config = FirstConfig /\ version = 0
  /\ turns = NoTurns
  /\ cache = <<>>
  /\ tokens = {} /\ issued = 0 /\ asked = 0
  /\ pc = [t \in Threads |-> "idle"]
  /\ job = [t \in Threads |-> NoJob]
  /\ picked = NoneTaken

Go(t, to, j) ==
  /\ pc' = [pc EXCEPT ![t] = to]
  /\ job' = [job EXCEPT ![t] = j]

\* The request is answered here, or its upstream is called.
Done(t) == Go(t, "idle", NoJob)

\* Mutant of Install: what scripts found under the old document is kept.
InstallKeepingTheCache(c) ==
  /\ config' = c
  /\ version' = version + 1
  /\ turns' = NoTurns /\ picked' = NoneTaken
  /\ UNCHANGED cache

\* A document takes the place of the last one, at once, with empty caches.
Install(c) ==
  /\ config' = c
  /\ version' = version + 1
  /\ turns' = NoTurns /\ picked' = NoneTaken
  /\ cache' = <<>>

Load ==
  /\ version < MaxVersion
  /\ \E c \in Configs : Install(c)
  /\ UNCHANGED <<tokens, asked, issued, pc, job>>

\* An entry has outlived its time.
Expire ==
  /\ \E gone \in DOMAIN cache : cache' = Restrict(cache, DOMAIN cache \ {gone})
  /\ UNCHANGED <<config, version, turns, tokens, asked, issued, pc, job, picked>>

\* A client asks for a token with its secret: the first that has it is asked
\* for its address as well.
IssueToken(secret, ip) ==
  LET cs == Document[config].clients
      Owns(i, j) ==
        /\ cs[i].enabled /\ cs[i].methods[j].enabled
        /\ cs[i].methods[j].type = "oauth" /\ cs[i].methods[j].secret = secret
      Owners == {o \in UNION {{i} \X DOMAIN cs[i].methods : i \in DOMAIN cs} :
                   Owns(o[1], o[2])}
  IN /\ issued < MaxTokens
     /\ issued' = issued + 1
     /\ \E o \in Owners :
          /\ \A p \in Owners : o[1] < p[1] \/ (o[1] = p[1] /\ o[2] <= p[2])
          /\ ip \in cs[o[1]].allowed
          /\ tokens' = tokens \cup {[client |-> cs[o[1]].code, secret |-> secret,
                                     method |-> cs[o[1]].methods[o[2]].code,
                                     number |-> issued]}
     /\ UNCHANGED <<config, version, turns, cache, asked, pc, job, picked>>

ExpireToken ==
  /\ \E token \in tokens : tokens' = tokens \ {token}
  /\ UNCHANGED <<config, version, turns, cache, asked, issued, pc, job, picked>>

\* A request arrives, perhaps with a token, and takes the routes as they are.
Arrive(t, a) ==
  /\ pc[t] = "idle"
  /\ asked < MaxAsks
  /\ asked' = asked + 1
  /\ \E token \in {None} \cup tokens :
       Go(t, "matching",
          [NoJob EXCEPT !.ask = a, !.bearer = token, !.routes = config,
                        !.since = version])
  /\ UNCHANGED <<config, version, turns, cache, tokens, issued, picked>>

\* Mutant of TakeTurn: the counter is not moved on.
TakeTurnAgain(r) == UNCHANGED turns

TakeTurn(r) == turns' = [turns EXCEPT ![r.slug] = @ + 1]

Route(t) == Document[job[t].routes].routes[job[t].route]

\* The first route that matches and has a target among the services there are, and
\* the first of them, or the next in turn.
Match(t) ==
  LET routes == Document[job[t].routes].routes
      Fits(i) == job[t].ask.path \in routes[i].paths /\ LiveTargets(config, routes[i]) # {}
      Chosen == {i \in DOMAIN routes : Fits(i) /\ \A j \in 1 .. i - 1 : ~Fits(j)}
  IN /\ pc[t] = "matching"
     /\ \/ Chosen = {} /\ Done(t) /\ UNCHANGED <<turns, picked>>
        \/ \E i \in Chosen : \E n \in LiveTargets(config, routes[i]) :
             LET r == routes[i]
                 live == LiveTargets(config, r)
                 rotates == r.rotates /\ Cardinality(live) > 1
                 turn == IF rotates THEN turns[r.slug] % Cardinality(live) ELSE 0
             IN /\ Cardinality({m \in live : m < n}) = turn
                /\ IF rotates THEN TakeTurn(r) ELSE UNCHANGED turns
                /\ picked' = [picked EXCEPT ![r.slug][r.targets[n]] = @ + 1]
                /\ Go(t, "resolving",
                      [job[t] EXCEPT !.route = i, !.target = n, !.open = ~r.protected])
     /\ UNCHANGED <<config, version, cache, tokens, asked, issued>>

\* Clients are looked for by all the route's targets, as they are now.
ResolveTargets(t) ==
  /\ pc[t] = "resolving"
  /\ Go(t, "choosing", [job[t] EXCEPT !.targets = LiveTargets(config, Route(t))])
  /\ UNCHANGED <<config, version, turns, cache, tokens, asked, issued, picked>>

ReadClients(t) ==
  /\ pc[t] = "choosing"
  /\ Go(t, "trying",
        [job[t] EXCEPT !.attempts = Attempts(config, Route(t), job[t].targets),
                       !.clients = config, !.seen = version])
  /\ UNCHANGED <<config, version, turns, cache, tokens, asked, issued, picked>>

\* Nobody was found: where a client is required the request is refused, unless
\* the route has lost all its targets since it matched; then one is only looked
\* for, in another pass, and a request without one goes on.
Exhausted(t) ==
  /\ pc[t] = "trying"
  /\ job[t].attempts = {}
  /\ \/ job[t].open /\ Go(t, "hooks", job[t])
     \/ ~job[t].open /\ job[t].targets # {} /\ Done(t)
     \/ ~job[t].open /\ job[t].targets = {}
          /\ Go(t, "resolving", [job[t] EXCEPT !.open = TRUE])
  /\ UNCHANGED <<config, version, turns, cache, tokens, asked, issued, picked>>

At(c, a) ==
  LET client == Document[c].clients[a[1]]
  IN [client |-> client, method |-> client.methods[a[2]]]

First(t) == {a \in job[t].attempts : \A b \in job[t].attempts : ~Sooner(b, a)}
Attempt(t, a) == At(job[t].clients, a)
Trying(t, a, type) ==
  pc[t] = "trying" /\ a \in First(t) /\ Attempt(t, a).method.type = type

Pass(t, a) == Go(t, "trying", [job[t] EXCEPT !.attempts = @ \ {a}])

\* A client is found, if it may come from where it does: otherwise the request is
\* refused where one is required, and the next is tried where it is not.
Admit(t, a, token) ==
  IF job[t].ask.ip \in Attempt(t, a).client.allowed
  THEN Go(t, "hooks",
          [job[t] EXCEPT !.attempts = {}, !.known = [attempt |-> a, token |-> token]])
  ELSE IF job[t].open THEN Pass(t, a)
  ELSE Done(t)

TrySecret(t, a) ==
  /\ Trying(t, a, "secret")
  /\ IF Attempt(t, a).method.secret \in job[t].ask.presents
     THEN Admit(t, a, None) ELSE Pass(t, a)
  /\ UNCHANGED <<config, version, turns, cache, tokens, asked, issued, picked>>

\* Mutant of Verified: the signature is not compared.
VerifiedByName(attempt, token) ==
  /\ token \in tokens
  /\ token.client = attempt.client.code
  /\ token.method = attempt.method.code

\* A token counts while it has not expired, for the client and the method that
\* it was issued to and as long as they have the secret that signed it.
Verified(attempt, token) ==
  /\ token \in tokens
  /\ token.client = attempt.client.code
  /\ token.method = attempt.method.code
  /\ token.secret = attempt.method.secret

TryToken(t, a) ==
  /\ Trying(t, a, "oauth")
  /\ IF Verified(Attempt(t, a), job[t].bearer)
     THEN Admit(t, a, job[t].bearer) ELSE Pass(t, a)
  /\ UNCHANGED <<config, version, turns, cache, tokens, asked, issued, picked>>

\* A verdict that is kept admits; otherwise the script runs: it allows, it does
\* not know the client, it denies, or it fails.
TryExternal(t, a) ==
  /\ Trying(t, a, "external")
  /\ IF Attempt(t, a).method.cached /\ Cached(VerdictKey(Attempt(t, a), job[t].ask))
     THEN Admit(t, a, None)
     ELSE \/ Go(t, "allowed", job[t])
          \/ Pass(t, a)
          \/ Done(t)
  /\ UNCHANGED <<config, version, turns, cache, tokens, asked, issued, picked>>

Keep(key, by, what) ==
  cache' = [k \in DOMAIN cache \cup {key} |->
              IF k = key THEN [version |-> by, late |-> by # version, what |-> what]
              ELSE cache[k]]

\* What the script allowed is kept, under whatever document there is by now.
Allow(t, a) ==
  /\ pc[t] = "allowed" /\ a \in First(t)
  /\ IF Attempt(t, a).method.cached
     THEN Keep(VerdictKey(Attempt(t, a), job[t].ask), job[t].seen, Nothing)
     ELSE UNCHANGED cache
  /\ Admit(t, a, None)
  /\ UNCHANGED <<config, version, turns, tokens, asked, issued, picked>>

Hook(t) == HookSteps(Route(t), Route(t).targets[job[t].target])[job[t].at]
Hooked(t) == job[t].at <= 3 /\ Hook(t) \in DOMAIN Route(t).hooks

\* Mutant of Changed: a hook keeps all the variables there are.
ChangedByAnyone(t, values) == values

\* The variables that a hook has given another value.
Changed(t, values) ==
  [n \in Variables |-> IF values[n] = job[t].values[n] THEN None ELSE values[n]]

Updated(values, by) == [n \in Variables |-> IF by[n] = None THEN values[n] ELSE by[n]]

SkipHook(t) ==
  /\ pc[t] = "hooks" /\ job[t].at <= 3 /\ ~Hooked(t)
  /\ Go(t, "hooks", [job[t] EXCEPT !.at = @ + 1])
  /\ UNCHANGED <<config, version, turns, cache, tokens, asked, issued, picked>>

\* A hook's variables are taken from the cache, or its code sets one of them.
RunHook(t) ==
  /\ pc[t] = "hooks" /\ Hooked(t)
  /\ IF Cached(HookKey(Hook(t)))
     THEN Go(t, "hooks",
             [job[t] EXCEPT !.at = @ + 1,
                !.values = Updated(@, cache[HookKey(Hook(t))].what)])
     ELSE \/ \E n \in Route(t).hooks[Hook(t)] :
               LET values == [job[t].values EXCEPT ![n] = Hook(t)]
               IN Go(t, "keeping", [job[t] EXCEPT !.values = values,
                                                  !.kept = Changed(t, values)])
          \/ Done(t)
  /\ UNCHANGED <<config, version, turns, cache, tokens, asked, issued, picked>>

\* What the hook has set is kept, for as long as it says.
KeepHook(t) ==
  /\ pc[t] = "keeping"
  /\ IF Route(t).keeps
     THEN Keep(HookKey(Hook(t)), job[t].since, job[t].kept) ELSE UNCHANGED cache
  /\ Go(t, "hooks", [job[t] EXCEPT !.at = @ + 1, !.kept = None])
  /\ UNCHANGED <<config, version, turns, tokens, asked, issued, picked>>

Proceed(t) ==
  /\ pc[t] = "hooks" /\ job[t].at > 3
  /\ Done(t)
  /\ UNCHANGED <<config, version, turns, cache, tokens, asked, issued, picked>>

Serve(t) ==
  \/ Match(t) \/ ResolveTargets(t) \/ ReadClients(t) \/ Exhausted(t)
  \/ \E a \in First(t) :
       TrySecret(t, a) \/ TryToken(t, a) \/ TryExternal(t, a) \/ Allow(t, a)
  \/ SkipHook(t) \/ RunHook(t) \/ KeepHook(t) \/ Proceed(t)

Next ==
  \/ Load \/ Expire \/ ExpireToken
  \/ \E secret \in Secrets, ip \in {a.ip : a \in Asks} : IssueToken(secret, ip)
  \/ \E t \in Threads : Serve(t) \/ \E a \in Asks : Arrive(t, a)

Spec == Init /\ [][Next]_vars

-----------------------------------------------------------------------------
\* The request has passed authentication; its hooks run, then its upstream.
Admitted(t) == pc[t] \in {"hooks", "keeping"}

Tokens == [client : STRING, secret : Secrets \cup {None}, method : STRING, number : Nat]
Places == Nat \X Nat \X Nat
Keys == Targets \cup {"service", "route"} \X STRING
Values == [Variables -> Keys \cup {None}]

Jobs ==
  [ask : Asks \cup {None}, bearer : Tokens \cup {None}, routes : Configs \cup {None},
   since : Nat, route : Nat, open : BOOLEAN, target : Nat, targets : SUBSET Nat,
   clients : Configs \cup {None}, seen : Nat, attempts : SUBSET Places,
   known : [attempt : Places, token : Tokens \cup {None}], at : 1 .. 4,
   values : Values, kept : Values \cup {None}]

\* Its route and its target have been chosen.
Routed(t) == pc[t] \in {"resolving", "choosing", "trying", "allowed", "hooks", "keeping"}

\* What a thread knows has its types, and it has a request while it is not idle,
\* then a route of its document and a target of the route.
JobOK(t) ==
  /\ job[t].since <= version /\ job[t].seen <= version
  /\ pc[t] # "idle" => job[t].ask \in Asks /\ job[t].routes \in Configs
  /\ Routed(t) => /\ job[t].route \in DOMAIN Document[job[t].routes].routes
                  /\ job[t].target \in DOMAIN Route(t).targets
  /\ pc[t] \in {"trying", "allowed"} => job[t].clients \in Configs
  /\ pc[t] = "keeping" => Hooked(t) /\ job[t].kept \in Values

\* The types; scripts' findings come from no later document than there has been.
TypeOK ==
  /\ config \in Configs /\ version \in 0 .. MaxVersion
  /\ turns \in [Slugs -> Nat]
  /\ tokens \subseteq Tokens /\ issued \in 0 .. MaxTokens /\ asked \in 0 .. MaxAsks
  /\ pc \in [Threads -> {"idle", "matching", "resolving", "choosing", "trying",
                         "allowed", "hooks", "keeping"}]
  /\ job \in [Threads -> Jobs]
  /\ \A t \in Threads : JobOK(t)
  /\ \A key \in DOMAIN cache :
       /\ cache[key].version \in 0 .. version
       /\ cache[key].what \in Values

\* Whatever is reloaded on the way, a request gets through a protected route
\* only as a client that one document knew, enabled, with a method and a target
\* of its scope enabled as well, from an address it may come from, and with what
\* the method asks for: the secret, or a token signed with the secret the client
\* has in that document.  Only a request whose route a reload leaves without any
\* target after it has matched goes on without a client (runtime.py,
\* _match_scoped_client_credentials, "if not targets").
AdmittedByOneGrant ==
  \A t \in Threads : Admitted(t) =>
    LET j == job[t]
        k == At(j.clients, j.known.attempt)
    IN /\ ~j.open => j.known # Nobody
       /\ j.open /\ Route(t).protected => j.since < version
       /\ j.known # Nobody =>
            /\ k.client.enabled /\ k.method.enabled
            /\ j.ask.ip \in k.client.allowed
            /\ \E x \in ToSet(Route(t).targets) : InScope(k.client, x)
            /\ k.method.type = "secret" => k.method.secret \in j.ask.presents
            /\ k.method.type = "oauth" =>
                 /\ j.known.token.secret = k.method.secret
                 /\ j.known.token.client = k.client.code
                 /\ j.known.token.method = k.method.code
            /\ j.seen >= j.since
            /\ j.seen = version => j.clients = config

\* What scripts found under an old document is not served under the new one,
\* unless the request that found it had read the old one and kept it late
\* (runtime.py, load clears the cache; _run_pre_call and
\* _match_external_service_auth store without asking).
FindingsAreCurrent ==
  \A key \in DOMAIN cache : cache[key].version = version \/ cache[key].late

\* What is kept of a hook is what that hook has set, never what the service's or
\* the route's hook had set before it (README.md, "The cache stores variables
\* changed by that specific hook").
HooksKeepTheirOwn ==
  \A key \in DOMAIN cache : key[1] = "pre_call" =>
    \A n \in Variables : cache[key].what[n] \in {None, key[2]}

\* While a document is served the targets of a rotating route take turns, however
\* requests interleave (runtime.py, _select_route_target).
TargetsTakeTurns ==
  version = 0 =>
    \A r \in ToSet(Document[config].routes) : r.rotates =>
      \A m, n \in LiveTargets(config, r) :
        picked[r.slug][r.targets[m]] <= picked[r.slug][r.targets[n]] + 1
=============================================================================
