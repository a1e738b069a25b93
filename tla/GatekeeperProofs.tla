--------------------------- MODULE GatekeeperProofs ---------------------------
(***************************************************************************)
(* Theorems about Gatekeeper, for any threads, documents, requests and     *)
(* bounds: its types, that requests are admitted by a grant of one         *)
(* document only, that findings are current, that hooks keep what they     *)
(* have set themselves and that the targets of a route take turns.         *)
(***************************************************************************)
EXTENDS Gatekeeper, FiniteSetTheorems, TLAPS

-----------------------------------------------------------------------------
(* What the documents hold.                                                *)

LEMMA RouteType ==
  ASSUME NEW c \in Configs, NEW i \in DOMAIN Document[c].routes
  PROVE  /\ i \in Nat
         /\ Document[c].routes[i] \in Routes
<1>1. Document[c].routes \in Seq(Routes)
  BY GatekeeperAssumption
<1>2. QED
  BY <1>1

LEMMA LiveType ==
  ASSUME NEW c \in Configs, NEW r \in Routes, NEW n \in LiveTargets(c, r)
  PROVE  n \in DOMAIN r.targets
  BY DEF LiveTargets

LEMMA TargetType ==
  ASSUME NEW r \in Routes, NEW n \in DOMAIN r.targets
  PROVE  /\ n \in Nat \ {0}
         /\ r.targets[n] \in Targets
<1>1. r.targets \in Seq(Targets)
  BY DEF Routes
<1>2. QED
  BY <1>1

LEMMA ClientType ==
  ASSUME NEW c \in Configs, NEW i \in DOMAIN Document[c].clients
  PROVE  /\ i \in Nat \ {0}
         /\ Document[c].clients[i] \in Clients
<1>1. Document[c].clients \in Seq(Clients)
  BY GatekeeperAssumption
<1>2. QED
  BY <1>1

LEMMA MethodType ==
  ASSUME NEW client \in Clients, NEW j \in DOMAIN client.methods
  PROVE  /\ j \in Nat
         /\ client.methods[j] \in Methods
<1>1. client.methods \in Seq(Methods)
  BY DEF Clients
<1>2. QED
  BY <1>1

\* Every attempt is one of an enabled method of an enabled client, for a target of
\* the route that is in the client's scope.
LEMMA AttemptsGrant ==
  ASSUME NEW c \in Configs, NEW r \in Routes, NEW live \in SUBSET DOMAIN r.targets,
         NEW a \in Attempts(c, r, live)
  PROVE  /\ a \in Places /\ a[1] # 0
         /\ At(c, a).client.enabled /\ At(c, a).method.enabled
         /\ \E x \in ToSet(r.targets) : InScope(At(c, a).client, x)
<1>1. PICK i \in DOMAIN Document[c].clients :
        a \in {i} \X (DOMAIN Document[c].clients[i].methods) \X live
  BY DEF Attempts
<1>2. /\ a = <<a[1], a[2], a[3]>> /\ a[1] = i
      /\ a[2] \in DOMAIN Document[c].clients[i].methods /\ a[3] \in DOMAIN r.targets
  BY <1>1
<1>3. i \in Nat \ {0} /\ Document[c].clients[i] \in Clients
  BY ClientType
<1>4. a[2] \in Nat /\ a[3] \in Nat
  BY <1>2, <1>3, MethodType, TargetType
<1>5. a \in Places /\ a[1] # 0
  BY <1>2, <1>3, <1>4 DEF Places
<1>6. At(c, a).client = Document[c].clients[a[1]]
      /\ At(c, a).method = Document[c].clients[a[1]].methods[a[2]]
  BY DEF At
<1>7. /\ Document[c].clients[a[1]].enabled
      /\ Document[c].clients[a[1]].methods[a[2]].enabled
      /\ InScope(Document[c].clients[a[1]], r.targets[a[3]])
  BY DEF Attempts
<1>8. r.targets[a[3]] \in ToSet(r.targets)
  BY <1>2 DEF ToSet
<1>9. QED
  BY <1>5, <1>6, <1>7, <1>8

-----------------------------------------------------------------------------
(* Types.                                                                  *)

Control ==
  {"idle", "matching", "resolving", "choosing", "trying", "allowed", "hooks", "keeping"}

\* A step of one thread's request takes no other thread's with it.
LEMMA GoType ==
  ASSUME TypeOK, NEW t \in Threads, NEW to \in Control, NEW j \in Jobs, Go(t, to, j),
         UNCHANGED <<config, version>>, JobOK(t)'
  PROVE  /\ pc' \in [Threads -> Control] /\ job' \in [Threads -> Jobs]
         /\ pc'[t] = to /\ job'[t] = j
         /\ \A u \in Threads : JobOK(u)'
<1>1. /\ pc' \in [Threads -> Control] /\ job' \in [Threads -> Jobs]
      /\ pc'[t] = to /\ job'[t] = j
  BY DEF TypeOK, Go, Control
<1>2. ASSUME NEW u \in Threads, u # t
      PROVE  JobOK(u)'
  <2>1. pc'[u] = pc[u] /\ job'[u] = job[u] /\ version' = version
    BY <1>2 DEF TypeOK, Go
  <2>2. JobOK(u)
    BY DEF TypeOK
  <2>3. QED
    BY <2>1, <2>2 DEF JobOK, Routed, Route, Hooked, Hook
<1>3. QED
  BY <1>1, <1>2

LEMMA NoJobType == NoJob \in Jobs
BY GatekeeperAssumption DEF NoJob, Jobs, Nobody, Places, Nothing, Values

LEMMA DoneType ==
  ASSUME TypeOK, NEW t \in Threads, Done(t), UNCHANGED <<config, version>>
  PROVE  /\ pc' \in [Threads -> Control] /\ job' \in [Threads -> Jobs]
         /\ \A u \in Threads : JobOK(u)'
<1>1. pc'[t] = "idle" /\ job'[t] = NoJob
  BY DEF TypeOK, Done, Go
<1>2. version \in Nat
  BY GatekeeperAssumption DEF TypeOK
<1>3. JobOK(t)'
  BY <1>1, <1>2 DEF JobOK, Routed, NoJob
<1>4. QED
  BY <1>3, NoJobType, GoType DEF Done, Control

\* What every step of a request but those that keep something leaves alone.
LEMMA QuietType ==
  ASSUME TypeOK, NEW t \in Threads, NEW to \in Control, NEW j \in Jobs, Go(t, to, j),
         UNCHANGED <<config, version, cache, tokens, asked, issued>>,
         turns' \in [Slugs -> Nat], JobOK(t)'
  PROVE  TypeOK'
<1>1. /\ pc' \in [Threads -> Control] /\ job' \in [Threads -> Jobs]
      /\ \A u \in Threads : JobOK(u)'
  BY GoType
<1>2. QED
  BY <1>1 DEF TypeOK, Control

LEMMA QuietDoneType ==
  ASSUME TypeOK, NEW t \in Threads, Done(t),
         UNCHANGED <<config, version, cache, tokens, asked, issued>>,
         turns' \in [Slugs -> Nat]
  PROVE  TypeOK'
<1>1. /\ pc' \in [Threads -> Control] /\ job' \in [Threads -> Jobs]
      /\ \A u \in Threads : JobOK(u)'
  BY DoneType
<1>2. QED
  BY <1>1 DEF TypeOK, Control

\* What is kept has the types of findings.
LEMMA KeepType ==
  ASSUME TypeOK, NEW key, NEW by \in 0 .. version, NEW what \in Values,
         Keep(key, by, what)
  PROVE  \A k \in DOMAIN cache' :
           cache'[k].version \in 0 .. version /\ cache'[k].what \in Values
<1>1. ASSUME NEW k \in DOMAIN cache'
      PROVE  /\ cache'[k].version \in 0 .. version
             /\ cache'[k].what \in Values
  <2>1. k \in DOMAIN cache \cup {key}
    BY <1>1 DEF Keep
  <2>2. CASE k = key
    <3>1. cache'[k] = [version |-> by, late |-> by # version, what |-> what]
      BY <2>1, <2>2 DEF Keep
    <3>2. QED
      BY <3>1
  <2>3. CASE k # key
    BY <2>1, <2>3 DEF Keep, TypeOK
  <2>4. QED
    BY <2>2, <2>3
<1>2. QED
  BY <1>1

\* A routed request's route and target.
LEMMA RoutedType ==
  ASSUME TypeOK, NEW t \in Threads, Routed(t)
  PROVE  /\ job[t].routes \in Configs /\ job[t].ask \in Asks
         /\ job[t].route \in DOMAIN Document[job[t].routes].routes
         /\ Route(t) \in Routes
         /\ job[t].target \in DOMAIN Route(t).targets
<1>1. JobOK(t)
  BY DEF TypeOK
<1>2. pc[t] # "idle"
  BY DEF Routed
<1>3. QED
  BY <1>1, <1>2, RouteType DEF JobOK, Route

LEMMA ArriveType ==
  ASSUME TypeOK, NEW t \in Threads, NEW a \in Asks, Arrive(t, a)
  PROVE  TypeOK'
<1>1. PICK token \in {None} \cup tokens :
        Go(t, "matching", [NoJob EXCEPT !.ask = a, !.bearer = token, !.routes = config,
                                        !.since = version])
  BY DEF Arrive
<1> DEFINE j == [NoJob EXCEPT !.ask = a, !.bearer = token, !.routes = config,
                              !.since = version]
<1>2. version \in Nat /\ token \in Tokens \cup {None} /\ config \in Configs
  BY GatekeeperAssumption DEF TypeOK
<1>3. j \in Jobs /\ j.ask = a /\ j.routes = config /\ j.since = version /\ j.seen = 0
  BY <1>2, NoJobType DEF Jobs, NoJob
<1>4. pc'[t] = "matching" /\ job'[t] = j
  BY <1>1 DEF TypeOK, Go
<1>5. UNCHANGED <<config, version>>
  BY DEF Arrive
<1>6. JobOK(t)'
  BY <1>2, <1>3, <1>4, <1>5 DEF JobOK, Routed
<1>7. /\ pc' \in [Threads -> Control] /\ job' \in [Threads -> Jobs]
      /\ \A u \in Threads : JobOK(u)'
  BY <1>1, <1>3, <1>5, <1>6, GoType DEF Control
<1>8. asked' \in 0 .. MaxAsks
  BY GatekeeperAssumption DEF Arrive, TypeOK
<1>9. QED
  BY <1>7, <1>8 DEF TypeOK, Arrive, Control

\* One more of one thing is a count again.
LEMMA CountedOn ==
  ASSUME NEW S, NEW f \in [S -> Nat], NEW x
  PROVE  [f EXCEPT ![x] = f[x] + 1] \in [S -> Nat]
<1>1. \A y \in S : [f EXCEPT ![x] = f[x] + 1][y] \in Nat
  OBVIOUS
<1>2. QED
  BY <1>1

LEMMA MatchType ==
  ASSUME TypeOK, NEW t \in Threads, Match(t)
  PROVE  TypeOK'
<1> DEFINE routes == Document[job[t].routes].routes
<1>1. pc[t] = "matching" /\ UNCHANGED <<config, version, cache, tokens, asked, issued>>
  BY DEF Match
<1>2. JobOK(t) /\ config \in Configs
  BY DEF TypeOK
<1>3. job[t].routes \in Configs /\ job[t].ask \in Asks
  BY <1>1, <1>2 DEF JobOK
<1>4. CASE Done(t) /\ UNCHANGED <<turns, picked>>
  BY <1>1, <1>4, QuietDoneType DEF TypeOK
<1>5. ASSUME NEW i \in DOMAIN routes, NEW n \in LiveTargets(config, routes[i]),
             Go(t, "resolving",
                [job[t] EXCEPT !.route = i, !.target = n, !.open = ~routes[i].protected]),
             turns' = turns \/ TakeTurn(routes[i])
      PROVE  TypeOK'
  <2> DEFINE j == [job[t] EXCEPT !.route = i, !.target = n,
                                 !.open = ~routes[i].protected]
  <2>1. i \in Nat /\ routes[i] \in Routes
    BY <1>3, RouteType
  <2>2. n \in DOMAIN routes[i].targets /\ n \in Nat
    BY <1>2, <2>1, LiveType, TargetType
  <2>3. routes[i].protected \in BOOLEAN
    BY <2>1 DEF Routes
  <2>4. job[t] \in Jobs
    BY DEF TypeOK
  <2>5. /\ j \in Jobs /\ j.ask = job[t].ask /\ j.routes = job[t].routes
        /\ j.since = job[t].since /\ j.seen = job[t].seen
        /\ j.route = i /\ j.target = n
    <3> DEFINE r == i
               open == ~routes[i].protected
    <3>1. r \in Nat /\ n \in Nat /\ open \in BOOLEAN
      BY <2>1, <2>2, <2>3
    <3>2. j = [job[t] EXCEPT !.route = r, !.target = n, !.open = open]
      OBVIOUS
    <3> HIDE DEF j, open
    <3>3. QED
      BY <2>4, <3>1, <3>2 DEF Jobs
  <2>6. pc'[t] = "resolving" /\ job'[t] = j
    BY <1>5 DEF TypeOK, Go
  <2>7. JobOK(t)'
    BY <1>1, <1>2, <1>3, <2>2, <2>5, <2>6 DEF JobOK, Routed, Route
  <2>8. turns' \in [Slugs -> Nat]
    <3>1. turns \in [Slugs -> Nat]
      BY DEF TypeOK
    <3>2. CASE TakeTurn(routes[i])
      <4> DEFINE r == routes[i]
      <4>1. turns' = [turns EXCEPT ![r.slug] = turns[r.slug] + 1]
        BY <3>2 DEF TakeTurn
      <4> HIDE DEF r
      <4>2. QED
        BY <3>1, <4>1, CountedOn
    <3>3. QED
      BY <1>5, <3>1, <3>2
  <2>9. QED
    BY <1>1, <1>5, <2>5, <2>7, <2>8, QuietType DEF Control
<1>6. QED
  BY <1>4, <1>5 DEF Match

\* The fields that stay the same from one place of a routed request to the next.
Alike(j, k) ==
  /\ j.ask = k.ask /\ j.bearer = k.bearer /\ j.routes = k.routes /\ j.since = k.since
  /\ j.route = k.route /\ j.target = k.target

\* A routed request goes on with another record of the same route and target.
LEMMA GoOnType ==
  ASSUME TypeOK, NEW t \in Threads, Routed(t), NEW to \in Control, NEW j \in Jobs,
         Go(t, to, j), Alike(j, job[t]), j.seen <= version,
         to \in {"trying", "allowed"} => j.clients \in Configs,
         to # "keeping",
         UNCHANGED <<config, version>>
  PROVE  /\ pc' \in [Threads -> Control] /\ job' \in [Threads -> Jobs]
         /\ \A u \in Threads : JobOK(u)'
<1>1. pc'[t] = to /\ job'[t] = j
  BY DEF TypeOK, Go
<1>2. Route(t)' = Route(t)
  BY <1>1 DEF Route, Alike
<1>3. JobOK(t)
  BY DEF TypeOK
<1>4. JobOK(t)'
  BY <1>1, <1>2, <1>3, RoutedType DEF JobOK, Alike
<1>5. QED
  BY <1>4, GoType

LEMMA GoOnQuietType ==
  ASSUME TypeOK, NEW t \in Threads, Routed(t), NEW to \in Control, NEW j \in Jobs,
         Go(t, to, j), Alike(j, job[t]), j.seen <= version,
         to \in {"trying", "allowed"} => j.clients \in Configs,
         to # "keeping",
         UNCHANGED <<config, version, turns, cache, tokens, asked, issued>>
  PROVE  TypeOK'
<1>1. /\ pc' \in [Threads -> Control] /\ job' \in [Threads -> Jobs]
      /\ \A u \in Threads : JobOK(u)'
  BY GoOnType
<1>2. QED
  BY <1>1 DEF TypeOK, Control

LEMMA ResolveType ==
  ASSUME TypeOK, NEW t \in Threads, ResolveTargets(t)
  PROVE  TypeOK'
<1> DEFINE j == [job[t] EXCEPT !.targets = LiveTargets(config, Route(t))]
<1>1. Routed(t) /\ JobOK(t) /\ job[t] \in Jobs
  BY DEF ResolveTargets, Routed, TypeOK
<1>2. LiveTargets(config, Route(t)) \subseteq Nat
  BY <1>1, RoutedType, LiveType, TargetType DEF TypeOK
<1>3. j \in Jobs /\ Alike(j, job[t]) /\ j.seen = job[t].seen
  BY <1>1, <1>2 DEF Jobs, Alike
<1>4. Go(t, "choosing", j)
      /\ UNCHANGED <<config, version, turns, cache, tokens, asked, issued>>
  BY DEF ResolveTargets
<1>5. j.seen <= version
  BY <1>1, <1>3 DEF JobOK
<1>6. QED
  BY <1>1, <1>3, <1>4, <1>5, GoOnQuietType DEF Control

\* The targets of a request that is past "resolving" are its route's.
TargetsOK(t) ==
  pc[t] \in {"choosing", "trying", "allowed"} =>
    job[t].targets \subseteq DOMAIN Route(t).targets

LEMMA ReadType ==
  ASSUME TypeOK, NEW t \in Threads, TargetsOK(t), ReadClients(t)
  PROVE  TypeOK'
<1> DEFINE as == Attempts(config, Route(t), job[t].targets)
<1> DEFINE j == [job[t] EXCEPT !.attempts = as, !.clients = config, !.seen = version]
<1>1. Routed(t) /\ JobOK(t) /\ job[t] \in Jobs
  BY DEF ReadClients, Routed, TypeOK
<1>2. as \subseteq Places
  BY <1>1, RoutedType, AttemptsGrant DEF TypeOK, TargetsOK, ReadClients
<1>3. version \in Nat /\ config \in Configs
  BY GatekeeperAssumption DEF TypeOK
<1>4. j \in Jobs /\ Alike(j, job[t]) /\ j.seen = version /\ j.clients = config
  BY <1>1, <1>2, <1>3 DEF Jobs, Alike
<1>5. Go(t, "trying", j)
      /\ UNCHANGED <<config, version, turns, cache, tokens, asked, issued>>
  BY DEF ReadClients
<1>6. "trying" \in Control /\ "trying" # "keeping" /\ j.seen <= version
  BY <1>3, <1>4 DEF Control
<1> HIDE DEF j
<1>7. QED
  BY <1>1, <1>3, <1>4, <1>5, <1>6, GoOnQuietType

LEMMA ExhaustedType ==
  ASSUME TypeOK, NEW t \in Threads, Exhausted(t)
  PROVE  TypeOK'
<1>1. Routed(t) /\ JobOK(t) /\ job[t] \in Jobs
  BY DEF Exhausted, Routed, TypeOK
<1>2. UNCHANGED <<config, version, turns, cache, tokens, asked, issued>>
  BY DEF Exhausted
<1>3. CASE Go(t, "hooks", job[t])
  <2>1. Alike(job[t], job[t]) /\ job[t].seen <= version
    BY <1>1 DEF Alike, JobOK
  <2>2. QED
    BY <1>1, <1>2, <1>3, <2>1, GoOnQuietType DEF Control
<1>4. CASE Done(t)
  BY <1>2, <1>4, QuietDoneType DEF TypeOK
<1>5. CASE Go(t, "resolving", [job[t] EXCEPT !.open = TRUE])
  <2> DEFINE j == [job[t] EXCEPT !.open = TRUE]
  <2>1. j \in Jobs /\ Alike(j, job[t]) /\ j.seen = job[t].seen
    BY <1>1 DEF Jobs, Alike
  <2>2. j.seen <= version
    BY <1>1, <2>1 DEF JobOK
  <2>3. QED
    BY <1>1, <1>2, <1>5, <2>1, <2>2, GoOnQuietType DEF Control
<1>6. QED
  BY <1>3, <1>4, <1>5 DEF Exhausted

\* Another attempt is made, or a client is found: the record of either.
LEMMA PassRecord ==
  ASSUME TypeOK, NEW t \in Threads, NEW a
  PROVE  LET j == [job[t] EXCEPT !.attempts = @ \ {a}]
         IN j \in Jobs /\ Alike(j, job[t]) /\ j.seen = job[t].seen
              /\ j.clients = job[t].clients
<1>1. job[t] \in Jobs
  BY DEF TypeOK
<1>2. QED
  BY <1>1 DEF Jobs, Alike

LEMMA AdmitRecord ==
  ASSUME TypeOK, NEW t \in Threads, NEW a \in Places, NEW token \in Tokens \cup {None}
  PROVE  LET j == [job[t] EXCEPT !.attempts = {},
                                 !.known = [attempt |-> a, token |-> token]]
         IN j \in Jobs /\ Alike(j, job[t]) /\ j.seen = job[t].seen
              /\ j.clients = job[t].clients
<1>1. job[t] \in Jobs
  BY DEF TypeOK
<1>2. QED
  BY <1>1 DEF Jobs, Alike

LEMMA AdmitType ==
  ASSUME TypeOK, NEW t \in Threads, pc[t] \in {"trying", "allowed"},
         NEW a \in First(t), NEW token \in Tokens \cup {None},
         Admit(t, a, token) \/ Pass(t, a) \/ Done(t) \/ Go(t, "allowed", job[t]),
         UNCHANGED <<config, version>>
  PROVE  /\ pc' \in [Threads -> Control] /\ job' \in [Threads -> Jobs]
         /\ \A u \in Threads : JobOK(u)'
<1> DEFINE j == [job[t] EXCEPT !.attempts = {},
                               !.known = [attempt |-> a, token |-> token]]
<1>1. Routed(t) /\ JobOK(t) /\ job[t] \in Jobs
  BY DEF Routed, TypeOK
<1>2. a \in Places
  BY <1>1 DEF First, Jobs
<1>3. job[t].seen <= version /\ job[t].clients \in Configs
  BY <1>1 DEF JobOK
<1>4. CASE Done(t)
  BY <1>4, DoneType
<1>5. CASE Pass(t, a)
  BY <1>1, <1>3, <1>5, PassRecord, GoOnType DEF Pass, Control
<1>6. CASE Go(t, "hooks", j)
  BY <1>1, <1>2, <1>3, <1>6, AdmitRecord, GoOnType DEF Control
<1>7. CASE Go(t, "allowed", job[t])
  BY <1>1, <1>3, <1>7, GoOnType DEF Control, Alike
<1>8. QED
  BY <1>4, <1>5, <1>6, <1>7 DEF Admit

LEMMA TryType ==
  ASSUME TypeOK, NEW t \in Threads, NEW a,
         TrySecret(t, a) \/ TryToken(t, a) \/ TryExternal(t, a)
  PROVE  TypeOK'
<1>1. pc[t] = "trying" /\ a \in First(t)
      /\ UNCHANGED <<config, version, turns, cache, tokens, asked, issued>>
  BY DEF TrySecret, TryToken, TryExternal, Trying
<1>2. job[t].bearer \in Tokens \cup {None}
  BY DEF TypeOK, Jobs
<1>3. \E token \in Tokens \cup {None} :
        Admit(t, a, token) \/ Pass(t, a) \/ Done(t) \/ Go(t, "allowed", job[t])
  BY <1>2 DEF TrySecret, TryToken, TryExternal
<1>4. /\ pc' \in [Threads -> Control] /\ job' \in [Threads -> Jobs]
      /\ \A u \in Threads : JobOK(u)'
  BY <1>1, <1>3, AdmitType
<1>5. QED
  BY <1>1, <1>4 DEF TypeOK, Control

LEMMA AllowType ==
  ASSUME TypeOK, NEW t \in Threads, NEW a, Allow(t, a)
  PROVE  TypeOK'
<1> DEFINE key == VerdictKey(Attempt(t, a), job[t].ask)
<1>1. /\ pc[t] = "allowed" /\ a \in First(t) /\ Admit(t, a, None)
      /\ UNCHANGED <<config, version, turns, tokens, asked, issued, picked>>
      /\ Keep(key, job[t].seen, Nothing) \/ UNCHANGED cache
  BY DEF Allow
<1>2. /\ pc' \in [Threads -> Control] /\ job' \in [Threads -> Jobs]
      /\ \A u \in Threads : JobOK(u)'
  BY <1>1, AdmitType
<1>3. job[t].seen \in 0 .. version /\ Nothing \in Values /\ version \in Nat
  BY GatekeeperAssumption DEF TypeOK, JobOK, Jobs, Nothing, Values
<1> HIDE DEF key
<1>4. \A k \in DOMAIN cache' :
        cache'[k].version \in 0 .. version /\ cache'[k].what \in Values
  <2>1. CASE Keep(key, job[t].seen, Nothing)
    BY <1>3, <2>1, KeepType
  <2>2. CASE UNCHANGED cache
    BY <2>2 DEF TypeOK
  <2>3. QED
    BY <1>1, <2>1, <2>2
<1>5. QED
  BY <1>1, <1>2, <1>4 DEF TypeOK, Control

\* The hook that is next is that of a target, a service or the route.
LEMMA HookType ==
  ASSUME TypeOK, NEW t \in Threads, Routed(t), Hooked(t)
  PROVE  Hook(t) \in Keys
<1>1. Route(t) \in Routes /\ job[t].target \in DOMAIN Route(t).targets
  BY RoutedType
<1>2. job[t].at \in {1, 2, 3}
  BY DEF Hooked, TypeOK, Jobs
<1> DEFINE x == Route(t).targets[job[t].target]
<1>3. x \in Targets /\ Route(t).slug \in STRING
  BY <1>1, TargetType DEF Routes
<1>4. x[1] \in STRING
  BY <1>3 DEF Targets
<1> HIDE DEF x
<1>5. <<"service", x[1]>> \in Keys /\ <<"route", Route(t).slug>> \in Keys /\ x \in Keys
  BY <1>3, <1>4 DEF Keys
<1>6. Hook(t) \in {<<"service", x[1]>>, <<"route", Route(t).slug>>, x}
  BY <1>2 DEF Hook, HookSteps, x
<1>7. QED
  BY <1>5, <1>6

LEMMA SkipType ==
  ASSUME TypeOK, NEW t \in Threads, SkipHook(t)
  PROVE  TypeOK'
<1> DEFINE j == [job[t] EXCEPT !.at = @ + 1]
<1>1. Routed(t) /\ JobOK(t) /\ job[t] \in Jobs /\ job[t].at <= 3
  BY DEF SkipHook, Routed, TypeOK
<1>2. job[t].at + 1 \in 1 .. 4
  BY <1>1 DEF Jobs
<1>3. j \in Jobs /\ Alike(j, job[t]) /\ j.seen = job[t].seen
  BY <1>1, <1>2 DEF Jobs, Alike
<1>4. Go(t, "hooks", j)
      /\ UNCHANGED <<config, version, turns, cache, tokens, asked, issued>>
  BY DEF SkipHook
<1>5. "hooks" \in Control /\ "hooks" # "keeping" /\ j.seen <= version
  BY <1>1, <1>3 DEF Control, JobOK
<1> HIDE DEF j
<1>6. QED
  BY <1>1, <1>3, <1>4, <1>5, GoOnQuietType

LEMMA RunType ==
  ASSUME TypeOK, NEW t \in Threads, RunHook(t)
  PROVE  TypeOK'
<1>1. /\ Routed(t) /\ JobOK(t) /\ job[t] \in Jobs /\ Hooked(t)
      /\ UNCHANGED <<config, version, turns, cache, tokens, asked, issued>>
  BY DEF RunHook, Routed, TypeOK
<1>2. job[t].at + 1 \in 1 .. 4 /\ job[t].values \in Values
  BY <1>1 DEF Jobs, Hooked
<1>3. CASE Cached(HookKey(Hook(t))) /\
           Go(t, "hooks", [job[t] EXCEPT !.at = @ + 1,
                             !.values = Updated(@, cache[HookKey(Hook(t))].what)])
  <2> DEFINE what == cache[HookKey(Hook(t))].what
             j == [job[t] EXCEPT !.at = @ + 1, !.values = Updated(@, what)]
  <2>1. what \in Values
    BY <1>3 DEF Cached, TypeOK
  <2> HIDE DEF what
  <2>2. Updated(job[t].values, what) \in Values
    BY <1>2, <2>1 DEF Updated, Values
  <2>3. j \in Jobs /\ Alike(j, job[t]) /\ j.seen = job[t].seen
    BY <1>1, <1>2, <2>2 DEF Jobs, Alike
  <2>4. "hooks" \in Control /\ "hooks" # "keeping" /\ j.seen <= version
    BY <1>1, <2>3 DEF Control, JobOK
  <2>5. Go(t, "hooks", j)
    BY <1>3 DEF what
  <2> HIDE DEF j
  <2>6. QED
    BY <1>1, <2>3, <2>4, <2>5, GoOnQuietType
<1>4. ASSUME NEW n \in Route(t).hooks[Hook(t)],
             Go(t, "keeping",
                [job[t] EXCEPT !.values = [job[t].values EXCEPT ![n] = Hook(t)],
                   !.kept = Changed(t, [job[t].values EXCEPT ![n] = Hook(t)])])
      PROVE  TypeOK'
  <2> DEFINE values == [job[t].values EXCEPT ![n] = Hook(t)]
             j == [job[t] EXCEPT !.values = values, !.kept = Changed(t, values)]
  <2>1. values \in Values
    BY <1>1, <1>2, HookType DEF Values
  <2> HIDE DEF values
  <2>2. Changed(t, values) \in Values
    BY <2>1 DEF Changed, Values
  <2>3. /\ j \in Jobs /\ Alike(j, job[t]) /\ j.seen = job[t].seen
        /\ j.at = job[t].at /\ j.kept \in Values
    BY <1>1, <2>1, <2>2 DEF Jobs, Alike
  <2>4. Go(t, "keeping", j)
    BY <1>4 DEF values
  <2> HIDE DEF j
  <2>5. pc'[t] = "keeping" /\ job'[t] = j
    BY <2>4 DEF TypeOK, Go
  <2>6. Route(t)' = Route(t)
    BY <2>3, <2>5 DEF Route, Alike
  <2>7. Hooked(t)'
    BY <1>1, <2>3, <2>5, <2>6 DEF Hooked, Hook, Alike
  <2>8. JobOK(t)'
    BY <1>1, <2>3, <2>5, <2>6, <2>7, RoutedType DEF JobOK, Alike
  <2>9. QED
    BY <1>1, <2>3, <2>4, <2>8, QuietType DEF Control, TypeOK
<1>5. CASE Done(t)
  BY <1>1, <1>5, QuietDoneType DEF TypeOK
<1>6. QED
  BY <1>3, <1>4, <1>5 DEF RunHook

LEMMA KeepHookType ==
  ASSUME TypeOK, NEW t \in Threads, KeepHook(t)
  PROVE  TypeOK'
<1> DEFINE j == [job[t] EXCEPT !.at = @ + 1, !.kept = None]
           key == HookKey(Hook(t))
<1>1. /\ Routed(t) /\ JobOK(t) /\ job[t] \in Jobs /\ pc[t] = "keeping"
      /\ UNCHANGED <<config, version, turns, tokens, asked, issued>>
      /\ Keep(key, job[t].since, job[t].kept) \/ UNCHANGED cache
  BY DEF KeepHook, Routed, TypeOK
<1>2. job[t].kept \in Values /\ Hooked(t) /\ job[t].since \in 0 .. version
  BY <1>1 DEF JobOK, Jobs
<1>3. job[t].at + 1 \in 1 .. 4
  BY <1>1, <1>2 DEF Jobs, Hooked
<1>4. j \in Jobs /\ Alike(j, job[t]) /\ j.seen = job[t].seen
  BY <1>1, <1>3 DEF Jobs, Alike
<1>5. "hooks" \in Control /\ "hooks" # "keeping" /\ j.seen <= version
  BY <1>1, <1>4 DEF Control, JobOK
<1>6. Go(t, "hooks", j)
  BY DEF KeepHook
<1> HIDE DEF j, key
<1>7. /\ pc' \in [Threads -> Control] /\ job' \in [Threads -> Jobs]
      /\ \A u \in Threads : JobOK(u)'
  BY <1>1, <1>4, <1>5, <1>6, GoOnType
<1>8. \A k \in DOMAIN cache' :
        cache'[k].version \in 0 .. version /\ cache'[k].what \in Values
  <2>1. CASE Keep(key, job[t].since, job[t].kept)
    BY <1>2, <2>1, KeepType
  <2>2. CASE UNCHANGED cache
    BY <2>2 DEF TypeOK
  <2>3. QED
    BY <1>1, <2>1, <2>2
<1>9. QED
  BY <1>1, <1>7, <1>8 DEF TypeOK, Control

LEMMA LoadType ==
  ASSUME TypeOK, Load
  PROVE  TypeOK'
<1>1. PICK c \in Configs : Install(c)
  BY DEF Load
<1>2. version \in Nat /\ version' = version + 1 /\ version' \in 0 .. MaxVersion
      /\ config' \in Configs
  BY <1>1, GatekeeperAssumption DEF Load, Install, TypeOK
<1>3. UNCHANGED <<tokens, asked, issued, pc, job>>
  BY DEF Load
<1>4. DOMAIN cache' = {}
  BY <1>1 DEF Install
<1>5. turns' \in [Slugs -> Nat]
  BY <1>1 DEF Install, NoTurns
<1>6. ASSUME NEW t \in Threads
      PROVE  JobOK(t)'
  <2>1. JobOK(t) /\ job[t] \in Jobs
    BY DEF TypeOK
  <2>2. job[t].since \in Nat /\ job[t].seen \in Nat
    BY <2>1 DEF Jobs
  <2>3. job'[t] = job[t] /\ pc'[t] = pc[t]
    BY <1>3
  <2>4. Route(t)' = Route(t) /\ (Routed(t)' <=> Routed(t))
    BY <2>3 DEF Routed, Route
  <2>5. Hooked(t) => Hooked(t)'
    BY <2>3, <2>4 DEF Hooked, Hook
  <2>6. job[t].since <= version' /\ job[t].seen <= version'
    BY <1>2, <2>1, <2>2 DEF JobOK
  <2>7. QED
    BY <2>1, <2>3, <2>4, <2>5, <2>6 DEF JobOK
<1>7. QED
  BY <1>2, <1>3, <1>4, <1>5, <1>6 DEF TypeOK

\* What is neither a load nor a step of a request.
LEMMA OutsideType ==
  ASSUME TypeOK, UNCHANGED <<config, version, turns, asked, pc, job>>,
         tokens' \subseteq Tokens, issued' \in 0 .. MaxTokens,
         DOMAIN cache' \subseteq DOMAIN cache,
         \A key \in DOMAIN cache' : cache'[key] = cache[key]
  PROVE  TypeOK'
<1>1. ASSUME NEW t \in Threads
      PROVE  JobOK(t)'
  <2>1. JobOK(t)
    BY DEF TypeOK
  <2>2. QED
    BY <2>1 DEF JobOK, Routed, Route, Hooked, Hook
<1>2. QED
  BY <1>1 DEF TypeOK

LEMMA ExpireKeeps ==
  ASSUME Expire
  PROVE  /\ DOMAIN cache' \subseteq DOMAIN cache
         /\ \A key \in DOMAIN cache' : cache'[key] = cache[key]
BY DEF Expire, Restrict

LEMMA ExpireType ==
  ASSUME TypeOK, Expire
  PROVE  TypeOK'
<1>1. UNCHANGED <<config, version, turns, tokens, asked, issued, pc, job>>
  BY DEF Expire
<1>2. tokens' \subseteq Tokens /\ issued' \in 0 .. MaxTokens
  BY <1>1 DEF TypeOK
<1>3. QED
  BY <1>1, <1>2, ExpireKeeps, OutsideType

LEMMA ExpireTokenType ==
  ASSUME TypeOK, ExpireToken
  PROVE  TypeOK'
<1>1. UNCHANGED <<config, version, turns, cache, asked, issued, pc, job>>
      /\ tokens' \subseteq tokens
  BY DEF ExpireToken
<1>2. tokens' \subseteq Tokens /\ issued' \in 0 .. MaxTokens
  BY <1>1 DEF TypeOK
<1>3. QED
  BY <1>1, <1>2, OutsideType

LEMMA IssueType ==
  ASSUME TypeOK, NEW secret \in Secrets, NEW ip, IssueToken(secret, ip)
  PROVE  TypeOK'
<1> DEFINE cs == Document[config].clients
           token(o) == [client |-> cs[o[1]].code, secret |-> secret,
                        method |-> cs[o[1]].methods[o[2]].code, number |-> issued]
<1>1. PICK o \in UNION {{i} \X DOMAIN cs[i].methods : i \in DOMAIN cs} :
        tokens' = tokens \cup {token(o)}
  BY DEF IssueToken
<1>2. PICK i \in DOMAIN cs : o \in {i} \X DOMAIN cs[i].methods
  BY <1>1
<1>3. o[1] = i /\ o[2] \in DOMAIN cs[i].methods
  BY <1>2
<1>4. cs[i] \in Clients
  BY ClientType DEF TypeOK
<1>5. cs[i].code \in STRING /\ cs[i].methods[o[2]].code \in STRING
  <2>1. cs[i].methods[o[2]] \in Methods
    BY <1>3, <1>4, MethodType
  <2>2. QED
    BY <1>4, <2>1 DEF Clients, Methods
<1>6. issued \in Nat /\ issued' \in 0 .. MaxTokens
  <2>1. issued \in 0 .. MaxTokens /\ MaxTokens \in Nat
    BY GatekeeperAssumption DEF TypeOK
  <2>2. issued < MaxTokens /\ issued' = issued + 1
    BY DEF IssueToken
  <2>3. QED
    BY <2>1, <2>2
<1>7. token(o) \in Tokens
  BY <1>3, <1>5, <1>6 DEF Tokens
<1>8. UNCHANGED <<config, version, turns, cache, asked, pc, job>>
  BY DEF IssueToken
<1>9. tokens' \subseteq Tokens
  BY <1>1, <1>7 DEF TypeOK
<1>10. QED
  BY <1>6, <1>8, <1>9, OutsideType

-----------------------------------------------------------------------------
(* The types hold.  The targets that clients are looked for by are known to *)
(* be the route's.                                                          *)

TypeInv == TypeOK /\ \A t \in Threads : TargetsOK(t)

LEMMA InitType == Init => TypeInv
<1> SUFFICES ASSUME Init PROVE TypeInv
  OBVIOUS
<1>1. version = 0 /\ MaxVersion \in Nat /\ MaxAsks \in Nat /\ MaxTokens \in Nat
  BY GatekeeperAssumption DEF Init
<1>2. \A t \in Threads : pc[t] = "idle" /\ job[t] = NoJob
  BY DEF Init
<1>3. pc \in [Threads -> Control] /\ job \in [Threads -> Jobs]
  BY NoJobType DEF Init, Control
<1>4. \A t \in Threads : JobOK(t) /\ TargetsOK(t)
  BY <1>1, <1>2 DEF JobOK, Routed, TargetsOK, NoJob
<1>5. turns \in [Slugs -> Nat] /\ DOMAIN cache = {}
  BY DEF Init, NoTurns
<1>6. QED
  BY <1>1, <1>3, <1>4, <1>5, GatekeeperAssumption DEF TypeInv, TypeOK, Init, Control

LEMMA StepType ==
  ASSUME TypeInv, [Next]_vars
  PROVE  TypeOK'
<1>1. TypeOK /\ \A t \in Threads : TargetsOK(t)
  BY DEF TypeInv
<1>2. CASE Load
  BY <1>1, <1>2, LoadType
<1>3. CASE Expire
  BY <1>1, <1>3, ExpireType
<1>4. CASE ExpireToken
  BY <1>1, <1>4, ExpireTokenType
<1>5. ASSUME NEW secret \in Secrets, NEW ip, IssueToken(secret, ip)
      PROVE  TypeOK'
  BY <1>1, <1>5, IssueType
<1>6. ASSUME NEW t \in Threads, NEW a \in Asks, Arrive(t, a)
      PROVE  TypeOK'
  BY <1>1, <1>6, ArriveType
<1>7. ASSUME NEW t \in Threads, Serve(t)
      PROVE  TypeOK'
  <2>1. CASE Match(t)
    BY <1>1, <2>1, MatchType
  <2>2. CASE ResolveTargets(t)
    BY <1>1, <2>2, ResolveType
  <2>3. CASE ReadClients(t)
    BY <1>1, <2>3, ReadType
  <2>4. CASE Exhausted(t)
    BY <1>1, <2>4, ExhaustedType
  <2>5. ASSUME NEW a, TrySecret(t, a) \/ TryToken(t, a) \/ TryExternal(t, a)
        PROVE  TypeOK'
    BY <1>1, <2>5, TryType
  <2>6. ASSUME NEW a, Allow(t, a)
        PROVE  TypeOK'
    BY <1>1, <2>6, AllowType
  <2>7. CASE SkipHook(t)
    BY <1>1, <2>7, SkipType
  <2>8. CASE RunHook(t)
    BY <1>1, <2>8, RunType
  <2>9. CASE KeepHook(t)
    BY <1>1, <2>9, KeepHookType
  <2>10. CASE Proceed(t)
    <3>1. Done(t) /\ UNCHANGED <<config, version, turns, cache, tokens, asked, issued>>
      BY <2>10 DEF Proceed
    <3>2. QED
      BY <1>1, <3>1, QuietDoneType DEF TypeOK
  <2>11. QED
    BY <1>7, <2>1, <2>2, <2>3, <2>4, <2>5, <2>6, <2>7, <2>8, <2>9, <2>10 DEF Serve
<1>8. CASE UNCHANGED vars
  <2>1. UNCHANGED <<config, version, turns, cache, tokens, asked, issued, pc, job>>
    BY <1>8 DEF vars
  <2>2. QED
    BY <1>1, <2>1, OutsideType DEF TypeOK
<1>9. QED
  BY <1>2, <1>3, <1>4, <1>5, <1>6, <1>7, <1>8 DEF Next

-----------------------------------------------------------------------------
(* A request and the documents.  While no document has been installed since *)
(* it arrived its routes are the current document's, so that the route has  *)
(* targets; while none has since its clients were read those are.  What is  *)
(* still to be tried are grants of the document that they were read from.   *)

Choosing == {"choosing", "trying", "allowed"}

Current(t) ==
  /\ pc[t] # "idle" /\ job[t].since = version => job[t].routes = config
  /\ Routed(t) /\ job[t].since = version => LiveTargets(config, Route(t)) # {}
  /\ pc[t] \in Choosing /\ job[t].since = version => job[t].targets # {}
  /\ Routed(t) /\ job[t].open /\ Route(t).protected => job[t].since < version

Granted(t, a) ==
  LET k == At(job[t].clients, a)
  IN /\ a \in Places /\ a[1] # 0
     /\ k.client.enabled /\ k.method.enabled
     /\ \E x \in ToSet(Route(t).targets) : InScope(k.client, x)

Grants(t) ==
  /\ pc[t] \notin {"hooks", "keeping"} => job[t].known = Nobody
  /\ pc[t] \in {"trying", "allowed"} =>
       /\ job[t].seen >= job[t].since
       /\ job[t].seen = version => job[t].clients = config
       /\ \A a \in job[t].attempts : Granted(t, a)
  /\ pc[t] = "allowed" => \A a \in First(t) : Attempt(t, a).method.type = "external"

\* What AdmittedByOneGrant says of a client that was found.
Found(j, r) ==
  LET k == At(j.clients, j.known.attempt)
  IN /\ k.client.enabled /\ k.method.enabled
     /\ j.ask.ip \in k.client.allowed
     /\ \E x \in ToSet(r.targets) : InScope(k.client, x)
     /\ k.method.type = "secret" => k.method.secret \in j.ask.presents
     /\ k.method.type = "oauth" =>
          /\ j.known.token.secret = k.method.secret
          /\ j.known.token.client = k.client.code
          /\ j.known.token.method = k.method.code

Entitled(t) ==
  Admitted(t) =>
    /\ ~job[t].open => job[t].known # Nobody
    /\ job[t].known # Nobody =>
         /\ Found(job[t], Route(t))
         /\ job[t].seen >= job[t].since
         /\ job[t].seen = version => job[t].clients = config

Trace(t) == TargetsOK(t) /\ Current(t) /\ Grants(t) /\ Entitled(t)

TraceInv == TypeOK /\ \A t \in Threads : Trace(t)

\* The attempts that are first are one.
LEMMA FirstIsOne ==
  ASSUME TypeOK, NEW t \in Threads, NEW a \in First(t), NEW b \in First(t)
  PROVE  a = b
<1>1. a \in Places /\ b \in Places
  BY DEF First, TypeOK, Jobs
<1>2. ~Sooner(a, b) /\ ~Sooner(b, a)
  BY DEF First
<1>3. /\ a[1] \in Nat /\ a[2] \in Nat /\ a[3] \in Nat /\ a = <<a[1], a[2], a[3]>>
      /\ b[1] \in Nat /\ b[2] \in Nat /\ b[3] \in Nat /\ b = <<b[1], b[2], b[3]>>
  BY <1>1 DEF Places
<1>4. a[1] = b[1] /\ a[2] = b[2] /\ a[3] = b[3]
  BY <1>2, <1>3 DEF Sooner
<1>5. QED
  BY <1>3, <1>4

\* The trace of one thread only depends on where it is, on its job and on what is
\* installed.
LEMMA SameTrace ==
  ASSUME NEW t, Trace(t), pc'[t] = pc[t], job'[t] = job[t], UNCHANGED <<config, version>>
  PROVE  Trace(t)'
<1>1. Route(t)' = Route(t) /\ (Routed(t)' <=> Routed(t)) /\ (Admitted(t)' <=> Admitted(t))
  BY DEF Route, Routed, Admitted
<1>2. First(t)' = First(t) /\ \A a : Attempt(t, a)' = Attempt(t, a)
  BY DEF First, Attempt
<1>3. TargetsOK(t)' /\ Current(t)'
  BY <1>1 DEF Trace, TargetsOK, Current
<1>4. \A a \in job[t].attempts : Granted(t, a) => Granted(t, a)'
  BY <1>1 DEF Granted
<1>5. Grants(t)'
  BY <1>2, <1>4 DEF Trace, Grants
<1>6. Entitled(t)'
  BY <1>1 DEF Trace, Entitled
<1>7. QED
  BY <1>3, <1>5, <1>6 DEF Trace

\* After a load no request has all of the current document.
LEMMA LoadTrace ==
  ASSUME TypeOK, NEW t \in Threads, Trace(t), Load
  PROVE  Trace(t)'
<1>1. pc'[t] = pc[t] /\ job'[t] = job[t] /\ version' = version + 1
  BY DEF Load, Install
<1>2. /\ job[t].since \in Nat /\ job[t].seen \in Nat /\ version \in Nat
      /\ job[t].since <= version /\ job[t].seen <= version
  BY GatekeeperAssumption DEF TypeOK, JobOK, Jobs
<1>3. job'[t].since < version' /\ job'[t].since # version' /\ job'[t].seen # version'
  BY <1>1, <1>2
<1>4. Route(t)' = Route(t) /\ (Routed(t)' <=> Routed(t)) /\ (Admitted(t)' <=> Admitted(t))
  BY <1>1 DEF Route, Routed, Admitted
<1>5. First(t)' = First(t) /\ \A a : Attempt(t, a)' = Attempt(t, a)
  BY <1>1 DEF First, Attempt
<1>6. TargetsOK(t)' /\ Current(t)'
  BY <1>1, <1>3, <1>4 DEF Trace, TargetsOK, Current
<1>7. \A a \in job[t].attempts : Granted(t, a) => Granted(t, a)'
  BY <1>1, <1>4 DEF Granted
<1>8. Grants(t)'
  BY <1>1, <1>3, <1>5, <1>7 DEF Trace, Grants
<1>9. Entitled(t)'
  BY <1>1, <1>3, <1>4 DEF Trace, Entitled
<1>10. QED
  BY <1>6, <1>8, <1>9 DEF Trace

\* A step of one thread leaves the traces of the others.
LEMMA OtherTraces ==
  ASSUME TypeOK, NEW t \in Threads, NEW u \in Threads, u # t, Trace(u), NEW to, NEW j,
         Go(t, to, j), UNCHANGED <<config, version>>
  PROVE  Trace(u)'
<1>1. pc'[u] = pc[u] /\ job'[u] = job[u]
  BY DEF Go, TypeOK
<1>2. QED
  BY <1>1, SameTrace

LEMMA DoneTrace ==
  ASSUME TypeOK, NEW t \in Threads, Done(t)
  PROVE  Trace(t)'
<1>1. pc'[t] = "idle" /\ job'[t].known = Nobody
  BY DEF TypeOK, Done, Go, NoJob
<1>2. ~Routed(t)' /\ ~Admitted(t)'
  BY <1>1 DEF Routed, Admitted
<1>3. QED
  BY <1>1, <1>2 DEF Trace, TargetsOK, Current, Grants, Entitled, Choosing

\* Hooks do not change what a request was admitted by.
LEMMA HooksTrace ==
  ASSUME TypeOK, NEW t \in Threads, Trace(t), Admitted(t), NEW to \in {"hooks", "keeping"},
         NEW j, Go(t, to, j), UNCHANGED <<config, version>>,
         Alike(j, job[t]), j.open = job[t].open, j.clients = job[t].clients,
         j.seen = job[t].seen, j.known = job[t].known
  PROVE  Trace(t)'
<1>1. pc'[t] = to /\ job'[t] = j
  BY DEF TypeOK, Go
<1>2. Route(t)' = Route(t) /\ Routed(t) /\ Routed(t)' /\ Admitted(t)'
  BY <1>1 DEF Route, Alike, Routed, Admitted
<1>3. TargetsOK(t)' /\ Grants(t)'
  BY <1>1 DEF TargetsOK, Grants
<1>4. pc[t] # "idle" /\ pc'[t] # "idle" /\ pc'[t] \notin Choosing
  BY <1>1 DEF Admitted, Choosing
<1>5. Current(t)'
  BY <1>1, <1>2, <1>4 DEF Trace, Current, Alike
<1>6. Found(j, Route(t)) <=> Found(job[t], Route(t))
  BY DEF Found, Alike
<1>7. Entitled(t)'
  BY <1>1, <1>2, <1>6 DEF Trace, Entitled, Alike
<1>8. QED
  BY <1>3, <1>5, <1>7 DEF Trace

LEMMA ArriveTrace ==
  ASSUME TypeOK, NEW t \in Threads, NEW a, Arrive(t, a)
  PROVE  Trace(t)'
<1>1. PICK token \in {None} \cup tokens :
        Go(t, "matching", [NoJob EXCEPT !.ask = a, !.bearer = token, !.routes = config,
                                        !.since = version])
  BY DEF Arrive
<1>2. /\ pc'[t] = "matching" /\ job'[t].known = Nobody
      /\ job'[t].routes = config /\ config' = config
  BY <1>1 DEF TypeOK, Go, NoJob, Arrive
<1>3. ~Routed(t)' /\ ~Admitted(t)'
  BY <1>2 DEF Routed, Admitted
<1>4. QED
  BY <1>2, <1>3 DEF Trace, TargetsOK, Current, Grants, Entitled, Choosing

LEMMA MatchTrace ==
  ASSUME TypeOK, NEW t \in Threads, Trace(t), Match(t)
  PROVE  Trace(t)'
<1> DEFINE routes == Document[job[t].routes].routes
<1>1. pc[t] = "matching" /\ UNCHANGED <<config, version>> /\ job[t] \in Jobs
  BY DEF Match, TypeOK
<1>2. CASE Done(t)
  BY <1>2, DoneTrace
<1>3. ASSUME NEW i \in DOMAIN routes, NEW n \in LiveTargets(config, routes[i]),
             Go(t, "resolving",
                [job[t] EXCEPT !.route = i, !.target = n, !.open = ~routes[i].protected])
      PROVE  Trace(t)'
  <2> DEFINE j == [job[t] EXCEPT !.route = i, !.target = n,
                                 !.open = ~routes[i].protected]
  <2>1. /\ j.routes = job[t].routes /\ j.since = job[t].since /\ j.known = job[t].known
        /\ j.route = i /\ j.open = ~routes[i].protected
    BY <1>1 DEF Jobs
  <2>2. pc'[t] = "resolving" /\ job'[t] = j
    BY <1>3 DEF TypeOK, Go
  <2> HIDE DEF j
  <2>3. Route(t)' = routes[i]
    BY <2>1, <2>2 DEF Route
  <2>4. Current(t)'
    BY <1>1, <1>3, <2>1, <2>2, <2>3 DEF Trace, Current, Choosing
  <2>5. TargetsOK(t)' /\ Grants(t)' /\ Entitled(t)'
    BY <1>1, <2>1, <2>2 DEF Trace, TargetsOK, Grants, Entitled, Admitted
  <2>6. QED
    BY <2>4, <2>5 DEF Trace
<1>4. QED
  BY <1>2, <1>3 DEF Match

LEMMA ResolveTrace ==
  ASSUME TypeOK, NEW t \in Threads, Trace(t), ResolveTargets(t)
  PROVE  Trace(t)'
<1> DEFINE j == [job[t] EXCEPT !.targets = LiveTargets(config, Route(t))]
<1>1. /\ pc[t] = "resolving" /\ Routed(t) /\ UNCHANGED <<config, version>>
      /\ job[t] \in Jobs /\ config \in Configs
  BY DEF ResolveTargets, Routed, TypeOK
<1>2. /\ Alike(j, job[t]) /\ j.open = job[t].open /\ j.known = job[t].known
      /\ j.targets = LiveTargets(config, Route(t))
  BY <1>1 DEF Alike, Jobs
<1>3. pc'[t] = "choosing" /\ job'[t] = j
  BY DEF ResolveTargets, TypeOK, Go
<1> HIDE DEF j
<1>4. Route(t)' = Route(t)
  BY <1>2, <1>3 DEF Route, Alike
<1>5. LiveTargets(config, Route(t)) \subseteq DOMAIN Route(t).targets
  BY DEF LiveTargets
<1>6. TargetsOK(t)'
  BY <1>2, <1>3, <1>4, <1>5 DEF TargetsOK
<1>7. Current(t)'
  BY <1>1, <1>2, <1>3, <1>4 DEF Trace, Current, Alike
<1>8. Grants(t)' /\ Entitled(t)'
  BY <1>1, <1>2, <1>3 DEF Trace, Grants, Entitled, Admitted
<1>9. QED
  BY <1>6, <1>7, <1>8 DEF Trace

LEMMA ReadTrace ==
  ASSUME TypeOK, NEW t \in Threads, Trace(t), ReadClients(t)
  PROVE  Trace(t)'
<1> DEFINE as == Attempts(config, Route(t), job[t].targets)
           j == [job[t] EXCEPT !.attempts = as, !.clients = config, !.seen = version]
<1>1. /\ pc[t] = "choosing" /\ Routed(t) /\ UNCHANGED <<config, version>>
      /\ job[t] \in Jobs /\ JobOK(t)
  BY DEF ReadClients, Routed, TypeOK
<1>2. job[t].targets \subseteq DOMAIN Route(t).targets /\ Route(t) \in Routes
      /\ config \in Configs
  BY <1>1, RoutedType DEF Trace, TargetsOK, TypeOK
<1>3. /\ Alike(j, job[t]) /\ j.open = job[t].open /\ j.known = job[t].known
      /\ j.targets = job[t].targets /\ j.clients = config /\ j.seen = version
      /\ j.attempts = as
  BY <1>1 DEF Alike, Jobs
<1>4. pc'[t] = "trying" /\ job'[t] = j
  BY DEF ReadClients, TypeOK, Go
<1>5. job[t].since \in Nat /\ version \in Nat /\ job[t].since <= version
  BY <1>1, GatekeeperAssumption DEF Jobs, JobOK, TypeOK
<1>6. \A a \in as : /\ a \in Places /\ a[1] # 0
                    /\ At(config, a).client.enabled /\ At(config, a).method.enabled
                    /\ \E x \in ToSet(Route(t).targets) : InScope(At(config, a).client, x)
  BY <1>2, AttemptsGrant
<1> HIDE DEF j, as
<1>7. Route(t)' = Route(t)
  BY <1>3, <1>4 DEF Route, Alike
<1>8. TargetsOK(t)'
  BY <1>2, <1>3, <1>4, <1>7 DEF TargetsOK
<1>9. Current(t)'
  BY <1>1, <1>3, <1>4, <1>7 DEF Trace, Current, Alike, Routed, Choosing
<1>10. \A a \in as : Granted(t, a)'
  BY <1>3, <1>4, <1>6, <1>7 DEF Granted
<1>11. Grants(t)'
  BY <1>1, <1>3, <1>4, <1>5, <1>10 DEF Trace, Grants, Alike
<1>12. Entitled(t)'
  BY <1>4 DEF Entitled, Admitted
<1>13. QED
  BY <1>8, <1>9, <1>11, <1>12 DEF Trace

LEMMA ExhaustedTrace ==
  ASSUME TypeOK, NEW t \in Threads, Trace(t), Exhausted(t)
  PROVE  Trace(t)'
<1>1. /\ pc[t] = "trying" /\ Routed(t) /\ UNCHANGED <<config, version>>
      /\ job[t] \in Jobs /\ JobOK(t)
  BY DEF Exhausted, Routed, TypeOK
<1>2. CASE job[t].open /\ Go(t, "hooks", job[t])
  <2>1. pc'[t] = "hooks" /\ job'[t] = job[t]
    BY <1>2 DEF TypeOK, Go
  <2>2. Route(t)' = Route(t)
    BY <2>1 DEF Route
  <2>3. job[t].known = Nobody
    BY <1>1 DEF Trace, Grants
  <2>4. TargetsOK(t)' /\ Grants(t)' /\ Entitled(t)'
    BY <1>2, <2>1, <2>3 DEF TargetsOK, Grants, Entitled
  <2>5. Current(t)'
    BY <1>1, <2>1, <2>2 DEF Trace, Current, Choosing
  <2>6. QED
    BY <2>4, <2>5 DEF Trace
<1>3. CASE Done(t)
  BY <1>3, DoneTrace
<1>4. CASE job[t].targets = {} /\ Go(t, "resolving", [job[t] EXCEPT !.open = TRUE])
  <2> DEFINE j == [job[t] EXCEPT !.open = TRUE]
  <2>1. Alike(j, job[t]) /\ j.open /\ j.known = job[t].known
    BY <1>1 DEF Alike, Jobs
  <2>2. pc'[t] = "resolving" /\ job'[t] = j
    BY <1>4 DEF TypeOK, Go
  <2> HIDE DEF j
  <2>3. Route(t)' = Route(t)
    BY <2>1, <2>2 DEF Route, Alike
  <2>4. job[t].since < version
    <3>1. job[t].since # version
      BY <1>1, <1>4 DEF Trace, Current, Choosing
    <3>2. job[t].since \in Nat /\ version \in Nat /\ job[t].since <= version
      BY <1>1, GatekeeperAssumption DEF Jobs, JobOK, TypeOK
    <3>3. QED
      BY <3>1, <3>2
  <2>5. Current(t)'
    BY <1>1, <2>1, <2>2, <2>3, <2>4 DEF Trace, Current, Choosing, Alike
  <2>6. TargetsOK(t)' /\ Grants(t)' /\ Entitled(t)'
    BY <1>1, <2>1, <2>2 DEF Trace, TargetsOK, Grants, Entitled, Admitted
  <2>7. QED
    BY <2>5, <2>6 DEF Trace
<1>5. QED
  BY <1>2, <1>3, <1>4 DEF Exhausted

\* A client that was found by one of the attempts is entitled.
LEMMA AdmitTrace ==
  ASSUME TypeOK, NEW t \in Threads, Trace(t), pc[t] \in {"trying", "allowed"},
         NEW a \in First(t), NEW token \in Tokens \cup {None},
         Admit(t, a, token), UNCHANGED <<config, version>>,
         LET m == Attempt(t, a)
         IN /\ m.method.type = "secret" => m.method.secret \in job[t].ask.presents
            /\ m.method.type = "oauth" => /\ token.secret = m.method.secret
                                          /\ token.client = m.client.code
                                          /\ token.method = m.method.code
  PROVE  Trace(t)' \/ Pass(t, a)
<1>1. Routed(t) /\ JobOK(t) /\ job[t] \in Jobs
  BY DEF Routed, TypeOK
<1>2. a \in job[t].attempts /\ Granted(t, a) /\ a \in Places /\ a[1] # 0
  BY DEF Trace, Grants, First, Granted
<1>3. CASE Done(t)
  BY <1>3, DoneTrace
<1>4. CASE /\ job[t].ask.ip \in Attempt(t, a).client.allowed
           /\ Go(t, "hooks", [job[t] EXCEPT !.attempts = {},
                                 !.known = [attempt |-> a, token |-> token]])
  <2> DEFINE j == [job[t] EXCEPT !.attempts = {},
                                 !.known = [attempt |-> a, token |-> token]]
  <2>1. /\ Alike(j, job[t]) /\ j.open = job[t].open /\ j.clients = job[t].clients
        /\ j.seen = job[t].seen /\ j.known.attempt = a /\ j.known.token = token
    BY <1>1 DEF Jobs, Alike
  <2>2. pc'[t] = "hooks" /\ job'[t] = j
    BY <1>4 DEF TypeOK, Go
  <2> HIDE DEF j
  <2>3. Route(t)' = Route(t)
    BY <2>1, <2>2 DEF Route, Alike
  <2>4. TargetsOK(t)' /\ Grants(t)'
    BY <2>2 DEF TargetsOK, Grants
  <2>5. Current(t)'
    BY <1>1, <2>1, <2>2, <2>3 DEF Trace, Current, Choosing, Alike, Routed
  <2>6. j.known # Nobody
    BY <1>2, <2>1 DEF Nobody
  <2>7. Attempt(t, a) = At(j.clients, j.known.attempt)
    BY <2>1 DEF Attempt
  <2>8. Found(j, Route(t))
    BY <1>2, <1>4, <2>1, <2>7 DEF Found, Granted, Attempt, Alike
  <2>9. Entitled(t)'
    BY <2>1, <2>2, <2>3, <2>6, <2>8 DEF Entitled, Trace, Grants, Alike
  <2>10. QED
    BY <2>4, <2>5, <2>9 DEF Trace
<1>5. QED
  BY <1>3, <1>4 DEF Admit

LEMMA PassTrace ==
  ASSUME TypeOK, NEW t \in Threads, Trace(t), pc[t] \in {"trying", "allowed"},
         NEW a, Pass(t, a), UNCHANGED <<config, version>>
  PROVE  Trace(t)'
<1> DEFINE j == [job[t] EXCEPT !.attempts = @ \ {a}]
<1>1. Routed(t) /\ job[t] \in Jobs
  BY DEF Routed, TypeOK
<1>2. /\ Alike(j, job[t]) /\ j.open = job[t].open /\ j.clients = job[t].clients
      /\ j.seen = job[t].seen /\ j.known = job[t].known /\ j.targets = job[t].targets
      /\ j.attempts \subseteq job[t].attempts
  BY <1>1 DEF Jobs, Alike
<1>3. pc'[t] = "trying" /\ job'[t] = j
  BY DEF Pass, TypeOK, Go
<1> HIDE DEF j
<1>4. Route(t)' = Route(t)
  BY <1>2, <1>3 DEF Route, Alike
<1>5. TargetsOK(t)'
  BY <1>2, <1>3, <1>4 DEF Trace, TargetsOK
<1>6. Current(t)'
  BY <1>1, <1>2, <1>3, <1>4 DEF Trace, Current, Choosing, Alike
<1>7. \A b \in j.attempts : Granted(t, b)'
  <2>1. \A b \in j.attempts : Granted(t, b)
    BY <1>2 DEF Trace, Grants
  <2>2. QED
    BY <1>2, <1>3, <1>4, <2>1 DEF Granted
<1>8. Grants(t)'
  BY <1>2, <1>3, <1>7 DEF Trace, Grants, Alike
<1>9. Entitled(t)'
  BY <1>3 DEF Entitled, Admitted
<1>10. QED
  BY <1>5, <1>6, <1>8, <1>9 DEF Trace

LEMMA AllowedTrace ==
  ASSUME TypeOK, NEW t \in Threads, Trace(t), NEW a, Trying(t, a, "external"),
         Go(t, "allowed", job[t]), UNCHANGED <<config, version>>
  PROVE  Trace(t)'
<1>1. /\ pc[t] = "trying" /\ pc'[t] = "allowed" /\ job'[t] = job[t]
      /\ a \in First(t) /\ Attempt(t, a).method.type = "external"
  BY DEF TypeOK, Go, Trying
<1>2. Route(t)' = Route(t) /\ First(t)' = First(t)
      /\ \A b : Attempt(t, b)' = Attempt(t, b)
  BY <1>1 DEF Route, First, Attempt
<1>3. \A b \in First(t) : Attempt(t, b).method.type = "external"
  BY <1>1, FirstIsOne
<1>4. TargetsOK(t)'
  BY <1>1, <1>2 DEF Trace, TargetsOK
<1>5. Current(t)'
  BY <1>1, <1>2 DEF Trace, Current, Choosing, Routed
<1>6. \A b \in job[t].attempts : Granted(t, b)'
  <2>1. \A b \in job[t].attempts : Granted(t, b)
    BY <1>1 DEF Trace, Grants
  <2>2. QED
    BY <1>1, <1>2, <2>1 DEF Granted
<1>7. Grants(t)'
  BY <1>1, <1>2, <1>3, <1>6 DEF Trace, Grants
<1>8. Entitled(t)'
  BY <1>1 DEF Entitled, Admitted
<1>9. QED
  BY <1>4, <1>5, <1>7, <1>8 DEF Trace

LEMMA TryTrace ==
  ASSUME TypeOK, NEW t \in Threads, Trace(t), NEW a,
         TrySecret(t, a) \/ TryToken(t, a) \/ TryExternal(t, a)
  PROVE  Trace(t)'
<1>1. pc[t] = "trying" /\ a \in First(t) /\ UNCHANGED <<config, version>>
  BY DEF TrySecret, TryToken, TryExternal, Trying
<1>2. job[t].bearer \in Tokens \cup {None}
  BY DEF TypeOK, Jobs
<1>3. CASE Pass(t, a)
  BY <1>1, <1>3, PassTrace
<1>4. CASE TrySecret(t, a)
  <2>1. CASE Attempt(t, a).method.secret \in job[t].ask.presents /\ Admit(t, a, None)
    BY <1>1, <1>3, <1>4, <2>1, AdmitTrace DEF TrySecret, Trying
  <2>2. QED
    BY <1>3, <1>4, <2>1 DEF TrySecret
<1>5. CASE TryToken(t, a)
  <2>1. CASE Verified(Attempt(t, a), job[t].bearer) /\ Admit(t, a, job[t].bearer)
    BY <1>1, <1>2, <1>3, <1>5, <2>1, AdmitTrace DEF TryToken, Trying, Verified
  <2>2. QED
    BY <1>3, <1>5, <2>1 DEF TryToken
<1>6. CASE TryExternal(t, a)
  <2>1. CASE Admit(t, a, None)
    BY <1>1, <1>3, <1>6, <2>1, AdmitTrace DEF TryExternal, Trying
  <2>2. CASE Go(t, "allowed", job[t])
    BY <1>1, <1>6, <2>2, AllowedTrace DEF TryExternal
  <2>3. CASE Done(t)
    BY <2>3, DoneTrace
  <2>4. QED
    BY <1>3, <1>6, <2>1, <2>2, <2>3 DEF TryExternal
<1>7. QED
  BY <1>4, <1>5, <1>6

LEMMA AllowTrace ==
  ASSUME TypeOK, NEW t \in Threads, Trace(t), NEW a, Allow(t, a)
  PROVE  Trace(t)'
<1>1. /\ pc[t] = "allowed" /\ a \in First(t) /\ Admit(t, a, None)
      /\ UNCHANGED <<config, version>>
  BY DEF Allow
<1>2. Attempt(t, a).method.type = "external"
  BY <1>1 DEF Trace, Grants
<1>3. CASE Pass(t, a)
  BY <1>1, <1>3, PassTrace
<1>4. QED
  BY <1>1, <1>2, <1>3, AdmitTrace

\* What a record keeps of another of a request that was admitted.
Follows(j, k) ==
  /\ Alike(j, k) /\ j.open = k.open /\ j.clients = k.clients
  /\ j.seen = k.seen /\ j.known = k.known

LEMMA FollowsAnyHook ==
  ASSUME NEW k \in Jobs, NEW at, NEW values, NEW kept
  PROVE  /\ Follows([k EXCEPT !.at = at], k)
         /\ Follows([k EXCEPT !.at = at, !.values = values], k)
         /\ Follows([k EXCEPT !.values = values, !.kept = kept], k)
         /\ Follows([k EXCEPT !.at = at, !.kept = kept], k)
BY DEF Follows, Alike, Jobs

LEMMA HookStepTrace ==
  ASSUME TypeOK, NEW t \in Threads, Trace(t), SkipHook(t) \/ RunHook(t) \/ KeepHook(t)
  PROVE  Trace(t)'
<1>1. /\ Admitted(t) /\ UNCHANGED <<config, version>> /\ job[t] \in Jobs
  BY DEF SkipHook, RunHook, KeepHook, Admitted, TypeOK
<1>2. ASSUME NEW to \in {"hooks", "keeping"}, NEW j, Go(t, to, j), Follows(j, job[t])
      PROVE  Trace(t)'
  BY <1>1, <1>2, HooksTrace DEF Follows
<1>3. CASE SkipHook(t)
  BY <1>1, <1>2, <1>3, FollowsAnyHook DEF SkipHook
<1>4. CASE RunHook(t)
  <2>1. CASE Done(t)
    BY <2>1, DoneTrace
  <2>2. CASE Go(t, "hooks",
                [job[t] EXCEPT !.at = @ + 1,
                   !.values = Updated(@, cache[HookKey(Hook(t))].what)])
    BY <1>1, <1>2, <2>2, FollowsAnyHook
  <2>3. ASSUME NEW n,
               Go(t, "keeping",
                  [job[t] EXCEPT !.values = [job[t].values EXCEPT ![n] = Hook(t)],
                     !.kept = Changed(t, [job[t].values EXCEPT ![n] = Hook(t)])])
        PROVE  Trace(t)'
    BY <1>1, <1>2, <2>3, FollowsAnyHook
  <2>4. QED
    BY <1>4, <2>1, <2>2, <2>3 DEF RunHook
<1>5. CASE KeepHook(t)
  BY <1>1, <1>2, <1>5, FollowsAnyHook DEF KeepHook
<1>6. QED
  BY <1>3, <1>4, <1>5

LEMMA InitTrace == Init => TraceInv
<1> SUFFICES ASSUME Init PROVE TraceInv
  OBVIOUS
<1>1. TypeOK
  BY InitType DEF TypeInv
<1>2. ASSUME NEW t \in Threads
      PROVE  Trace(t)
  <2>1. pc[t] = "idle" /\ job[t].known = Nobody
    BY DEF Init, NoJob
  <2>2. QED
    BY <2>1 DEF Trace, TargetsOK, Current, Grants, Entitled, Routed, Admitted, Choosing
<1>3. QED
  BY <1>1, <1>2 DEF TraceInv

\* Every step of a request's thread moves that thread only.
LEMMA ServeGoes ==
  ASSUME NEW t, Serve(t) \/ \E a \in Asks : Arrive(t, a)
  PROVE  UNCHANGED <<config, version>> /\ \E to, j : Go(t, to, j)
<1>1. UNCHANGED <<config, version>>
  BY DEF Serve, Arrive, Match, ResolveTargets, ReadClients, Exhausted, TrySecret, TryToken,
         TryExternal, Allow, SkipHook, RunHook, KeepHook, Proceed
<1>2. CASE \E a \in Asks : Arrive(t, a)
  BY <1>2 DEF Arrive
<1>3. CASE Match(t) \/ ResolveTargets(t) \/ ReadClients(t) \/ Exhausted(t)
  BY <1>3 DEF Match, ResolveTargets, ReadClients, Exhausted, Done
<1>4. CASE \E a \in First(t) :
             TrySecret(t, a) \/ TryToken(t, a) \/ TryExternal(t, a) \/ Allow(t, a)
  BY <1>4 DEF TrySecret, TryToken, TryExternal, Allow, Admit, Pass, Done
<1>5. CASE SkipHook(t) \/ RunHook(t) \/ KeepHook(t) \/ Proceed(t)
  BY <1>5 DEF SkipHook, RunHook, KeepHook, Proceed, Done
<1>6. QED
  BY <1>1, <1>2, <1>3, <1>4, <1>5 DEF Serve

LEMMA StepTrace ==
  ASSUME TraceInv, [Next]_vars
  PROVE  TraceInv'
<1>1. TypeOK /\ \A t \in Threads : Trace(t)
  BY DEF TraceInv
<1>2. TypeOK'
  BY StepType DEF TraceInv, TypeInv, Trace
<1>3. CASE Load
  BY <1>1, <1>2, <1>3, LoadTrace DEF TraceInv
<1>4. CASE UNCHANGED <<config, version, pc, job>>
  BY <1>1, <1>2, <1>4, SameTrace DEF TraceInv
<1>5. ASSUME NEW t \in Threads, Serve(t) \/ \E a \in Asks : Arrive(t, a)
      PROVE  TraceInv'
  <2>1. \A u \in Threads : u # t => Trace(u)'
    BY <1>1, <1>5, ServeGoes, OtherTraces
  <2>2. Trace(t)'
    <3>1. CASE \E a \in Asks : Arrive(t, a)
      BY <1>1, <3>1, ArriveTrace
    <3>2. CASE Match(t)
      BY <1>1, <3>2, MatchTrace
    <3>3. CASE ResolveTargets(t)
      BY <1>1, <3>3, ResolveTrace
    <3>4. CASE ReadClients(t)
      BY <1>1, <3>4, ReadTrace
    <3>5. CASE Exhausted(t)
      BY <1>1, <3>5, ExhaustedTrace
    <3>6. ASSUME NEW a, TrySecret(t, a) \/ TryToken(t, a) \/ TryExternal(t, a)
          PROVE  Trace(t)'
      BY <1>1, <3>6, TryTrace
    <3>7. ASSUME NEW a, Allow(t, a)
          PROVE  Trace(t)'
      BY <1>1, <3>7, AllowTrace
    <3>8. CASE SkipHook(t) \/ RunHook(t) \/ KeepHook(t)
      BY <1>1, <3>8, HookStepTrace
    <3>9. CASE Proceed(t)
      BY <1>1, <3>9, DoneTrace DEF Proceed
    <3>10. QED
      BY <1>5, <3>1, <3>2, <3>3, <3>4, <3>5, <3>6, <3>7, <3>8, <3>9 DEF Serve
  <2>3. QED
    BY <1>2, <2>1, <2>2 DEF TraceInv
<1>6. QED
  <2>1. CASE \/ Expire \/ ExpireToken \/ UNCHANGED vars
             \/ \E secret \in Secrets, ip \in {a.ip : a \in Asks} : IssueToken(secret, ip)
    BY <1>4, <2>1 DEF Expire, ExpireToken, IssueToken, vars
  <2>2. QED
    BY <1>3, <1>5, <2>1 DEF Next

\* The variables have their types, and what scripts found comes from no document
\* later than the current one.
THEOREM TypeCorrect == Spec => []TypeOK
<1>1. Init => TraceInv
  BY InitTrace
<1>2. TraceInv /\ [Next]_vars => TraceInv'
  BY StepTrace
<1>3. TraceInv => TypeOK
  BY DEF TraceInv
<1>4. QED
  BY <1>1, <1>2, <1>3, PTL DEF Spec

\* Nobody gets through a protected route but by one grant of one document.
THEOREM GrantCorrect == Spec => []AdmittedByOneGrant
<1>1. Init => TraceInv
  BY InitTrace
<1>2. TraceInv /\ [Next]_vars => TraceInv'
  BY StepTrace
<1>3. TraceInv => AdmittedByOneGrant
  <2> SUFFICES ASSUME TraceInv, NEW t \in Threads, Admitted(t)
               PROVE  LET j == job[t]
                          k == At(j.clients, j.known.attempt)
                      IN /\ ~j.open => j.known # Nobody
                         /\ j.open /\ Route(t).protected => j.since < version
                         /\ j.known # Nobody =>
                              /\ Found(j, Route(t)) /\ j.seen >= j.since
                              /\ j.seen = version => j.clients = config
    BY DEF AdmittedByOneGrant, Found
  <2>1. Entitled(t) /\ Current(t)
    BY DEF TraceInv, Trace
  <2>2. Routed(t)
    BY DEF Admitted, Routed
  <2>3. QED
    BY <2>1, <2>2 DEF Entitled, Current
<1>4. QED
  BY <1>1, <1>2, <1>3, PTL DEF Spec

-----------------------------------------------------------------------------
(* The cache.  It is only written by Allow and KeepHook, and emptied.       *)

\* What happens to the cache in a step.
CacheStep ==
  \/ DOMAIN cache' = {}
  \/ /\ UNCHANGED version
     /\ DOMAIN cache' \subseteq DOMAIN cache
     /\ \A key \in DOMAIN cache' : cache'[key] = cache[key]
  \/ /\ UNCHANGED version
     /\ \E t \in Threads :
          \/ \E a : Allow(t, a)
          \/ KeepHook(t) /\ ~UNCHANGED cache

LEMMA StepCache ==
  ASSUME [Next]_vars
  PROVE  CacheStep
<1>1. CASE Load
  BY <1>1 DEF Load, Install, CacheStep
<1>2. CASE Expire
  BY <1>2, ExpireKeeps DEF Expire, CacheStep
<1>3. CASE UNCHANGED <<version, cache>>
  BY <1>3 DEF CacheStep
<1>4. ASSUME NEW t \in Threads, Serve(t)
      PROVE  CacheStep
  <2>1. CASE \E a : Allow(t, a)
    BY <2>1 DEF Allow, CacheStep
  <2>2. CASE KeepHook(t)
    <3>1. UNCHANGED version
      BY <2>2 DEF KeepHook
    <3>2. CASE UNCHANGED cache
      BY <1>3, <3>1, <3>2
    <3>3. QED
      BY <2>2, <3>1, <3>2 DEF CacheStep
  <2>3. QED
    BY <1>3, <1>4, <2>1, <2>2
    DEF Serve, Match, ResolveTargets, ReadClients, Exhausted, TrySecret, TryToken,
        TryExternal, SkipHook, RunHook, Proceed
<1>5. QED
  BY <1>1, <1>2, <1>3, <1>4 DEF Next, Arrive, ExpireToken, IssueToken, vars

\* What is served under a document was found under it, or was kept late.
THEOREM FindingsCorrect == Spec => []FindingsAreCurrent
<1>1. Init => FindingsAreCurrent
  BY DEF Init, FindingsAreCurrent
<1>2. FindingsAreCurrent /\ [Next]_vars => FindingsAreCurrent'
  <2> SUFFICES ASSUME FindingsAreCurrent, [Next]_vars, NEW key \in DOMAIN cache'
               PROVE  cache'[key].version = version' \/ cache'[key].late
    BY DEF FindingsAreCurrent
  <2>1. CASE /\ UNCHANGED version
             /\ DOMAIN cache' \subseteq DOMAIN cache
             /\ \A k \in DOMAIN cache' : cache'[k] = cache[k]
    BY <2>1 DEF FindingsAreCurrent
  <2>2. ASSUME NEW by, NEW what, NEW k, Keep(k, by, what), UNCHANGED version
        PROVE  cache'[key].version = version' \/ cache'[key].late
    <3>1. CASE key = k
      <4>1. cache'[key] = [version |-> by, late |-> by # version, what |-> what]
        BY <2>2, <3>1 DEF Keep
      <4>2. cache'[key].version = by /\ cache'[key].late = (by # version)
        BY <4>1
      <4>3. QED
        BY <2>2, <4>2
    <3>2. CASE key # k
      BY <2>2, <3>2 DEF Keep, FindingsAreCurrent
    <3>3. QED
      BY <3>1, <3>2
  <2>3. ASSUME NEW t \in Threads, NEW a, Allow(t, a)
        PROVE  cache'[key].version = version' \/ cache'[key].late
    BY <2>1, <2>2, <2>3 DEF Allow
  <2>4. ASSUME NEW t \in Threads, KeepHook(t)
        PROVE  cache'[key].version = version' \/ cache'[key].late
    BY <2>1, <2>2, <2>4 DEF KeepHook
  <2>5. QED
    BY <2>1, <2>3, <2>4, StepCache DEF CacheStep
<1>3. QED
  BY <1>1, <1>2, PTL DEF Spec

\* What a hook leaves to be kept is what it has set itself.
Keeping(t) ==
  pc[t] = "keeping" => \A n \in Variables : job[t].kept[n] \in {None, Hook(t)}

LEMMA StepKeeping ==
  ASSUME TraceInv, NEW t \in Threads, Keeping(t), [Next]_vars
  PROVE  Keeping(t)'
<1>1. CASE pc'[t] = pc[t] /\ job'[t] = job[t]
  BY <1>1 DEF Keeping, Hook, Route
<1>2. CASE pc'[t] # "keeping"
  BY <1>2 DEF Keeping
<1>3. CASE RunHook(t)
  <2>1. CASE pc'[t] = "keeping"
    <3>1. PICK n0 \in Route(t).hooks[Hook(t)] :
            Go(t, "keeping",
               [job[t] EXCEPT !.values = [job[t].values EXCEPT ![n0] = Hook(t)],
                  !.kept = Changed(t, [job[t].values EXCEPT ![n0] = Hook(t)])])
      <4>1. TypeOK
        BY DEF TraceInv
      <4>2. ~Done(t) /\ \A j : ~Go(t, "hooks", j)
        BY <2>1, <4>1 DEF Done, Go, TypeOK
      <4>3. QED
        BY <1>3, <4>2 DEF RunHook
    <3> DEFINE values == [job[t].values EXCEPT ![n0] = Hook(t)]
               j == [job[t] EXCEPT !.values = values, !.kept = Changed(t, values)]
    <3>2. job[t] \in Jobs /\ job[t].values \in Values
      BY DEF TraceInv, TypeOK, Jobs
    <3>3. job'[t] = j
      BY <3>1 DEF TraceInv, TypeOK, Go
    <3>4. \A n \in Variables : values[n] = job[t].values[n] \/ values[n] = Hook(t)
      BY <3>2 DEF Values
    <3>5. \A n \in Variables : Changed(t, values)[n] \in {None, Hook(t)}
      BY <3>4 DEF Changed
    <3>6. j.kept = Changed(t, values) /\ Alike(j, job[t]) /\ j.at = job[t].at
      BY <3>2 DEF Jobs, Alike
    <3> HIDE DEF j, values
    <3>7. Hook(t)' = Hook(t)
      BY <3>3, <3>6 DEF Hook, Route, Alike
    <3>8. QED
      BY <3>3, <3>5, <3>6, <3>7 DEF Keeping
  <2>2. QED
    BY <1>2, <2>1
<1>4. QED
  <2>1. ASSUME NEW u \in Threads, Serve(u) \/ \E a \in Asks : Arrive(u, a), u # t
        PROVE  pc'[t] = pc[t] /\ job'[t] = job[t]
    BY <2>1, ServeGoes DEF Go, TraceInv, TypeOK
  <2>2. CASE Serve(t) \/ \E a \in Asks : Arrive(t, a)
    <3>1. CASE RunHook(t)
      BY <1>3, <3>1
    <3>2. CASE ~RunHook(t)
      <4>1. \E to \in Control \ {"keeping"} : \E j : Go(t, to, j)
        <5>1. CASE \E a \in Asks : Arrive(t, a)
          BY <5>1 DEF Arrive, Control
        <5>2. CASE Match(t) \/ ResolveTargets(t) \/ ReadClients(t) \/ Exhausted(t)
          BY <5>2 DEF Match, ResolveTargets, ReadClients, Exhausted, Done, Control
        <5>3. CASE \E a \in First(t) :
                     TrySecret(t, a) \/ TryToken(t, a) \/ TryExternal(t, a) \/ Allow(t, a)
          BY <5>3 DEF TrySecret, TryToken, TryExternal, Allow, Admit, Pass, Done, Control
        <5>4. CASE SkipHook(t) \/ KeepHook(t) \/ Proceed(t)
          BY <5>4 DEF SkipHook, KeepHook, Proceed, Done, Control
        <5>5. QED
          BY <2>2, <3>2, <5>1, <5>2, <5>3, <5>4 DEF Serve
      <4>2. pc'[t] # "keeping"
        BY <4>1 DEF Go, TraceInv, TypeOK, Control
      <4>3. QED
        BY <1>2, <4>2
    <3>3. QED
      BY <3>1, <3>2
  <2>3. QED
    BY <1>1, <2>1, <2>2 DEF Next, Load, Expire, ExpireToken, IssueToken, vars

\* A hook's cache entry holds what that hook has set.
THEOREM HooksCorrect == Spec => []HooksKeepTheirOwn
<1> DEFINE Inv == TraceInv /\ HooksKeepTheirOwn /\ \A t \in Threads : Keeping(t)
<1>1. Init => Inv
  <2>1. Init => HooksKeepTheirOwn /\ \A t \in Threads : Keeping(t)
    BY DEF Init, HooksKeepTheirOwn, Keeping
  <2>2. QED
    BY <2>1, InitTrace
<1>2. Inv /\ [Next]_vars => Inv'
  <2> SUFFICES ASSUME Inv, [Next]_vars
               PROVE  Inv'
    OBVIOUS
  <2>1. TraceInv' /\ \A t \in Threads : Keeping(t)'
    BY StepTrace, StepKeeping
  <2>2. ASSUME NEW key \in DOMAIN cache', key[1] = "pre_call", NEW n \in Variables
        PROVE  cache'[key].what[n] \in {None, key[2]}
    <3>1. CASE key \in DOMAIN cache /\ cache'[key] = cache[key]
      BY <2>2, <3>1 DEF HooksKeepTheirOwn
    <3>2. ASSUME NEW t \in Threads, NEW a, Allow(t, a)
          PROVE  key \in DOMAIN cache /\ cache'[key] = cache[key]
      <4>1. key # VerdictKey(Attempt(t, a), job[t].ask)
        BY <2>2 DEF VerdictKey
      <4>2. QED
        BY <2>2, <3>2, <4>1 DEF Allow, Keep
    <3>3. ASSUME NEW t \in Threads, KeepHook(t)
          PROVE  cache'[key].what[n] \in {None, key[2]}
      <4>1. CASE UNCHANGED cache
        BY <2>2, <3>1, <4>1
      <4>2. CASE Keep(HookKey(Hook(t)), job[t].since, job[t].kept)
        <5>1. CASE key = HookKey(Hook(t))
          <6>1. cache'[key].what = job[t].kept
            BY <2>2, <4>2, <5>1 DEF Keep
          <6>2. job[t].kept[n] \in {None, Hook(t)}
            BY <3>3 DEF Keeping, KeepHook
          <6>3. key[2] = Hook(t)
            BY <5>1 DEF HookKey
          <6>4. QED
            BY <6>1, <6>2, <6>3
        <5>2. CASE key # HookKey(Hook(t))
          BY <2>2, <3>1, <4>2, <5>2 DEF Keep
        <5>3. QED
          BY <5>1, <5>2
      <4>3. QED
        BY <3>3, <4>1, <4>2 DEF KeepHook
    <3>4. QED
      BY <2>2, <3>1, <3>2, <3>3, StepCache DEF CacheStep
  <2>3. QED
    BY <2>1, <2>2 DEF HooksKeepTheirOwn
<1>3. QED
  BY <1>1, <1>2, PTL DEF Spec

-----------------------------------------------------------------------------
(* The round robin.  The targets that have had a turn in this round have    *)
(* been selected once more than the others.                                 *)

\* The next number modulo n.
LEMMA DivisionIsUnique ==
  ASSUME NEW n \in Nat \ {0}, NEW p \in Int, NEW q \in Int,
         NEW r \in 0 .. n - 1, NEW s \in 0 .. n - 1, n * p + r = n * q + s
  PROVE  r = s
<1>1. n * (p - q) = s - r
  OBVIOUS
<1>2. CASE p - q >= 1
  <2>1. n * (p - q) >= n
    BY <1>2
  <2>2. QED
    BY <1>1, <2>1
<1>3. CASE p - q <= -1
  <2>1. n * (p - q) <= -n
    BY <1>3
  <2>2. QED
    BY <1>1, <2>1
<1>4. CASE p - q = 0
  BY <1>1, <1>4
<1>5. QED
  BY <1>2, <1>3, <1>4

LEMMA NextTurn ==
  ASSUME NEW a \in Nat, NEW n \in Nat \ {0}
  PROVE  /\ a % n \in 0 .. n - 1
         /\ (a + 1) % n = IF (a % n) + 1 = n THEN 0 ELSE (a % n) + 1
<1> DEFINE q == a \div n
           r == a % n
           p == (a + 1) \div n
           s == (a + 1) % n
<1>1. /\ a = n * q + r /\ q \in Int /\ r \in 0 .. n - 1
      /\ a + 1 = n * p + s /\ p \in Int /\ s \in 0 .. n - 1
  OBVIOUS
<1> HIDE DEF q, r, p, s
<1>2. CASE r + 1 # n
  <2>1. n * p + s = n * q + (r + 1)
    BY <1>1
  <2>2. s = r + 1
    BY <1>1, <1>2, <2>1, DivisionIsUnique
  <2>3. QED
    BY <1>1, <1>2, <2>2 DEF r, s
<1>3. CASE r + 1 = n
  <2>1. n * p + s = n * (q + 1) + 0
    BY <1>1, <1>3
  <2>2. s = 0
    BY <1>1, <2>1, DivisionIsUnique
  <2>3. QED
    BY <1>1, <1>3, <2>2 DEF r, s
<1>4. QED
  BY <1>2, <1>3

\* How many of the live targets come before the n-th.
Rank(live, n) == Cardinality({m \in live : m < n})

LEMMA RankOrder ==
  ASSUME NEW live \in SUBSET Nat, IsFiniteSet(live), NEW m \in live, NEW n \in live
  PROVE  /\ Rank(live, n) \in Nat /\ Cardinality(live) \in Nat
         /\ Rank(live, n) < Cardinality(live)
         /\ m < n => Rank(live, m) < Rank(live, n)
<1> DEFINE Before(k) == {l \in live : l < k}
<1>1. /\ IsFiniteSet(Before(n)) /\ Cardinality(Before(n)) \in Nat
      /\ Cardinality(Before(n)) < Cardinality(live)
  <2>1. Before(n) \subseteq live /\ n \notin Before(n)
    OBVIOUS
  <2>2. Before(n) # live
    BY <2>1
  <2>3. QED
    BY <2>1, <2>2, FS_Subset, FS_CardinalityType
<1>2. ASSUME m < n
      PROVE  Cardinality(Before(m)) < Cardinality(Before(n))
  <2>1. m \in Before(n) /\ m \notin Before(m) /\ \A l \in live : l < m => l < n
    <3>1. \A l \in live : l \in Nat
      OBVIOUS
    <3>2. QED
      BY <1>2, <3>1
  <2>2. Before(m) \subseteq Before(n) /\ Before(m) # Before(n)
    BY <2>1
  <2>3. QED
    BY <1>1, <2>1, <2>2, FS_Subset, FS_CardinalityType
<1>3. QED
  BY <1>1, <1>2, FS_CardinalityType DEF Rank

\* A route of a document has a slug among the slugs.
LEMMA SlugType ==
  ASSUME NEW c \in Configs, NEW i \in DOMAIN Document[c].routes
  PROVE  /\ Document[c].routes[i] \in Routes
         /\ Document[c].routes[i].slug \in Slugs
<1>1. Document[c].routes[i] \in ToSet(Document[c].routes)
  BY DEF ToSet
<1>2. QED
  BY <1>1, RouteType DEF Slugs

LEMMA LiveIsFinite ==
  ASSUME NEW c \in Configs, NEW r \in Routes
  PROVE  LiveTargets(c, r) \in SUBSET Nat /\ IsFiniteSet(LiveTargets(c, r))
<1>1. r.targets \in Seq(Targets)
  BY DEF Routes
<1>2. DOMAIN r.targets = 1 .. Len(r.targets) /\ Len(r.targets) \in Nat
  BY <1>1
<1>3. IsFiniteSet(DOMAIN r.targets)
  BY <1>2, FS_Interval
<1>4. LiveTargets(c, r) \subseteq DOMAIN r.targets
  BY DEF LiveTargets
<1>5. QED
  BY <1>2, <1>3, <1>4, FS_Subset

Endpoints == UNION {Document[c].endpoints : c \in Configs}

\* Of a rotating route with several live targets, those whose turn has come in this
\* round have been selected once more than the others.
InTurn(r, live, turn, count) ==
  r.rotates /\ Cardinality(live) > 1 =>
    \E rounds \in Nat : \A n \in live :
      count[r.targets[n]] =
        rounds + (IF Rank(live, n) < turn % Cardinality(live) THEN 1 ELSE 0)

TurnsInv ==
  /\ picked \in [Slugs -> [Endpoints -> Nat]]
  /\ version = 0 =>
       \A i \in DOMAIN Document[config].routes :
         LET r == Document[config].routes[i]
         IN InTurn(r, LiveTargets(config, r), turns[r.slug], picked[r.slug])

\* A selection by turn leaves the targets in turn.
LEMMA SelectInTurn ==
  ASSUME NEW c \in Configs, NEW r \in Routes, IsInjective(r.targets),
         NEW turn \in Nat, NEW count \in [Endpoints -> Nat],
         NEW n \in LiveTargets(c, r), r.rotates, Cardinality(LiveTargets(c, r)) > 1,
         Rank(LiveTargets(c, r), n) = turn % Cardinality(LiveTargets(c, r)),
         InTurn(r, LiveTargets(c, r), turn, count)
  PROVE  InTurn(r, LiveTargets(c, r), turn + 1,
                [count EXCEPT ![r.targets[n]] = @ + 1])
<1> DEFINE live == LiveTargets(c, r)
           size == Cardinality(live)
           after == [count EXCEPT ![r.targets[n]] = @ + 1]
<1>1. live \in SUBSET Nat /\ IsFiniteSet(live) /\ size \in Nat \ {0}
  BY LiveIsFinite, FS_CardinalityType
<1>2. /\ turn % size \in 0 .. size - 1
      /\ (turn + 1) % size = IF (turn % size) + 1 = size THEN 0 ELSE (turn % size) + 1
  BY <1>1, NextTurn
<1>3. PICK rounds \in Nat : \A m \in live :
        count[r.targets[m]] = rounds + (IF Rank(live, m) < turn % size THEN 1 ELSE 0)
  BY DEF InTurn
<1>4. ASSUME NEW m \in live
      PROVE  /\ Rank(live, m) \in Nat /\ Rank(live, m) < size
             /\ Rank(live, m) = turn % size <=> m = n
             /\ after[r.targets[m]] =
                  IF m = n THEN count[r.targets[m]] + 1 ELSE count[r.targets[m]]
  <2>1. r.targets[m] \in Endpoints /\ m \in DOMAIN r.targets /\ n \in DOMAIN r.targets
    BY DEF LiveTargets, Endpoints
  <2>2. r.targets[m] = r.targets[n] => m = n
    BY <2>1 DEF IsInjective
  <2>3. m \in Nat /\ n \in Nat
    BY <1>1
  <2>4. /\ Rank(live, m) \in Nat /\ Rank(live, m) < size
        /\ m < n => Rank(live, m) < Rank(live, n)
        /\ n < m => Rank(live, n) < Rank(live, m)
        /\ Rank(live, n) \in Nat
    BY <1>1, RankOrder
  <2>5. Rank(live, m) = turn % size <=> m = n
    BY <2>3, <2>4
  <2>6. QED
    BY <2>1, <2>2, <2>4, <2>5
<1> HIDE DEF live, size, after
<1>5. CASE (turn % size) + 1 # size
  <2>1. \A m \in live : after[r.targets[m]] =
          rounds + (IF Rank(live, m) < (turn + 1) % size THEN 1 ELSE 0)
    BY <1>1, <1>2, <1>3, <1>4, <1>5
  <2>2. QED
    BY <2>1 DEF InTurn, live, size, after
<1>6. CASE (turn % size) + 1 = size
  <2>1. \A m \in live : after[r.targets[m]] =
          (rounds + 1) + (IF Rank(live, m) < (turn + 1) % size THEN 1 ELSE 0)
    BY <1>1, <1>2, <1>3, <1>4, <1>6
  <2>2. rounds + 1 \in Nat
    OBVIOUS
  <2>3. QED
    BY <2>1, <2>2 DEF InTurn, live, size, after
<1>7. QED
  BY <1>5, <1>6

LEMMA MatchTurns ==
  ASSUME TraceInv, TurnsInv, NEW t \in Threads, Match(t)
  PROVE  TurnsInv'
<1> DEFINE routes == Document[job[t].routes].routes
<1>1. /\ TypeOK /\ pc[t] = "matching" /\ config' = config /\ version' = version
      /\ job[t].routes \in Configs /\ config \in Configs
      /\ version = 0 => job[t].routes = config
  <2>1. TypeOK /\ pc[t] = "matching" /\ config' = config /\ version' = version
    BY DEF Match, TraceInv
  <2>2. JobOK(t) /\ Current(t) /\ job[t].since \in Nat
    BY <2>1 DEF TraceInv, Trace, TypeOK, Jobs
  <2>3. job[t].routes \in Configs /\ config \in Configs
    BY <2>1, <2>2 DEF JobOK, TypeOK
  <2>4. version = 0 => job[t].since = version
    <3>1. job[t].since <= version /\ version \in Nat
      BY <2>1, <2>2 DEF JobOK, TypeOK
    <3>2. QED
      BY <2>2, <3>1
  <2>5. QED
    BY <2>1, <2>2, <2>3, <2>4 DEF Current
<1>2. CASE UNCHANGED <<turns, picked>>
  BY <1>1, <1>2 DEF TurnsInv
<1>3. ASSUME NEW i \in DOMAIN routes, NEW n \in LiveTargets(config, routes[i]),
             LET r == routes[i]
                 live == LiveTargets(config, r)
                 rotates == r.rotates /\ Cardinality(live) > 1
                 turn == IF rotates THEN turns[r.slug] % Cardinality(live) ELSE 0
             IN /\ Rank(live, n) = turn
                /\ IF rotates THEN TakeTurn(r) ELSE UNCHANGED turns
                /\ picked' = [picked EXCEPT ![r.slug][r.targets[n]] = @ + 1]
      PROVE  TurnsInv'
  <2> DEFINE r == routes[i]
             live == LiveTargets(config, r)
             rotates == r.rotates /\ Cardinality(live) > 1
  <2>1. /\ Rank(live, n) = IF rotates THEN turns[r.slug] % Cardinality(live) ELSE 0
        /\ IF rotates THEN TakeTurn(r) ELSE UNCHANGED turns
        /\ picked' = [picked EXCEPT ![r.slug][r.targets[n]] = @ + 1]
    BY <1>3
  <2>2. r \in Routes /\ r.slug \in Slugs
    BY <1>1, SlugType
  <2>3. r.targets[n] \in Endpoints
    BY <1>1 DEF LiveTargets, Endpoints
  <2>4. turns \in [Slugs -> Nat] /\ picked \in [Slugs -> [Endpoints -> Nat]]
    BY <1>1 DEF TypeOK, TurnsInv
  <2>5. /\ picked' \in [Slugs -> [Endpoints -> Nat]]
        /\ picked'[r.slug] = [picked[r.slug] EXCEPT ![r.targets[n]] = @ + 1]
        /\ \A s \in Slugs : s # r.slug => picked'[s] = picked[s] /\ turns'[s] = turns[s]
        /\ rotates => turns'[r.slug] = turns[r.slug] + 1
    <3>1. PICK slug \in Slugs, x \in Endpoints : slug = r.slug /\ x = r.targets[n]
      BY <2>2, <2>3
    <3>2. picked' = [picked EXCEPT ![slug] = [picked[slug] EXCEPT ![x] = @ + 1]]
      BY <2>1, <3>1
    <3>3. IF rotates THEN turns' = [turns EXCEPT ![slug] = @ + 1] ELSE turns' = turns
      BY <2>1, <3>1 DEF TakeTurn
    <3> HIDE DEF r, rotates
    <3>4. /\ picked' \in [Slugs -> [Endpoints -> Nat]]
          /\ picked'[slug] = [picked[slug] EXCEPT ![x] = @ + 1]
          /\ \A s \in Slugs : s # slug => picked'[s] = picked[s]
      BY <2>4, <3>2
    <3>5. /\ \A s \in Slugs : s # slug => turns'[s] = turns[s]
          /\ rotates => turns'[slug] = turns[slug] + 1
      BY <2>4, <3>3
    <3>6. QED
      BY <3>1, <3>4, <3>5
  <2>6. ASSUME version = 0, NEW k \in DOMAIN Document[config].routes
        PROVE  LET o == Document[config].routes[k]
               IN InTurn(o, LiveTargets(config, o), turns'[o.slug], picked'[o.slug])
    <3> DEFINE o == Document[config].routes[k]
    <3>1. o \in Routes /\ o.slug \in Slugs /\ routes = Document[config].routes
      BY <1>1, <2>6, SlugType
    <3>2. InTurn(o, LiveTargets(config, o), turns[o.slug], picked[o.slug])
      BY <2>6 DEF TurnsInv
    <3>3. CASE ~o.rotates
      BY <3>3 DEF InTurn
    <3>4. CASE o.rotates /\ k # i
      <4>1. o.slug # r.slug
        BY <1>1, <3>1, <3>4, RotatesAlone
      <4>2. QED
        BY <2>5, <3>1, <3>2, <4>1
    <3>5. CASE o.rotates /\ k = i
      <4>1. o = r /\ IsInjective(r.targets)
        BY <1>1, <3>1, <3>5, RotatesAlone
      <4>2. CASE ~rotates
        BY <3>5, <4>1, <4>2 DEF InTurn
      <4>3. CASE rotates
        <5>1. turns[r.slug] \in Nat /\ picked[r.slug] \in [Endpoints -> Nat]
          BY <2>2, <2>4
        <5>2. InTurn(r, live, turns[r.slug] + 1,
                     [picked[r.slug] EXCEPT ![r.targets[n]] = @ + 1])
          BY <1>1, <2>1, <2>2, <3>2, <4>1, <4>3, <5>1, SelectInTurn
        <5>3. QED
          BY <2>5, <4>1, <4>3, <5>2
      <4>4. QED
        BY <4>2, <4>3
    <3>6. QED
      BY <3>3, <3>4, <3>5
  <2>7. QED
    BY <1>1, <2>5, <2>6 DEF TurnsInv
<1>4. QED
  BY <1>2, <1>3 DEF Match, Rank

LEMMA StepTurns ==
  ASSUME TraceInv, TurnsInv, [Next]_vars
  PROVE  TurnsInv'
<1>1. CASE Load
  <2>1. version' # 0 /\ picked' = NoneTaken
    BY <1>1 DEF Load, Install, TraceInv, TypeOK
  <2>2. picked' \in [Slugs -> [Endpoints -> Nat]]
    BY <2>1 DEF NoneTaken, Endpoints
  <2>3. QED
    BY <2>1, <2>2 DEF TurnsInv
<1>2. CASE UNCHANGED <<config, version, turns, picked>>
  BY <1>2 DEF TurnsInv
<1>3. ASSUME NEW t \in Threads, Match(t)
      PROVE  TurnsInv'
  BY <1>3, MatchTurns
<1>4. ASSUME NEW t \in Threads, Serve(t), ~Match(t)
      PROVE  UNCHANGED <<config, version, turns, picked>>
  BY <1>4
  DEF Serve, ResolveTargets, ReadClients, Exhausted, TrySecret, TryToken, TryExternal,
      Allow, SkipHook, RunHook, KeepHook, Proceed
<1>5. QED
  BY <1>1, <1>2, <1>3, <1>4 DEF Next, Arrive, Expire, ExpireToken, IssueToken, vars

\* Where nothing was picked yet the first is in turn.
LEMMA FirstTurn ==
  ASSUME NEW r, NEW live, NEW count, Cardinality(live) \in Nat,
         \A n \in live : count[r.targets[n]] = 0 /\ Rank(live, n) \in Nat
  PROVE  InTurn(r, live, 0, count)
<1> SUFFICES ASSUME Cardinality(live) > 1
             PROVE  \E rounds \in Nat : \A n \in live :
                      count[r.targets[n]] =
                        rounds + (IF Rank(live, n) < 0 % Cardinality(live) THEN 1 ELSE 0)
  BY DEF InTurn
<1> DEFINE many == Cardinality(live)
<1>1. many \in Nat /\ many > 1
  OBVIOUS
<1> HIDE DEF many
<1>2. 0 % many = 0
  BY <1>1
<1>3. \A n \in live : ~(Rank(live, n) < 0 % Cardinality(live))
  BY <1>2 DEF many
<1>4. \A n \in live :
        count[r.targets[n]] =
          0 + (IF Rank(live, n) < 0 % Cardinality(live) THEN 1 ELSE 0)
  BY <1>3
<1>5. QED
  BY <1>4

\* Under the first document the targets of a rotating route take turns: none has
\* been selected more than once more often than another.
THEOREM TurnsCorrect == Spec => []TargetsTakeTurns
<1>1. Init => TraceInv /\ TurnsInv
  <2> SUFFICES ASSUME Init PROVE TurnsInv
    BY InitTrace
  <2>1. picked \in [Slugs -> [Endpoints -> Nat]] /\ config \in Configs
    BY GatekeeperAssumption DEF Init, NoneTaken, Endpoints
  <2>2. ASSUME NEW i \in DOMAIN Document[config].routes
        PROVE  LET r == Document[config].routes[i]
               IN InTurn(r, LiveTargets(config, r), turns[r.slug], picked[r.slug])
    <3> DEFINE r == Document[config].routes[i]
               live == LiveTargets(config, r)
    <3>1. r \in Routes /\ r.slug \in Slugs
      BY <2>1, SlugType
    <3>2. turns[r.slug] = 0
      BY <3>1 DEF Init, NoTurns
    <3>3. \A n \in live : picked[r.slug][r.targets[n]] = 0 /\ Rank(live, n) \in Nat
      <4>1. \A n \in live : r.targets[n] \in Endpoints
        BY <2>1 DEF LiveTargets, Endpoints
      <4>2. \A n \in live : picked[r.slug][r.targets[n]] = 0
        BY <3>1, <4>1 DEF Init, NoneTaken, Endpoints
      <4>3. live \in SUBSET Nat /\ IsFiniteSet(live)
        BY <2>1, <3>1, LiveIsFinite
      <4>4. \A n \in live : Rank(live, n) \in Nat
        BY <4>3, RankOrder
      <4>5. QED
        BY <4>2, <4>4
    <3>4. Cardinality(live) \in Nat
      BY <2>1, <3>1, LiveIsFinite, FS_CardinalityType
    <3>5. InTurn(r, live, 0, picked[r.slug])
      <4> HIDE DEF live, r
      <4>1. QED
        BY <3>3, <3>4, FirstTurn
    <3>6. QED
      BY <3>2, <3>5
  <2>3. QED
    BY <2>1, <2>2 DEF TurnsInv
<1>2. TraceInv /\ TurnsInv /\ [Next]_vars => TraceInv' /\ TurnsInv'
  BY StepTrace, StepTurns
<1>3. TraceInv /\ TurnsInv => TargetsTakeTurns
  <2> SUFFICES ASSUME TraceInv, TurnsInv, version = 0,
                      NEW r \in ToSet(Document[config].routes), r.rotates,
                      NEW m \in LiveTargets(config, r), NEW n \in LiveTargets(config, r)
               PROVE  picked[r.slug][r.targets[m]] <= picked[r.slug][r.targets[n]] + 1
    BY DEF TargetsTakeTurns
  <2> DEFINE live == LiveTargets(config, r)
  <2>1. PICK i \in DOMAIN Document[config].routes : r = Document[config].routes[i]
    BY DEF ToSet
  <2>2. config \in Configs /\ r \in Routes /\ r.slug \in Slugs
    <3>1. config \in Configs
      BY DEF TraceInv, TypeOK
    <3>2. QED
      BY <2>1, <3>1, RouteType DEF Slugs
  <2>3. InTurn(r, live, turns[r.slug], picked[r.slug])
    BY <2>1 DEF TurnsInv
  <2>4. live \in SUBSET Nat /\ IsFiniteSet(live)
    BY <2>2, LiveIsFinite
  <2>5. CASE Cardinality(live) > 1
    BY <2>3, <2>5 DEF InTurn
  <2>6. CASE ~(Cardinality(live) > 1)
    <3>1. /\ Rank(live, m) \in Nat /\ Rank(live, n) \in Nat /\ Cardinality(live) \in Nat
          /\ Rank(live, m) < Cardinality(live) /\ Rank(live, n) < Cardinality(live)
          /\ m < n => Rank(live, m) < Rank(live, n)
          /\ n < m => Rank(live, n) < Rank(live, m)
      BY <2>4, RankOrder
    <3>2. m = n
      BY <2>4, <2>6, <3>1
    <3>3. r.targets[n] \in Endpoints
      BY <2>2 DEF LiveTargets, Endpoints
    <3>4. picked[r.slug][r.targets[n]] \in Nat
      BY <2>2, <3>3 DEF TurnsInv
    <3>5. QED
      BY <3>2, <3>4
  <2>7. QED
    BY <2>5, <2>6
<1>4. QED
  BY <1>1, <1>2, <1>3, PTL DEF Spec
=============================================================================
