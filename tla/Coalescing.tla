----------------------------- MODULE Coalescing -----------------------------
(***************************************************************************)
(* The life of a proxied request in GatewayRuntime.handle_proxy: match,    *)
(* authenticate, look in the response cache, choose a coalescing key, lead *)
(* or follow a flight, call the upstream, fill the cache, settle the       *)
(* flight, write the log.  Every request runs on its own thread and the    *)
(* module interleaves them at the points where they touch shared state:    *)
(* the cache, the registry of in-flight requests, the installed            *)
(* configuration and the in-flight object itself.  Hot reloads, manual     *)
(* cache clears and expiring entries happen in between.                    *)
(*                                                                         *)
(* A response is represented by the request whose upstream call made it:   *)
(* gen[by] and shape[by] then tell under which configuration, and for      *)
(* which question, it was made.                                            *)
(***************************************************************************)
EXTENDS Naturals

CONSTANTS
  Requests,       \* threads, each handling one request
  CacheKeys,      \* values of _response_cache_key
  Clients,        \* whatever tells apart requests with the same cache key
  Shapes,         \* the requests clients may send
  Configs,        \* the configurations a load may install
  MaxGeneration,  \* bounds the number of installed configurations
  LossyCache,     \* TRUE when the backend may fail (Redis): a get may miss,
                  \* a set may be dropped
  None

Methods == {"GET", "HEAD", "POST"}
SafeMethods == {"GET", "HEAD"}
Generations == 1..MaxGeneration

\* What a request is to this module; the whole record stands for the fingerprint
\* of its full context.  bypass: it carries X-Bypass-Cache.
ShapeType ==
  [cacheKey : CacheKeys, client : Clients, method : Methods, bypass : BOOLEAN]

\* A route's effective settings: the methods its response cache covers ({} when
\* the cache is off), whether its target is always buffered (a static response,
\* a gRPC service), whether an enabled output profile transforms bodies.
ConfigType ==
  [cacheMethods : SUBSET Methods, buffered : BOOLEAN, transforms : BOOLEAN]

\* ok: below 400; status: another buffered response; stream: a response whose
\* body is still an iterator; emptied: a response opened for streaming whose
\* body a transforming profile replaced; error: an exception.
Kinds == {"ok", "status", "stream", "emptied", "error"}
Outcomes == [kind : Kinds, by : Requests]
Outcome(k, r) == [kind |-> k, by |-> r]

ASSUME ConstantsAssumption ==
  /\ MaxGeneration \in Nat \ {0}
  /\ Shapes \subseteq ShapeType
  /\ \A s, t \in Shapes : s.cacheKey = t.cacheKey => s.method = t.method
  /\ Configs \subseteq ConfigType
  /\ Configs # {}
  /\ LossyCache \in BOOLEAN
  /\ None \notin Requests \cup Shapes \cup Outcomes

VARIABLES
  live,      \* generation of the configuration installed in the runtime
  config,    \* what each generation contains
  locked,    \* a load holds GatewayRuntime._lock
  cache,     \* the response cache: who made the entry of a key
  inflight,  \* _inflight_requests: who leads the flight of a key
  pc,        \* where each request's thread is
  shape,     \* what the request is
  gen,       \* generation of the route it was matched with
  leader,    \* whose _InFlightRequest it holds, its own when it leads
  event,     \* the event of the flight a request leads is set
  outcome,   \* the result or error of the flight a request leads
  answer,    \* what the request's own thread returns or raises
  filled     \* history: leaders that filled an entry since it was last emptied

vars == <<live, config, locked, cache, inflight, pc, shape, gen, leader,
          event, outcome, answer, filled>>
configVars == <<live, config, locked>>
requestVars == <<shape, gen>>
flightVars == <<inflight, leader, event, outcome>>
cacheVars == <<cache, filled>>

-----------------------------------------------------------------------------
(* What a request's own snapshot of the configuration says.                *)

Cacheable(r) == shape[r].method \in config[gen[r]].cacheMethods

\* A response can be streamed when its route caches nothing and no profile that
\* is installed now transforms it: the route is the request's snapshot, the
\* profiles are read afresh.
Streams(r) ==
  /\ ~config[gen[r]].buffered
  /\ config[gen[r]].cacheMethods = {}
  /\ ~config[live].transforms

FlightKeys ==
  ({"cache"} \X Generations \X CacheKeys)
    \cup ({"request"} \X Generations \X Shapes)

\* Mutants of FlightKey: without the route's identity, without the client.
FlightKeyAcrossReloads(r) ==
  IF Cacheable(r)
  THEN <<"cache", 1, shape[r].cacheKey>>
  ELSE <<"request", 1, shape[r]>>

FlightKeyAcrossClients(r) ==
  IF Cacheable(r)
  THEN <<"cache", gen[r], shape[r].cacheKey>>
  ELSE <<"request", gen[r],
         CHOOSE s \in Shapes : s.cacheKey = shape[r].cacheKey>>

\* The route's identity is part of the key, so generations never share one.
FlightKey(r) ==
  IF Cacheable(r)
  THEN <<"cache", gen[r], shape[r].cacheKey>>
  ELSE <<"request", gen[r], shape[r]>>

\* Where a request stands while it owns an entry of the registry.
LeadingSteps ==
  {"rechecking", "calling", "fetching", "streaming", "storing",
   "publishing", "signalling", "leaving"}
Leading(r) == leader[r] = r /\ pc[r] \in LeadingSteps

Steps ==
  {"idle", "matched", "keying", "joining", "waiting", "logging", "done"}
    \cup LeadingSteps

TypeOK ==
  /\ live \in Generations
  /\ config \in [Generations -> Configs]
  /\ locked \in BOOLEAN
  /\ cache \in [CacheKeys -> Requests \cup {None}]
  /\ inflight \in [FlightKeys -> Requests \cup {None}]
  /\ pc \in [Requests -> Steps]
  /\ shape \in [Requests -> Shapes \cup {None}]
  /\ gen \in [Requests -> Generations]
  /\ leader \in [Requests -> Requests \cup {None}]
  /\ event \in [Requests -> BOOLEAN]
  /\ outcome \in [Requests -> Outcomes \cup {None}]
  /\ answer \in [Requests -> Outcomes \cup {None}]
  /\ filled \subseteq Requests
  /\ \A r \in Requests : pc[r] # "idle" => shape[r] \in Shapes
  /\ \A r \in Requests : pc[r] = "waiting" => leader[r] \in Requests

Init ==
  /\ live = 1
  /\ config \in [Generations -> Configs]
  /\ locked = FALSE
  /\ cache = [k \in CacheKeys |-> None]
  /\ inflight = [k \in FlightKeys |-> None]
  /\ pc = [r \in Requests |-> "idle"]
  /\ shape = [r \in Requests |-> None]
  /\ gen = [r \in Requests |-> 1]
  /\ leader = [r \in Requests |-> None]
  /\ event = [r \in Requests |-> FALSE]
  /\ outcome = [r \in Requests |-> None]
  /\ answer = [r \in Requests |-> None]
  /\ filled = {}

-----------------------------------------------------------------------------
(* Steps of a request's thread.                                            *)

Step(r, from, to) == pc[r] = from /\ pc' = [pc EXCEPT ![r] = to]

\* Where a thread goes when its execution of the route has returned or raised.
AfterExecution(r) == IF leader[r] = r THEN "publishing" ELSE "logging"

\* match reads the routes under the lock: the request keeps that snapshot.
Match(r, s) ==
  /\ Step(r, "idle", "matched")
  /\ ~locked
  /\ shape' = [shape EXCEPT ![r] = s]
  /\ gen' = [gen EXCEPT ![r] = live]
  /\ UNCHANGED <<configVars, cacheVars, flightVars, answer>>

\* Unsupported transport, failed authentication or rate limit.
Reject(r) ==
  /\ Step(r, "matched", "logging")
  /\ answer' = [answer EXCEPT ![r] = Outcome("error", r)]
  /\ UNCHANGED <<configVars, requestVars, cacheVars, flightVars>>

\* Mutant of CacheMayHit: the header is not honoured.
CacheMayHitOnBypass(r) == Cacheable(r) /\ cache[shape[r].cacheKey] # None

\* _get_cached_response: a bypassing or uncacheable request never looks.
CacheMayHit(r) ==
  /\ ~shape[r].bypass
  /\ Cacheable(r)
  /\ cache[shape[r].cacheKey] # None

Hit(r) ==
  /\ CacheMayHit(r)
  /\ answer' = [answer EXCEPT ![r] = Outcome("ok", cache[shape[r].cacheKey])]

Miss(r) ==
  /\ CacheMayHit(r) => LossyCache
  /\ UNCHANGED answer

LookUp(r) ==
  /\ \/ Step(r, "matched", "logging") /\ Hit(r)
     \/ Step(r, "matched", "keying") /\ Miss(r)
  /\ UNCHANGED <<configVars, requestVars, cacheVars, flightVars>>

\* It asks for a fresh response, or may change state upstream.
OwnsItsCall(r) ==
  shape[r].bypass \/ (~Cacheable(r) /\ shape[r].method \notin SafeMethods)

\* _request_coalescing_key returns None: the request executes alone.
Uncoalesced(r) == OwnsItsCall(r) \/ Streams(r)

ChooseKey(r) ==
  /\ \/ Step(r, "keying", "calling") /\ Uncoalesced(r)
     \/ Step(r, "keying", "joining") /\ ~Uncoalesced(r)
  /\ UNCHANGED <<configVars, requestVars, cacheVars, flightVars, answer>>

\* Under _inflight_lock: the first request of a key registers a flight ...
Lead(r) ==
  /\ Step(r, "joining", "rechecking")
  /\ inflight[FlightKey(r)] = None
  /\ inflight' = [inflight EXCEPT ![FlightKey(r)] = r]
  /\ leader' = [leader EXCEPT ![r] = r]
  /\ UNCHANGED <<configVars, requestVars, cacheVars, event, outcome, answer>>

\* ... and the others take its _InFlightRequest and wait for its event.
Follow(r) ==
  /\ Step(r, "joining", "waiting")
  /\ inflight[FlightKey(r)] # None
  /\ leader' = [leader EXCEPT ![r] = inflight[FlightKey(r)]]
  /\ UNCHANGED <<configVars, requestVars, cacheVars, inflight, event, outcome,
                 answer>>

\* The event is set: raise the flight's error or clone its result.
Wake(r) ==
  /\ Step(r, "waiting", "logging")
  /\ event[leader[r]]
  /\ answer' = [answer EXCEPT ![r] =
       IF outcome[leader[r]] = None THEN Outcome("error", r)
                                    ELSE outcome[leader[r]]]
  /\ UNCHANGED <<configVars, requestVars, cacheVars, flightVars>>

\* Mutant of Recheck: the leader calls the upstream without looking again.
RecheckSkipped(r) ==
  /\ Step(r, "rechecking", "calling")
  /\ UNCHANGED <<configVars, requestVars, cacheVars, flightVars, answer>>

\* The leader looks in the cache again before it executes the route.
Recheck(r) ==
  /\ \/ Step(r, "rechecking", "publishing") /\ Hit(r)
     \/ Step(r, "rechecking", "calling") /\ Miss(r)
  /\ UNCHANGED <<configVars, requestVars, cacheVars, flightVars>>

\* _execute_target decides again, with the profiles installed now, whether to
\* stream or to buffer, and sends the request.
Call(r) ==
  /\ \/ Step(r, "calling", "streaming") /\ Streams(r)
     \/ Step(r, "calling", "fetching") /\ ~Streams(r)
  /\ UNCHANGED <<configVars, requestVars, cacheVars, flightVars, answer>>

\* Mutant of UpstreamFails: the exception leaves past the finally clause.
UpstreamFailsUncaught(r) ==
  /\ \/ Step(r, "fetching", "logging")
     \/ Step(r, "streaming", "logging")
  /\ answer' = [answer EXCEPT ![r] = Outcome("error", r)]
  /\ UNCHANGED <<configVars, requestVars, cacheVars, flightVars>>

\* A pre-call or the upstream failed, or its timeout expired.
UpstreamFails(r) ==
  /\ \/ Step(r, "fetching", AfterExecution(r))
     \/ Step(r, "streaming", AfterExecution(r))
  /\ answer' = [answer EXCEPT ![r] = Outcome("error", r)]
  /\ UNCHANGED <<configVars, requestVars, cacheVars, flightVars>>

\* A buffered response: the profiles are applied (they are read under the lock);
\* a response below 400 of a cacheable request goes on to the cache.
Fetch(r) ==
  /\ ~locked
  /\ \/ /\ Step(r, "fetching",
                IF Cacheable(r) THEN "storing" ELSE AfterExecution(r))
        /\ answer' = [answer EXCEPT ![r] = Outcome("ok", r)]
     \/ /\ Step(r, "fetching", AfterExecution(r))
        /\ answer' = [answer EXCEPT ![r] = Outcome("status", r)]
  /\ UNCHANGED <<configVars, requestVars, cacheVars, flightVars>>

\* A streaming response: the profiles are read a third time, and one that
\* transforms builds a new response from the empty body.
OpenStream(r) ==
  /\ ~locked
  /\ Step(r, "streaming", AfterExecution(r))
  /\ answer' = [answer EXCEPT ![r] =
       Outcome(IF config[live].transforms THEN "emptied" ELSE "stream", r)]
  /\ UNCHANGED <<configVars, requestVars, cacheVars, flightVars>>

Store(r) ==
  /\ Step(r, "storing", AfterExecution(r))
  /\ \/ /\ cache' = [cache EXCEPT ![shape[r].cacheKey] = r]
        /\ filled' = IF leader[r] = r THEN filled \cup {r} ELSE filled
     \/ LossyCache /\ UNCHANGED cacheVars
  /\ UNCHANGED <<configVars, requestVars, flightVars, answer>>

\* Mutant of Publish: an error is raised without being kept for the followers.
PublishResultsOnly(r) ==
  /\ Step(r, "publishing", "signalling")
  /\ outcome' = [outcome EXCEPT ![r] =
       IF answer[r].kind = "error" THEN None ELSE answer[r]]
  /\ UNCHANGED <<configVars, requestVars, cacheVars, inflight, leader, event,
                 answer>>

\* _snapshot_target_result raises on a streaming response: the leader fails and
\* so does its flight.
Publish(r) ==
  LET published == IF answer[r].kind = "stream" THEN Outcome("error", r)
                                                ELSE answer[r]
  IN
  /\ Step(r, "publishing", "signalling")
  /\ outcome' = [outcome EXCEPT ![r] = published]
  /\ answer' = [answer EXCEPT ![r] = published]
  /\ UNCHANGED <<configVars, requestVars, cacheVars, inflight, leader, event>>

\* Mutant of Signal: the event is never set.
SignalForgotten(r) ==
  /\ Step(r, "signalling", "leaving")
  /\ UNCHANGED <<configVars, requestVars, cacheVars, flightVars, answer>>

\* finally: wake the followers ...
Signal(r) ==
  /\ Step(r, "signalling", "leaving")
  /\ event' = [event EXCEPT ![r] = TRUE]
  /\ UNCHANGED <<configVars, requestVars, cacheVars, inflight, leader, outcome,
                 answer>>

\* Mutant of Leave: the entry stays in the registry.
LeaveRegistered(r) ==
  /\ Step(r, "leaving", "logging")
  /\ UNCHANGED <<configVars, requestVars, cacheVars, flightVars, answer>>

\* ... then, under _inflight_lock, drop the entry if it is still this flight.
Leave(r) ==
  /\ Step(r, "leaving", "logging")
  /\ inflight' = [inflight EXCEPT ![FlightKey(r)] = IF @ = r THEN None ELSE @]
  /\ UNCHANGED <<configVars, requestVars, cacheVars, leader, event, outcome,
                 answer>>

\* The finally clause: when the row cannot be written its exception replaces
\* whatever the request was about to return.
WriteLog(r) ==
  /\ Step(r, "logging", "done")
  /\ \/ UNCHANGED answer
     \/ answer' = [answer EXCEPT ![r] = Outcome("error", r)]
  /\ UNCHANGED <<configVars, requestVars, cacheVars, flightVars>>

-----------------------------------------------------------------------------
(* The rest of the process.                                                *)

\* load: the new configuration is visible as soon as it is assigned ...
Install ==
  /\ ~locked
  /\ live < MaxGeneration
  /\ live' = live + 1
  /\ locked' = TRUE
  /\ UNCHANGED <<config, pc, requestVars, cacheVars, flightVars, answer>>

Empty == cache' = [k \in CacheKeys |-> None] /\ filled' = {}

\* ... and the cache is cleared before the lock is released.
FinishInstall ==
  /\ locked
  /\ Empty
  /\ locked' = FALSE
  /\ UNCHANGED <<live, config, pc, requestVars, flightVars, answer>>

ClearCache ==
  /\ ~locked
  /\ Empty
  /\ UNCHANGED <<configVars, pc, requestVars, flightVars, answer>>

Expire(k) ==
  /\ cache[k] # None
  /\ cache' = [cache EXCEPT ![k] = None]
  /\ filled' = {r \in filled : shape[r].cacheKey # k}
  /\ UNCHANGED <<configVars, pc, requestVars, flightVars, answer>>

\* What a thread does on its own once its request is matched.
Thread(r) ==
  \/ LookUp(r)
  \/ ChooseKey(r)
  \/ Lead(r)
  \/ Follow(r)
  \/ Wake(r)
  \/ Recheck(r)
  \/ Call(r)
  \/ UpstreamFails(r)
  \/ Fetch(r)
  \/ OpenStream(r)
  \/ Store(r)
  \/ Publish(r)
  \/ Signal(r)
  \/ Leave(r)
  \/ WriteLog(r)

Next ==
  \/ \E r \in Requests :
       \/ \E s \in Shapes : Match(r, s)
       \/ Reject(r)
       \/ Thread(r)
  \/ Install
  \/ FinishInstall
  \/ ClearCache
  \/ \E k \in CacheKeys : Expire(k)

\* Threads are scheduled and every upstream call ends by its timeout at the
\* latest; nothing makes requests arrive, configurations change or entries
\* expire.
Fairness ==
  /\ \A r \in Requests : WF_vars(Thread(r))
  /\ WF_vars(FinishInstall)

Spec == Init /\ [][Next]_vars
FairSpec == Spec /\ Fairness

-----------------------------------------------------------------------------
(* Safety.                                                                 *)

\* The registry of in-flight requests holds exactly the flights whose leaders
\* are still between registering and leaving: no two leaders share a key, no
\* entry outlives its leader (whether its upstream answered, failed, or was
\* never called), and no live flight is hidden by another (runtime.py:562-622).
RegistryHoldsLiveFlights ==
  \A k \in FlightKeys, r \in Requests :
    inflight[k] = r <=> Leading(r) /\ FlightKey(r) = k

\* A request waiting without a timeout on another's event is never abandoned:
\* its leader is still on its way to set the event, or has set it with a result
\* or an error inside (runtime.py:568-571, 619-622).
NoFollowerStranded ==
  \A r \in Requests :
    pc[r] = "waiting" =>
      \/ Leading(leader[r])
      \/ event[leader[r]] /\ outcome[leader[r]] # None

Answered(r) == pc[r] = "logging" /\ answer[r] # None
Follows(r) == leader[r] \notin {r, None}

SameQuestion(r, s) ==
  /\ gen[r] = gen[s]
  /\ IF Cacheable(s) THEN shape[r].cacheKey = shape[s].cacheKey
                     ELSE shape[r] = shape[s]

\* A coalesced response belongs to the question of the request that receives it:
\* same cache key or fingerprint, same generation of the route, never for a
\* request that bypasses the cache, and it is the flight's own outcome, error for
\* error (runtime.py:568-587, 1241-1311).
FollowersShareTheirQuestion ==
  \A r \in Requests :
    Follows(r) =>
      /\ SameQuestion(leader[r], r)
      /\ ~shape[r].bypass
      /\ Answered(r) => answer[r] = outcome[leader[r]]

\* X-Bypass-Cache means a fresh execution (README, Response Caching): such a
\* request is answered by its own call, and so is a method that is neither
\* cached nor safe.
BypassIsFresh ==
  \A r \in Requests :
    Answered(r) /\ OwnsItsCall(r) => answer[r].by = r

\* One upstream success fills a cache entry: until the entry is emptied (expiry,
\* clear or reload) no second leader of the same key calls the upstream with
\* success.  It is what the second cache lookup in the leader is for
\* (runtime.py:590-596), and only a backend that loses entries breaks it.
OneFillPerEntry ==
  LossyCache \/
    \A r, s \in filled : SameQuestion(r, s) => r = s

\* Through every chain of cache, leader and follower a request is answered with
\* a response made for its own cache key, and when nothing may be cached for its
\* own full context (runtime.py:1241-1307, 1339-1441).
AnswersTheQuestionAsked ==
  \A r \in Requests :
    Answered(r) =>
      LET maker == shape[answer[r].by] IN
      IF Cacheable(r) THEN maker.cacheKey = shape[r].cacheKey
                      ELSE maker = shape[r]

-----------------------------------------------------------------------------
(* Liveness and refinement.                                                *)

\* Every request that passed its checks is answered, whatever its leader met and
\* however loads, clears and expiries interleave.
EveryRequestAnswered ==
  \A r \in Requests : pc[r] \notin {"idle", "matched"} ~> pc[r] = "done"

\* The registry of flights implements the abstract one.
FlightPhase(r) ==
  CASE leader[r] = None -> "outside"
    [] leader[r] = r /\ ~event[r] -> "leading"
    [] leader[r] = r /\ event[r] /\ Leading(r) -> "settled"
    [] leader[r] \notin {r, None} /\ pc[r] = "waiting" -> "following"
    [] OTHER -> "served"

Flights ==
  INSTANCE SingleFlight WITH
    Callers <- Requests,
    Questions <- FlightKeys,
    Verdicts <- Outcomes,
    phase <- [r \in Requests |-> FlightPhase(r)],
    question <- [r \in Requests |->
                   IF leader[r] = None THEN None ELSE FlightKey(r)],
    opener <- leader,
    open <- inflight,
    verdict <- [r \in Requests |-> IF event[r] THEN outcome[r] ELSE None]

FlightsAreSingle == Flights!SafeSpec
ImplementsSingleFlight == Flights!Spec

-----------------------------------------------------------------------------
(* What the documents say and the code does not.                           *)

\* README.md:727 "Streaming responses are never coalesced."
StreamingNeverCoalesced ==
  \A r \in Requests : Leading(r) => pc[r] # "streaming"

=============================================================================
