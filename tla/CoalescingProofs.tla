-------------------------- MODULE CoalescingProofs --------------------------
(***************************************************************************)
(* Theorems about Coalescing, for any number of requests, generations and  *)
(* shapes: the registry of in-flight requests holds exactly the live       *)
(* flights, no follower is stranded, and a coalesced answer belongs to the *)
(* question of the request that receives it.                               *)
(***************************************************************************)
EXTENDS Coalescing, TLAPS

\* An outcome names a kind and the request that made it.
LEMMA OutcomeType ==
  ASSUME NEW k \in Kinds, NEW r \in Requests
  PROVE  Outcome(k, r) \in Outcomes /\ Outcome(k, r) # None
BY ConstantsAssumption DEF Outcome, Outcomes

\* A cache entry that is served was made by a request.
LEMMA HitType ==
  ASSUME TypeOK, NEW r \in Requests, shape[r] \in Shapes, CacheMayHit(r)
  PROVE  cache[shape[r].cacheKey] \in Requests
BY ConstantsAssumption DEF TypeOK, CacheMayHit, ShapeType

\* A request that has been matched goes on to a step of its own.
LEMMA MovesType ==
  ASSUME TypeOK, NEW r \in Requests,
         \/ LookUp(r) \/ ChooseKey(r) \/ Recheck(r) \/ Call(r) \/ UpstreamFails(r)
         \/ Fetch(r) \/ Store(r)
  PROVE  /\ pc' \in [Requests -> Steps]
         /\ \A q \in Requests : pc'[q] # "idle" => shape[q] \in Shapes
         /\ \A q \in Requests : pc'[q] = "waiting" => pc[q] = "waiting"
<1>1. /\ pc \in [Requests -> Steps]
      /\ \A q \in Requests : pc[q] # "idle" => shape[q] \in Shapes
  BY DEF TypeOK
<1>2. AfterExecution(r) \in {"publishing", "logging"}
  BY DEF AfterExecution
<1>3. PICK to \in {"logging", "keying", "calling", "joining", "publishing", "streaming",
                  "fetching", "storing"} :
        pc[r] # "idle" /\ pc' = [pc EXCEPT ![r] = to]
  <2>1. CASE LookUp(r) \/ ChooseKey(r) \/ Recheck(r) \/ Call(r)
    BY <2>1 DEF LookUp, ChooseKey, Recheck, Call, Step
  <2>2. CASE UpstreamFails(r)
    BY <1>2, <2>2 DEF UpstreamFails, Step
  <2>3. CASE Fetch(r)
    BY <1>2, <2>3 DEF Fetch, Step
  <2>4. CASE Store(r)
    BY <1>2, <2>4 DEF Store, Step
  <2>5. QED
    BY <2>1, <2>2, <2>3, <2>4
<1>4. to \in Steps /\ to # "waiting"
  BY DEF Steps, LeadingSteps
<1>5. QED
  BY <1>1, <1>3, <1>4

\* What the upstream's answer or failure makes of a request's answer.
LEMMA AnswersType ==
  ASSUME TypeOK, NEW r \in Requests, UpstreamFails(r) \/ Fetch(r)
  PROVE  answer' \in [Requests -> Outcomes \cup {None}]
<1>1. PICK k \in Kinds : answer' = [answer EXCEPT ![r] = Outcome(k, r)]
  BY DEF UpstreamFails, Fetch, Kinds
<1>2. Outcome(k, r) \in Outcomes
  BY OutcomeType
<1>3. answer \in [Requests -> Outcomes \cup {None}]
  BY DEF TypeOK
<1>4. QED
  BY <1>1, <1>2, <1>3

\* Every step preserves the types.
LEMMA TypeStep ==
  ASSUME TypeOK, [Next]_vars
  PROVE  TypeOK'
<1> USE ConstantsAssumption
    DEF TypeOK, Generations, FlightKeys, Step, configVars, requestVars,
        flightVars, cacheVars, Steps, LeadingSteps, Kinds
<1>1. ASSUME NEW r \in Requests, NEW s \in Shapes, Match(r, s)
      PROVE  TypeOK'
  BY <1>1 DEF Match
<1>2. ASSUME NEW r \in Requests, Reject(r)
      PROVE  TypeOK'
  BY <1>2, OutcomeType DEF Reject
<1>3. ASSUME NEW r \in Requests, LookUp(r)
      PROVE  TypeOK'
  <2>1. answer' \in [Requests -> Outcomes \cup {None}]
    <3>1. shape[r] \in Shapes
      BY <1>3 DEF LookUp
    <3>2. CASE Hit(r)
      <4>1. Outcome("ok", cache[shape[r].cacheKey]) \in Outcomes
        BY <3>1, <3>2, HitType, OutcomeType DEF Hit
      <4>2. QED
        BY <3>2, <4>1 DEF Hit
    <3>3. CASE Miss(r)
      BY <3>3 DEF Miss
    <3>4. QED
      BY <1>3, <3>2, <3>3 DEF LookUp
  <2>2. /\ pc' \in [Requests -> Steps]
        /\ \A q \in Requests : pc'[q] # "idle" => shape[q] \in Shapes
        /\ \A q \in Requests : pc'[q] = "waiting" => pc[q] = "waiting"
    BY <1>3, MovesType
  <2>3. QED
    BY <1>3, <2>1, <2>2 DEF LookUp
<1>4. ASSUME NEW r \in Requests, ChooseKey(r)
      PROVE  TypeOK'
  <2>1. /\ pc' \in [Requests -> Steps]
        /\ \A q \in Requests : pc'[q] # "idle" => shape[q] \in Shapes
        /\ \A q \in Requests : pc'[q] = "waiting" => pc[q] = "waiting"
    BY <1>4, MovesType
  <2>2. QED
    BY <1>4, <2>1 DEF ChooseKey
<1>5. ASSUME NEW r \in Requests, Lead(r)
      PROVE  TypeOK'
  BY <1>5 DEF Lead
<1>6. ASSUME NEW r \in Requests, Follow(r)
      PROVE  TypeOK'
  BY <1>6 DEF Follow, FlightKey, ShapeType
<1>7. ASSUME NEW r \in Requests, Wake(r)
      PROVE  TypeOK'
  <2>1. answer' \in [Requests -> Outcomes \cup {None}]
    <3>1. Outcome("error", r) \in Outcomes
      BY OutcomeType
    <3>2. leader[r] \in Requests
      BY <1>7 DEF Wake
    <3>3. QED
      BY <1>7, <3>1, <3>2 DEF Wake
  <2>2. /\ pc' \in [Requests -> Steps]
        /\ \A q \in Requests : pc'[q] # "idle" => shape[q] \in Shapes
        /\ \A q \in Requests : pc'[q] = "waiting" => pc[q] = "waiting"
    BY <1>7 DEF Wake
  <2>3. QED
    BY <1>7, <2>1, <2>2 DEF Wake
<1>8. ASSUME NEW r \in Requests, Recheck(r)
      PROVE  TypeOK'
  <2>1. answer' \in [Requests -> Outcomes \cup {None}]
    <3>1. shape[r] \in Shapes
      BY <1>8 DEF Recheck
    <3>2. CASE Hit(r)
      <4>1. Outcome("ok", cache[shape[r].cacheKey]) \in Outcomes
        BY <3>1, <3>2, HitType, OutcomeType DEF Hit
      <4>2. QED
        BY <3>2, <4>1 DEF Hit
    <3>3. CASE Miss(r)
      BY <3>3 DEF Miss
    <3>4. QED
      BY <1>8, <3>2, <3>3 DEF Recheck
  <2>2. /\ pc' \in [Requests -> Steps]
        /\ \A q \in Requests : pc'[q] # "idle" => shape[q] \in Shapes
        /\ \A q \in Requests : pc'[q] = "waiting" => pc[q] = "waiting"
    BY <1>8, MovesType
  <2>3. QED
    BY <1>8, <2>1, <2>2 DEF Recheck
<1>9. ASSUME NEW r \in Requests, Call(r)
      PROVE  TypeOK'
  <2>1. /\ pc' \in [Requests -> Steps]
        /\ \A q \in Requests : pc'[q] # "idle" => shape[q] \in Shapes
        /\ \A q \in Requests : pc'[q] = "waiting" => pc[q] = "waiting"
    BY <1>9, MovesType
  <2>2. QED
    BY <1>9, <2>1 DEF Call
<1>10. ASSUME NEW r \in Requests, UpstreamFails(r)
       PROVE  TypeOK'
  <2>1. /\ pc' \in [Requests -> Steps]
        /\ \A q \in Requests : pc'[q] # "idle" => shape[q] \in Shapes
        /\ \A q \in Requests : pc'[q] = "waiting" => pc[q] = "waiting"
    BY <1>10, MovesType
  <2>2. answer' \in [Requests -> Outcomes \cup {None}]
    BY <1>10, AnswersType
  <2>3. QED
    BY <1>10, <2>1, <2>2 DEF UpstreamFails
<1>11. ASSUME NEW r \in Requests, Fetch(r)
       PROVE  TypeOK'
  <2>1. answer' \in [Requests -> Outcomes \cup {None}]
    BY <1>11, AnswersType
  <2>2. /\ pc' \in [Requests -> Steps]
        /\ \A q \in Requests : pc'[q] # "idle" => shape[q] \in Shapes
        /\ \A q \in Requests : pc'[q] = "waiting" => pc[q] = "waiting"
    BY <1>11, MovesType
  <2>3. QED
    BY <1>11, <2>1, <2>2 DEF Fetch
<1>12. ASSUME NEW r \in Requests, OpenStream(r)
       PROVE  TypeOK'
  BY <1>12, OutcomeType DEF OpenStream, AfterExecution
<1>13. ASSUME NEW r \in Requests, Store(r)
       PROVE  TypeOK'
  <2>1. /\ cache' \in [CacheKeys -> Requests \cup {None}]
        /\ filled' \subseteq Requests
    <3>1. CASE UNCHANGED cacheVars
      BY <3>1
    <3>2. CASE /\ cache' = [cache EXCEPT ![shape[r].cacheKey] = r]
               /\ filled' = IF leader[r] = r THEN filled \cup {r} ELSE filled
      BY <3>2
    <3>3. QED
      BY <1>13, <3>1, <3>2 DEF Store
  <2>2. /\ pc' \in [Requests -> Steps]
        /\ \A q \in Requests : pc'[q] # "idle" => shape[q] \in Shapes
        /\ \A q \in Requests : pc'[q] = "waiting" => pc[q] = "waiting"
    BY <1>13, MovesType
  <2>3. QED
    BY <1>13, <2>1, <2>2 DEF Store
<1>14. ASSUME NEW r \in Requests, Publish(r)
       PROVE  TypeOK'
  BY <1>14, OutcomeType DEF Publish
<1>15. ASSUME NEW r \in Requests, Signal(r)
       PROVE  TypeOK'
  BY <1>15 DEF Signal
<1>16. ASSUME NEW r \in Requests, Leave(r)
       PROVE  TypeOK'
  BY <1>16 DEF Leave
<1>17. ASSUME NEW r \in Requests, WriteLog(r)
       PROVE  TypeOK'
  <2>1. answer' \in [Requests -> Outcomes \cup {None}]
    <3>1. Outcome("error", r) \in Outcomes
      BY OutcomeType
    <3>2. QED
      BY <1>17, <3>1 DEF WriteLog
  <2>2. /\ pc' \in [Requests -> Steps]
        /\ \A q \in Requests : pc'[q] # "idle" => shape[q] \in Shapes
        /\ \A q \in Requests : pc'[q] = "waiting" => pc[q] = "waiting"
    BY <1>17 DEF WriteLog
  <2>3. QED
    BY <1>17, <2>1, <2>2 DEF WriteLog
<1>18. CASE Install
  BY <1>18 DEF Install
<1>19. CASE FinishInstall
  BY <1>19 DEF FinishInstall, Empty
<1>20. CASE ClearCache
  BY <1>20 DEF ClearCache, Empty
<1>21. ASSUME NEW k \in CacheKeys, Expire(k)
       PROVE  TypeOK'
  BY <1>21 DEF Expire
<1>22. CASE UNCHANGED vars
  BY <1>22 DEF vars
<1>23. QED
  BY <1>1, <1>2, <1>3, <1>4, <1>5, <1>6, <1>7, <1>8, <1>9, <1>10, <1>11,
     <1>12, <1>13, <1>14, <1>15, <1>16, <1>17, <1>18, <1>19, <1>20, <1>21,
     <1>22 DEF Next, Thread

LEMMA TypeInit == Init => TypeOK
<1>1. 1 \in Generations
  BY ConstantsAssumption DEF Generations
<1>2. QED
  BY <1>1, ConstantsAssumption
     DEF Init, TypeOK, Steps, LeadingSteps, Generations, FlightKeys

\* The variables of Coalescing have their types in every reachable state.
THEOREM TypeCorrect == Spec => []TypeOK
BY TypeInit, TypeStep, PTL DEF Spec

-----------------------------------------------------------------------------
(* The inductive invariant.                                                *)

\* What holds of one request: which step goes with which role, when the flight
\* it leads is settled, and that a request which owns its call shares nothing.
Local(r) ==
  /\ pc[r] \in {"idle", "matched", "keying", "joining"} => leader[r] = None
  /\ pc[r] \in {"rechecking", "publishing", "signalling", "leaving"} =>
       leader[r] = r
  /\ pc[r] = "waiting" => leader[r] # r
  /\ Follows(r) => pc[r] \in {"waiting", "logging", "done"}
  /\ event[r] =>
       leader[r] = r /\ outcome[r] # None /\ pc[r] \in {"leaving", "logging", "done"}
  /\ leader[r] = r /\ pc[r] \in {"leaving", "logging", "done"} => event[r]
  /\ pc[r] = "signalling" => outcome[r] # None
  /\ pc[r] = "idle" => answer[r] = None
  /\ pc[r] \in {"storing", "publishing", "signalling", "leaving", "logging", "done"}
       => answer[r] # None
  /\ leader[r] # None \/ pc[r] = "joining" => ~OwnsItsCall(r)
  /\ OwnsItsCall(r) /\ answer[r] # None => answer[r].by = r

\* What holds of a follower and the leader of its flight.
Joined(r) ==
  Follows(r) =>
    /\ leader[leader[r]] = leader[r]
    /\ FlightKey(leader[r]) = FlightKey(r)
    /\ pc[r] = "logging" =>
         event[leader[r]] /\ answer[r] = outcome[leader[r]]

IInv ==
  /\ TypeOK
  /\ \A r \in Requests : Local(r)
  /\ RegistryHoldsLiveFlights
  /\ \A r \in Requests : Joined(r)

LEMMA InitIInv == Init => IInv
<1> SUFFICES ASSUME Init PROVE IInv
  OBVIOUS
<1>1. TypeOK
  BY TypeInit
<1>2. \A r \in Requests : Local(r) /\ Joined(r)
  BY ConstantsAssumption DEF Init, Local, Joined, Follows
<1>3. RegistryHoldsLiveFlights
  BY ConstantsAssumption DEF Init, RegistryHoldsLiveFlights, Leading
<1>4. QED
  BY <1>1, <1>2, <1>3 DEF IInv

\* A matched request keeps its question.
LEMMA QuestionKept ==
  ASSUME TypeOK, [Next]_vars, NEW r \in Requests, pc[r] # "idle"
  PROVE  /\ FlightKey(r)' = FlightKey(r)
         /\ OwnsItsCall(r)' = OwnsItsCall(r)
         /\ Cacheable(r)' = Cacheable(r)
         /\ shape'[r] = shape[r]
         /\ gen'[r] = gen[r]
<1>1. config' = config /\ shape'[r] = shape[r] /\ gen'[r] = gen[r]
  BY DEF TypeOK, Next, vars, Thread, Step, configVars, requestVars, Match,
         Reject, LookUp, ChooseKey, Lead, Follow, Wake, Recheck, Call,
         UpstreamFails, Fetch, OpenStream, Store, Publish, Signal, Leave,
         WriteLog, Install, FinishInstall, ClearCache, Expire
<1>2. QED
  BY <1>1 DEF FlightKey, OwnsItsCall, Cacheable

\* Every step of a request's thread.
RequestStep(r) ==
  \/ \E s \in Shapes : Match(r, s)
  \/ Reject(r)
  \/ Thread(r)

\* Steps that belong to no request.
Background ==
  \/ Install
  \/ FinishInstall
  \/ ClearCache
  \/ \E k \in CacheKeys : Expire(k)
  \/ UNCHANGED vars

\* A thread touches no other request's variables.
LEMMA OthersUntouched ==
  ASSUME TypeOK, NEW r \in Requests, RequestStep(r),
         NEW q \in Requests \ {r}
  PROVE  /\ pc'[q] = pc[q]
         /\ leader'[q] = leader[q]
         /\ event'[q] = event[q]
         /\ outcome'[q] = outcome[q]
         /\ answer'[q] = answer[q]
         /\ shape'[q] = shape[q]
         /\ gen'[q] = gen[q]
BY DEF TypeOK, RequestStep, Thread, Step, requestVars, flightVars, Match,
       Reject, LookUp, ChooseKey, Lead, Follow, Wake, Recheck, Call,
       UpstreamFails, Fetch, OpenStream, Store, Publish, Signal, Leave,
       WriteLog, Hit, Miss

\* So what holds of the others alone keeps holding.
LEMMA OthersLocal ==
  ASSUME IInv, NEW r \in Requests, RequestStep(r), NEW q \in Requests \ {r}
  PROVE  Local(q)'
<1>1. config' = config
  BY DEF RequestStep, Thread, configVars, Match, Reject, LookUp, ChooseKey,
         Lead, Follow, Wake, Recheck, Call, UpstreamFails, Fetch, OpenStream,
         Store, Publish, Signal, Leave, WriteLog
<1>2. OwnsItsCall(q)' = OwnsItsCall(q)
  BY <1>1, OthersUntouched DEF IInv, OwnsItsCall, Cacheable
<1>3. Local(q)
  BY DEF IInv
<1>4. QED
  BY <1>2, <1>3, OthersUntouched DEF IInv, Local, Follows

\* Steps of a request that leave every flight as it is.
Quiet(r) ==
  \/ \E s \in Shapes : Match(r, s)
  \/ Reject(r)
  \/ LookUp(r)
  \/ ChooseKey(r)
  \/ Recheck(r)
  \/ Call(r)
  \/ UpstreamFails(r)
  \/ Fetch(r)
  \/ OpenStream(r)
  \/ Store(r)
  \/ WriteLog(r)

\* The places a quiet step leads from and to, and the answers it may give.
LEMMA QuietEffect ==
  ASSUME IInv, NEW r \in Requests, Quiet(r)
  PROVE  /\ UNCHANGED flightVars
         /\ Local(r)'
         /\ Leading(r)' <=> Leading(r)
         /\ Follows(r) => pc'[r] = "done"
<1>1. UNCHANGED flightVars
  BY DEF Quiet, flightVars, Match, Reject, LookUp, ChooseKey, Recheck, Call,
         UpstreamFails, Fetch, OpenStream, Store, WriteLog
<1>2. TypeOK /\ Local(r) /\ r # None
  BY ConstantsAssumption DEF IInv
<1>3. \A k \in Kinds :
        Outcome(k, r) # None /\ Outcome(k, r).by = r
  BY OutcomeType DEF Outcome
<1>4. pc[r] # "idle" => (OwnsItsCall(r)' <=> OwnsItsCall(r))
  BY <1>2, QuestionKept DEF Quiet, Next, Thread
<1>6. CASE (\E s \in Shapes : Match(r, s))
  <2>1. /\ pc[r] = "idle" /\ pc'[r] = "matched" /\ answer' = answer
    BY <1>2, <1>6 DEF Match, Step, TypeOK
  <2>2. QED
    BY <1>1, <1>2, <1>4, <2>1
       DEF Local, Follows, Leading, LeadingSteps, AfterExecution, flightVars
<1>7. CASE Reject(r)
  <2>1. /\ pc[r] = "matched" /\ pc'[r] = "logging"
          /\ answer'[r] # None /\ answer'[r].by = r
    BY <1>2, <1>3, <1>7 DEF Reject, Step, TypeOK, Kinds
  <2>2. QED
    BY <1>1, <1>2, <1>4, <2>1
       DEF Local, Follows, Leading, LeadingSteps, AfterExecution, flightVars
<1>8. CASE LookUp(r)
  <2>1. pc[r] = "matched" /\ shape[r] \in Shapes
    BY <1>2, <1>8 DEF LookUp, Step, TypeOK
  <2>2. CASE Hit(r)
    <3>1. cache[shape[r].cacheKey] \in Requests /\ ~OwnsItsCall(r)
      BY <1>2, <2>1, <2>2, HitType DEF Hit, CacheMayHit, OwnsItsCall
    <3>2. Outcome("ok", cache[shape[r].cacheKey]) # None
      BY <3>1, OutcomeType DEF Kinds
    <3>3. answer'[r] # None
      BY <1>2, <2>2, <3>2 DEF Hit, TypeOK
    <3>4. pc'[r] \in {"logging", "keying"}
      BY <1>2, <1>8 DEF LookUp, Step, TypeOK
    <3>5. QED
      BY <1>1, <1>2, <1>4, <2>1, <3>1, <3>3, <3>4
         DEF Local, Follows, Leading, LeadingSteps, flightVars
  <2>3. CASE ~Hit(r)
    <3>1. pc'[r] = "keying" /\ answer' = answer
      BY <1>2, <2>3, <1>8 DEF LookUp, Step, Miss, TypeOK
    <3>2. QED
      BY <1>1, <1>2, <1>4, <2>1, <3>1
         DEF Local, Follows, Leading, LeadingSteps, flightVars
  <2>4. QED
    BY <2>2, <2>3
<1>9. CASE ChooseKey(r)
  <2>1. /\ pc[r] = "keying" /\ answer' = answer
          /\ \/ pc'[r] = "calling"
             \/ pc'[r] = "joining" /\ ~OwnsItsCall(r)
    BY <1>2, <1>9 DEF ChooseKey, Uncoalesced, Step, TypeOK
  <2>2. QED
    BY <1>1, <1>2, <1>4, <2>1
       DEF Local, Follows, Leading, LeadingSteps, AfterExecution, flightVars
<1>10. CASE Recheck(r)
  <2>1. pc[r] = "rechecking" /\ shape[r] \in Shapes
    BY <1>2, <1>10 DEF Recheck, Step, TypeOK
  <2>2. CASE Hit(r)
    <3>1. cache[shape[r].cacheKey] \in Requests /\ ~OwnsItsCall(r)
      BY <1>2, <2>1, <2>2, HitType DEF Hit, CacheMayHit, OwnsItsCall
    <3>2. Outcome("ok", cache[shape[r].cacheKey]) # None
      BY <3>1, OutcomeType DEF Kinds
    <3>3. answer'[r] # None
      BY <1>2, <2>2, <3>2 DEF Hit, TypeOK
    <3>4. pc'[r] \in {"publishing", "calling"}
      BY <1>2, <1>10 DEF Recheck, Step, TypeOK
    <3>5. QED
      BY <1>1, <1>2, <1>4, <2>1, <3>1, <3>3, <3>4
         DEF Local, Follows, Leading, LeadingSteps, flightVars
  <2>3. CASE ~Hit(r)
    <3>1. pc'[r] = "calling" /\ answer' = answer
      BY <1>2, <2>3, <1>10 DEF Recheck, Step, Miss, TypeOK
    <3>2. QED
      BY <1>1, <1>2, <1>4, <2>1, <3>1
         DEF Local, Follows, Leading, LeadingSteps, flightVars
  <2>4. QED
    BY <2>2, <2>3
<1>11. CASE Call(r)
  <2>1. /\ pc[r] = "calling" /\ answer' = answer
          /\ pc'[r] \in {"fetching", "streaming"}
    BY <1>2, <1>11 DEF Call, Step, TypeOK
  <2>2. QED
    BY <1>1, <1>2, <1>4, <2>1
       DEF Local, Follows, Leading, LeadingSteps, AfterExecution, flightVars
<1>12. CASE UpstreamFails(r)
  <2>1. /\ pc[r] \in {"fetching", "streaming"}
          /\ pc'[r] = AfterExecution(r)
          /\ answer'[r] # None /\ answer'[r].by = r
    BY <1>2, <1>3, <1>12 DEF UpstreamFails, Step, TypeOK, Kinds
  <2>2. QED
    BY <1>1, <1>2, <1>4, <2>1
       DEF Local, Follows, Leading, LeadingSteps, AfterExecution, flightVars
<1>13. CASE Fetch(r)
  <2>1. /\ pc[r] = "fetching"
          /\ pc'[r] \in {"storing", AfterExecution(r)}
          /\ answer'[r] # None /\ answer'[r].by = r
    BY <1>2, <1>3, <1>13 DEF Fetch, Step, TypeOK, Kinds
  <2>2. QED
    BY <1>1, <1>2, <1>4, <2>1
       DEF Local, Follows, Leading, LeadingSteps, AfterExecution, flightVars
<1>14. CASE OpenStream(r)
  <2>1. /\ pc[r] = "streaming"
          /\ pc'[r] = AfterExecution(r)
          /\ answer'[r] # None /\ answer'[r].by = r
    BY <1>2, <1>3, <1>14 DEF OpenStream, Step, TypeOK, Kinds
  <2>2. QED
    BY <1>1, <1>2, <1>4, <2>1
       DEF Local, Follows, Leading, LeadingSteps, AfterExecution, flightVars
<1>15. CASE Store(r)
  <2>1. /\ pc[r] = "storing" /\ answer' = answer
          /\ pc'[r] = AfterExecution(r)
    BY <1>2, <1>15 DEF Store, Step, TypeOK
  <2>2. QED
    BY <1>1, <1>2, <1>4, <2>1
       DEF Local, Follows, Leading, LeadingSteps, AfterExecution, flightVars
<1>16. CASE WriteLog(r)
  <2>1. pc[r] = "logging" /\ pc'[r] = "done"
    BY <1>2, <1>16 DEF WriteLog, Step, TypeOK
  <2>2. answer'[r] = answer[r] \/ answer'[r] = Outcome("error", r)
    BY <1>2, <1>16 DEF WriteLog, TypeOK
  <2>3. answer'[r] # None
    BY <1>2, <1>3, <2>1, <2>2 DEF Local, Kinds
  <2>4. OwnsItsCall(r)' => answer'[r].by = r
    BY <1>2, <1>3, <1>4, <2>1, <2>2, <2>3 DEF Local, Kinds
  <2>5. Local(r)'
    BY <1>1, <1>2, <1>4, <2>1, <2>3, <2>4 DEF Local, Follows, flightVars
  <2>6. QED
    BY <1>1, <2>1, <2>5 DEF Leading, LeadingSteps, flightVars
<1>17. QED
  BY <1>1, <1>6, <1>7, <1>8, <1>9, <1>10, <1>11, <1>12, <1>13, <1>14, <1>15,
     <1>16 DEF Quiet

\* What a joined request relies on: its leader exists, stays and keeps its
\* question.
LEMMA JoinedLeader ==
  ASSUME IInv, [Next]_vars, NEW r \in Requests, Follows(r)
  PROVE  \E l \in Requests :
           /\ leader[r] = l
           /\ leader[l] = l
           /\ l # r
           /\ FlightKey(l)' = FlightKey(l)
           /\ FlightKey(r)' = FlightKey(r)
<1>1. PICK l \in Requests : leader[r] = l
  BY DEF IInv, TypeOK, Follows
<1>2. l # r /\ leader[l] = l
  BY <1>1 DEF IInv, Follows, Joined
<1>3. pc[r] # "idle" /\ pc[l] # "idle"
  BY <1>1, <1>2, ConstantsAssumption DEF IInv, Local, Follows
<1>4. FlightKey(l)' = FlightKey(l) /\ FlightKey(r)' = FlightKey(r)
  BY <1>3, QuestionKept DEF IInv
<1>5. QED
  BY <1>1, <1>2, <1>4

\* A request stays joined when its own role and its leader's stay, the flight's
\* result stays, and it is not answered otherwise.
LEMMA StaysJoined ==
  ASSUME IInv, [Next]_vars, NEW r \in Requests, Follows(r),
         leader'[r] = leader[r], leader'[leader[r]] = leader[leader[r]],
         pc'[r] = "logging" =>
           /\ pc[r] = "logging"
           /\ answer'[r] = answer[r]
           /\ event'[leader[r]] = event[leader[r]]
           /\ outcome'[leader[r]] = outcome[leader[r]]
  PROVE  Joined(r)'
<1>1. PICK l \in Requests : /\ leader[r] = l
                            /\ FlightKey(l)' = FlightKey(l)
                            /\ FlightKey(r)' = FlightKey(r)
  BY JoinedLeader
<1>2. Joined(r)
  BY DEF IInv
<1>3. leader'[r] = l /\ leader'[l] = l /\ FlightKey(l) = FlightKey(r)
  BY <1>1, <1>2 DEF Joined
<1>4. FlightKey(leader[r])' = FlightKey(l)'
  BY <1>3
<1>5. pc'[r] = "logging" => event'[l] /\ answer'[r] = outcome'[l]
  BY <1>1, <1>2 DEF Joined
<1>6. QED
  BY <1>1, <1>3, <1>4, <1>5 DEF Joined

\* A leading request keeps its key.
LEMMA LeadingKey ==
  ASSUME IInv, [Next]_vars, NEW r \in Requests, Leading(r)
  PROVE  FlightKey(r)' = FlightKey(r)
BY QuestionKept DEF IInv, Leading, LeadingSteps

\* When nobody starts or stops to lead, the registry stays right.
LEMMA RegistryKept ==
  ASSUME IInv, [Next]_vars, inflight' = inflight,
         \A r \in Requests : Leading(r)' <=> Leading(r)
  PROVE  RegistryHoldsLiveFlights'
<1> SUFFICES ASSUME NEW k \in FlightKeys', NEW r \in Requests
             PROVE  inflight'[k] = r <=> Leading(r)' /\ FlightKey(r)' = k
  BY DEF RegistryHoldsLiveFlights
<1>1. k \in FlightKeys
  BY DEF FlightKeys
<1>2. inflight[k] = r <=> Leading(r) /\ FlightKey(r) = k
  BY <1>1 DEF IInv, RegistryHoldsLiveFlights
<1>3. QED
  BY <1>2, LeadingKey

LEMMA QuietStep ==
  ASSUME IInv, NEW r \in Requests, Quiet(r)
  PROVE  IInv'
<1>1. RequestStep(r) /\ [Next]_vars
  BY DEF Quiet, RequestStep, Thread, Next
<1>2. TypeOK'
  BY <1>1, TypeStep DEF IInv
<1>3. UNCHANGED flightVars
  BY QuietEffect
<1>4. \A q \in Requests \ {r} : pc'[q] = pc[q] /\ answer'[q] = answer[q]
  BY <1>1, OthersUntouched DEF IInv
<1>5. \A q \in Requests : Local(q)'
  BY <1>1, QuietEffect, OthersLocal
<1>6. \A q \in Requests : Leading(q)' <=> Leading(q)
  BY <1>3, <1>4, QuietEffect DEF Leading, flightVars
<1>7. RegistryHoldsLiveFlights'
  BY <1>1, <1>3, <1>6, RegistryKept DEF flightVars
<1>8. ASSUME NEW q \in Requests
      PROVE  Joined(q)'
  <2>1. SUFFICES ASSUME Follows(q) PROVE Joined(q)'
    BY <1>3 DEF Joined, Follows, flightVars
  <2>2. pc'[q] = "logging" => pc[q] = "logging" /\ answer'[q] = answer[q]
    BY <1>4, <2>1, QuietEffect
  <2>3. QED
    BY <1>1, <1>3, <2>1, <2>2, StaysJoined DEF flightVars
<1>9. QED
  BY <1>2, <1>5, <1>7, <1>8 DEF IInv

LEMMA LeadStep ==
  ASSUME IInv, NEW r \in Requests, Lead(r)
  PROVE  IInv'
<1>1. RequestStep(r) /\ [Next]_vars
  BY DEF RequestStep, Thread, Next
<1>2. TypeOK /\ TypeOK'
  BY <1>1, TypeStep DEF IInv
<1>3. /\ pc[r] = "joining" /\ pc'[r] = "rechecking"
      /\ leader[r] = None /\ leader'[r] = r /\ r # None
      /\ event' = event /\ outcome' = outcome /\ answer' = answer
      /\ \A q \in Requests \ {r} : pc'[q] = pc[q] /\ leader'[q] = leader[q]
  BY <1>2, ConstantsAssumption DEF Lead, Step, TypeOK, IInv, Local
<1>4. /\ OwnsItsCall(r)' <=> OwnsItsCall(r)
      /\ FlightKey(r)' = FlightKey(r)
  BY <1>1, <1>2, <1>3, QuestionKept
<1>5. Local(r)'
  BY <1>3, <1>4 DEF IInv, Local, Follows
<1>6. \A q \in Requests : Local(q)'
  BY <1>1, <1>5, OthersLocal
<1>7. RegistryHoldsLiveFlights'
  <2> SUFFICES ASSUME NEW k \in FlightKeys', NEW q \in Requests
               PROVE  inflight'[k] = q <=> Leading(q)' /\ FlightKey(q)' = k
    BY DEF RegistryHoldsLiveFlights
  <2>1. k \in FlightKeys
    BY DEF FlightKeys
  <2>2. inflight[k] = q <=> Leading(q) /\ FlightKey(q) = k
    BY <2>1 DEF IInv, RegistryHoldsLiveFlights
  <2>3. inflight'[k] = IF k = FlightKey(r) THEN r ELSE inflight[k]
    BY <1>2, <2>1 DEF Lead, TypeOK
  <2>4. inflight[FlightKey(r)] = None /\ None \notin Requests
    BY ConstantsAssumption DEF Lead
  <2>5. CASE q = r
    BY <1>3, <1>4, <2>2, <2>3, <2>5 DEF Leading, LeadingSteps
  <2>6. CASE q # r
    <3>1. Leading(q)' <=> Leading(q)
      BY <1>3, <2>6 DEF Leading
    <3>2. QED
      BY <1>1, <2>2, <2>3, <2>4, <2>6, <3>1, LeadingKey
  <2>7. QED
    BY <2>5, <2>6
<1>8. ASSUME NEW q \in Requests
      PROVE  Joined(q)'
  <2>1. SUFFICES ASSUME Follows(q), q # r PROVE Joined(q)'
    BY <1>3 DEF Joined, Follows
  <2>2. leader[q] # r
    BY <1>1, <1>3, <2>1, JoinedLeader
  <2>3. leader[q] \in Requests
    BY <1>2, <2>1 DEF TypeOK, Follows
  <2>4. QED
    BY <1>1, <1>3, <2>1, <2>2, <2>3, StaysJoined
<1>9. QED
  BY <1>2, <1>6, <1>7, <1>8 DEF IInv

LEMMA FollowStep ==
  ASSUME IInv, NEW r \in Requests, Follow(r)
  PROVE  IInv'
<1>1. RequestStep(r) /\ [Next]_vars
  BY DEF RequestStep, Thread, Next
<1>2. TypeOK /\ TypeOK'
  BY <1>1, TypeStep DEF IInv
<1>3. FlightKey(r) \in FlightKeys
  <2>1. gen[r] \in Generations /\ shape[r] \in Shapes
    BY <1>2 DEF Follow, Step, TypeOK
  <2>2. shape[r].cacheKey \in CacheKeys
    BY <2>1, ConstantsAssumption DEF ShapeType
  <2>3. QED
    BY <2>1, <2>2 DEF FlightKey, FlightKeys
<1>4. PICK l \in Requests : /\ inflight[FlightKey(r)] = l
                            /\ Leading(l)
                            /\ FlightKey(l) = FlightKey(r)
  BY <1>2, <1>3 DEF Follow, TypeOK, IInv, RegistryHoldsLiveFlights
<1>5. /\ pc[r] = "joining" /\ pc'[r] = "waiting"
      /\ leader[r] = None /\ leader'[r] = l /\ r # None
      /\ inflight' = inflight /\ event' = event /\ outcome' = outcome
      /\ answer' = answer
      /\ \A q \in Requests \ {r} : pc'[q] = pc[q] /\ leader'[q] = leader[q]
  BY <1>2, <1>4, ConstantsAssumption DEF Follow, Step, TypeOK, IInv, Local
<1>6. l # r /\ leader[l] = l
  BY <1>4, <1>5 DEF Leading, LeadingSteps
<1>7. /\ OwnsItsCall(r)' <=> OwnsItsCall(r)
      /\ FlightKey(r)' = FlightKey(r)
      /\ FlightKey(l)' = FlightKey(l)
  BY <1>1, <1>2, <1>4, <1>5, QuestionKept, LeadingKey
<1>8. Local(r)'
  BY <1>5, <1>6, <1>7 DEF IInv, Local, Follows
<1>9. \A q \in Requests : Local(q)'
  BY <1>1, <1>8, OthersLocal
<1>10. \A q \in Requests : Leading(q)' <=> Leading(q)
  BY <1>5 DEF Leading, LeadingSteps
<1>11. RegistryHoldsLiveFlights'
  BY <1>1, <1>5, <1>10, RegistryKept
<1>12. Joined(r)'
  <2>1. leader'[l] = l /\ FlightKey(leader[r])' = FlightKey(l)'
    BY <1>5, <1>6
  <2>2. QED
    BY <1>4, <1>5, <1>7, <2>1 DEF Joined
<1>13. ASSUME NEW q \in Requests, q # r
       PROVE  Joined(q)'
  <2>1. SUFFICES ASSUME Follows(q) PROVE Joined(q)'
    BY <1>5, <1>13 DEF Joined, Follows
  <2>2. leader[q] # r
    BY <1>1, <1>5, <2>1, ConstantsAssumption, JoinedLeader
  <2>3. leader[q] \in Requests
    BY <1>2, <2>1 DEF TypeOK, Follows
  <2>4. QED
    BY <1>1, <1>5, <1>13, <2>1, <2>2, <2>3, StaysJoined
<1>14. QED
  BY <1>2, <1>9, <1>11, <1>12, <1>13 DEF IInv

LEMMA WakeStep ==
  ASSUME IInv, NEW r \in Requests, Wake(r)
  PROVE  IInv'
<1>1. RequestStep(r) /\ [Next]_vars
  BY DEF RequestStep, Thread, Next
<1>2. TypeOK /\ TypeOK'
  BY <1>1, TypeStep DEF IInv
<1>3. PICK l \in Requests : leader[r] = l
  BY <1>2 DEF Wake, Step, TypeOK
<1>4. /\ UNCHANGED flightVars
      /\ pc[r] = "waiting" /\ pc'[r] = "logging"
      /\ \A q \in Requests \ {r} : pc'[q] = pc[q] /\ answer'[q] = answer[q]
  BY <1>2 DEF Wake, Step, TypeOK
<1>5. l # r /\ l # None /\ event[l] /\ outcome[l] # None
  BY <1>3, <1>4, ConstantsAssumption DEF IInv, Local, Wake
<1>6. answer'[r] = outcome[l]
  BY <1>2, <1>3, <1>5 DEF Wake, TypeOK
<1>7. OwnsItsCall(r)' <=> OwnsItsCall(r)
  BY <1>1, <1>2, <1>4, QuestionKept
<1>8. Local(r)'
  BY <1>3, <1>4, <1>5, <1>6, <1>7 DEF IInv, Local, Follows, flightVars
<1>9. \A q \in Requests : Local(q)'
  BY <1>1, <1>8, OthersLocal
<1>10. \A q \in Requests : Leading(q)' <=> Leading(q)
  BY <1>4 DEF Leading, LeadingSteps, flightVars
<1>11. RegistryHoldsLiveFlights'
  BY <1>1, <1>4, <1>10, RegistryKept DEF flightVars
<1>12. Joined(r)'
  <2>1. PICK m \in Requests : /\ leader[r] = m /\ leader[m] = m
                              /\ FlightKey(m)' = FlightKey(m)
                              /\ FlightKey(r)' = FlightKey(r)
    BY <1>1, <1>3, <1>5, JoinedLeader DEF Follows
  <2>2. FlightKey(l) = FlightKey(r)
    BY <1>3, <1>5 DEF IInv, Joined, Follows
  <2>3. /\ leader'[r] = l /\ leader'[l] = l
        /\ event'[l] = event[l] /\ outcome'[l] = outcome[l]
    BY <1>3, <1>4, <2>1 DEF flightVars
  <2>4. FlightKey(leader[r])' = FlightKey(l)'
    BY <2>3
  <2>5. QED
    BY <1>3, <1>5, <1>6, <2>1, <2>2, <2>3, <2>4 DEF Joined
<1>13. ASSUME NEW q \in Requests, q # r
       PROVE  Joined(q)'
  <2>1. SUFFICES ASSUME Follows(q) PROVE Joined(q)'
    BY <1>4 DEF Joined, Follows, flightVars
  <2>2. QED
    BY <1>1, <1>4, <1>13, <2>1, StaysJoined DEF flightVars
<1>14. QED
  BY <1>2, <1>9, <1>11, <1>12, <1>13 DEF IInv

LEMMA PublishStep ==
  ASSUME IInv, NEW r \in Requests, Publish(r)
  PROVE  IInv'
<1>1. RequestStep(r) /\ [Next]_vars
  BY DEF RequestStep, Thread, Next
<1>2. TypeOK /\ TypeOK'
  BY <1>1, TypeStep DEF IInv
<1>3. /\ pc[r] = "publishing" /\ pc'[r] = "signalling"
      /\ inflight' = inflight /\ leader' = leader /\ event' = event
      /\ leader[r] = r /\ r # None
      /\ \A q \in Requests \ {r} :
           pc'[q] = pc[q] /\ answer'[q] = answer[q] /\ outcome'[q] = outcome[q]
  BY <1>2, ConstantsAssumption DEF Publish, Step, TypeOK, IInv, Local
<1>4. outcome'[r] # None /\ answer'[r] # None
  <2>1. answer[r] # None /\ Outcome("error", r) # None
    BY <1>3, OutcomeType DEF IInv, Local, Kinds
  <2>2. QED
    BY <1>2, <2>1 DEF Publish, TypeOK
<1>5. OwnsItsCall(r)' <=> OwnsItsCall(r)
  BY <1>1, <1>2, <1>3, QuestionKept
<1>6. Local(r)'
  BY <1>3, <1>4, <1>5 DEF IInv, Local, Follows
<1>7. \A q \in Requests : Local(q)'
  BY <1>1, <1>6, OthersLocal
<1>8. \A q \in Requests : Leading(q)' <=> Leading(q)
  BY <1>3 DEF Leading, LeadingSteps
<1>9. RegistryHoldsLiveFlights'
  BY <1>1, <1>3, <1>8, RegistryKept
<1>10. ~event[r]
  BY <1>3 DEF IInv, Local
<1>11. ASSUME NEW q \in Requests
       PROVE  Joined(q)'
  <2>1. SUFFICES ASSUME Follows(q) PROVE Joined(q)'
    BY <1>3 DEF Joined, Follows
  <2>2. PICK l \in Requests : leader[q] = l
    BY <1>2, <2>1 DEF TypeOK, Follows
  <2>3. q # r
    BY <1>3, <2>1 DEF Follows
  <2>4. pc'[q] = "logging" => l # r
    BY <1>3, <1>10, <2>1, <2>2, <2>3 DEF IInv, Joined
  <2>5. QED
    BY <1>1, <1>3, <2>1, <2>2, <2>3, <2>4, StaysJoined
<1>12. QED
  BY <1>2, <1>7, <1>9, <1>11 DEF IInv

LEMMA SignalStep ==
  ASSUME IInv, NEW r \in Requests, Signal(r)
  PROVE  IInv'
<1>1. RequestStep(r) /\ [Next]_vars
  BY DEF RequestStep, Thread, Next
<1>2. TypeOK /\ TypeOK'
  BY <1>1, TypeStep DEF IInv
<1>3. /\ pc[r] = "signalling" /\ pc'[r] = "leaving"
      /\ inflight' = inflight /\ leader' = leader /\ outcome' = outcome
      /\ answer' = answer /\ event'[r] = TRUE
      /\ leader[r] = r /\ r # None
      /\ \A q \in Requests \ {r} : pc'[q] = pc[q] /\ event'[q] = event[q]
  BY <1>2, ConstantsAssumption DEF Signal, Step, TypeOK, IInv, Local
<1>4. OwnsItsCall(r)' <=> OwnsItsCall(r)
  BY <1>1, <1>2, <1>3, QuestionKept
<1>5. Local(r)'
  BY <1>3, <1>4 DEF IInv, Local, Follows
<1>6. \A q \in Requests : Local(q)'
  BY <1>1, <1>5, OthersLocal
<1>7. \A q \in Requests : Leading(q)' <=> Leading(q)
  BY <1>3 DEF Leading, LeadingSteps
<1>8. RegistryHoldsLiveFlights'
  BY <1>1, <1>3, <1>7, RegistryKept
<1>9. ~event[r]
  BY <1>3 DEF IInv, Local
<1>10. ASSUME NEW q \in Requests
       PROVE  Joined(q)'
  <2>1. SUFFICES ASSUME Follows(q) PROVE Joined(q)'
    BY <1>3 DEF Joined, Follows
  <2>2. PICK l \in Requests : leader[q] = l
    BY <1>2, <2>1 DEF TypeOK, Follows
  <2>3. q # r
    BY <1>3, <2>1 DEF Follows
  <2>4. pc'[q] = "logging" => l # r
    BY <1>3, <1>9, <2>1, <2>2, <2>3 DEF IInv, Joined
  <2>5. QED
    BY <1>1, <1>3, <2>1, <2>2, <2>3, <2>4, StaysJoined
<1>11. QED
  BY <1>2, <1>6, <1>8, <1>10 DEF IInv

LEMMA LeaveStep ==
  ASSUME IInv, NEW r \in Requests, Leave(r)
  PROVE  IInv'
<1>1. RequestStep(r) /\ [Next]_vars
  BY DEF RequestStep, Thread, Next
<1>2. TypeOK /\ TypeOK'
  BY <1>1, TypeStep DEF IInv
<1>3. /\ pc[r] = "leaving" /\ pc'[r] = "logging"
      /\ leader' = leader /\ event' = event /\ outcome' = outcome
      /\ answer' = answer
      /\ leader[r] = r /\ r # None
      /\ \A q \in Requests \ {r} : pc'[q] = pc[q]
  BY <1>2, ConstantsAssumption DEF Leave, Step, TypeOK, IInv, Local
<1>4. /\ OwnsItsCall(r)' <=> OwnsItsCall(r)
      /\ FlightKey(r)' = FlightKey(r)
  BY <1>1, <1>2, <1>3, QuestionKept
<1>5. Local(r)'
  BY <1>3, <1>4 DEF IInv, Local, Follows
<1>6. \A q \in Requests : Local(q)'
  BY <1>1, <1>5, OthersLocal
<1>7. RegistryHoldsLiveFlights'
  <2> SUFFICES ASSUME NEW k \in FlightKeys', NEW q \in Requests
               PROVE  inflight'[k] = q <=> Leading(q)' /\ FlightKey(q)' = k
    BY DEF RegistryHoldsLiveFlights
  <2>1. k \in FlightKeys /\ None # q
    BY ConstantsAssumption DEF FlightKeys
  <2>2. \A s \in Requests :
          inflight[k] = s <=> Leading(s) /\ FlightKey(s) = k
    BY <2>1 DEF IInv, RegistryHoldsLiveFlights
  <2>3. inflight'[k] = IF k = FlightKey(r) /\ inflight[k] = r THEN None
                                                            ELSE inflight[k]
    BY <1>2, <2>1 DEF Leave, TypeOK
  <2>4. CASE q = r
    BY <1>3, <2>1, <2>2, <2>3, <2>4 DEF Leading, LeadingSteps
  <2>5. CASE q # r
    <3>1. Leading(q)' <=> Leading(q)
      BY <1>3, <2>5 DEF Leading
    <3>2. inflight'[k] = q <=> inflight[k] = q
      BY <2>1, <2>3, <2>5
    <3>3. QED
      BY <1>1, <2>2, <3>1, <3>2, LeadingKey
  <2>6. QED
    BY <2>4, <2>5
<1>8. ASSUME NEW q \in Requests
      PROVE  Joined(q)'
  <2>1. SUFFICES ASSUME Follows(q) PROVE Joined(q)'
    BY <1>3 DEF Joined, Follows
  <2>2. q # r
    BY <1>3, <2>1 DEF Follows
  <2>3. QED
    BY <1>1, <1>3, <2>1, <2>2, StaysJoined
<1>9. QED
  BY <1>2, <1>6, <1>7, <1>8 DEF IInv

LEMMA BackgroundStep ==
  ASSUME IInv, Background
  PROVE  IInv'
<1>1. [Next]_vars
  BY DEF Background, Next
<1>2. TypeOK'
  BY <1>1, TypeStep DEF IInv
<1>3. UNCHANGED <<config, pc, requestVars, flightVars, answer>>
  BY DEF Background, Install, FinishInstall, ClearCache, Expire, vars,
         configVars, requestVars, flightVars
<1>4. ASSUME NEW r \in Requests
      PROVE  /\ OwnsItsCall(r)' = OwnsItsCall(r)
             /\ FlightKey(r)' = FlightKey(r)
             /\ Leading(r)' = Leading(r)
  BY <1>3 DEF OwnsItsCall, FlightKey, Cacheable, Leading, requestVars,
              flightVars
<1>5. ASSUME NEW r \in Requests
      PROVE  Local(r)'
  BY <1>3, <1>4 DEF IInv, Local, Follows, flightVars
<1>6. RegistryHoldsLiveFlights'
  BY <1>1, <1>3, <1>4, RegistryKept DEF flightVars
<1>7. ASSUME NEW r \in Requests
      PROVE  Joined(r)'
  <2>1. SUFFICES ASSUME Follows(r) PROVE Joined(r)'
    BY <1>3 DEF Joined, Follows, flightVars
  <2>2. QED
    BY <1>1, <1>3, <2>1, StaysJoined DEF flightVars
<1>8. QED
  BY <1>2, <1>5, <1>6, <1>7 DEF IInv

LEMMA IInvStep == IInv /\ [Next]_vars => IInv'
<1> SUFFICES ASSUME IInv, [Next]_vars PROVE IInv'
  OBVIOUS
<1>1. ASSUME NEW r \in Requests, RequestStep(r)
      PROVE  IInv'
  BY <1>1, QuietStep, LeadStep, FollowStep, WakeStep, PublishStep, SignalStep,
     LeaveStep DEF RequestStep, Thread, Quiet
<1>2. CASE Background
  BY <1>2, BackgroundStep
<1>3. QED
  BY <1>1, <1>2 DEF Next, Background, RequestStep

LEMMA Invariance == Spec => []IInv
BY InitIInv, IInvStep, PTL DEF Spec

-----------------------------------------------------------------------------
(* What follows from the invariant.                                        *)

\* Requests with the same coalescing key ask the same question: the key names
\* the generation of the route and either the cache key or the full context.
LEMMA SameKeySameQuestion ==
  ASSUME NEW r, NEW s, FlightKey(r) = FlightKey(s)
  PROVE  SameQuestion(r, s)
BY DEF FlightKey, SameQuestion

\* In every reachable state the registry of in-flight requests holds exactly the
\* flights whose leaders have not left (runtime.py:562-622).
THEOREM RegistryCorrect == Spec => []RegistryHoldsLiveFlights
BY Invariance, PTL DEF IInv

\* No follower waits for a flight that nobody will settle (runtime.py:568-571).
THEOREM FollowersAreReached == Spec => []NoFollowerStranded
<1>1. IInv => NoFollowerStranded
  <2> SUFFICES ASSUME IInv, NEW r \in Requests, pc[r] = "waiting"
               PROVE  \/ Leading(leader[r])
                      \/ event[leader[r]] /\ outcome[leader[r]] # None
    BY DEF NoFollowerStranded
  <2>1. PICK l \in Requests : leader[r] = l /\ l # r /\ l # None
    BY ConstantsAssumption DEF IInv, TypeOK, Local
  <2>2. leader[l] = l
    BY <2>1 DEF IInv, Joined, Follows
  <2>3. pc[l] \in LeadingSteps \cup {"logging", "done"}
    BY <2>1, <2>2 DEF IInv, TypeOK, Local, Steps
  <2>4. QED
    BY <2>1, <2>2, <2>3 DEF Leading, LeadingSteps, IInv, Local
<1>2. QED
  BY <1>1, Invariance, PTL

\* A follower shares its leader's question and its outcome, and never bypasses
\* the cache (runtime.py:568-587, 1241-1311).
THEOREM FollowersAsk == Spec => []FollowersShareTheirQuestion
<1>1. IInv => FollowersShareTheirQuestion
  <2> SUFFICES ASSUME IInv, NEW r \in Requests, Follows(r)
               PROVE  /\ SameQuestion(leader[r], r)
                      /\ ~shape[r].bypass
                      /\ Answered(r) => answer[r] = outcome[leader[r]]
    BY DEF FollowersShareTheirQuestion
  <2>1. Joined(r) /\ Local(r)
    BY DEF IInv
  <2>2. SameQuestion(leader[r], r)
    BY <2>1, SameKeySameQuestion DEF Joined
  <2>3. ~shape[r].bypass
    BY <2>1 DEF Local, Follows, OwnsItsCall
  <2>4. QED
    BY <2>1, <2>2, <2>3 DEF Joined, Answered
<1>2. QED
  BY <1>1, Invariance, PTL

\* A request that bypasses the cache, or is neither cacheable nor safe, is only
\* ever answered by its own call (runtime.py:1249-1274, 1339-1375).
THEOREM BypassCorrect == Spec => []BypassIsFresh
<1>1. IInv => BypassIsFresh
  BY DEF IInv, Local, BypassIsFresh, Answered
<1>2. QED
  BY <1>1, Invariance, PTL

-----------------------------------------------------------------------------
(* Whose response a request is answered with.                              *)

\* Outcome o was made for the cache key of r or, when nothing of r may be cached,
\* for its full context.
Fits(o, r) ==
  /\ pc[o.by] # "idle"
  /\ IF Cacheable(r) THEN shape[o.by].cacheKey = shape[r].cacheKey
                     ELSE shape[o.by] = shape[r]

\* A cache entry was made for its key; what a request holds, as its answer or as
\* the outcome of the flight it leads, fits it.
ServedInv ==
  /\ \A k \in CacheKeys :
       cache[k] # None => pc[cache[k]] # "idle" /\ shape[cache[k]].cacheKey = k
  /\ \A r \in Requests : answer[r] # None => Fits(answer[r], r)
  /\ \A r \in Requests : outcome[r] # None => pc[r] # "idle" /\ Fits(outcome[r], r)

\* Once matched, a request never becomes idle again.
LEMMA StaysMatched ==
  ASSUME TypeOK, [Next]_vars, NEW r \in Requests, pc[r] # "idle"
  PROVE  pc'[r] # "idle"
BY DEF TypeOK, Next, vars, Thread, Step, Match, Reject, LookUp, ChooseKey, Lead,
       Follow, Wake, Recheck, Call, UpstreamFails, Fetch, OpenStream, Store,
       Publish, Signal, Leave, WriteLog, Install, FinishInstall, ClearCache,
       Expire, AfterExecution

\* What fits a request keeps fitting it.
LEMMA FitsKept ==
  ASSUME TypeOK, [Next]_vars, NEW r \in Requests, pc[r] # "idle",
         NEW o \in Outcomes, Fits(o, r)
  PROVE  Fits(o, r)'
<1>1. o.by \in Requests /\ pc[o.by] # "idle"
  BY DEF Fits, Outcomes
<1>2. shape'[o.by] = shape[o.by] /\ pc'[o.by] # "idle"
  BY <1>1, QuestionKept, StaysMatched
<1>3. shape'[r] = shape[r] /\ Cacheable(r)' = Cacheable(r)
  BY QuestionKept
<1>4. QED
  BY <1>2, <1>3 DEF Fits

\* The answer a thread's step leaves: the one it had, one of its own making, the
\* cache entry of its key, or the outcome of the flight it waited for.
LEMMA AnswerSource ==
  ASSUME IInv, NEW r \in Requests, RequestStep(r)
  PROVE  \/ answer'[r] = answer[r]
         \/ answer'[r] \in Outcomes /\ answer'[r].by = r /\ pc'[r] # "idle"
         \/ /\ pc[r] # "idle" /\ CacheMayHit(r)
            /\ answer'[r] = Outcome("ok", cache[shape[r].cacheKey])
         \/ /\ pc[r] = "waiting" /\ outcome[leader[r]] # None
            /\ answer'[r] = outcome[leader[r]]
<1>1. TypeOK
  BY DEF IInv
<1>2. \A k \in Kinds : Outcome(k, r) \in Outcomes /\ Outcome(k, r).by = r
  BY OutcomeType DEF Outcome
<1> USE <1>1, <1>2 DEF TypeOK, Step, Kinds
<1>3. CASE \/ \E s \in Shapes : Match(r, s)
           \/ ChooseKey(r) \/ Lead(r) \/ Follow(r) \/ Call(r) \/ Store(r)
           \/ Signal(r) \/ Leave(r)
  BY <1>3 DEF Match, ChooseKey, Lead, Follow, Call, Store, Signal, Leave
<1>4. CASE Reject(r) \/ UpstreamFails(r) \/ OpenStream(r)
  BY <1>4 DEF Reject, UpstreamFails, OpenStream, AfterExecution
<1>5. CASE LookUp(r) \/ Recheck(r)
  BY <1>5 DEF LookUp, Recheck, Hit, Miss
<1>6. CASE Wake(r)
  BY <1>6 DEF Wake
<1>7. CASE Fetch(r)
  BY <1>7 DEF Fetch, AfterExecution
<1>8. CASE Publish(r)
  BY <1>8 DEF Publish
<1>9. CASE WriteLog(r)
  BY <1>9 DEF WriteLog
<1>10. QED
  BY <1>3, <1>4, <1>5, <1>6, <1>7, <1>8, <1>9 DEF RequestStep, Thread

\* A thread changes the outcome of its flight only to what it answers itself.
LEMMA OutcomeSource ==
  ASSUME IInv, NEW r \in Requests, RequestStep(r)
  PROVE  \/ outcome'[r] = outcome[r]
         \/ pc[r] # "idle" /\ outcome'[r] = answer'[r]
<1>1. TypeOK
  BY DEF IInv
<1>2. CASE Publish(r)
  BY <1>1, <1>2 DEF TypeOK, Publish, Step
<1>3. CASE ~Publish(r)
  BY <1>3 DEF RequestStep, Thread, flightVars, Match, Reject, LookUp, ChooseKey,
              Lead, Follow, Wake, Recheck, Call, UpstreamFails, Fetch, OpenStream,
              Store, Signal, Leave, WriteLog
<1>4. QED
  BY <1>2, <1>3

\* A thread changes the cache only to store its own response under its own key.
LEMMA CacheSource ==
  ASSUME IInv, NEW r \in Requests, RequestStep(r)
  PROVE  \/ UNCHANGED cacheVars
         \/ /\ pc[r] = "storing"
            /\ cache' = [cache EXCEPT ![shape[r].cacheKey] = r]
            /\ filled' = IF leader[r] = r THEN filled \cup {r} ELSE filled
BY DEF RequestStep, Thread, cacheVars, Step, Match, Reject, LookUp, ChooseKey,
       Lead, Follow, Wake, Recheck, Call, UpstreamFails, Fetch, OpenStream, Store,
       Publish, Signal, Leave, WriteLog

LEMMA ServedRequestStep ==
  ASSUME IInv, ServedInv, NEW r \in Requests, RequestStep(r)
  PROVE  ServedInv'
<1>1. [Next]_vars /\ TypeOK /\ \A q \in Requests : Local(q)
  BY DEF RequestStep, Next, IInv
<1>2. TypeOK'
  BY <1>1, TypeStep
<1>3. ASSUME NEW k \in CacheKeys, NEW m \in Requests, cache'[k] = m
      PROVE  pc'[m] # "idle" /\ shape'[m].cacheKey = k
  <2>1. \/ cache[k] = m
        \/ m = r /\ pc[r] = "storing" /\ shape[r].cacheKey = k
    BY <1>1, <1>3, CacheSource DEF cacheVars, TypeOK
  <2>2. pc[m] # "idle" /\ shape[m].cacheKey = k
    BY <2>1, ConstantsAssumption DEF ServedInv
  <2>3. QED
    BY <1>1, <2>2, QuestionKept, StaysMatched
\* What fitted a request before the step.
<1>4. ASSUME NEW q \in Requests, NEW o \in Outcomes, answer[q] = o \/ outcome[q] = o
      PROVE  pc'[q] # "idle" /\ Fits(o, q)'
  <2>1. o # None
    BY ConstantsAssumption
  <2>2. pc[q] # "idle" /\ Fits(o, q)
    BY <1>1, <1>4, <2>1 DEF Local, ServedInv
  <2>3. QED
    BY <1>1, <2>2, FitsKept, StaysMatched
\* What fits the request that took the step.
<1>5. ASSUME NEW o \in Outcomes, answer'[r] = o
      PROVE  Fits(o, r)'
  <2>1. CASE answer'[r] = answer[r]
    BY <1>4, <1>5, <2>1
  <2>2. CASE answer'[r].by = r /\ pc'[r] # "idle"
    BY <1>5, <2>2 DEF Fits
  <2>3. CASE /\ pc[r] # "idle" /\ CacheMayHit(r)
             /\ answer'[r] = Outcome("ok", cache[shape[r].cacheKey])
    <3>1. PICK m \in Requests : m = cache[shape[r].cacheKey]
      BY <1>1, <2>3, HitType DEF TypeOK
    <3>2. o.by = m
      BY <1>5, <2>3, <3>1 DEF Outcome
    <3>3. pc[m] # "idle" /\ shape[m].cacheKey = shape[r].cacheKey
      BY <1>1, <2>3, <3>1, ConstantsAssumption
         DEF ServedInv, CacheMayHit, TypeOK, ShapeType
    <3>4. Fits(o, r)
      BY <2>3, <3>2, <3>3 DEF Fits, CacheMayHit
    <3>5. QED
      BY <1>1, <2>3, <3>4, FitsKept
  <2>4. CASE /\ pc[r] = "waiting" /\ outcome[leader[r]] # None
             /\ answer'[r] = outcome[leader[r]]
    <3>1. PICK l \in Requests : l = leader[r]
      BY <1>1, <2>4 DEF TypeOK
    <3>2. Fits(o, l)
      BY <1>5, <2>4, <3>1 DEF ServedInv
    <3>3. FlightKey(l) = FlightKey(r)
      BY <1>1, <2>4, <3>1, ConstantsAssumption DEF IInv, Joined, Follows, Local
    <3>4. (Cacheable(l) <=> Cacheable(r)) /\ SameQuestion(l, r)
      BY <3>3, SameKeySameQuestion DEF FlightKey
    <3>5. Fits(o, r)
      BY <3>2, <3>4 DEF Fits, SameQuestion
    <3>6. QED
      BY <1>1, <2>4, <3>5, FitsKept
  <2>5. QED
    BY <2>1, <2>2, <2>3, <2>4, AnswerSource
\* What each request holds after the step.
<1>6. ASSUME NEW q \in Requests, NEW o \in Outcomes
      PROVE  /\ answer'[q] = o => Fits(o, q)'
             /\ outcome'[q] = o => pc'[q] # "idle" /\ Fits(o, q)'
  <2>1. CASE q # r
    BY <1>1, <1>4, <2>1, OthersUntouched
  <2>2. CASE q = r
    <3>1. outcome'[r] = o => outcome[r] = o \/ (pc[r] # "idle" /\ answer'[r] = o)
      BY OutcomeSource
    <3>2. QED
      BY <1>1, <1>4, <1>5, <2>2, <3>1, StaysMatched
  <2>3. QED
    BY <2>1, <2>2
<1>7. /\ \A q \in Requests : answer'[q] # None => answer'[q] \in Outcomes
      /\ \A q \in Requests : outcome'[q] # None => outcome'[q] \in Outcomes
      /\ \A k \in CacheKeys : cache'[k] # None => cache'[k] \in Requests
  BY <1>2 DEF TypeOK
<1>8. QED
  BY <1>3, <1>6, <1>7 DEF ServedInv, Fits

LEMMA ServedBackgroundStep ==
  ASSUME IInv, ServedInv, Background
  PROVE  ServedInv'
<1>1. /\ UNCHANGED <<config, pc, requestVars, outcome, answer>>
      /\ \A k \in CacheKeys : cache'[k] = cache[k] \/ cache'[k] = None
  BY DEF Background, Install, FinishInstall, ClearCache, Expire, Empty, vars,
         configVars, requestVars, cacheVars, flightVars, IInv, TypeOK
<1>2. QED
  BY <1>1 DEF ServedInv, Fits, Cacheable, requestVars

LEMMA ServedInvariance == Spec => []ServedInv
<1>1. Init => ServedInv
  BY DEF Init, ServedInv
<1>2. IInv /\ ServedInv /\ [Next]_vars => ServedInv'
  BY ServedRequestStep, ServedBackgroundStep DEF Next, Background, RequestStep
<1>3. QED
  BY <1>1, <1>2, Invariance, PTL DEF Spec

\* Through every chain of cache, leader and follower, a request is answered with
\* a response made for its own cache key, or for its own full context when nothing
\* of it may be cached (runtime.py:1241-1307, 1339-1441).
THEOREM AnswersCorrect == Spec => []AnswersTheQuestionAsked
<1>1. ServedInv => AnswersTheQuestionAsked
  BY DEF ServedInv, AnswersTheQuestionAsked, Answered, Fits
<1>2. QED
  BY <1>1, ServedInvariance, PTL

-----------------------------------------------------------------------------
(* One upstream success per cache entry.                                   *)

\* A leader that has looked in the cache again and may still fill its entry.
Filling(r) == leader[r] = r /\ pc[r] \in {"calling", "fetching", "storing"}

\* An entry counted as filled is in the cache, and no leader of its key is on its
\* way to fill it again: the leader found it when it looked, or leads nothing.
FillInv ==
  /\ \A r \in Requests : pc[r] = "storing" => Cacheable(r)
  /\ \A s \in filled :
       /\ leader[s] = s /\ pc[s] # "idle"
       /\ Cacheable(s) /\ cache[shape[s].cacheKey] # None
  /\ ~LossyCache =>
       \A s \in filled, r \in Requests : Filling(r) => ~SameQuestion(r, s)
  /\ OneFillPerEntry

\* The requests of one cache key use one method, so they are cacheable alike.
LEMMA SameQuestionCacheable ==
  ASSUME TypeOK, NEW r \in Requests, NEW s \in Requests, pc[r] # "idle",
         pc[s] # "idle", SameQuestion(r, s)
  PROVE  Cacheable(r) = Cacheable(s) /\ SameQuestion(s, r)
<1>1. shape[r] \in Shapes /\ shape[s] \in Shapes
  BY DEF TypeOK
<1>2. shape[r].cacheKey = shape[s].cacheKey => shape[r].method = shape[s].method
  BY <1>1, ConstantsAssumption
<1>3. QED
  BY <1>2 DEF SameQuestion, Cacheable

\* Two leaders on their way ask different questions.
LEMMA LeadersDiffer ==
  ASSUME IInv, NEW r \in Requests, NEW s \in Requests, Leading(r), Leading(s),
         Cacheable(r), Cacheable(s), SameQuestion(r, s)
  PROVE  r = s
<1>1. FlightKey(r) = FlightKey(s)
  BY DEF SameQuestion, FlightKey
<1>2. FlightKey(r) \in FlightKeys
  <2>1. shape[r] \in Shapes /\ gen[r] \in Generations
    BY DEF IInv, TypeOK, Leading, LeadingSteps
  <2>2. QED
    BY <2>1, ConstantsAssumption DEF FlightKey, FlightKeys, ShapeType
<1>3. QED
  BY <1>1, <1>2 DEF IInv, RegistryHoldsLiveFlights

\* A matched pair of requests keeps asking the same question, or not.
LEMMA SameQuestionKept ==
  ASSUME TypeOK, [Next]_vars, NEW r \in Requests, NEW s \in Requests,
         pc[r] # "idle", pc[s] # "idle"
  PROVE  SameQuestion(r, s)' <=> SameQuestion(r, s)
BY QuestionKept DEF SameQuestion

\* Who leads goes on leading, and a leader is on its way to fill its entry only
\* because it was or because it has just missed in the cache.
LEMMA FillingSource ==
  ASSUME IInv, NEW r \in Requests, RequestStep(r)
  PROVE  /\ leader[r] = r => leader'[r] = r
         /\ pc'[r] = "storing" => pc[r] # "idle" /\ Cacheable(r)
         /\ Filling(r)' =>
              \/ Filling(r)
              \/ pc[r] = "rechecking" /\ leader[r] = r /\ Miss(r)
<1>1. TypeOK /\ Local(r) /\ r # None
  BY ConstantsAssumption DEF IInv
<1> USE <1>1 DEF Local, TypeOK, Step, Filling, AfterExecution, flightVars
<1>2. CASE \/ \E s \in Shapes : Match(r, s)
           \/ Reject(r) \/ LookUp(r) \/ ChooseKey(r) \/ Lead(r) \/ Follow(r) \/ Wake(r)
  BY <1>2 DEF Match, Reject, LookUp, ChooseKey, Lead, Follow, Wake
<1>3. CASE Recheck(r)
  BY <1>3 DEF Recheck
<1>4. CASE Call(r) \/ UpstreamFails(r) \/ OpenStream(r) \/ Store(r)
  BY <1>4 DEF Call, UpstreamFails, OpenStream, Store
<1>5. CASE Fetch(r)
  BY <1>5 DEF Fetch
<1>6. CASE Publish(r) \/ Signal(r) \/ Leave(r) \/ WriteLog(r)
  BY <1>6 DEF Publish, Signal, Leave, WriteLog
<1>7. QED
  BY <1>2, <1>3, <1>4, <1>5, <1>6 DEF RequestStep, Thread

LEMMA FillRequestStep ==
  ASSUME IInv, FillInv, NEW r \in Requests, RequestStep(r)
  PROVE  FillInv'
<1>1. /\ [Next]_vars /\ TypeOK /\ Local(r) /\ r # None
      /\ filled \subseteq Requests
  BY ConstantsAssumption DEF RequestStep, Next, IInv, TypeOK
<1>2. \A q \in Requests \ {r} :
        pc'[q] = pc[q] /\ leader'[q] = leader[q] /\ (Filling(q)' <=> Filling(q))
  BY <1>1, OthersUntouched DEF Filling
<1>3. ASSUME NEW q \in Requests, pc'[q] = "storing"
      PROVE  Cacheable(q)'
  <2>1. Cacheable(q) /\ pc[q] # "idle"
    BY <1>2, <1>3, FillingSource DEF FillInv
  <2>2. QED
    BY <1>1, <2>1, QuestionKept
\* The leaders that have filled an entry: one more when a leader has just stored.
<1>4. \/ filled' = filled /\ cache' = cache
      \/ /\ pc[r] = "storing" /\ ~Filling(r)'
         /\ cache' = [cache EXCEPT ![shape[r].cacheKey] = r]
         /\ filled' = IF leader[r] = r THEN filled \cup {r} ELSE filled
  <2>1. pc[r] = "storing" /\ ~Store(r) => UNCHANGED cacheVars
    BY DEF RequestStep, Thread, cacheVars, Match, Reject, LookUp, ChooseKey, Lead,
           Follow, Wake, Recheck, Call, UpstreamFails, Fetch, OpenStream, Publish,
           Signal, Leave, WriteLog
  <2>2. Store(r) => ~Filling(r)'
    BY <1>1 DEF Store, Step, AfterExecution, TypeOK, Filling
  <2>3. QED
    BY <2>1, <2>2, CacheSource DEF cacheVars
<1>5. \A s \in filled' :
        /\ s \in Requests
        /\ s \in filled \/ (s = r /\ leader[r] = r /\ pc[r] = "storing")
  BY <1>1, <1>4
<1>6. ASSUME NEW s \in filled'
      PROVE  /\ leader'[s] = s /\ pc'[s] # "idle"
             /\ Cacheable(s)' /\ cache'[shape'[s].cacheKey] # None
             /\ pc[s] # "idle" /\ Cacheable(s)
  <2>1. leader[s] = s /\ pc[s] # "idle" /\ Cacheable(s)
    BY <1>5 DEF FillInv
  <2>2. leader'[s] = s
    BY <1>2, <1>5, <2>1, FillingSource
  <2>3. shape'[s] = shape[s] /\ Cacheable(s)' /\ pc'[s] # "idle"
    BY <1>1, <1>5, <2>1, QuestionKept, StaysMatched
  <2>4. cache'[shape[s].cacheKey] # None
    <3>1. shape[s].cacheKey \in CacheKeys /\ cache \in [CacheKeys -> Requests \cup {None}]
      BY <1>1, <1>5, <2>1, ConstantsAssumption DEF TypeOK, ShapeType
    <3>2. s \in filled => cache[shape[s].cacheKey] # None
      BY DEF FillInv
    <3>3. QED
      BY <1>1, <1>4, <1>5, <3>1, <3>2
  <2>5. QED
    BY <2>1, <2>2, <2>3, <2>4
<1>7. ASSUME ~LossyCache, NEW s \in filled', NEW q \in Requests, Filling(q)',
             SameQuestion(q, s)'
      PROVE  FALSE
  <2>1. pc[q] # "idle" /\ SameQuestion(q, s) /\ s \in Requests
    <3>1. pc[q] # "idle"
      BY <1>2, <1>7, FillingSource DEF Filling
    <3>2. QED
      BY <1>1, <1>5, <1>6, <1>7, <3>1, SameQuestionKept
  <2>2. Cacheable(q)
    BY <1>1, <1>6, <2>1, SameQuestionCacheable
  <2>3. CASE s \in filled /\ Filling(q)
    BY <1>7, <2>1, <2>3 DEF FillInv
  <2>4. CASE s \in filled /\ ~Filling(q)
    <3>1. q = r /\ pc[r] = "rechecking" /\ leader[r] = r /\ Miss(r)
      BY <1>2, <1>7, <2>4, FillingSource
    <3>2. ~shape[r].bypass
      BY <1>1, <3>1 DEF Local, OwnsItsCall
    <3>3. cache[shape[r].cacheKey] = None
      BY <1>7, <2>2, <3>1, <3>2 DEF Miss, CacheMayHit
    <3>4. shape[r].cacheKey = shape[s].cacheKey
      BY <1>6, <2>1, <3>1 DEF SameQuestion
    <3>5. QED
      BY <2>4, <3>3, <3>4 DEF FillInv
  <2>5. CASE s \notin filled
    <3>1. s = r /\ leader[r] = r /\ pc[r] = "storing"
      BY <1>5, <2>5
    <3>2. q # r
      BY <1>4, <1>7, <2>5
    <3>3. Leading(q) /\ Leading(r)
      BY <1>2, <1>7, <3>1, <3>2 DEF Filling, Leading, LeadingSteps
    <3>4. QED
      BY <1>6, <2>1, <2>2, <3>1, <3>2, <3>3, LeadersDiffer
  <2>6. QED
    BY <2>3, <2>4, <2>5
<1>8. ASSUME ~LossyCache, NEW q \in filled', NEW s \in filled', SameQuestion(q, s)'
      PROVE  q = s
  <2>1. SameQuestion(q, s) /\ SameQuestion(s, q)
    BY <1>1, <1>5, <1>6, <1>8, SameQuestionKept, SameQuestionCacheable
  <2>2. CASE q \in filled /\ s \in filled
    BY <1>8, <2>1, <2>2 DEF FillInv, OneFillPerEntry
  <2>3. CASE q \in filled /\ s \notin filled
    BY <1>5, <1>8, <2>1, <2>3 DEF FillInv, Filling
  <2>4. CASE q \notin filled /\ s \in filled
    BY <1>5, <1>8, <2>1, <2>4 DEF FillInv, Filling
  <2>5. QED
    BY <1>5, <2>2, <2>3, <2>4
<1>9. OneFillPerEntry'
  BY <1>8 DEF OneFillPerEntry
<1>10. QED
  BY <1>3, <1>6, <1>7, <1>9 DEF FillInv

LEMMA FillBackgroundStep ==
  ASSUME IInv, FillInv, Background
  PROVE  FillInv'
<1>1. UNCHANGED <<config, pc, requestVars, leader>>
  BY DEF Background, Install, FinishInstall, ClearCache, Expire, vars,
         configVars, requestVars, flightVars
<1>2. \A s \in filled' :
        s \in filled /\ cache'[shape[s].cacheKey] = cache[shape[s].cacheKey]
  <2>1. CASE Install \/ UNCHANGED vars
    BY <2>1 DEF Install, vars, cacheVars
  <2>2. CASE FinishInstall \/ ClearCache
    BY <2>2 DEF FinishInstall, ClearCache, Empty
  <2>3. ASSUME NEW k \in CacheKeys, Expire(k), NEW s \in filled'
        PROVE  s \in filled /\ cache'[shape[s].cacheKey] = cache[shape[s].cacheKey]
    <3>1. s \in filled /\ shape[s].cacheKey # k
      BY <2>3 DEF Expire
    <3>2. QED
      BY <2>3, <3>1 DEF Expire, IInv, TypeOK, FillInv, ShapeType
  <2>4. QED
    BY <2>1, <2>2, <2>3 DEF Background
<1>3. QED
  BY <1>1, <1>2 DEF FillInv, Filling, Cacheable, SameQuestion, OneFillPerEntry,
                    requestVars

\* Until an entry is emptied, no second leader of its key calls the upstream with
\* success, unless the backend loses entries (runtime.py:590-596).
THEOREM FillsCorrect == Spec => []OneFillPerEntry
<1>1. Init => FillInv
  BY DEF Init, FillInv, OneFillPerEntry
<1>2. IInv /\ FillInv /\ [Next]_vars => FillInv'
  BY FillRequestStep, FillBackgroundStep DEF Next, Background, RequestStep
<1>3. FillInv => OneFillPerEntry
  BY DEF FillInv
<1>4. QED
  BY <1>1, <1>2, <1>3, Invariance, PTL DEF Spec

-----------------------------------------------------------------------------
(* Every step is a step of SingleFlight or changes nothing it speaks of.   *)

\* What SingleFlight sees of one request.
Asked(r) == IF leader[r] = None THEN None ELSE FlightKey(r)
Verdict(r) == IF event[r] THEN outcome[r] ELSE None

LEMMA OthersLookTheSame ==
  ASSUME IInv, NEW r \in Requests, RequestStep(r), NEW q \in Requests \ {r}
  PROVE  /\ FlightPhase(q)' = FlightPhase(q)
         /\ Asked(q)' = Asked(q)
         /\ Verdict(q)' = Verdict(q)
         /\ leader'[q] = leader[q]
<1>1. config' = config
  BY DEF RequestStep, Thread, configVars, Match, Reject, LookUp, ChooseKey,
         Lead, Follow, Wake, Recheck, Call, UpstreamFails, Fetch, OpenStream,
         Store, Publish, Signal, Leave, WriteLog
<1>2. /\ pc'[q] = pc[q]
      /\ leader'[q] = leader[q]
      /\ event'[q] = event[q]
      /\ outcome'[q] = outcome[q]
      /\ shape'[q] = shape[q]
      /\ gen'[q] = gen[q]
  BY OthersUntouched DEF IInv
<1>3. FlightKey(q)' = FlightKey(q)
  BY <1>1, <1>2 DEF FlightKey, Cacheable
<1>4. Leading(q)' = Leading(q)
  BY <1>2 DEF Leading
<1>5. QED
  BY <1>2, <1>3, <1>4 DEF FlightPhase, Asked, Verdict

\* A step that leaves the registry and every request's view alone stutters.
LEMMA Stutters ==
  ASSUME inflight' = inflight, leader' = leader,
         \A q \in Requests : /\ FlightPhase(q)' = FlightPhase(q)
                             /\ Asked(q)' = Asked(q)
                             /\ Verdict(q)' = Verdict(q)
  PROVE  UNCHANGED Flights!vars
<1>1. [q \in Requests |-> FlightPhase(q)]' = [q \in Requests |-> FlightPhase(q)]
  OBVIOUS
<1>2. [q \in Requests |-> Asked(q)]' = [q \in Requests |-> Asked(q)]
  OBVIOUS
<1>3. [q \in Requests |-> Verdict(q)]' = [q \in Requests |-> Verdict(q)]
  OBVIOUS
<1>4. QED
  BY <1>1, <1>2, <1>3 DEF Flights!vars, Asked, Verdict

LEMMA QuietStutters ==
  ASSUME IInv, NEW r \in Requests, Quiet(r)
  PROVE  UNCHANGED Flights!vars
<1>1. RequestStep(r) /\ [Next]_vars
  BY DEF Quiet, RequestStep, Thread, Next
<1>2. /\ UNCHANGED flightVars
      /\ Leading(r)' <=> Leading(r)
      /\ Follows(r) => pc'[r] = "done"
  BY QuietEffect
<1>3. TypeOK /\ Local(r) /\ r # None
  BY ConstantsAssumption DEF IInv
<1>4. pc[r] # "waiting"
  BY DEF Quiet, Step, Match, Reject, LookUp, ChooseKey, Recheck, Call,
         UpstreamFails, Fetch, OpenStream, Store, WriteLog
<1>5. leader[r] # None => FlightKey(r)' = FlightKey(r)
  BY <1>1, <1>3, QuestionKept DEF Local
<1>6. /\ FlightPhase(r)' = FlightPhase(r)
      /\ Asked(r)' = Asked(r)
      /\ Verdict(r)' = Verdict(r)
  <2>1. Asked(r)' = Asked(r) /\ Verdict(r)' = Verdict(r)
    BY <1>2, <1>5 DEF Asked, Verdict, flightVars
  <2>2. CASE Follows(r)
    <3>1. pc'[r] = "done" /\ leader[r] \notin {r, None}
      BY <1>2, <2>2 DEF Follows
    <3>2. FlightPhase(r)' = "served" /\ FlightPhase(r) = "served"
      BY <1>2, <1>4, <3>1 DEF FlightPhase, flightVars
    <3>3. QED
      BY <2>1, <3>2
  <2>3. CASE ~Follows(r)
    <3>1. FlightPhase(r)' = FlightPhase(r)
      BY <1>2, <2>3 DEF FlightPhase, Follows, flightVars
    <3>2. QED
      BY <2>1, <3>1
  <2>4. QED
    BY <2>2, <2>3
<1>7. QED
  BY <1>1, <1>2, <1>6, OthersLookTheSame, Stutters DEF flightVars

LEMMA PublishStutters ==
  ASSUME IInv, NEW r \in Requests, Publish(r)
  PROVE  UNCHANGED Flights!vars
<1>1. RequestStep(r) /\ [Next]_vars
  BY DEF RequestStep, Thread, Next
<1>2. TypeOK /\ Local(r)
  BY DEF IInv
<1>3. /\ pc[r] = "publishing" /\ pc'[r] = "signalling"
      /\ inflight' = inflight /\ leader' = leader /\ event' = event
  BY <1>2 DEF Publish, Step, TypeOK
<1>4. leader[r] = r /\ r # None /\ ~event[r]
  BY <1>2, <1>3, ConstantsAssumption DEF Local
<1>5. FlightKey(r)' = FlightKey(r)
  BY <1>1, <1>2, <1>3, QuestionKept
<1>6. /\ FlightPhase(r)' = FlightPhase(r)
      /\ Asked(r)' = Asked(r)
      /\ Verdict(r)' = Verdict(r)
  BY <1>3, <1>4, <1>5 DEF FlightPhase, Asked, Verdict
<1>7. QED
  BY <1>1, <1>3, <1>6, OthersLookTheSame, Stutters

LEMMA BackgroundStutters ==
  ASSUME IInv, Background
  PROVE  UNCHANGED Flights!vars
<1>1. UNCHANGED <<config, pc, requestVars, flightVars>>
  BY DEF Background, Install, FinishInstall, ClearCache, Expire, vars,
         configVars, requestVars, flightVars
<1>2. ASSUME NEW q \in Requests
      PROVE  /\ FlightKey(q)' = FlightKey(q)
             /\ Leading(q)' = Leading(q)
  BY <1>1 DEF FlightKey, Cacheable, Leading, requestVars, flightVars
<1>3. ASSUME NEW q \in Requests
      PROVE  /\ FlightPhase(q)' = FlightPhase(q)
             /\ Asked(q)' = Asked(q)
             /\ Verdict(q)' = Verdict(q)
  BY <1>1, <1>2 DEF FlightPhase, Asked, Verdict, flightVars
<1>4. QED
  BY <1>1, <1>3, Stutters DEF flightVars

\* The view of the request that takes a step changes, every other stays.
LEMMA OnlyItsView ==
  ASSUME IInv, NEW r \in Requests, RequestStep(r),
         NEW phaseNow, FlightPhase(r)' = phaseNow,
         NEW askedNow, Asked(r)' = askedNow,
         NEW verdictNow, Verdict(r)' = verdictNow
  PROVE  /\ [q \in Requests |-> FlightPhase(q)]' =
              [[q \in Requests |-> FlightPhase(q)] EXCEPT ![r] = phaseNow]
         /\ [q \in Requests |-> Asked(q)]' =
              [[q \in Requests |-> Asked(q)] EXCEPT ![r] = askedNow]
         /\ [q \in Requests |-> Verdict(q)]' =
              [[q \in Requests |-> Verdict(q)] EXCEPT ![r] = verdictNow]
<1>1. \A q \in Requests \ {r} : /\ FlightPhase(q)' = FlightPhase(q)
                                /\ Asked(q)' = Asked(q)
                                /\ Verdict(q)' = Verdict(q)
  BY OthersLookTheSame
<1>2. [q \in Requests |-> FlightPhase(q)]' =
        [[q \in Requests |-> FlightPhase(q)] EXCEPT ![r] = phaseNow]
  BY <1>1
<1>3. [q \in Requests |-> Asked(q)]' =
        [[q \in Requests |-> Asked(q)] EXCEPT ![r] = askedNow]
  BY <1>1
<1>4. [q \in Requests |-> Verdict(q)]' =
        [[q \in Requests |-> Verdict(q)] EXCEPT ![r] = verdictNow]
  BY <1>1
<1>5. QED
  BY <1>2, <1>3, <1>4

\* A matched request's key is one the registry knows.
LEMMA KeyType ==
  ASSUME TypeOK, NEW r \in Requests, pc[r] # "idle"
  PROVE  FlightKey(r) \in FlightKeys
<1>1. gen[r] \in Generations /\ shape[r] \in Shapes
  BY DEF TypeOK
<1>2. shape[r].cacheKey \in CacheKeys
  BY <1>1, ConstantsAssumption DEF ShapeType
<1>3. QED
  BY <1>1, <1>2 DEF FlightKey, FlightKeys

LEMMA LeadImplements ==
  ASSUME IInv, NEW r \in Requests, Lead(r)
  PROVE  Flights!Next
<1>1. RequestStep(r) /\ [Next]_vars
  BY DEF RequestStep, Thread, Next
<1>2. TypeOK /\ Local(r) /\ r # None
  BY ConstantsAssumption DEF IInv
<1>3. /\ pc[r] = "joining" /\ pc'[r] = "rechecking"
      /\ leader[r] = None /\ leader'[r] = r
      /\ leader' = [leader EXCEPT ![r] = r]
      /\ inflight[FlightKey(r)] = None
      /\ inflight' = [inflight EXCEPT ![FlightKey(r)] = r]
      /\ event' = event /\ outcome' = outcome /\ ~event[r]
  BY <1>2 DEF Lead, Step, TypeOK, Local
<1>4. PICK k \in FlightKeys : k = FlightKey(r)
  BY <1>2, <1>3, KeyType
<1>5. FlightKey(r)' = k
  BY <1>1, <1>2, <1>3, <1>4, QuestionKept
<1>6. /\ FlightPhase(r) = "outside" /\ FlightPhase(r)' = "leading"
      /\ Asked(r)' = k
      /\ Verdict(r) = None /\ Verdict(r)' = None
  BY <1>2, <1>3, <1>5 DEF FlightPhase, Asked, Verdict
<1>7. /\ [q \in Requests |-> FlightPhase(q)]' =
           [[q \in Requests |-> FlightPhase(q)] EXCEPT ![r] = "leading"]
      /\ [q \in Requests |-> Asked(q)]' =
           [[q \in Requests |-> Asked(q)] EXCEPT ![r] = k]
      /\ [q \in Requests |-> Verdict(q)]' =
           [[q \in Requests |-> Verdict(q)] EXCEPT ![r] = None]
  BY <1>1, <1>6, OnlyItsView
<1>8. [q \in Requests |-> Verdict(q)]' = [q \in Requests |-> Verdict(q)]
  BY <1>6, <1>7
<1>9. Flights!Lead(r, k)
  BY <1>3, <1>4, <1>6, <1>7, <1>8 DEF Flights!Lead, Asked, Verdict
<1>10. QED
  BY <1>9 DEF Flights!Next

LEMMA FollowImplements ==
  ASSUME IInv, NEW r \in Requests, Follow(r)
  PROVE  Flights!Next
<1>1. RequestStep(r) /\ [Next]_vars
  BY DEF RequestStep, Thread, Next
<1>2. TypeOK /\ Local(r) /\ r # None
  BY ConstantsAssumption DEF IInv
<1>3. /\ pc[r] = "joining" /\ pc'[r] = "waiting"
      /\ leader[r] = None
      /\ inflight[FlightKey(r)] # None
      /\ leader' = [leader EXCEPT ![r] = inflight[FlightKey(r)]]
      /\ inflight' = inflight
      /\ event' = event /\ outcome' = outcome /\ ~event[r]
  BY <1>2 DEF Follow, Step, TypeOK, Local
<1>4. PICK k \in FlightKeys : k = FlightKey(r)
  BY <1>2, <1>3, KeyType
<1>5. FlightKey(r)' = k
  BY <1>1, <1>2, <1>3, <1>4, QuestionKept
<1>6. PICK l \in Requests : inflight[k] = l /\ Leading(l)
  BY <1>2, <1>3, <1>4 DEF TypeOK, IInv, RegistryHoldsLiveFlights
<1>7. l # r /\ l # None /\ leader'[r] = l
  BY <1>2, <1>3, <1>4, <1>6, ConstantsAssumption
     DEF Leading, LeadingSteps, TypeOK
<1>8. /\ FlightPhase(r) = "outside" /\ FlightPhase(r)' = "following"
      /\ Asked(r)' = k
      /\ Verdict(r) = None /\ Verdict(r)' = None
  BY <1>2, <1>3, <1>5, <1>7 DEF FlightPhase, Asked, Verdict
<1>9. /\ [q \in Requests |-> FlightPhase(q)]' =
           [[q \in Requests |-> FlightPhase(q)] EXCEPT ![r] = "following"]
      /\ [q \in Requests |-> Asked(q)]' =
           [[q \in Requests |-> Asked(q)] EXCEPT ![r] = k]
      /\ [q \in Requests |-> Verdict(q)]' =
           [[q \in Requests |-> Verdict(q)] EXCEPT ![r] = None]
  BY <1>1, <1>8, OnlyItsView
<1>10. [q \in Requests |-> Verdict(q)]' = [q \in Requests |-> Verdict(q)]
  BY <1>8, <1>9
<1>11. Flights!Follow(r, k)
  BY <1>3, <1>4, <1>8, <1>9, <1>10 DEF Flights!Follow, Asked, Verdict
<1>12. QED
  BY <1>11 DEF Flights!Next

LEMMA WakeImplements ==
  ASSUME IInv, NEW r \in Requests, Wake(r)
  PROVE  Flights!Next
<1>1. RequestStep(r) /\ [Next]_vars
  BY DEF RequestStep, Thread, Next
<1>2. TypeOK /\ Local(r) /\ r # None
  BY ConstantsAssumption DEF IInv
<1>3. /\ pc[r] = "waiting" /\ pc'[r] = "logging"
      /\ inflight' = inflight /\ leader' = leader
      /\ event' = event /\ outcome' = outcome
  BY <1>2 DEF Wake, Step, TypeOK, flightVars
<1>4. PICK l \in Requests : leader[r] = l /\ event[l]
  BY <1>2, <1>3 DEF Wake, TypeOK
<1>5. l # r /\ l # None /\ outcome[l] # None
  BY <1>2, <1>3, <1>4, ConstantsAssumption DEF IInv, Local
<1>6. ~event[r] /\ FlightKey(r)' = FlightKey(r)
  BY <1>1, <1>2, <1>3, <1>4, <1>5, QuestionKept DEF Local
<1>7. /\ FlightPhase(r) = "following" /\ FlightPhase(r)' = "served"
      /\ Asked(r)' = Asked(r)
      /\ Verdict(r)' = Verdict(r)
      /\ Verdict(l) # None
  BY <1>3, <1>4, <1>5, <1>6 DEF FlightPhase, Asked, Verdict
<1>8. [q \in Requests |-> FlightPhase(q)]' =
        [[q \in Requests |-> FlightPhase(q)] EXCEPT ![r] = "served"]
  BY <1>1, <1>7, OnlyItsView
<1>9. \A q \in Requests : Asked(q)' = Asked(q) /\ Verdict(q)' = Verdict(q)
  BY <1>1, <1>7, OthersLookTheSame
<1>10. /\ [q \in Requests |-> Asked(q)]' = [q \in Requests |-> Asked(q)]
       /\ [q \in Requests |-> Verdict(q)]' = [q \in Requests |-> Verdict(q)]
  BY <1>9
<1>11. Flights!Serve(r)
  BY <1>3, <1>4, <1>7, <1>8, <1>10 DEF Flights!Serve, Asked, Verdict
<1>12. QED
  BY <1>11 DEF Flights!Next

LEMMA SignalImplements ==
  ASSUME IInv, NEW r \in Requests, Signal(r)
  PROVE  Flights!Next
<1>1. RequestStep(r) /\ [Next]_vars
  BY DEF RequestStep, Thread, Next
<1>2. TypeOK /\ Local(r) /\ r # None
  BY ConstantsAssumption DEF IInv
<1>3. /\ pc[r] = "signalling" /\ pc'[r] = "leaving"
      /\ inflight' = inflight /\ leader' = leader /\ outcome' = outcome
      /\ leader[r] = r /\ event'[r] /\ ~event[r]
  BY <1>2 DEF Signal, Step, TypeOK, Local
<1>4. PICK v \in Outcomes : outcome[r] = v
  BY <1>2, <1>3 DEF TypeOK, Local
<1>5. FlightKey(r)' = FlightKey(r)
  BY <1>1, <1>2, <1>3, QuestionKept
<1>6. Leading(r)'
  BY <1>3 DEF Leading, LeadingSteps
<1>7. /\ FlightPhase(r) = "leading" /\ FlightPhase(r)' = "settled"
      /\ Asked(r)' = Asked(r)
      /\ Verdict(r)' = v
  BY <1>2, <1>3, <1>4, <1>5, <1>6 DEF FlightPhase, Asked, Verdict
<1>8. /\ [q \in Requests |-> FlightPhase(q)]' =
           [[q \in Requests |-> FlightPhase(q)] EXCEPT ![r] = "settled"]
      /\ [q \in Requests |-> Verdict(q)]' =
           [[q \in Requests |-> Verdict(q)] EXCEPT ![r] = v]
  BY <1>1, <1>7, OnlyItsView
<1>9. \A q \in Requests : Asked(q)' = Asked(q)
  BY <1>1, <1>7, OthersLookTheSame
<1>10. [q \in Requests |-> Asked(q)]' = [q \in Requests |-> Asked(q)]
  BY <1>9
<1>11. Flights!Settle(r, v)
  BY <1>3, <1>7, <1>8, <1>10 DEF Flights!Settle, Asked, Verdict
<1>12. QED
  BY <1>11 DEF Flights!Next

LEMMA LeaveImplements ==
  ASSUME IInv, NEW r \in Requests, Leave(r)
  PROVE  Flights!Next
<1>1. RequestStep(r) /\ [Next]_vars
  BY DEF RequestStep, Thread, Next
<1>2. TypeOK /\ Local(r) /\ r # None
  BY ConstantsAssumption DEF IInv
<1>3. /\ pc[r] = "leaving" /\ pc'[r] = "logging"
      /\ leader' = leader /\ event' = event /\ outcome' = outcome
      /\ leader[r] = r /\ event[r]
  BY <1>2 DEF Leave, Step, TypeOK, Local
<1>4. PICK k \in FlightKeys : k = FlightKey(r)
  BY <1>2, <1>3, KeyType
<1>5. FlightKey(r)' = FlightKey(r)
  BY <1>1, <1>2, <1>3, QuestionKept
<1>6. Leading(r) /\ ~Leading(r)'
  BY <1>3 DEF Leading, LeadingSteps
<1>7. inflight[k] = r
  BY <1>4, <1>6 DEF IInv, RegistryHoldsLiveFlights
<1>8. inflight' = [inflight EXCEPT ![k] = None]
  BY <1>2, <1>4, <1>7 DEF Leave, TypeOK
<1>9. /\ FlightPhase(r) = "settled" /\ FlightPhase(r)' = "served"
      /\ Asked(r) = k /\ Asked(r)' = Asked(r)
      /\ Verdict(r)' = Verdict(r)
  BY <1>2, <1>3, <1>4, <1>5, <1>6 DEF FlightPhase, Asked, Verdict
<1>10. [q \in Requests |-> FlightPhase(q)]' =
         [[q \in Requests |-> FlightPhase(q)] EXCEPT ![r] = "served"]
  BY <1>1, <1>9, OnlyItsView
<1>11. \A q \in Requests : Asked(q)' = Asked(q) /\ Verdict(q)' = Verdict(q)
  BY <1>1, <1>9, OthersLookTheSame
<1>12. /\ [q \in Requests |-> Asked(q)]' = [q \in Requests |-> Asked(q)]
       /\ [q \in Requests |-> Verdict(q)]' = [q \in Requests |-> Verdict(q)]
  BY <1>11
<1>13. Flights!Retire(r)
  BY <1>3, <1>8, <1>9, <1>10, <1>12 DEF Flights!Retire, Asked, Verdict
<1>14. QED
  BY <1>13 DEF Flights!Next

LEMMA StepImplements ==
  ASSUME IInv, [Next]_vars
  PROVE  [Flights!Next]_(Flights!vars)
<1>1. ASSUME NEW r \in Requests, RequestStep(r)
      PROVE  [Flights!Next]_(Flights!vars)
  <2>1. CASE Quiet(r)
    BY <1>1, <2>1, QuietStutters
  <2>2. CASE Publish(r)
    BY <1>1, <2>2, PublishStutters
  <2>3. CASE Lead(r)
    BY <1>1, <2>3, LeadImplements
  <2>4. CASE Follow(r)
    BY <1>1, <2>4, FollowImplements
  <2>5. CASE Wake(r)
    BY <1>1, <2>5, WakeImplements
  <2>6. CASE Signal(r)
    BY <1>1, <2>6, SignalImplements
  <2>7. CASE Leave(r)
    BY <1>1, <2>7, LeaveImplements
  <2>8. QED
    BY <1>1, <2>1, <2>2, <2>3, <2>4, <2>5, <2>6, <2>7
       DEF RequestStep, Thread, Quiet
<1>2. CASE Background
  BY <1>2, BackgroundStutters
<1>3. QED
  BY <1>1, <1>2 DEF Next, Background, RequestStep

LEMMA InitImplements == Init => Flights!Init
<1> SUFFICES ASSUME Init PROVE Flights!Init
  OBVIOUS
<1>1. ASSUME NEW r \in Requests
      PROVE  /\ FlightPhase(r) = "outside"
             /\ Asked(r) = None
             /\ Verdict(r) = None
             /\ leader[r] = None
  <2>1. leader[r] = None /\ ~event[r] /\ r # None
    BY ConstantsAssumption DEF Init
  <2>2. QED
    BY <2>1 DEF FlightPhase, Asked, Verdict
<1>2. QED
  BY <1>1 DEF Init, Flights!Init, Asked, Verdict

\* The registry of in-flight requests implements the abstract flights: whoever
\* joins is served the verdict of the one open flight of its question, which is
\* settled once and then retired (runtime.py:562-622).
THEOREM FlightsCorrect == Spec => FlightsAreSingle
<1>1. IInv /\ [Next]_vars => [Flights!Next]_(Flights!vars)
  BY StepImplements
<1>2. QED
  BY <1>1, InitImplements, Invariance, PTL
     DEF Spec, FlightsAreSingle, Flights!SafeSpec

=============================================================================
