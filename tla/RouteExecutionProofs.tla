------------------------ MODULE RouteExecutionProofs ------------------------
(***************************************************************************)
(* Theorems about RouteExecution, for any number of targets, any size of   *)
(* the pool and any way the calls may end: the pool is never over-filled,  *)
(* a failure is reported only after every target has failed, and failover  *)
(* keeps to the order of the list.                                         *)
(***************************************************************************)
EXTENDS RouteExecution, FiniteSetTheorems, TLAPS

\* What the handler knows of the calls: the results it has seen belong to calls
\* that are over, those it went on after were failures, the two it remembers are
\* what it takes them for; and outside a race no target is called before every
\* one in front of it has been seen.
Seen ==
  /\ pc = "start" => \A t \in targets : task[t] = "waiting"
  /\ \A i \in 1..Len(finish) : task[finish[i]] = "completed"
  /\ \A t \in taken : task[t] = "completed"

Remembered ==
  /\ pc # "over" => answer = None
  /\ pc # "over" => \A t \in taken : strategy \notin OneTarget /\ kind[t] \in Failures
  /\ lastResponse # None => kind[lastResponse] = "down"
  /\ lastError # None => kind[lastError] \in {"failed", "lost"}
  /\ pc # "over" /\ lastResponse = None => \A t \in taken : kind[t] # "down"

OneByOne ==
  strategy # "parallel_race" =>
    \A t, u \in targets : u < t /\ task[t] # "waiting" => u \in taken

IInv ==
  /\ TypeOK
  /\ Seen
  /\ Remembered
  /\ OneByOne
  /\ GivesUpLast
  /\ FailoverInOrder

-----------------------------------------------------------------------------
(* The pool.                                                               *)

LEMMA RunningFinite ==
  ASSUME TypeOK
  PROVE  IsFiniteSet(Running) /\ Cardinality(Running) \in Nat
<1>1. IsFiniteSet(1..N)
  BY FS_Interval, RouteAssumption
<1>2. Running \subseteq 1..N
  BY DEF TypeOK, Running, Targets
<1>3. QED
  BY <1>1, <1>2, FS_Subset, FS_CardinalityType

\* A step that starts no call does not fill the pool.
LEMMA NothingStarted ==
  ASSUME TypeOK, Running' \subseteq Running
  PROVE  Cardinality(Running') <= Workers
<1>1. /\ IsFiniteSet(Running) /\ Cardinality(Running) \in Nat
      /\ Cardinality(Running) <= Workers
  BY RunningFinite DEF TypeOK
<1>2. Cardinality(Running') \in Nat /\ Cardinality(Running') <= Cardinality(Running)
  BY <1>1, FS_Subset, FS_CardinalityType
<1>3. QED
  BY <1>1, <1>2, RouteAssumption

\* A call is only started where a worker is free: in a race by the guard,
\* elsewhere because every call before it is over.
LEMMA CallStarts ==
  ASSUME TypeOK, Seen, OneByOne, NEW t \in targets, Call(t)
  PROVE  Cardinality(Running') <= Workers
<1>1. t \in Targets /\ task \in [Targets -> {"waiting", "queued", "running", "stored",
                                            "completed", "cancelled"}]
  BY DEF TypeOK
<1>2. targets' = targets /\ task' = [task EXCEPT ![t] = "running"]
  BY DEF Call, Go, config
<1>3. targets \subseteq Targets
  BY DEF TypeOK
<1>4. Running' = Running \cup {t}
  BY <1>1, <1>2, <1>3 DEF Running
<1>5. IsFiniteSet(Running) /\ Cardinality(Running) \in Nat /\ Workers \in Nat \ {0}
  BY RunningFinite, RouteAssumption
<1>6. CASE strategy = "parallel_race"
  <2>1. Cardinality(Running) < Workers
    BY <1>6 DEF Call
  <2>2. \/ Cardinality(Running') = Cardinality(Running) + 1
        \/ Cardinality(Running') = Cardinality(Running)
    BY <1>4, <1>5, FS_AddElement
  <2>3. QED
    BY <1>5, <2>1, <2>2
<1>7. CASE strategy # "parallel_race"
  <2>1. \A u \in targets : u < t => task[u] = "completed"
    BY <1>7 DEF Call, Seen
  <2>2. task[t] = "waiting" /\ t \notin taken
    BY <1>7 DEF Call, Go, Seen
  <2>3. \A u \in targets : u > t => task[u] = "waiting"
    BY <1>7, <2>2 DEF OneByOne
  <2>4. Running = {}
    <3>1. SUFFICES ASSUME NEW u \in targets, task[u] \in {"running", "stored"}
                   PROVE  FALSE
      BY DEF Running
    <3>2. u \in Int /\ t \in Int
      BY <1>1, <1>3, RouteAssumption DEF Targets
    <3>3. u < t \/ u = t \/ u > t
      BY <3>2
    <3>4. QED
      BY <2>1, <2>2, <2>3, <3>1, <3>3
  <2>5. Running' = {t}
    BY <1>4, <2>4
  <2>6. Cardinality(Running') = 1
    BY <2>5, FS_Singleton
  <2>7. QED
    BY <1>5, <2>6
<1>8. QED
  BY <1>6, <1>7

LEMMA Unstarted ==
  ASSUME TypeOK, targets' = targets,
         \A u \in targets : task'[u] \in {"running", "stored"}
                              => task[u] \in {"running", "stored"}
  PROVE  Running' \subseteq Running
BY DEF Running

-----------------------------------------------------------------------------
(* Each action.                                                            *)

LEMMA InitOK == Init => IInv
<1> SUFFICES ASSUME Init PROVE IInv
  OBVIOUS
<1>1. Running = {}
  BY DEF Init, Running, Targets
<1>2. Cardinality(Running) <= Workers
  BY <1>1, FS_EmptySet, RouteAssumption
<1>3. TypeOK
  BY <1>2 DEF Init, TypeOK
<1>4. Seen /\ Remembered /\ OneByOne /\ GivesUpLast /\ FailoverInOrder
  BY DEF Init, Seen, Remembered, OneByOne, GivesUpLast, FailoverInOrder, Targets
<1>5. QED
  BY <1>3, <1>4 DEF IInv

LEMMA NoTargetsStep == IInv /\ NoTargets => IInv'
<1> SUFFICES ASSUME IInv, NoTargets PROVE IInv'
  OBVIOUS
<1>1. Running' \subseteq Running
  BY DEF NoTargets, Running, config
<1>2. TypeOK'
  BY <1>1, NothingStarted DEF IInv, NoTargets, TypeOK, GoPc, config, results
<1>3. Seen' /\ Remembered' /\ OneByOne' /\ GivesUpLast' /\ FailoverInOrder'
  BY DEF IInv, NoTargets, Seen, Remembered, OneByOne, GivesUpLast, FailoverInOrder,
         GoPc, config, results
<1>4. QED
  BY <1>2, <1>3 DEF IInv

LEMMA BeginStep == IInv /\ Begin => IInv'
<1> SUFFICES ASSUME IInv, Begin PROVE IInv'
  OBVIOUS
<1>1. TypeOK /\ Seen /\ Remembered /\ OneByOne /\ targets \subseteq Targets /\ pc = "start"
  BY DEF IInv, TypeOK, Begin, GoPc
<1>2. taken = {} /\ Len(finish) = 0
  <2>1. \A t \in targets : task[t] = "waiting"
    BY <1>1 DEF Seen
  <2>2. taken = {}
    BY <1>1, <2>1 DEF Seen, TypeOK
  <2>3. ASSUME NEW i \in 1..Len(finish) PROVE FALSE
    <3>1. finish[i] \in targets
      BY <1>1 DEF TypeOK
    <3>2. QED
      BY <1>1, <2>1, <3>1 DEF Seen
  <2>4. Len(finish) \in Nat
    BY <1>1 DEF TypeOK
  <2>5. QED
    BY <2>2, <2>3, <2>4
<1>3. task' \in [Targets -> {"waiting", "queued", "running", "stored", "completed",
                             "cancelled"}]
  BY <1>1 DEF Begin, TypeOK
<1>4. Running' \subseteq Running
  BY <1>1 DEF Begin, Running, config
<1>5. TypeOK'
  BY <1>1, <1>3, <1>4, NothingStarted DEF Begin, TypeOK, GoPc, config, results
<1>6. Seen' /\ Remembered'
  BY <1>1, <1>2 DEF Begin, Seen, Remembered, GoPc, config, results
<1>7. OneByOne'
  BY <1>1 DEF Begin, OneByOne, config, results
<1>8. answer' = None
  BY <1>1 DEF Begin, Remembered, results
<1>9. QED
  BY <1>5, <1>6, <1>7, <1>8 DEF IInv, GivesUpLast, FailoverInOrder

LEMMA WaitStep == IInv /\ Wait => IInv'
<1> SUFFICES ASSUME IInv, Wait PROVE IInv'
  OBVIOUS
<1>1. Running' \subseteq Running
  BY DEF Wait, Running, config
<1>2. TypeOK'
  BY <1>1, NothingStarted DEF IInv, Wait, TypeOK, GoPc, config, results
<1>3. Seen' /\ Remembered' /\ OneByOne' /\ GivesUpLast' /\ FailoverInOrder'
  BY DEF IInv, Wait, Seen, Remembered, OneByOne, GivesUpLast, FailoverInOrder,
         GoPc, config, results
<1>4. QED
  BY <1>2, <1>3 DEF IInv

\* A call that begins, stores or ends changes no result the handler has seen, and
\* no call that is over or was never begun.
LEMMA WorkKeeps ==
  ASSUME IInv, NEW t \in targets, Work(t)
  PROVE  /\ UNCHANGED <<config, pc, early, results>>
         /\ task' \in [Targets -> {"waiting", "queued", "running", "stored",
                                   "completed", "cancelled"}]
         /\ \A u \in targets : u # t => task'[u] = task[u]
         /\ task[t] # "completed" /\ task'[t] # "waiting"
         /\ task[t] = "waiting" => Call(t)
<1>1. t \in Targets
  BY DEF IInv, TypeOK
<1>2. QED
  BY <1>1 DEF IInv, TypeOK, Work, Call, Store, Complete, Go

LEMMA WorkSeen ==
  ASSUME IInv, NEW t \in targets, Work(t)
  PROVE  Seen' /\ Remembered' /\ OneByOne'
<1>1. /\ UNCHANGED <<config, pc, early, results>>
      /\ \A u \in targets : u # t => task'[u] = task[u]
      /\ task[t] # "completed" /\ task'[t] # "waiting"
      /\ task[t] = "waiting" => Call(t)
  BY WorkKeeps
<1>2. TypeOK /\ Seen /\ Remembered /\ OneByOne
  BY DEF IInv
<1>3. \A u \in targets : task[u] = "completed" => task'[u] = "completed"
  BY <1>1
<1>4. pc' = "start" => FALSE
  BY <1>1, <1>2 DEF Seen, Work, Call, Store, Complete, Go
<1>5. \A u \in taken' : task'[u] = "completed"
  BY <1>1, <1>2, <1>3 DEF Seen, TypeOK, results
<1>6. \A i \in 1..Len(finish') : task'[finish'[i]] = "completed"
  <2>1. CASE finish' = finish
    BY <1>2, <1>3, <2>1 DEF Seen, TypeOK
  <2>2. CASE Complete(t)
    <3>1. finish' = Append(finish, t) /\ finish \in Seq(targets)
      BY <1>2, <2>2 DEF Complete, TypeOK
    <3>2. task'[t] = "completed"
      BY <1>2, <2>2 DEF Complete, Go, TypeOK
    <3>3. ASSUME NEW i \in 1..Len(finish') PROVE task'[finish'[i]] = "completed"
      <4>1. (i \in 1..Len(finish) /\ finish'[i] = finish[i]) \/ finish'[i] = t
        BY <3>1
      <4>2. i \in 1..Len(finish) => finish[i] \in targets
        BY <3>1
      <4>3. QED
        BY <1>2, <1>3, <3>2, <4>1, <4>2 DEF Seen
    <3>4. QED
      BY <3>3
  <2>3. QED
    BY <2>1, <2>2 DEF Work, Call, Store
<1>7. Remembered'
  BY <1>1, <1>2 DEF Remembered, config, results
<1>8. OneByOne'
  <2>1. SUFFICES ASSUME strategy # "parallel_race", NEW u \in targets, NEW v \in targets,
                        v < u, task'[u] # "waiting"
                 PROVE  v \in taken
    BY <1>1 DEF OneByOne, config, results
  <2>2. CASE task[u] # "waiting"
    BY <1>2, <2>1, <2>2 DEF OneByOne
  <2>3. CASE task[u] = "waiting"
    <3>1. u = t /\ Call(t)
      BY <1>1, <2>1, <2>3
    <3>2. QED
      BY <2>1, <3>1 DEF Call
  <2>4. QED
    BY <2>2, <2>3
<1>9. QED
  BY <1>4, <1>5, <1>6, <1>7, <1>8 DEF Seen

LEMMA WorkStep ==
  ASSUME IInv, NEW t \in targets, Work(t)
  PROVE  IInv'
<1>1. /\ UNCHANGED <<config, pc, early, results>>
      /\ task' \in [Targets -> {"waiting", "queued", "running", "stored",
                                "completed", "cancelled"}]
      /\ \A u \in targets : u # t => task'[u] = task[u]
      /\ task[t] # "completed" /\ task'[t] # "waiting"
      /\ task[t] = "waiting" => Call(t)
  BY WorkKeeps
<1>2. TypeOK /\ Seen /\ OneByOne
  BY DEF IInv
<1>3. Cardinality(Running') <= Workers
  <2>1. CASE Call(t)
    BY <1>2, <2>1, CallStarts
  <2>2. CASE Store(t) \/ Complete(t)
    <3>1. \A u \in targets : task'[u] \in {"running", "stored"}
                               => task[u] \in {"running", "stored"}
      BY <1>1, <1>2, <2>2 DEF Store, Complete, Go, TypeOK
    <3>2. targets' = targets
      BY <1>1 DEF config
    <3>3. QED
      BY <1>2, <3>1, <3>2, Unstarted, NothingStarted
  <2>3. QED
    BY <2>1, <2>2 DEF Work
<1>4. finish' \in Seq(targets) /\ entry' \in targets \cup {None}
  BY <1>2 DEF Work, Call, Store, Complete, TypeOK
<1>5. TypeOK'
  BY <1>1, <1>2, <1>3, <1>4 DEF TypeOK, config, results
<1>6. GivesUpLast'
  BY <1>1 DEF IInv, GivesUpLast, config, results
<1>7. FailoverInOrder'
  <2>1. strategy = "failover" /\ answer # None => ~Call(t)
    BY DEF IInv, Remembered, Call
  <2>2. QED
    BY <1>1, <2>1 DEF IInv, FailoverInOrder, config, results
<1>8. QED
  BY <1>5, <1>6, <1>7, WorkSeen DEF IInv

LEMMA ShutdownKeeps ==
  ASSUME TypeOK, UNCHANGED task \/ Shutdown, targets' = targets
  PROVE  /\ task' \in [Targets -> {"waiting", "queued", "running", "stored",
                                   "completed", "cancelled"}]
         /\ \A u \in targets : task[u] # "queued" => task'[u] = task[u]
         /\ \A u \in targets : task[u] = "queued" => task'[u] \in {"queued", "cancelled"}
         /\ Running' \subseteq Running
<1>1. targets \subseteq Targets
  BY DEF TypeOK
<1>2. QED
  BY <1>1 DEF TypeOK, Shutdown, Running

LEMMA CollectStep ==
  ASSUME IInv, NEW t \in targets, Collect(t)
  PROVE  IInv'
<1>1. /\ TypeOK /\ Seen /\ Remembered /\ OneByOne
      /\ UNCHANGED <<config, finish, early, entry>> /\ pc = "collecting"
      /\ taken' = taken \cup {t} /\ task[t] = "completed" /\ t \notin taken
  BY DEF IInv, Collect, Yielded, Seen
<1>2. /\ task' \in [Targets -> {"waiting", "queued", "running", "stored",
                                "completed", "cancelled"}]
      /\ \A u \in targets : task[u] # "queued" => task'[u] = task[u]
      /\ \A u \in targets : task[u] = "queued" => task'[u] \in {"queued", "cancelled"}
      /\ Running' \subseteq Running
  BY <1>1, ShutdownKeeps DEF Collect, config
<1>3. TypeOK'
  <2>1. {lastResponse', lastError', answer'} \subseteq targets \cup {None}
    BY <1>1 DEF Collect, TypeOK
  <2>2. taken' \in SUBSET targets /\ pc' \in {"collecting", "over"}
    BY <1>1 DEF Collect, TypeOK
  <2>3. QED
    BY <1>1, <1>2, <2>1, <2>2, NothingStarted DEF TypeOK, config
<1>4. Seen'
  <2>1. \A i \in 1..Len(finish) : finish[i] \in targets /\ task'[finish[i]] = "completed"
    BY <1>1, <1>2 DEF Seen, TypeOK
  <2>2. \A u \in taken' : task'[u] = "completed"
    BY <1>1, <1>2 DEF Seen, TypeOK
  <2>3. QED
    BY <1>1, <2>1, <2>2 DEF Seen, Collect
<1>5. OneByOne'
  BY <1>1, <1>2 DEF OneByOne, config
<1>6. CASE strategy \in OneTarget \/ kind[t] \notin Failures
  <2>1. pc' = "over" /\ answer' = t /\ UNCHANGED <<lastResponse, lastError>>
    BY <1>6 DEF Collect
  <2>2. Remembered'
    BY <1>1, <2>1 DEF Remembered, config
  <2>3. GivesUpLast'
    BY <1>1, <1>6, <2>1 DEF GivesUpLast, config
  <2>4. FailoverInOrder'
    <3>1. SUFFICES ASSUME strategy = "failover", NEW u \in targets
                   PROVE  /\ u < t => task'[u] = "completed" /\ kind[u] \in Failures
                          /\ u > t => task'[u] = "waiting"
      BY <1>1, <2>1 DEF FailoverInOrder, config
    <3>2. u < t => u \in taken
      BY <1>1, <3>1 DEF OneByOne
    <3>3. u > t => task[u] = "waiting"
      BY <1>1, <3>1 DEF OneByOne
    <3>4. QED
      BY <1>1, <1>2, <3>2, <3>3 DEF Seen, Remembered
  <2>5. QED
    BY <1>3, <1>4, <1>5, <2>2, <2>3, <2>4 DEF IInv
<1>7. CASE strategy \notin OneTarget /\ kind[t] \in Failures
  <2>1. /\ lastResponse' = IF kind[t] = "down" THEN t ELSE lastResponse
        /\ lastError' = IF kind[t] # "down" THEN t ELSE lastError
        /\ UNCHANGED <<pc, answer, task>>
    BY <1>7 DEF Collect
  <2>2. Remembered'
    BY <1>1, <1>7, <2>1, RouteAssumption DEF Remembered, config, Failures, TypeOK, Targets
  <2>3. answer' = None
    BY <1>1, <2>1 DEF Remembered
  <2>4. QED
    BY <1>3, <1>4, <1>5, <2>2, <2>3 DEF IInv, GivesUpLast, FailoverInOrder
<1>8. QED
  BY <1>6, <1>7

LEMMA GiveUpStep == IInv /\ GiveUp => IInv'
<1> SUFFICES ASSUME IInv, GiveUp PROVE IInv'
  OBVIOUS
<1>1. /\ TypeOK /\ Seen /\ Remembered /\ OneByOne /\ pc = "collecting" /\ pc' = "over"
      /\ UNCHANGED <<config, task, finish, early, taken, lastResponse, lastError, entry>>
      /\ targets \subseteq taken
      /\ answer' = IF lastResponse # None THEN lastResponse ELSE lastError
  BY DEF IInv, GiveUp, GoPc
<1>2. TypeOK'
  <2>1. Running' \subseteq Running
    BY <1>1 DEF Running, config
  <2>2. QED
    BY <1>1, <2>1, NothingStarted DEF TypeOK, config
<1>3. Seen' /\ Remembered' /\ OneByOne'
  BY <1>1 DEF Seen, Remembered, OneByOne, config
<1>4. \A t \in targets : task[t] = "completed" /\ kind[t] \in Failures
  BY <1>1 DEF Seen, Remembered
<1>5. GivesUpLast'
  BY <1>1, <1>4 DEF GivesUpLast, Remembered, config
<1>6. FailoverInOrder'
  BY <1>1 DEF FailoverInOrder, Remembered, Failures, config
<1>7. QED
  BY <1>2, <1>3, <1>5, <1>6 DEF IInv

LEMMA Step == IInv /\ [Next]_vars => IInv'
<1> SUFFICES ASSUME IInv, [Next]_vars PROVE IInv'
  OBVIOUS
<1>1. CASE Handler
  BY <1>1, NoTargetsStep, BeginStep, WaitStep, CollectStep, GiveUpStep DEF Handler
<1>2. CASE \E t \in targets : Work(t)
  BY <1>2, WorkStep
<1>3. CASE UNCHANGED vars
  <2>1. Running' = Running
    BY <1>3 DEF vars, Running
  <2>2. QED
    BY <1>3, <2>1 DEF vars, IInv, TypeOK, Seen, Remembered, OneByOne, GivesUpLast,
                      FailoverInOrder
<1>4. QED
  BY <1>1, <1>2, <1>3 DEF Next

\* The inductive invariant holds.
THEOREM Invariant == Spec => []IInv
BY InitOK, Step, PTL DEF Spec

\* The variables have their types, and no pool runs more than its workers.
THEOREM TypeCorrect == Spec => []TypeOK
<1>1. IInv => TypeOK
  BY DEF IInv
<1>2. QED
  BY <1>1, Invariant, PTL

\* A route reports a failure only when every target was called and failed, and
\* prefers a 5xx response to an error (runtime.py:706-806).
THEOREM FailureIsLast == Spec => []GivesUpLast
<1>1. IInv => GivesUpLast
  BY DEF IInv
<1>2. QED
  BY <1>1, Invariant, PTL

\* Failover answers with the first target of the list that has not failed, and
\* calls none behind it (runtime.py:717-757).
THEOREM FailoverCorrect == Spec => []FailoverInOrder
<1>1. IInv => FailoverInOrder
  BY DEF IInv
<1>2. QED
  BY <1>1, Invariant, PTL

-----------------------------------------------------------------------------
(* The winner, the cache and the calls behind the answer.                  *)

\* A good response is in the cache before its call is over.
Kept ==
  \A t \in targets :
    cached /\ kind[t] = "good" /\ task[t] \in {"stored", "completed"} => entry # None

\* Nothing is queued behind an answer.
NothingQueued == pc = "over" => \A t \in targets : task[t] # "queued"

After ==
  /\ FirstWins
  /\ Kept
  /\ CacheKeepsGood
  /\ NothingQueued

LEMMA AfterInit == Init => After
BY DEF Init, After, FirstWins, Kept, CacheKeepsGood, NothingQueued

LEMMA WinnerStep == IInv /\ FirstWins /\ [Next]_vars => FirstWins'
<1> SUFFICES ASSUME IInv, FirstWins, [Next]_vars PROVE FirstWins'
  OBVIOUS
<1>1. TypeOK /\ Seen /\ Remembered
  BY DEF IInv
<1>2. ASSUME answer' = answer, answer # None, early' = early, config' = config,
             finish' = finish \/ \E t \in targets : finish' = Append(finish, t)
      PROVE  FirstWins'
  <2>1. SUFFICES ASSUME strategy = "parallel_race", kind[answer] \notin Failures
                 PROVE  \E i \in 1..Len(finish') :
                          /\ finish'[i] = answer
                          /\ \A j \in 1..(i - 1) :
                               i <= early \/ kind[finish'[j]] \in Failures
    BY <1>2 DEF FirstWins, config
  <2>2. PICK i \in 1..Len(finish) :
          /\ finish[i] = answer
          /\ \A j \in 1..(i - 1) : i <= early \/ kind[finish[j]] \in Failures
    BY <1>2, <2>1 DEF FirstWins
  <2>3. finish \in Seq(targets) /\ Len(finish) \in Nat
    BY <1>1 DEF TypeOK
  <2>4. i \in 1..Len(finish') /\ \A j \in 1..i : finish'[j] = finish[j]
    BY <1>2, <2>2, <2>3
  <2>5. \A j \in 1..(i - 1) : finish'[j] = finish[j]
    BY <2>3, <2>4
  <2>6. i \in 1..i
    BY <2>2, <2>3
  <2>7. QED
    BY <2>2, <2>4, <2>5, <2>6
<1>3. ASSUME answer' = None
      PROVE  FirstWins'
  BY <1>3 DEF FirstWins
<1>4. ASSUME NEW t \in targets, Collect(t)
      PROVE  FirstWins'
  <2>1. /\ UNCHANGED <<config, finish, early>> /\ pc = "collecting" /\ answer = None
        /\ \A u \in taken : kind[u] \in Failures
    BY <1>1, <1>4 DEF Collect, Remembered
  <2>2. PICK i \in 1..Len(finish) :
          finish[i] = t /\ (i > early => \A j \in 1..(i - 1) : finish[j] \in taken)
    BY <1>4 DEF Collect, Yielded
  <2>3. answer' \in {t, None}
    BY <1>4, <2>1 DEF Collect
  <2>4. i \in Int /\ early \in Int
    BY <1>1, <2>2 DEF TypeOK
  <2>5. \A j \in 1..(i - 1) : i <= early \/ kind[finish[j]] \in Failures
    BY <2>1, <2>2, <2>4
  <2>6. QED
    BY <2>1, <2>2, <2>3, <2>5 DEF FirstWins, config
<1>5. CASE NoTargets \/ Begin \/ Wait
  <2>1. answer' = None
    BY <1>1, <1>5 DEF NoTargets, Begin, Wait, GoPc, Remembered, results
  <2>2. QED
    BY <1>3, <2>1
<1>6. CASE GiveUp
  <2>1. answer' \in {lastResponse, lastError} /\ kind' = kind
    BY <1>6 DEF GiveUp, config
  <2>2. answer' # None => kind'[answer'] \in Failures
    BY <1>1, <2>1 DEF Remembered, Failures
  <2>3. QED
    BY <2>2 DEF FirstWins
<1>7. ASSUME NEW t \in targets, Work(t)
      PROVE  FirstWins'
  <2>1. UNCHANGED <<config, answer, early>> /\ (finish' = finish \/ finish' = Append(finish, t))
    BY <1>7 DEF Work, Call, Store, Complete, results
  <2>2. QED
    BY <1>2, <1>3, <2>1
<1>8. CASE UNCHANGED vars
  BY <1>8 DEF vars, FirstWins
<1>9. QED
  BY <1>4, <1>5, <1>6, <1>7, <1>8 DEF Next, Handler

LEMMA CacheStep ==
  IInv /\ Kept /\ CacheKeepsGood /\ NothingQueued /\ [Next]_vars
    => Kept' /\ CacheKeepsGood' /\ NothingQueued'
<1> SUFFICES ASSUME IInv, Kept, CacheKeepsGood, NothingQueued, [Next]_vars
             PROVE  Kept' /\ CacheKeepsGood' /\ NothingQueued'
  OBVIOUS
<1>1. TypeOK /\ Seen /\ Remembered /\ targets \subseteq Targets /\ None \notin targets
  BY RouteAssumption DEF IInv, TypeOK, Targets
<1>2. CASE NoTargets
  BY <1>2 DEF NoTargets, Kept, CacheKeepsGood, NothingQueued, GoPc, config, results
<1>3. CASE Begin
  BY <1>1, <1>3 DEF Begin, Kept, CacheKeepsGood, NothingQueued, GoPc, config, results
<1>4. CASE Wait
  BY <1>4 DEF Wait, Kept, CacheKeepsGood, NothingQueued, GoPc, config, results
<1>5. ASSUME NEW t \in targets, Collect(t)
      PROVE  Kept' /\ CacheKeepsGood' /\ NothingQueued'
  <2>1. /\ \A u \in targets : task[u] # "queued" => task'[u] = task[u]
        /\ \A u \in targets : task[u] = "queued" => task'[u] \in {"queued", "cancelled"}
    BY <1>1, <1>5, ShutdownKeeps DEF Collect, config
  <2>2. Kept'
    BY <1>5, <2>1 DEF Collect, Kept, config
  <2>3. task[t] = "completed"
    BY <1>1, <1>5 DEF Collect, Yielded, Seen
  <2>4. answer' \in {t, None}
    BY <1>1, <1>5 DEF Collect, Remembered
  <2>5. CacheKeepsGood'
    BY <1>5, <2>3, <2>4 DEF Collect, Kept, CacheKeepsGood, config
  <2>6. NothingQueued'
    BY <1>1, <1>5 DEF Collect, NothingQueued, Shutdown, config
  <2>7. QED
    BY <2>2, <2>5, <2>6
<1>6. CASE GiveUp
  <2>1. answer' # None => kind[answer'] # "good"
    BY <1>1, <1>6 DEF GiveUp, Remembered
  <2>2. \A t \in targets : task[t] = "completed"
    BY <1>1, <1>6 DEF GiveUp, Seen
  <2>3. QED
    BY <1>6, <2>1, <2>2 DEF GiveUp, Kept, CacheKeepsGood, NothingQueued, config
<1>7. ASSUME NEW t \in targets, Work(t)
      PROVE  Kept' /\ CacheKeepsGood' /\ NothingQueued'
  <2>1. /\ UNCHANGED <<config, pc, early, results>>
        /\ \A u \in targets : u # t => task'[u] = task[u]
    BY <1>7, WorkKeeps
  <2>2. task'[t] # "queued"
    BY <1>1, <1>7 DEF Work, Call, Store, Complete, Go, TypeOK
  <2>3. entry' = entry \/ (cached /\ kind[t] = "good" /\ entry' = t)
    BY <1>7 DEF Work, Call, Store, Complete
  <2>4. cached /\ kind[t] = "good" /\ task'[t] \in {"stored", "completed"} => entry' # None
    BY <1>1, <1>7 DEF Work, Call, Store, Complete, Go, TypeOK, Kept
  <2>5. QED
    BY <1>1, <2>1, <2>2, <2>3, <2>4 DEF Kept, CacheKeepsGood, NothingQueued, config, results
<1>8. CASE UNCHANGED vars
  BY <1>8 DEF vars, Kept, CacheKeepsGood, NothingQueued
<1>9. QED
  BY <1>2, <1>3, <1>4, <1>5, <1>6, <1>7, <1>8 DEF Next, Handler

LEMMA AfterInvariant == Spec => [](IInv /\ After)
<1>1. Init => IInv /\ After
  BY InitOK, AfterInit
<1>2. (IInv /\ After) /\ [Next]_vars => (IInv /\ After)'
  BY Step, WinnerStep, CacheStep DEF After
<1>3. QED
  BY <1>1, <1>2, PTL DEF Spec

\* A race answers with the first usable result, save among those that were over
\* before the handler began to wait (runtime.py:784-795).
THEOREM FirstWinsCorrect == Spec => []FirstWins
<1>1. After => FirstWins
  BY DEF After
<1>2. QED
  BY <1>1, AfterInvariant, PTL

\* A cached route that has answered well has a good response in the cache
\* (runtime.py:1059, 1377-1390).
THEOREM CacheCorrect == Spec => []CacheKeepsGood
<1>1. After => CacheKeepsGood
  BY DEF After
<1>2. QED
  BY <1>1, AfterInvariant, PTL

\* No target is called once the route is answered (runtime.py:788, 798).
THEOREM NothingStarts == Spec => NothingStartsAfterTheAnswer
<1>1. ASSUME IInv, After, Next, pc = "over", NEW t \in targets, task'[t] = "running"
      PROVE  task[t] = "running"
  <2>1. TypeOK /\ task[t] # "queued"
    BY <1>1 DEF IInv, After, NothingQueued
  <2>2. CASE Handler
    <3>1. PICK u \in targets : Collect(u)
      BY <1>1, <2>2 DEF Handler, NoTargets, Begin, Wait, GiveUp, GoPc
    <3>2. QED
      BY <1>1, <3>1 DEF Collect
  <2>3. ASSUME NEW u \in targets, Work(u)
        PROVE  task[t] = "running"
    <3>1. u # t => task'[t] = task[t]
      BY <1>1, <2>3, WorkKeeps
    <3>2. u = t => ~Call(u)
      BY <1>1, <2>1 DEF Call, Go
    <3>3. CASE u = t /\ (Store(u) \/ Complete(u))
      <4>1. task'[t] \in {"stored", "completed"}
        BY <2>1, <3>3 DEF Store, Complete, Go, TypeOK
      <4>2. QED
        BY <1>1, <4>1
    <3>4. QED
      BY <1>1, <2>3, <3>1, <3>2, <3>3 DEF Work
  <2>4. QED
    BY <1>1, <2>2, <2>3 DEF Next
<1>2. IInv /\ After /\ [Next]_vars =>
        [pc = "over" => \A t \in targets : task'[t] = "running" => task[t] = "running"]_vars
  BY <1>1
<1>3. QED
  BY <1>2, AfterInvariant, PTL DEF Spec, NothingStartsAfterTheAnswer

=============================================================================
