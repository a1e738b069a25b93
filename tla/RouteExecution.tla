---------------------------- MODULE RouteExecution ----------------------------
(***************************************************************************)
(* _execute_route for one request: a single target, round_robin's choice,  *)
(* failover through the targets in their order, or a parallel race of all  *)
(* of them in a pool of workers.  A race answers with the first usable     *)
(* result, cancels what is still queued and lets the calls that run go on  *)
(* behind the answer; a target that answers well stores its response in    *)
(* the cache before its result is seen.                                    *)
(*                                                                         *)
(* Failover runs its targets in the handler's own thread: it shares the    *)
(* handling of results with the race, and calls a target when every one    *)
(* before it has been handled.                                             *)
(***************************************************************************)
EXTENDS Naturals, Sequences, FiniteSets

CONSTANTS
  N,           \* targets of the route, in the order of the document
  Workers,     \* the size of a race's pool
  Strategies,
  Kinds,       \* what _execute_target may end with, of AllKinds
  None

\* good: a response below 400; denied: a 4xx response; down: a 5xx response;
\* refused: a GatewayError below 500 (gRPC's NOT_FOUND); failed: one of 5xx (no
\* connection); lost: a RequestException of a hook's own call; crashed: any other
\* exception of a hook or of a transformation.
AllKinds == {"good", "denied", "down", "refused", "failed", "lost", "crashed"}

ASSUME RouteAssumption ==
  /\ N \in Nat \ {0}
  /\ Workers \in Nat \ {0}
  /\ Strategies \subseteq {"single", "round_robin", "failover", "parallel_race"}
  /\ Kinds \subseteq AllKinds
  /\ None \notin 1..N

VARIABLES
  strategy,
  cached,        \* the route's response cache holds this method
  targets,       \* the ones in use: a reload may have removed some since match
  kind,          \* how each target's call ends
  pc,            \* where the handler is
  task,          \* where each target's call is
  finish,        \* the calls that are over, in the order they ended
  early,         \* how many were over when the handler began to wait
  taken,         \* the ones the handler has looked at
  lastResponse,
  lastError,
  answer,        \* the target whose response or error is the route's
  entry          \* the target whose response the cache holds

vars == <<strategy, cached, targets, kind, pc, task, finish, early, taken,
          lastResponse, lastError, answer, entry>>
config == <<strategy, cached, targets, kind>>
results == <<taken, lastResponse, lastError, answer>>

Targets == 1..N
Running == {t \in targets : task[t] \in {"running", "stored"}}
Healthy == {"good", "denied"}
Failures == {"down", "failed", "lost"}
OneTarget == {"single", "round_robin"}

\* The last conjunct is a bound of its own: no pool runs more than its workers.
TypeOK ==
  /\ strategy \in Strategies
  /\ cached \in BOOLEAN
  /\ targets \in SUBSET Targets
  /\ kind \in [Targets -> Kinds]
  /\ pc \in {"start", "submitted", "collecting", "over"}
  /\ task \in [Targets -> {"waiting", "queued", "running", "stored", "completed",
                           "cancelled"}]
  /\ finish \in Seq(targets)
  /\ early \in Nat
  /\ taken \in SUBSET targets
  /\ {lastResponse, lastError, answer, entry} \subseteq targets \cup {None}
  /\ Cardinality(Running) <= Workers

Init ==
  /\ strategy \in Strategies
  /\ cached \in BOOLEAN
  /\ targets \in SUBSET Targets
  /\ strategy \in OneTarget => Cardinality(targets) = 1
  /\ kind \in [Targets -> Kinds]
  /\ pc = "start"
  /\ task = [t \in Targets |-> "waiting"]
  /\ finish = <<>>
  /\ early = 0
  /\ taken = {}
  /\ lastResponse = None
  /\ lastError = None
  /\ answer = None
  /\ entry = None

-----------------------------------------------------------------------------

GoPc(from, to) == pc = from /\ pc' = to
Go(t, from, to) == task[t] = from /\ task' = [task EXCEPT ![t] = to]

\* The targets are resolved anew: none may be left.
NoTargets ==
  /\ targets = {}
  /\ GoPc("start", "over")
  /\ UNCHANGED <<config, task, finish, early, results, entry>>

\* A race submits every target at once; the other strategies call them themselves.
Begin ==
  /\ targets # {}
  /\ IF strategy = "parallel_race"
     THEN /\ GoPc("start", "submitted")
          /\ task' = [t \in Targets |-> IF t \in targets THEN "queued" ELSE task[t]]
     ELSE GoPc("start", "collecting") /\ UNCHANGED task
  /\ UNCHANGED <<config, finish, early, results, entry>>

\* as_completed: what is over by now comes first, in no particular order.
Wait ==
  /\ GoPc("submitted", "collecting")
  /\ early' = Len(finish)
  /\ UNCHANGED <<config, task, finish, results, entry>>

\* Mutant of Call: the workers are not used again.
CallOnce(t) ==
  /\ \/ /\ strategy = "parallel_race"
        /\ \A u \in targets : task[u] = "queued" => t <= u
        /\ Cardinality({u \in targets : task[u] # "queued"}) < Workers
        /\ Go(t, "queued", "running")
     \/ /\ strategy # "parallel_race"
        /\ pc = "collecting"
        /\ \A u \in targets : u < t => u \in taken
        /\ Go(t, "waiting", "running")
  /\ UNCHANGED <<config, pc, finish, early, results, entry>>

\* Mutant of Call: failover does not wait for the result.
CallEager(t) ==
  /\ \/ /\ strategy = "parallel_race"
        /\ \A u \in targets : task[u] = "queued" => t <= u
        /\ Cardinality(Running) < Workers
        /\ Go(t, "queued", "running")
     \/ /\ strategy # "parallel_race"
        /\ pc = "collecting"
        /\ Go(t, "waiting", "running")
  /\ UNCHANGED <<config, pc, finish, early, results, entry>>

\* A worker takes the next target of the queue, or the handler the next of the
\* list.
Call(t) ==
  /\ \/ /\ strategy = "parallel_race"
        /\ \A u \in targets : task[u] = "queued" => t <= u
        /\ Cardinality(Running) < Workers
        /\ Go(t, "queued", "running")
     \/ /\ strategy # "parallel_race"
        /\ pc = "collecting"
        /\ \A u \in targets : u < t => u \in taken
        /\ Go(t, "waiting", "running")
  /\ UNCHANGED <<config, pc, finish, early, results, entry>>

\* Mutant of Store: an error's body is kept as well.
StoreEverything(t) ==
  /\ Go(t, "running", "stored")
  /\ entry' = IF cached /\ kind[t] \in {"good", "denied", "down"} THEN t ELSE entry
  /\ UNCHANGED <<config, pc, finish, early, results>>

\* The upstream has answered or failed; a response below 400 goes to the cache.
Store(t) ==
  /\ Go(t, "running", "stored")
  /\ entry' = IF cached /\ kind[t] = "good" THEN t ELSE entry
  /\ UNCHANGED <<config, pc, finish, early, results>>

\* _execute_target returns or raises.
Complete(t) ==
  /\ Go(t, "stored", "completed")
  /\ finish' = Append(finish, t)
  /\ UNCHANGED <<config, pc, early, results, entry>>

\* Mutant of Shutdown: what is queued stays there.
ShutdownOnly == UNCHANGED task

\* shutdown(wait=False, cancel_futures=True)
Shutdown ==
  task' = [t \in Targets |-> IF task[t] = "queued" THEN "cancelled" ELSE task[t]]

\* Mutant of Yielded: the results are awaited in the order of the list.
YieldedInListOrder(t) ==
  /\ task[t] = "completed"
  /\ t \notin taken
  /\ \A u \in targets : u < t => u \in taken

\* The next result the handler sees: of those that were over before it began to
\* wait any, and then one after the other.
Yielded(t) ==
  \E i \in 1..Len(finish) :
    /\ finish[i] = t
    /\ t \notin taken
    /\ i > early => \A j \in 1..(i - 1) : finish[j] \in taken

\* One result: a usable one, or an error below 500 or of no expected class, ends
\* the route; the rest is remembered.
Collect(t) ==
  /\ pc = "collecting"
  /\ Yielded(t)
  /\ taken' = taken \cup {t}
  /\ IF strategy \in OneTarget \/ kind[t] \notin Failures
     THEN /\ pc' = "over"
          /\ answer' = t
          /\ Shutdown
          /\ UNCHANGED <<lastResponse, lastError>>
     ELSE /\ lastResponse' = IF kind[t] = "down" THEN t ELSE lastResponse
          /\ lastError' = IF kind[t] # "down" THEN t ELSE lastError
          /\ UNCHANGED <<pc, answer, task>>
  /\ UNCHANGED <<config, finish, early, entry>>

\* Mutant of GiveUp: an error is preferred to a response.
GiveUpOnError ==
  /\ targets \subseteq taken
  /\ GoPc("collecting", "over")
  /\ answer' = IF lastError # None THEN lastError ELSE lastResponse
  /\ UNCHANGED <<config, task, finish, early, taken, lastResponse, lastError, entry>>

\* Every target has failed.
GiveUp ==
  /\ targets \subseteq taken
  /\ GoPc("collecting", "over")
  /\ answer' = IF lastResponse # None THEN lastResponse ELSE lastError
  /\ UNCHANGED <<config, task, finish, early, taken, lastResponse, lastError, entry>>

Handler == NoTargets \/ Begin \/ Wait \/ (\E t \in targets : Collect(t)) \/ GiveUp
Work(t) == Call(t) \/ Store(t) \/ Complete(t)

Next == Handler \/ \E t \in targets : Work(t)

Spec == Init /\ [][Next]_vars

\* Threads are scheduled, and every upstream call ends: it has a timeout.
FairSpec == Spec /\ WF_vars(Handler) /\ \A t \in Targets : WF_vars(t \in targets /\ Work(t))

-----------------------------------------------------------------------------
(* Safety.                                                                 *)

\* A route reports a failure only when every target was called and failed, and
\* then a 5xx response of one of them rather than an error, whichever came last;
\* a race whose queue is longer than its pool included (runtime.py:706-806).
GivesUpLast ==
  answer # None /\ strategy \notin OneTarget /\ kind[answer] \in Failures =>
    /\ \A t \in targets : task[t] = "completed" /\ kind[t] \in Failures
    /\ kind[answer] # "down" => \A t \in targets : kind[t] # "down"

\* Failover answers with the first target of the list that has not failed, and
\* calls none behind it (runtime.py:717-757).
FailoverInOrder ==
  strategy = "failover" /\ answer # None /\ kind[answer] \notin Failures =>
    \A t \in targets :
      /\ t < answer => task[t] = "completed" /\ kind[t] \in Failures
      /\ t > answer => task[t] = "waiting"

\* A race never answers with a result that came after another usable one, save
\* among those that were over before the handler began to wait
\* (runtime.py:784-795).
FirstWins ==
  strategy = "parallel_race" /\ answer # None /\ kind[answer] \notin Failures =>
    \E i \in 1..Len(finish) :
      /\ finish[i] = answer
      /\ \A j \in 1..(i - 1) : i <= early \/ kind[finish[j]] \in Failures

\* When a cached route has answered well, the cache holds a good response of one
\* of its targets, whatever the calls behind the answer still store
\* (runtime.py:1059, 1377-1390).
CacheKeepsGood ==
  /\ entry # None => cached /\ kind[entry] = "good"
  /\ cached /\ answer # None /\ kind[answer] = "good" => entry # None

\* No target is called once the route is answered (runtime.py:788, 798).
NothingStartsAfterTheAnswer ==
  [][pc = "over" => \A t \in targets :
       task'[t] = "running" => task[t] = "running"]_vars

-----------------------------------------------------------------------------
(* Liveness.                                                               *)

\* Every route is answered, and every call it began comes to its end.
RouteIsAnswered ==
  <>[](pc = "over" /\ \A t \in targets :
         task[t] \in {"waiting", "completed", "cancelled"})

=============================================================================
