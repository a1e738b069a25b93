------------------------------- MODULE Server -------------------------------
(***************************************************************************)
(* The process around the gateway: two listeners with a bounded pool of    *)
(* worker threads each, connections that keep their worker from one        *)
(* request to the next, the request log with its retention thread, the     *)
(* dispatcher that forwards log rows and success hooks from a thread of    *)
(* its own, and the shutdown that takes all of it down while the workers   *)
(* may still be serving.                                                   *)
(*                                                                         *)
(* What a request goes through inside the gateway is in the other modules: *)
(* here it has an outcome.  One maybe_reload takes its document in one     *)
(* step (ConfigReload has the steps), and configures the dispatcher and    *)
(* the retention in another.  Requests that find no route are not logged   *)
(* and not modelled; every route has a success hook.  Waiting for an hour  *)
(* or for half a second ends at any time.                                  *)
(***************************************************************************)
EXTENDS Naturals, Sequences, FiniteSets, SequencesExt

CONSTANTS
  PublicConnections, AdminConnections,  \* connections to either listener
  MaxWorkers,      \* threads of each listener's pool
  MaxRequests,     \* bounds the requests of all connections together
  Documents,       \* saved configurations
  Initial,         \* the one at the start
  Observability,   \* their observability sections: sinks, retention
  None

Connections == PublicConnections \cup AdminConnections
Requests == Connections \X (1..MaxRequests)
Sinks == UNION {ToSet(Observability[d].sinks) : d \in Documents}
Cleaner == "retention"
Hook == "success_hook"

ASSUME ServerAssumption ==
  /\ PublicConnections \cap AdminConnections = {}
  /\ {MaxWorkers, MaxRequests} \subseteq Nat \ {0}
  /\ Initial \in Documents
  /\ None \notin Documents \cup Sinks \cup {"made", "failed", Hook} /\ Hook \notin Sinks
  /\ Cleaner \notin Connections
  /\ \A d \in Documents : /\ Observability[d].retention \in BOOLEAN
                          /\ Observability[d].sinks \in Seq(Sinks)

Jobs == [request : Requests, sink : Sinks \cup {Hook}]
Stop == [request |-> None, sink |-> None]  \* the None that ends the worker
Job(r, s) == [request |-> r, sink |-> s]

VARIABLES
  disk,       \* the configuration saved last
  signature,  \* the one the runtime believes to have loaded
  sinks,      \* the dispatcher's _log_aggregators
  retention,  \* whether the log store's _retention_hours is set
  pc,         \* where each connection's handler and the retention thread are
  count,      \* requests a connection has sent
  asked,      \* how many there have been, for the bound
  loaded,     \* the document a handler is loading
  known,      \* what maybe_reload restores, None in an administrator's load
  outcome,    \* what became of the request being handled
  pending,    \* the aggregators of a handler's copy that have no job yet
  rows,       \* request_logs
  expired,    \* rows that are older than the retention
  store,      \* the SQLite connection: "open", "closed"
  queue,      \* the dispatcher's queue
  postman,    \* the dispatcher's thread: "running", "ended"
  stopping,   \* the dispatcher's _stop_event
  main,       \* where the main thread is
  recorded,   \* history: the outcome each request was logged with
  answered,   \* history: the outcome each client was told
  tried       \* history: jobs the dispatcher has tried to deliver

configVars == <<disk, signature, sinks, retention, loaded, known>>
logVars == <<rows, expired, recorded>>
handlerVars == <<count, asked, outcome, pending, answered>>
jobVars == <<queue, postman, stopping, tried>>
vars == <<configVars, logVars, handlerVars, jobVars, pc, store, main>>

Ended == {"away", "queued", "closed"}
Cleaning == {"checking", "deleting"}
Handling == {"routing", "hooking", "logging", "emitting", "answering"}
Places == Ended \cup Cleaning \cup Handling
            \cup {"waiting", "saved", "configuring", "streaming"}
Stages == {"serving", "interrupted", "closing", "closed", "exited"}
Outcomes == {"made", "failed", None}

Peers(c) == IF c \in PublicConnections THEN PublicConnections ELSE AdminConnections
Held(c) == pc[c] \notin Ended
Issued == (ToSet(queue) \cup tried) \ {Stop}
Current(c) == <<c, count[c]>>

\* The types; a handler past its first request has one, and what it loads or emits.
TypeOK ==
  /\ disk \in Documents /\ signature \in Documents
  /\ sinks \in {Observability[d].sinks : d \in Documents}
  /\ retention \in BOOLEAN
  /\ pc \in [Connections \cup {Cleaner} -> Places \cup {"sleeping", "dead"}]
  /\ asked \in 0..MaxRequests /\ count \in [Connections -> 0..asked]
  /\ loaded \in [Connections -> Documents \cup {None}]
  /\ known \in [Connections \cup {Cleaner} -> Documents \cup {None}]
  /\ outcome \in [Connections -> Outcomes]
  /\ pending \in [Connections -> Seq(Sinks)]
  /\ rows \subseteq Requests /\ expired \subseteq rows
  /\ store \in {"open", "closed"}
  /\ queue \in Seq(Jobs \cup {Stop})
  /\ postman \in {"running", "ended"}
  /\ stopping \in BOOLEAN
  /\ main \in Stages
  /\ recorded \in [Requests -> Outcomes]
  /\ answered \in [Requests -> Outcomes]
  /\ tried \subseteq Jobs
  /\ \A c \in Connections :
       /\ pc[c] \notin Ended \cup {"waiting"} => count[c] > 0
       /\ pc[c] = "configuring" => loaded[c] \in Documents
       /\ pc[c] = "emitting" => pending[c] # <<>>

Init ==
  /\ disk = Initial /\ signature = Initial
  /\ sinks = Observability[Initial].sinks
  /\ retention = Observability[Initial].retention
  /\ pc = [t \in Connections \cup {Cleaner} |->
             IF t = Cleaner THEN "sleeping" ELSE "away"]
  /\ count = [c \in Connections |-> 0] /\ asked = 0
  /\ loaded = [c \in Connections |-> None]
  /\ known = [t \in Connections \cup {Cleaner} |-> None]
  /\ outcome = [c \in Connections |-> None]
  /\ pending = [c \in Connections |-> <<>>]
  /\ rows = {} /\ expired = {}
  /\ store = "open"
  /\ queue = <<>>
  /\ postman = "running" /\ stopping = FALSE
  /\ main = "serving"
  /\ recorded = [r \in Requests |-> None]
  /\ answered = [r \in Requests |-> None]
  /\ tried = {}

Go(t, from, to) == pc[t] = from /\ pc' = [pc EXCEPT ![t] = to]

-----------------------------------------------------------------------------
(* Connections and their workers *)

\* process_request: a connection a listener accepts is a task of its pool.
Connect(c) ==
  /\ main = "serving"
  /\ Go(c, "away", "queued")
  /\ UNCHANGED <<configVars, logVars, handlerVars, jobVars, store, main>>

\* A thread of the pool that is free takes it and reads its requests.
Start(c) ==
  /\ Cardinality({d \in Peers(c) : Held(d)}) < MaxWorkers
  /\ Go(c, "queued", "waiting")
  /\ UNCHANGED <<configVars, logVars, handlerVars, jobVars, store, main>>

\* A client that leaves is noticed where its handler reads or writes.
HangUp(c) ==
  /\ pc[c] \in {"waiting", "streaming"}
  /\ pc' = [pc EXCEPT ![c] = "closed"]
  /\ UNCHANGED <<configVars, logVars, handlerVars, jobVars, store, main>>

\* load installs a document and goes on to what is outside the runtime.
LoadDocument(c, document, restored) ==
  /\ signature' = document
  /\ loaded' = [loaded EXCEPT ![c] = document]
  /\ known' = [known EXCEPT ![c] = restored]

\* _dispatch: a request arrives on the open connection, maybe_reload first.
Request(c) ==
  /\ asked < MaxRequests /\ asked' = asked + 1
  /\ count' = [count EXCEPT ![c] = @ + 1]
  /\ \/ /\ disk = signature
        /\ Go(c, "waiting", "routing")
        /\ UNCHANGED <<signature, loaded, known>>
     \/ /\ disk # signature
        /\ Go(c, "waiting", "configuring")
        /\ LoadDocument(c, disk, signature)
  /\ UNCHANGED <<disk, sinks, retention, outcome, pending, answered, logVars,
                 jobVars, store, main>>

\* A proxied request reaches its outcome.
Proxy(c) ==
  /\ c \in PublicConnections
  /\ \E o \in Outcomes \ {None} :
       /\ outcome' = [outcome EXCEPT ![c] = o]
       /\ Go(c, "routing", IF o = "made" THEN "hooking" ELSE "logging")
  /\ UNCHANGED <<configVars, count, asked, pending, answered, logVars, jobVars, store, main>>

\* An administrator saves a configuration ...
SaveSettings(c) ==
  /\ c \in AdminConnections
  /\ Go(c, "routing", "saved")
  /\ disk' \in Documents
  /\ UNCHANGED <<signature, sinks, retention, loaded, known, logVars, handlerVars,
                 jobVars, store, main>>

\* ... and then loads it.
LoadSettings(c) ==
  /\ Go(c, "saved", "configuring")
  /\ LoadDocument(c, disk, None)
  /\ UNCHANGED <<disk, sinks, retention, logVars, handlerVars, jobVars, store, main>>

\* The monitor reads the log once, or again and again as an event stream;
\* reading a closed store raises out of the handler, which ends the connection.
Monitor(c) ==
  /\ c \in AdminConnections
  /\ IF store = "closed" THEN Go(c, "routing", "closed")
     ELSE Go(c, "routing", "answering") \/ Go(c, "routing", "streaming")
  /\ UNCHANGED <<configVars, logVars, handlerVars, jobVars, store, main>>

\* Mutant of Stream: an event stream ends with its client only.
StreamOn(c) ==
  /\ store = "closed"
  /\ pc[c] = "streaming"
  /\ UNCHANGED vars

Stream(c) ==
  /\ store = "closed"
  /\ Go(c, "streaming", "closed")
  /\ UNCHANGED <<configVars, logVars, handlerVars, jobVars, store, main>>

\* _emit_success_hook, before the response is logged.
EmitHook(c) ==
  /\ Go(c, "hooking", "logging")
  /\ queue' = Append(queue, Job(Current(c), Hook))
  /\ UNCHANGED <<configVars, logVars, handlerVars, postman, stopping, tried,
                 store, main>>

\* Mutant of WriteRow: a row that cannot be written is forgotten.
WriteRowIfOpen(c) ==
  /\ Go(c, "logging", IF sinks = <<>> THEN "answering" ELSE "emitting")
  /\ pending' = [pending EXCEPT ![c] = sinks]
  /\ rows' = IF store = "open" THEN rows \cup {Current(c)} ELSE rows
  /\ recorded' = IF store = "open"
                   THEN [recorded EXCEPT ![Current(c)] = outcome[c]] ELSE recorded
  /\ UNCHANGED <<configVars, expired, count, asked, outcome, answered, jobVars, store, main>>

\* handle_proxy's finally writes the row, then emit_request_log copies the
\* aggregators under its lock.  When the store is closed the write raises in
\* place of the response or the error, nobody catches it, and the connection
\* is closed without an answer.
WriteRow(c) ==
  /\ IF store = "closed"
       THEN /\ Go(c, "logging", "closed")
            /\ UNCHANGED <<rows, recorded, pending>>
       ELSE /\ Go(c, "logging", IF sinks = <<>> THEN "answering" ELSE "emitting")
            /\ rows' = rows \cup {Current(c)}
            /\ recorded' = [recorded EXCEPT ![Current(c)] = outcome[c]]
            /\ pending' = [pending EXCEPT ![c] = sinks]
  /\ UNCHANGED <<configVars, expired, count, asked, outcome, answered, jobVars, store, main>>

\* Mutant of Rest: the live list is followed, not the copy of it.
RestOfLive(c) == IF sinks = <<>> THEN <<>> ELSE Tail(pending[c])

\* The aggregators that follow the one a job is put for.
Rest(c) == Tail(pending[c])

\* A job for each aggregator of the copy goes into the queue.
EmitLog(c) ==
  /\ Go(c, "emitting", IF Rest(c) = <<>> THEN "answering" ELSE "emitting")
  /\ pending' = [pending EXCEPT ![c] = Rest(c)]
  /\ queue' = Append(queue, Job(Current(c), Head(pending[c])))
  /\ UNCHANGED <<configVars, count, asked, outcome, answered, logVars, postman, stopping,
                 tried, store, main>>

\* _write_response; a connection that is to be closed is one whose client
\* then leaves.
Answer(c) ==
  /\ Go(c, "answering", "waiting")
  /\ answered' = IF c \in PublicConnections
                   THEN [answered EXCEPT ![Current(c)] = outcome[c]] ELSE answered
  /\ outcome' = [outcome EXCEPT ![c] = None]
  /\ UNCHANGED <<configVars, count, asked, pending, logVars, jobVars, store, main>>

-----------------------------------------------------------------------------
(* What a load configures, and the retention of the log *)

\* dispatcher.configure and the first line of configure_retention_hours.
Configure(c) ==
  /\ Go(c, "configuring", "checking")
  /\ sinks' = Observability[loaded[c]].sinks
  /\ retention' = Observability[loaded[c]].retention
  /\ loaded' = [loaded EXCEPT ![c] = None]
  /\ UNCHANGED <<disk, signature, known, logVars, handlerVars, jobVars, store, main>>

\* Where a cleanup leads when it has returned: the retention thread waits for
\* its hour or for a wakeup, an administrator's load is followed by an answer,
\* a reload by the request that noticed the change.
Resume(t) ==
  IF t = Cleaner THEN "sleeping" ELSE IF known[t] = None THEN "answering" ELSE "routing"

Leave(t, to) ==
  /\ pc' = [pc EXCEPT ![t] = to]
  /\ known' = [known EXCEPT ![t] = None]

\* An exception in it ends the retention thread; an administrator is told,
\* maybe_reload restores the signature it knew.
Raise(t) ==
  /\ Leave(t, IF t = Cleaner THEN "dead" ELSE Resume(t))
  /\ signature' = IF known[t] # None THEN known[t] ELSE signature

\* cleanup_old reads the retention to see whether there is one ...
Check(t) ==
  /\ pc[t] = "checking"
  /\ IF retention THEN Go(t, "checking", "deleting") /\ UNCHANGED known
     ELSE Leave(t, Resume(t))
  /\ UNCHANGED <<disk, signature, sinks, retention, loaded, logVars, handlerVars,
                 jobVars, store, main>>

\* ... and again for the cutoff, where no hours are a TypeError, and deletes
\* the rows before it; a store that is closed raises.
Delete(t) ==
  /\ pc[t] = "deleting"
  /\ IF retention /\ store = "open"
       THEN /\ Leave(t, Resume(t))
            /\ rows' = rows \ expired
            /\ expired' = {}
            /\ UNCHANGED signature
       ELSE /\ Raise(t)
            /\ UNCHANGED <<rows, expired>>
  /\ UNCHANGED <<disk, sinks, retention, loaded, recorded, handlerVars, jobVars,
                 store, main>>

\* Mutant of Wake: only a wakeup starts a cleanup, never the hour.
WakeWhenTold ==
  /\ \E c \in Connections : pc[c] \in Cleaning
  /\ Go(Cleaner, "sleeping", "checking")
  /\ UNCHANGED <<configVars, logVars, handlerVars, jobVars, store, main>>

\* _cleanup_loop: the hour is over, or a load or close has set the wakeup.
Wake ==
  /\ Go(Cleaner, "sleeping",
        IF main \in {"serving", "interrupted"} THEN "checking" ELSE "dead")
  /\ UNCHANGED <<configVars, logVars, handlerVars, jobVars, store, main>>

\* Rows grow old.
Age(r) ==
  /\ expired' = expired \cup {r}
  /\ UNCHANGED <<configVars, rows, recorded, handlerVars, jobVars, pc,
                 store, main>>

-----------------------------------------------------------------------------
(* The dispatcher's thread *)

\* Mutant of Deliver: a delivery that fails ends the thread.
DeliverOrDie ==
  /\ postman = "running"
  /\ queue # <<>>
  /\ queue' = Tail(queue)
  /\ \/ Head(queue) = Stop /\ postman' = "ended" /\ UNCHANGED tried
     \/ /\ Head(queue) # Stop
        /\ postman' \in {"running", "ended"}
        /\ tried' = tried \cup {Head(queue)}
  /\ UNCHANGED <<configVars, logVars, handlerVars, stopping, pc, store, main>>

\* _run takes the next job and makes one attempt to deliver it: an exception
\* is logged and forgotten.  The None that close puts ends it.
Deliver ==
  /\ postman = "running"
  /\ queue # <<>>
  /\ queue' = Tail(queue)
  /\ \/ Head(queue) = Stop /\ postman' = "ended" /\ UNCHANGED tried
     \/ /\ Head(queue) # Stop
        /\ tried' = tried \cup {Head(queue)}
        /\ UNCHANGED postman
  /\ UNCHANGED <<configVars, logVars, handlerVars, stopping, pc, store, main>>

\* It looks at the stop event before it takes another; one job that it waited
\* for already may still be taken.
StopDelivering ==
  /\ stopping
  /\ postman = "running"
  /\ postman' = "ended"
  /\ UNCHANGED <<configVars, logVars, handlerVars, queue, stopping, tried, pc, store,
                 main>>

-----------------------------------------------------------------------------
(* main, once it is interrupted *)

Then(from, to) == main = from /\ main' = to

\* The public listener's loop has ended, the admin listener's is ended.
Interrupt ==
  /\ Then("serving", "interrupted")
  /\ UNCHANGED <<configVars, logVars, handlerVars, jobVars, pc, store>>

\* server_close and the start of RequestLogStore.close: the pools take no more
\* tasks, what they have goes on; the retention thread is told to stop.
ClosePools ==
  /\ Then("interrupted", "closing")
  /\ UNCHANGED <<configVars, logVars, handlerVars, jobVars, pc, store>>

\* A second later at most the log is closed, whatever its thread does.
CloseStore ==
  /\ store = "open"
  /\ Then("closing", "closing")
  /\ store' = "closed"
  /\ UNCHANGED <<configVars, logVars, handlerVars, jobVars, pc>>

\* IntegrationDispatcher.close: the stop event, the end of the queue, and two
\* seconds for the thread.
CloseDispatcher ==
  /\ store = "closed"
  /\ Then("closing", "closed")
  /\ stopping' = TRUE
  /\ queue' = Append(queue, Stop)
  /\ UNCHANGED <<configVars, logVars, handlerVars, postman, tried, pc, store>>

\* The interpreter waits for the threads of the pools, not for the others.
Exit ==
  /\ \A c \in Connections : pc[c] \in {"away", "closed"}
  /\ Then("closed", "exited")
  /\ UNCHANGED <<configVars, logVars, handlerVars, jobVars, pc, store>>

-----------------------------------------------------------------------------
Clean(t) == Check(t) \/ Delete(t)

\* What a handler does without its client.
Serve(c) ==
  \/ Start(c) \/ Proxy(c) \/ SaveSettings(c) \/ LoadSettings(c) \/ Monitor(c) \/ Stream(c)
  \/ Configure(c) \/ Clean(c) \/ EmitHook(c) \/ WriteRow(c) \/ EmitLog(c) \/ Answer(c)

Client(c) == Connect(c) \/ Request(c) \/ HangUp(c)

Clear == Wake \/ Clean(Cleaner)

Dispatch == Deliver \/ StopDelivering

Shutdown == ClosePools \/ CloseStore \/ CloseDispatcher \/ Exit

Next ==
  /\ main # "exited"
  /\ \/ \E c \in Connections : Serve(c) \/ Client(c)
     \/ Clear \/ Dispatch \/ Shutdown \/ Interrupt
     \/ \E r \in rows : Age(r)

\* Threads run, upstreams and sinks answer or time out; clients, the hours
\* that make a row old, and the interrupt come or do not.
Spec ==
  /\ Init /\ [][Next]_vars
  /\ \A c \in Connections : WF_vars(main # "exited" /\ Serve(c))
  /\ WF_vars(main # "exited" /\ Clear)
  /\ WF_vars(main # "exited" /\ Dispatch)
  /\ WF_vars(Shutdown)

-----------------------------------------------------------------------------
(* Properties *)

\* The client, the log, the success hook and the forwarded log of a request
\* tell the same story: an answer of the route is in the log with the same
\* outcome, its hook is emitted when it was made and only then, nothing is
\* forwarded that the log does not have, and a request whose hook was emitted
\* loses its answer only because the log was closed.
OneStory ==
  \A c \in PublicConnections : \A n \in 1..count[c] :
    LET r == <<c, n>> IN
    /\ answered[r] \in {"made", "failed"} =>
         /\ recorded[r] = answered[r]
         /\ Job(r, Hook) \in Issued <=> answered[r] = "made"
    /\ (\E s \in Sinks : Job(r, s) \in Issued) => recorded[r] \in {"made", "failed"}
    /\ Job(r, Hook) \in Issued /\ answered[r] = None /\ pc[c] = "closed" =>
         store = "closed"

\* A request's log row goes to all the aggregators of one configuration and
\* to no other, whatever is reconfigured while its jobs are put.
OneConfigurationPerRow ==
  \A r \in Requests : answered[r] \in {"made", "failed"} =>
    \E d \in Documents :
      {s \in Sinks : Job(r, s) \in Issued} = ToSet(Observability[d].sinks)

\* Every job is tried unless the dispatcher is being closed.
JobsAreTried == []<>(stopping \/ queue = <<>>)

\* Rows older than the retention are deleted, unless the retention is lifted,
\* the gateway is shut down, or the retention thread died of the lifting.
ExpiredRowsGo ==
  []<>(expired = {} \/ ~retention \/ main # "serving" \/ pc[Cleaner] = "dead")

\* An interrupted gateway exits, unless a client keeps its connection open
\* without asking for anything; event streams do not keep it.
ShutdownEnds ==
  main = "interrupted" ~> main = "exited" \/ \E c \in Connections : pc[c] = "waiting"
=============================================================================
