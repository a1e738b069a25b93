---------------------------- MODULE PostgresStore ----------------------------
(***************************************************************************)
(* The configuration document in Postgres: gateway instances that share    *)
(* one database.  A document is kept in several tables, a row per service, *)
(* endpoint, route, client and profile, and saving it deletes and inserts  *)
(* all of them in a transaction that raises a revision.  Loading it selects*)
(* table by table.  An instance remembers the revision it knows of; its    *)
(* poller refreshes it, and a request that finds it changed loads again.   *)
(*                                                                         *)
(* Transactions run at READ COMMITTED, Postgres's default, which the code  *)
(* does not change: a statement sees what was committed when it began, a   *)
(* statement that meets a row another transaction has deleted or inserted  *)
(* waits for that transaction's end, and a DELETE that has waited goes on  *)
(* with those of the rows it had found that are still there.               *)
(*                                                                         *)
(* The module has one loading or saving thread per instance (ConfigReload  *)
(* is about several) and one poller.  It fills one table after another; the*)
(* code inserts each service's endpoints behind the service.  The security *)
(* document is kept in the same way in tables of its own.                  *)
(***************************************************************************)
EXTENDS Integers, Sequences, FiniteSets

CONSTANTS
  Instances,
  None,
  Keys,        \* primary keys
  Deletions,   \* the tables in the order in which a save empties them
  Selections,  \* the tables in the order in which they are filled and read
  References,  \* <<child, parent>>: rows deleted with the row of their key
  Documents,   \* what administrators save: the keys of each table
  Bootstrap,   \* what the first start puts into an empty database
  MaxSaves,    \* bounds the saves
  MaxCrashes   \* bounds the crashes and the loads whose connection breaks

Tables == {Selections[n] : n \in 1..Len(Selections)}
Contents == [Tables -> SUBSET Keys]

ASSUME StoreAssumption ==
  /\ Deletions \in Seq(Tables) /\ Selections \in Seq(Tables)
  /\ Len(Deletions) = Len(Selections)
  /\ References \subseteq Tables \X Tables
  /\ Documents \subseteq Contents
  /\ Bootstrap \in Contents
  /\ Len(Selections) > 0
  /\ None \notin Int
  /\ MaxSaves \in Nat
  /\ MaxCrashes \in Nat

\* A save empties every table that it fills (state_store.py:516-521).
ASSUME EveryTableIsEmptied ==
  \A t \in Tables : \E n \in 1..Len(Deletions) : Deletions[n] = t

\* Each document has a row, that of the settings (state_store.py:523-539).
ASSUME EveryDocumentHasRows ==
  \A d \in Documents \cup {Bootstrap} : \E t \in Tables : d[t] # {}

\* A row is its key and the number of the save that wrote it, 0 for a start.  The
\* number stands for what the row contains.
Numbers == 0..MaxSaves
Row == Keys \X Numbers
Snapshot == [Tables -> SUBSET Row]
Revisions == Nat

VARIABLES
  rows,       \* the committed rows of each table
  revision,   \* the committed revision, 0 while there is none
  pc,         \* where an instance's thread is
  step,       \* how many tables it has done
  doc,        \* the document it saves
  number,     \* the number of that save
  found,      \* the rows the DELETE it waits in has found
  gone,       \* rows its transaction has deleted
  mine,       \* rows its transaction has inserted
  read,       \* rows its load has selected
  got,        \* the revision it has selected or has made
  known,      \* _revisions["config"]
  polled,     \* what the poller has selected
  signature,  \* _config_signature of the runtime
  serving,    \* the document installed in the runtime
  saves,
  crashes,
  bare,       \* history: its transaction found no rows in its first table
  exposed,    \* history: another has committed since it began
  torn,       \* history: ... before the load of what it serves was over
  restarted   \* history: a start has overwritten a database in use

database == <<rows, revision>>
transaction == <<doc, number, found, gone, mine, bare>>
load == <<read, serving, signature, torn>>
bounds == <<saves, crashes>>
vars == <<database, pc, step, transaction, load, got, known, polled, bounds,
          exposed, restarted>>

Nothing == [t \in Tables |-> {}]
Idle == {"down", "ready"}
Places ==
  Idle \cup {"deleting", "inserting", "committing", "recording", "refreshing", "reading",
             "selecting", "noting", "installing"}

TypeOK ==
  /\ rows \in Snapshot
  /\ revision \in Revisions
  /\ pc \in [Instances -> Places]
  /\ step \in [Instances -> 0..(Len(Selections) - 1)]
  /\ doc \in [Instances -> Contents]
  /\ number \in [Instances -> Numbers]
  /\ found \in [Instances -> (SUBSET Row) \cup {None}]
  /\ gone \in [Instances -> Snapshot]
  /\ mine \in [Instances -> Snapshot]
  /\ read \in [Instances -> Snapshot]
  /\ got \in [Instances -> Revisions]
  /\ known \in [Instances -> Revisions \cup {None}]
  /\ polled \in [Instances -> Revisions \cup {None}]
  /\ signature \in [Instances -> Revisions \cup {None}]
  /\ serving \in [Instances -> Snapshot]
  /\ saves \in 0..MaxSaves
  /\ crashes \in 0..MaxCrashes
  /\ bare \in [Instances -> BOOLEAN]
  /\ exposed \in [Instances -> BOOLEAN]
  /\ torn \in [Instances -> BOOLEAN]
  /\ restarted \in BOOLEAN

Each(value) == [i \in Instances |-> value]

Init ==
  /\ rows = Nothing
  /\ revision = 0
  /\ pc = Each("down")
  /\ step = Each(0)
  /\ doc = Each(Bootstrap)
  /\ number = Each(0)
  /\ found = Each(None)
  /\ gone = Each(Nothing)
  /\ mine = Each(Nothing)
  /\ read = Each(Nothing)
  /\ got = Each(0)
  /\ known = Each(None)
  /\ polled = Each(None)
  /\ signature = Each(None)
  /\ serving = Each(Nothing)
  /\ saves = 0
  /\ crashes = 0
  /\ bare = Each(FALSE)
  /\ exposed = Each(FALSE)
  /\ torn = Each(FALSE)
  /\ restarted = FALSE

-----------------------------------------------------------------------------
(* Transactions.                                                           *)

Go(i, from, to) ==
  /\ pc[i] = from
  /\ pc' = [pc EXCEPT ![i] = to]
  /\ step' = [step EXCEPT ![i] = 0]

\* The next of the tables, and after the last one the next place.
Advance(i, from, tables, to) ==
  /\ pc[i] = from
  /\ IF step[i] + 1 = Len(tables)
     THEN pc' = [pc EXCEPT ![i] = to] /\ step' = [step EXCEPT ![i] = 0]
     ELSE step' = [step EXCEPT ![i] = @ + 1] /\ UNCHANGED pc

Written(i) == [t \in Tables |-> doc[i][t] \X {number[i]}]

\* Mutant of Found: a save deletes only the rows that it writes again.
FoundOfDocument(i) ==
  LET table == Deletions[step[i] + 1]
      hit == IF found[i] = None THEN rows[table] ELSE found[i] \cap rows[table]
  IN  [t \in Tables |->
         IF t = table THEN {r \in hit : r[1] \in doc[i][t]} ELSE {}]

\* What the current DELETE removes: the committed rows of its table, or those it
\* has found before it waited, and the rows that refer to them.
Found(i) ==
  LET table == Deletions[step[i] + 1]
      hit == IF found[i] = None THEN rows[table] ELSE found[i] \cap rows[table]
  IN  [t \in Tables |->
         IF t = table THEN hit
         ELSE {r \in rows[t] : <<t, table>> \in References
                                /\ \E s \in hit : s[1] = r[1]}]

\* Whose end a statement waits for.
Blockers(i) ==
  CASE pc[i] = "deleting" ->
         {j \in Instances \ {i} :
            \E t \in Tables : gone[j][t] \cap Found(i)[t] # {}}
    [] pc[i] = "inserting" ->
         LET t == Selections[step[i] + 1] IN
         {j \in Instances \ {i} :
            \E r \in gone[j][t] \cup mine[j][t] : r[1] \in doc[i][t]}
    [] OTHER -> {}

Begin(i, document, save) ==
  /\ doc' = [doc EXCEPT ![i] = document]
  /\ number' = [number EXCEPT ![i] = save]
  /\ bare' = [bare EXCEPT ![i] = FALSE]
  /\ exposed' = [exposed EXCEPT ![i] = FALSE]
  /\ UNCHANGED <<found, gone, mine>>

Forget(i) ==
  /\ gone' = [gone EXCEPT ![i] = Nothing]
  /\ mine' = [mine EXCEPT ![i] = Nothing]
  /\ doc' = [doc EXCEPT ![i] = Bootstrap]
  /\ number' = [number EXCEPT ![i] = 0]
  /\ bare' = [bare EXCEPT ![i] = FALSE]

\* A transaction that is rolled back leaves to the others what they have found ...
End(i) ==
  /\ found' = [found EXCEPT ![i] = None]
  /\ Forget(i)

\* ... and one that commits leaves them what it has not deleted.
Leave(i) ==
  /\ found' = [j \in Instances |->
                 IF j = i \/ found[j] = None THEN None
                 ELSE found[j] \ gone[i][Deletions[step[j] + 1]]]
  /\ Forget(i)

\* An administrator's save, of a document that was validated.
Save(i) ==
  /\ Go(i, "ready", "deleting")
  /\ saves < MaxSaves
  /\ saves' = saves + 1
  /\ \E d \in Documents : Begin(i, d, saves')
  /\ UNCHANGED <<database, load, got, known, polled, crashes, restarted>>

\* A DELETE that meets rows of another transaction ...
Wait(i) ==
  /\ pc[i] = "deleting"
  /\ found[i] = None
  /\ Blockers(i) # {}
  /\ found' = [found EXCEPT ![i] = rows[Deletions[step[i] + 1]]]
  /\ UNCHANGED <<database, pc, step, doc, number, gone, mine, bare, load, got,
                 known, polled, bounds, exposed, restarted>>

\* ... goes on when that has ended.
Delete(i) ==
  /\ Advance(i, "deleting", Deletions, "inserting")
  /\ Blockers(i) = {}
  /\ found' = [found EXCEPT ![i] = None]
  /\ gone' = [gone EXCEPT ![i] = [t \in Tables |-> @[t] \cup Found(i)[t]]]
  /\ bare' = [bare EXCEPT ![i] =
                @ \/ (step[i] = 0 /\ Found(i)[Deletions[1]] = {})]
  /\ UNCHANGED <<database, doc, number, mine, load, got, known, polled, bounds,
                 exposed, restarted>>

\* A committed row with one of the keys, which this transaction did not delete.
Clash(i) ==
  LET t == Selections[step[i] + 1] IN
  \E r \in rows[t] \ gone[i][t] : r[1] \in doc[i][t]

Insert(i) ==
  /\ Advance(i, "inserting", Selections, "committing")
  /\ Blockers(i) = {}
  /\ ~Clash(i)
  /\ mine' = [mine EXCEPT ![i][Selections[step[i] + 1]] =
                Written(i)[Selections[step[i] + 1]]]
  /\ UNCHANGED <<database, doc, number, found, gone, bare, load, got, known, polled,
                 bounds, exposed, restarted>>

\* Mutant of Rollback: the revision is kept before the transaction has ended.
RollbackRecorded(i) ==
  /\ pc[i] \in {"deleting", "inserting", "committing"}
  /\ Go(i, pc[i], IF number[i] = 0 THEN "down" ELSE "ready")
  /\ End(i)
  /\ exposed' = [exposed EXCEPT ![i] = FALSE]
  /\ known' = [known EXCEPT ![i] = revision + 1]
  /\ UNCHANGED <<database, load, got, polled, bounds, restarted>>

\* A start that fails ends the process.
Rollback(i) ==
  /\ pc[i] \in {"deleting", "inserting", "committing"}
  /\ Go(i, pc[i], IF number[i] = 0 THEN "down" ELSE "ready")
  /\ End(i)
  /\ exposed' = [exposed EXCEPT ![i] = FALSE]
  /\ UNCHANGED <<database, load, got, known, polled, bounds, restarted>>

\* A duplicate key fails the save.
Fail(i) ==
  /\ pc[i] = "inserting"
  /\ Blockers(i) = {}
  /\ Clash(i)
  /\ Rollback(i)

\* Postgres ends one of two transactions that wait for each other.
BreakDeadlock(i) ==
  /\ \E j \in Blockers(i) : i \in Blockers(j)
  /\ Rollback(i)

\* Mutant of NewRevision: a save leaves the revision as it is.
NewRevisionKept(i) == IF number[i] = 0 THEN 1 ELSE revision

\* The row of the revision is the last lock of a transaction, so raising it and
\* committing are one step.
NewRevision(i) == IF number[i] = 0 THEN 1 ELSE revision + 1

Committed(i) ==
  /\ rows' = [t \in Tables |-> (rows[t] \ gone[i][t]) \cup mine[i][t]]
  /\ revision' = NewRevision(i)
  /\ exposed' = [j \in Instances |-> j # i /\ (exposed[j] \/ pc[j] \notin Idle)]
  /\ restarted' = (restarted \/ (number[i] = 0 /\ revision # 0))
  /\ Leave(i)
  /\ UNCHANGED <<load, known, polled, bounds>>

Commit(i) ==
  /\ Go(i, "committing", IF number[i] = 0 THEN "refreshing" ELSE "recording")
  /\ Committed(i)
  /\ got' = [got EXCEPT ![i] = IF number[i] = 0 THEN 0 ELSE NewRevision(i)]

\* The connection of a save breaks: before the commit, or after it, so that the
\* new revision is not learnt.  (To a start that is a crash.)
Break(i) ==
  /\ number[i] # 0
  /\ \/ Rollback(i)
     \/ /\ Go(i, "committing", "ready")
        /\ Committed(i)
        /\ UNCHANGED got

-----------------------------------------------------------------------------
(* Loads.                                                                  *)

\* save_config_document keeps the revision it has made; then the handler loads.
Record(i) ==
  /\ Go(i, "recording", "reading")
  /\ known' = [known EXCEPT ![i] = got[i]]
  /\ got' = [got EXCEPT ![i] = 0]
  /\ exposed' = [exposed EXCEPT ![i] = FALSE]
  /\ UNCHANGED <<database, transaction, load, polled, bounds, restarted>>

\* maybe_reload: a revision other than the installed one makes a request load.
Look(i) ==
  /\ Go(i, "ready", "reading")
  /\ known[i] # signature[i]
  /\ exposed' = [exposed EXCEPT ![i] = FALSE]
  /\ UNCHANGED <<database, transaction, load, got, known, polled, bounds, restarted>>

Read(i) ==
  /\ Advance(i, "reading", Selections, "selecting")
  /\ read' = [read EXCEPT ![i][Selections[step[i] + 1]] =
                rows[Selections[step[i] + 1]]]
  /\ UNCHANGED <<database, transaction, serving, signature, torn, got, known, polled,
                 bounds, exposed, restarted>>

ReadRevision(i) ==
  /\ Go(i, "selecting", "noting")
  /\ got' = [got EXCEPT ![i] = revision]
  /\ UNCHANGED <<database, transaction, load, known, polled, bounds, exposed,
                 restarted>>

\* The process ends, and its memory with it.
Stop(i) ==
  /\ Go(i, pc[i], "down")
  /\ End(i)
  /\ known' = [known EXCEPT ![i] = None]
  /\ polled' = [polled EXCEPT ![i] = None]
  /\ signature' = [signature EXCEPT ![i] = None]
  /\ read' = [read EXCEPT ![i] = Nothing]
  /\ serving' = [serving EXCEPT ![i] = Nothing]
  /\ torn' = [torn EXCEPT ![i] = FALSE]
  /\ got' = [got EXCEPT ![i] = 0]
  /\ exposed' = [exposed EXCEPT ![i] = FALSE]
  /\ UNCHANGED <<database, restarted>>

\* A load that fails leaves the signature as it is, so that the next request tries
\* again; the load of a start ends the process.
Abandon(i) ==
  \/ /\ signature[i] = None
     /\ Stop(i)
  \/ /\ signature[i] # None
     /\ Go(i, pc[i], "ready")
     /\ read' = [read EXCEPT ![i] = Nothing]
     /\ got' = [got EXCEPT ![i] = 0]
     /\ exposed' = [exposed EXCEPT ![i] = FALSE]
     /\ UNCHANGED <<database, transaction, serving, signature, torn, known, polled,
                    restarted>>

\* A mixture of documents may fail validation.
Reject(i) ==
  /\ pc[i] = "noting"
  /\ exposed[i]
  /\ Abandon(i)
  /\ UNCHANGED bounds

\* The connection of a load breaks.
Lose(i) ==
  /\ pc[i] \in {"reading", "selecting"}
  /\ crashes < MaxCrashes
  /\ crashes' = crashes + 1
  /\ Abandon(i)
  /\ UNCHANGED saves

Note(i) ==
  /\ Go(i, "noting", "installing")
  /\ known' = [known EXCEPT ![i] = got[i]]
  /\ got' = [got EXCEPT ![i] = 0]
  /\ UNCHANGED <<database, transaction, load, polled, bounds, exposed, restarted>>

\* The runtime asks for the revision it has loaded and is told the one that is
\* known by now.
Install(i) ==
  /\ Go(i, "installing", "ready")
  /\ serving' = [serving EXCEPT ![i] = read[i]]
  /\ signature' = [signature EXCEPT ![i] = known[i]]
  /\ torn' = [torn EXCEPT ![i] = exposed[i]]
  /\ read' = [read EXCEPT ![i] = Nothing]
  /\ exposed' = [exposed EXCEPT ![i] = FALSE]
  /\ UNCHANGED <<database, transaction, got, known, polled, bounds, restarted>>

-----------------------------------------------------------------------------
(* Processes and pollers.                                                  *)

\* A start fills a database without revision from the file, and otherwise takes
\* what it finds.
Start(i) ==
  /\ Go(i, "down", IF revision = 0 THEN "deleting" ELSE "refreshing")
  /\ Begin(i, Bootstrap, 0)
  /\ UNCHANGED <<database, load, got, known, polled, bounds, restarted>>

Refresh(i) ==
  /\ Go(i, "refreshing", "reading")
  /\ known' = [known EXCEPT ![i] = revision]
  /\ exposed' = [exposed EXCEPT ![i] = FALSE]
  /\ UNCHANGED <<database, transaction, load, got, polled, bounds, restarted>>

Crash(i) ==
  /\ pc[i] # "down"
  /\ crashes < MaxCrashes
  /\ crashes' = crashes + 1
  /\ Stop(i)
  /\ UNCHANGED saves

\* The poller selects the revision ...
Select(i) ==
  /\ known[i] # None
  /\ polled[i] = None
  /\ polled' = [polled EXCEPT ![i] = revision]
  /\ UNCHANGED <<database, pc, step, transaction, load, got, known, bounds, exposed,
                 restarted>>

\* Mutant of Keep: a revision is only kept where none is known.
KeepFirst(i) ==
  /\ polled[i] # None
  /\ known' = [known EXCEPT ![i] = IF @ = None THEN polled[i] ELSE @]
  /\ polled' = [polled EXCEPT ![i] = None]
  /\ UNCHANGED <<database, pc, step, transaction, load, got, bounds, exposed,
                 restarted>>

\* ... and keeps it, whatever became known in between.
Keep(i) ==
  /\ polled[i] # None
  /\ known' = [known EXCEPT ![i] = polled[i]]
  /\ polled' = [polled EXCEPT ![i] = None]
  /\ UNCHANGED <<database, pc, step, transaction, load, got, bounds, exposed,
                 restarted>>

Thread(i) ==
  \/ Start(i) \/ Refresh(i)
  \/ Wait(i) \/ Delete(i) \/ Insert(i)
  \/ Fail(i) \/ BreakDeadlock(i) \/ Commit(i) \/ Record(i)
  \/ Look(i) \/ Read(i) \/ ReadRevision(i) \/ Note(i) \/ Install(i)

Poller(i) == Select(i) \/ Keep(i)

Next ==
  \E i \in Instances :
    \/ Thread(i)
    \/ Poller(i)
    \/ Save(i)
    \/ Break(i)
    \/ Reject(i)
    \/ Lose(i)
    \/ Crash(i)

Spec == Init /\ [][Next]_vars

\* Threads are scheduled, processes are started again, requests keep arriving and
\* the poller wakes up; nothing makes administrators save.
FairSpec ==
  /\ Spec
  /\ \A i \in Instances : WF_vars(Thread(i)) /\ WF_vars(Poller(i))

-----------------------------------------------------------------------------
(* Safety.                                                                 *)

\* The tables hold rows of more than one save.
Mixes(snapshot) ==
  \E t, u \in Tables : \E r \in snapshot[t], s \in snapshot[u] : r[2] # s[2]

Mixed == Mixes(rows)

\* A save that commits leaves exactly its document, whatever other instances save
\* at the same time: their rows are deleted with the tables or clash with its
\* own.  It is not so for a transaction that passed an empty table of endpoints
\* before another committed, and after it had left a mixture another may add to
\* it (state_store.py:516-521, 825-834).
SavesAreWhole ==
  [][\A i \in Instances :
       pc[i] = "committing" /\ rows' # rows /\ pc'[i] # pc[i]
         /\ ~(bare[i] /\ exposed[i]) /\ ~Mixed
       => rows' = Written(i)]_vars

\* An instance whose signature is the stored revision serves the stored document,
\* unless a save was committed while it loaded or a start overwrote the tables
\* (state_store.py:699-716, 809-834, runtime.py:179-196).
SignatureIsHonest ==
  \A i \in Instances :
    ~torn[i] /\ ~restarted /\ signature[i] = revision => serving[i] = rows

\* What an instance knows, has polled or has installed is never ahead of the
\* database: an announced revision is one that was committed.
NothingIsAhead ==
  ~restarted =>
    \A i \in Instances :
      \A r \in {known[i], polled[i], signature[i], got[i]} \ {None} : r <= revision

\* Every instance serves the last committed document in the end, whatever crashed,
\* failed or waited on the way, unless its load was torn.
EveryInstanceFollows ==
  <>[](restarted \/ \A i \in Instances : torn[i] \/ serving[i] = rows)

-----------------------------------------------------------------------------
(* What it implements.                                                     *)

phase ==
  [i \in Instances |->
     CASE pc[i] \in {"deleting", "inserting", "committing"} -> "saving"
       [] pc[i] \in {"reading", "selecting", "noting", "installing"} -> "loading"
       [] OTHER -> "resting"]

proposal == [i \in Instances |-> IF phase[i] = "saving" THEN Written(i) ELSE Nothing]
lockless == [i \in Instances |-> phase[i] = "saving" /\ bare[i]]
overlapped == [i \in Instances |-> phase[i] # "resting" /\ exposed[i]]

FirstRows == [t \in Tables |-> Bootstrap[t] \X {0}]

Shared == INSTANCE SharedDocument WITH
  First <- FirstRows, Mixture <- Mixes, stored <- rows, version <- revision,
  copy <- serving, at <- signature, overwritten <- restarted

\* The tables are one shared document: it is only ever replaced as a whole, a commit
\* raises its revision by one, a load that no commit overlapped installs what is
\* stored, and a transaction or a load that fails, or whose process ends, changes
\* nothing for the others (state_store.py:516-521, 699-716, 809-834).
DocumentIsShared == Shared!Spec

=============================================================================
