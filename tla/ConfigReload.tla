---------------------------- MODULE ConfigReload ----------------------------
(***************************************************************************)
(* How a changed document reaches the running gateway: maybe_reload at the *)
(* start of every request, load by an administrator's handler after its    *)
(* save.  The document and its revision are read by two calls, what was    *)
(* read is installed under the lock, and what lives outside the runtime    *)
(* (log aggregators, the two log retentions) is configured after the lock  *)
(* is released.  SecurityManager reloads security.yaml the same way, with  *)
(* no such parts.                                                          *)
(*                                                                         *)
(* A version of the document stands for its content and for its revision:  *)
(* versions are numbered in the order they are saved, and two saves never  *)
(* get the same modification time.                                         *)
(***************************************************************************)
EXTENDS Naturals, Sequences

CONSTANTS
  Threads,       \* request threads, each handling one request after another
  Parts,         \* what load configures after the lock, in order
  MaxVersion,    \* bounds the number of saves
  Broken,        \* versions that do not load (half-written, invalid)
  LateFailures,  \* TRUE when configuring a part may raise (SQLite is locked)
  None

Versions == 1..MaxVersion

ASSUME ReloadAssumption ==
  /\ MaxVersion \in Nat \ {0}
  /\ Broken \subseteq Versions \ {1}
  /\ Parts \in Seq(STRING)
  /\ LateFailures \in BOOLEAN
  /\ None \notin Versions

VARIABLES
  disk,       \* the version saved last
  installed,  \* the version whose services, routes, clients are live
  signature,  \* _config_signature
  parts,      \* the version each part was configured with last
  pc,         \* where each thread is
  current,    \* maybe_reload's current_signature
  known,      \* maybe_reload's known_signature, None in an administrator's load
  document,   \* the version a load has read
  revision,   \* the revision a load has read
  step,       \* how many parts a load has configured
  torn,       \* history: a save fell between a load's two reads
  raced,      \* history: a load was installed before another had finished
  failed      \* history: a load raised after it was installed

vars == <<disk, installed, signature, parts, pc, current, known, document,
          revision, step, torn, raced, failed>>
liveVars == <<installed, signature, parts>>
history == <<torn, raced, failed>>
locals == <<current, known, document, revision, step>>

Places ==
  {"idle", "looked", "loading", "read", "installing", "configuring", "restoring"}

TypeOK ==
  /\ disk \in Versions
  /\ installed \in Versions
  /\ signature \in Versions
  /\ parts \in [1..Len(Parts) -> Versions]
  /\ pc \in [Threads -> Places]
  /\ current \in [Threads -> Versions \cup {None}]
  /\ known \in [Threads -> Versions \cup {None}]
  /\ document \in [Threads -> Versions \cup {None}]
  /\ revision \in [Threads -> Versions \cup {None}]
  /\ step \in [Threads -> 0..Len(Parts)]
  /\ history \in BOOLEAN \X BOOLEAN \X BOOLEAN
  /\ \A t \in Threads :
       /\ pc[t] \in {"read", "installing", "configuring"} => document[t] # None
       /\ pc[t] = "installing" => revision[t] # None
       /\ pc[t] = "restoring" => known[t] # None
       /\ pc[t] # "configuring" => step[t] = 0 \/ pc[t] = "restoring"

\* main loads the first version before it serves.
Init ==
  /\ disk = 1
  /\ installed = 1
  /\ signature = 1
  /\ parts = [p \in 1..Len(Parts) |-> 1]
  /\ pc = [t \in Threads |-> "idle"]
  /\ current = [t \in Threads |-> None]
  /\ known = [t \in Threads |-> None]
  /\ document = [t \in Threads |-> None]
  /\ revision = [t \in Threads |-> None]
  /\ step = [t \in Threads |-> 0]
  /\ torn = FALSE
  /\ raced = FALSE
  /\ failed = FALSE

-----------------------------------------------------------------------------

\* An administrator's save or an edit of the file: the new content replaces the
\* old in one rename.
Save ==
  /\ disk < MaxVersion
  /\ disk' = disk + 1
  /\ UNCHANGED <<liveVars, pc, locals, history>>

Go(t, from, to) == pc[t] = from /\ pc' = [pc EXCEPT ![t] = to]

\* The call returns: its locals are gone.
Return(t, from) ==
  /\ Go(t, from, "idle")
  /\ current' = [current EXCEPT ![t] = None]
  /\ known' = [known EXCEPT ![t] = None]
  /\ document' = [document EXCEPT ![t] = None]
  /\ revision' = [revision EXCEPT ![t] = None]
  /\ step' = [step EXCEPT ![t] = 0]

\* maybe_reload asks for the revision ...
Look(t) ==
  /\ Go(t, "idle", "looked")
  /\ current' = [current EXCEPT ![t] = disk]
  /\ UNCHANGED <<disk, liveVars, known, document, revision, step, history>>

\* ... and compares it with the signature under the lock.
Compare(t) ==
  /\ \/ /\ current[t] = signature
        /\ Return(t, "looked")
     \/ /\ current[t] # signature
        /\ Go(t, "looked", "loading")
        /\ known' = [known EXCEPT ![t] = signature]
        /\ UNCHANGED <<current, document, revision, step>>
  /\ UNCHANGED <<disk, liveVars, history>>

\* An administrator's handler loads without comparing.
AdminLoad(t) ==
  /\ Go(t, "idle", "loading")
  /\ UNCHANGED <<disk, liveVars, locals, history>>

\* A load raises: maybe_reload catches it and goes on to restore the signature,
\* an administrator's handler answers with the error.
Raise(t, from) ==
  \/ /\ known[t] # None
     /\ Go(t, from, "restoring")
     /\ UNCHANGED locals
  \/ /\ known[t] = None
     /\ Return(t, from)

ReadDocument(t) ==
  /\ IF disk \in Broken
     THEN Raise(t, "loading")
     ELSE /\ Go(t, "loading", "read")
          /\ document' = [document EXCEPT ![t] = disk]
          /\ UNCHANGED <<current, known, revision, step>>
  /\ UNCHANGED <<disk, liveVars, history>>

\* The revision is asked for after the document was read and parsed.
ReadRevision(t) ==
  /\ Go(t, "read", "installing")
  /\ revision' = [revision EXCEPT ![t] = disk]
  /\ torn' = (torn \/ disk # document[t])
  /\ UNCHANGED <<disk, liveVars, current, known, document, step, raced, failed>>

\* Mutant of Install: the signature is asked for again under the lock.
InstallUnsigned(t) ==
  /\ Go(t, "installing", "configuring")
  /\ installed' = document[t]
  /\ raced' = (raced \/ \E u \in Threads : pc[u] = "configuring")
  /\ signature' = disk
  /\ UNCHANGED <<disk, parts, locals, torn, failed>>

\* Under the lock.
Install(t) ==
  /\ Go(t, "installing", "configuring")
  /\ installed' = document[t]
  /\ signature' = revision[t]
  /\ raced' = (raced \/ \E u \in Threads : pc[u] = "configuring")
  /\ UNCHANGED <<disk, parts, locals, torn, failed>>

\* Mutant of Configure: the last part is forgotten.
ConfigureAllButLast(t) ==
  /\ step[t] < Len(Parts)
  /\ Go(t, "configuring", "configuring")
  /\ step' = [step EXCEPT ![t] = @ + 1]
  /\ parts' = IF step[t] + 1 = Len(Parts) THEN parts
              ELSE [parts EXCEPT ![step[t] + 1] = document[t]]
  /\ UNCHANGED <<disk, installed, signature, current, known, document, revision,
                 history>>

\* After the lock: one part after the other ...
Configure(t) ==
  /\ step[t] < Len(Parts)
  /\ Go(t, "configuring", "configuring")
  /\ step' = [step EXCEPT ![t] = @ + 1]
  /\ parts' = [parts EXCEPT ![step[t] + 1] = document[t]]
  /\ UNCHANGED <<disk, installed, signature, current, known, document, revision,
                 history>>

\* ... unless one raises ...
ConfigureFails(t) ==
  /\ LateFailures
  /\ step[t] < Len(Parts)
  /\ Raise(t, "configuring")
  /\ failed' = TRUE
  /\ UNCHANGED <<disk, liveVars, torn, raced>>

\* ... and the load is over.
Finish(t) ==
  /\ step[t] = Len(Parts)
  /\ Return(t, "configuring")
  /\ UNCHANGED <<disk, liveVars, history>>

\* Mutant of Restore: a version that failed is not tried again.
RestoreNothing(t) ==
  /\ Return(t, "restoring")
  /\ signature' = current[t]
  /\ UNCHANGED <<disk, installed, parts, history>>

\* maybe_reload puts back the signature it had found, under the lock.
Restore(t) ==
  /\ Return(t, "restoring")
  /\ signature' = known[t]
  /\ UNCHANGED <<disk, installed, parts, history>>

Reload(t) ==
  \/ Look(t)
  \/ Compare(t)
  \/ ReadDocument(t)
  \/ ReadRevision(t)
  \/ Install(t)
  \/ Configure(t)
  \/ Finish(t)
  \/ Restore(t)

Next ==
  \/ Save
  \/ \E t \in Threads : Reload(t) \/ AdminLoad(t) \/ ConfigureFails(t)

Spec == Init /\ [][Next]_vars

\* Threads are scheduled and requests keep arriving: maybe_reload runs at the
\* start of each and nothing else looks for a change.
FairSpec == Spec /\ \A t \in Threads : WF_vars(Reload(t))

-----------------------------------------------------------------------------
(* Safety.                                                                 *)

\* The signature never claims a document that is not the one installed: while no
\* save fell between a load's two reads and no load failed half-way, a request
\* that finds nothing to reload runs with the document on disk, however many
\* loads overlap, roll each other back or restore each other's signature
\* (runtime.py:179-220, security.py:259-278).
SignatureIsHonest ==
  ~torn /\ ~failed /\ signature = disk => installed = disk

\* A document that does not load is never installed, and its revision never
\* becomes the signature of a load that reads no torn pair: the next request
\* tries again (runtime.py:215-220).
BrokenNeverSettles ==
  /\ installed \notin Broken
  /\ ~torn => signature \notin Broken

\* Once the loads are over, the parts configured outside the lock belong to the
\* installed document, unless two loads overlapped there (runtime.py:197-199).
PartsFollowTheDocument ==
  ~raced /\ ~failed /\ (\A t \in Threads : pc[t] # "configuring") =>
    \A p \in 1..Len(Parts) : parts[p] = installed

-----------------------------------------------------------------------------
(* Liveness.                                                               *)

\* The last save is served in the end and stays, as long as requests arrive:
\* overlapping loads may install an older document over a newer one, but then
\* its older signature makes the next request load again.
LastSaveIsServed ==
  <>[](installed = disk \/ disk \in Broken \/ torn \/ failed)

-----------------------------------------------------------------------------
(* What the documents say and the code does not.                           *)

Settled == signature = disk /\ \A t \in Threads : pc[t] \in {"idle", "looked"}

\* README.md:1033 "config/services.yaml and config/security.yaml are
\* hot-reloaded when their file contents change on disk": when no thread is
\* loading and none would, the installed document is the one on disk.
ChangesAreNoticed == Settled => installed = disk

=============================================================================
