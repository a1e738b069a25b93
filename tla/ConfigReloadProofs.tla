------------------------- MODULE ConfigReloadProofs -------------------------
(***************************************************************************)
(* Theorems about ConfigReload, for any number of threads, versions and    *)
(* parts: the signature is honest, broken documents never settle, and the  *)
(* parts outside the lock follow the installed document.                   *)
(***************************************************************************)
EXTENDS ConfigReload, TLAPS

\* The part of the types that is about the threads.
LocalsOK ==
  /\ pc \in [Threads -> Places]
  /\ current \in [Threads -> Versions \cup {None}]
  /\ known \in [Threads -> Versions \cup {None}]
  /\ document \in [Threads -> Versions \cup {None}]
  /\ revision \in [Threads -> Versions \cup {None}]
  /\ step \in [Threads -> 0..Len(Parts)]
  /\ \A t \in Threads :
       /\ pc[t] \in {"read", "installing", "configuring"} => document[t] # None
       /\ pc[t] = "installing" => revision[t] # None
       /\ pc[t] = "restoring" => known[t] # None
       /\ pc[t] # "configuring" => step[t] = 0 \/ pc[t] = "restoring"

LEMMA ReturnType ==
  ASSUME LocalsOK, NEW t \in Threads, NEW from, Return(t, from)
  PROVE  LocalsOK'
<1>1. 0 \in 0..Len(Parts)
  BY ReloadAssumption
<1>2. QED
  BY <1>1 DEF LocalsOK, Return, Go, Places

LEMMA RaiseType ==
  ASSUME LocalsOK, NEW t \in Threads, NEW from, Raise(t, from)
  PROVE  LocalsOK'
<1>1. CASE Return(t, from)
  BY <1>1, ReturnType
<1>2. CASE known[t] # None
  BY <1>2 DEF LocalsOK, Raise, Return, Go, Places, locals
<1>3. QED
  BY <1>1, <1>2 DEF Raise

\* Every step preserves the types.
LEMMA TypeStep ==
  ASSUME TypeOK, [Next]_vars
  PROVE  TypeOK'
<1> USE ReloadAssumption
    DEF TypeOK, Versions, Places, Go, liveVars, history, locals
<1>1. CASE Save
  BY <1>1 DEF Save
<1>2. ASSUME NEW t \in Threads, Look(t)
      PROVE  TypeOK'
  BY <1>2 DEF Look
<1>3. ASSUME NEW t \in Threads, Compare(t)
      PROVE  TypeOK'
  <2>1. CASE Return(t, "looked")
    BY <1>3, <2>1, ReturnType DEF Compare, LocalsOK
  <2>2. CASE /\ Go(t, "looked", "loading")
             /\ known' = [known EXCEPT ![t] = signature]
             /\ UNCHANGED <<current, document, revision, step>>
    <3>1. LocalsOK'
      BY <2>2 DEF LocalsOK
    <3>2. QED
      BY <1>3, <3>1 DEF Compare, LocalsOK
  <2>3. QED
    BY <1>3, <2>1, <2>2 DEF Compare
<1>4. ASSUME NEW t \in Threads, ReadDocument(t)
      PROVE  TypeOK'
  <2>1. CASE disk \notin Broken
    <3>1. /\ Go(t, "loading", "read") /\ document' = [document EXCEPT ![t] = disk]
          /\ UNCHANGED <<current, known, revision, step, disk, liveVars, history>>
      BY <1>4, <2>1 DEF ReadDocument
    <3>2. disk # None
      BY ReloadAssumption
    <3>3. LocalsOK'
      BY <3>1, <3>2 DEF LocalsOK
    <3>4. QED
      BY <3>1, <3>3 DEF LocalsOK
  <2>2. CASE disk \in Broken
    BY <1>4, <2>2, RaiseType DEF ReadDocument, LocalsOK
  <2>3. QED
    BY <2>1, <2>2
<1>5. ASSUME NEW t \in Threads, ReadRevision(t)
      PROVE  TypeOK'
  BY <1>5 DEF ReadRevision
<1>6. ASSUME NEW t \in Threads, Install(t)
      PROVE  TypeOK'
  BY <1>6 DEF Install
<1>7. ASSUME NEW t \in Threads, Configure(t)
      PROVE  TypeOK'
  BY <1>7 DEF Configure
<1>8. ASSUME NEW t \in Threads, Finish(t)
      PROVE  TypeOK'
  BY <1>8, ReturnType DEF Finish, LocalsOK
<1>9. ASSUME NEW t \in Threads, Restore(t)
      PROVE  TypeOK'
  <2>1. known[t] \in Versions
    BY <1>9 DEF Restore, Return
  <2>2. QED
    BY <1>9, <2>1, ReturnType DEF Restore, LocalsOK
<1>10. ASSUME NEW t \in Threads, AdminLoad(t)
       PROVE  TypeOK'
  BY <1>10 DEF AdminLoad
<1>11. ASSUME NEW t \in Threads, ConfigureFails(t)
       PROVE  TypeOK'
  <2>1. LocalsOK'
    BY <1>11, RaiseType DEF ConfigureFails, LocalsOK
  <2>2. QED
    BY <1>11, <2>1 DEF ConfigureFails, LocalsOK
<1>12. CASE UNCHANGED vars
  BY <1>12 DEF vars
<1>13. QED
  BY <1>1, <1>2, <1>3, <1>4, <1>5, <1>6, <1>7, <1>8, <1>9, <1>10, <1>11, <1>12
     DEF Next, Reload

LEMMA TypeInit == Init => TypeOK
<1>1. 1 \in Versions /\ Len(Parts) \in Nat
  BY ReloadAssumption DEF Versions
<1>2. 0 \in 0..Len(Parts)
  BY <1>1
<1>3. QED
  BY <1>1, <1>2 DEF Init, TypeOK, Places, history

\* The variables of ConfigReload have their types in every reachable state.
THEOREM TypeCorrect == Spec => []TypeOK
BY TypeInit, TypeStep, PTL DEF Spec

-----------------------------------------------------------------------------
(* The signature.                                                          *)

\* Versions are never ahead of the disk, and nothing that may become the
\* signature names a version that does not load.
Sound(t) ==
  /\ current[t] # None => current[t] <= disk
  /\ document[t] # None => document[t] \notin Broken /\ document[t] <= disk
  /\ ~torn /\ pc[t] = "installing" => revision[t] = document[t]
  /\ ~torn /\ known[t] # None => known[t] \notin Broken /\ known[t] <= disk
  /\ ~torn /\ ~failed /\ pc[t] = "restoring" => known[t] < disk

SignatureInv ==
  /\ TypeOK
  /\ \A t \in Threads : Sound(t)
  /\ installed \notin Broken
  /\ ~torn => signature \notin Broken /\ signature <= disk
  /\ SignatureIsHonest

LEMMA SignatureInit == Init => SignatureInv
<1> SUFFICES ASSUME Init PROVE SignatureInv
  OBVIOUS
<1>1. TypeOK
  BY TypeInit
<1>2. QED
  BY <1>1, ReloadAssumption DEF Init, SignatureInv, Sound, SignatureIsHonest

\* A call that returns takes its claims with it.
LEMMA ReturnSound ==
  ASSUME TypeOK, \A u \in Threads : Sound(u), NEW t \in Threads, NEW from,
         Return(t, from), disk' = disk, torn' = torn, failed => failed'
  PROVE  \A u \in Threads : Sound(u)'
<1> SUFFICES ASSUME NEW u \in Threads PROVE Sound(u)'
  OBVIOUS
<1>1. CASE u = t
  BY <1>1 DEF TypeOK, Return, Go, Sound
<1>2. CASE u # t
  <2>1. /\ pc'[u] = pc[u] /\ current'[u] = current[u] /\ known'[u] = known[u]
        /\ document'[u] = document[u] /\ revision'[u] = revision[u]
    BY <1>2 DEF TypeOK, Return, Go
  <2>2. Sound(u)
    OBVIOUS
  <2>3. QED
    BY <2>1, <2>2 DEF Sound, TypeOK
<1>3. QED
  BY <1>1, <1>2

LEMMA SignatureStep == SignatureInv /\ [Next]_vars => SignatureInv'
<1> SUFFICES ASSUME SignatureInv, [Next]_vars PROVE SignatureInv'
  OBVIOUS
<1>0. TypeOK /\ TypeOK'
  BY TypeStep DEF SignatureInv
<1> USE <1>0 DEF SignatureInv, Sound, SignatureIsHonest, TypeOK, Versions, Go,
                 liveVars, history, locals
<1>1. CASE Save
  BY <1>1 DEF Save
<1>2. ASSUME NEW t \in Threads, Look(t)
      PROVE  SignatureInv'
  BY <1>2 DEF Look
<1>3. ASSUME NEW t \in Threads, Compare(t)
      PROVE  SignatureInv'
  <2>1. CASE Return(t, "looked")
    BY <1>3, <2>1, ReturnSound DEF Compare
  <2>2. CASE /\ Go(t, "looked", "loading")
             /\ known' = [known EXCEPT ![t] = signature]
             /\ UNCHANGED <<current, document, revision, step>>
    BY <1>3, <2>2 DEF Compare
  <2>3. QED
    BY <1>3, <2>1, <2>2 DEF Compare
<1>4. ASSUME NEW t \in Threads, ReadDocument(t)
      PROVE  SignatureInv'
  <2>1. CASE disk \notin Broken
    BY <1>4, <2>1 DEF ReadDocument
  <2>2. CASE disk \in Broken /\ Return(t, "loading")
    BY <1>4, <2>2, ReturnSound DEF ReadDocument
  <2>3. CASE disk \in Broken /\ Go(t, "loading", "restoring") /\ UNCHANGED locals
    BY <1>4, <2>3 DEF ReadDocument
  <2>4. QED
    BY <1>4, <2>1, <2>2, <2>3 DEF ReadDocument, Raise
<1>5. ASSUME NEW t \in Threads, ReadRevision(t)
      PROVE  SignatureInv'
  BY <1>5 DEF ReadRevision
<1>6. ASSUME NEW t \in Threads, Install(t)
      PROVE  SignatureInv'
  BY <1>6 DEF Install
<1>7. ASSUME NEW t \in Threads, Configure(t)
      PROVE  SignatureInv'
  BY <1>7 DEF Configure
<1>8. ASSUME NEW t \in Threads, Finish(t)
      PROVE  SignatureInv'
  BY <1>8 DEF Finish, Return
<1>9. ASSUME NEW t \in Threads, Restore(t)
      PROVE  SignatureInv'
  BY <1>9 DEF Restore, Return
<1>10. ASSUME NEW t \in Threads, AdminLoad(t)
       PROVE  SignatureInv'
  BY <1>10 DEF AdminLoad
<1>11. ASSUME NEW t \in Threads, ConfigureFails(t)
       PROVE  SignatureInv'
  <2>1. CASE Return(t, "configuring")
    BY <1>11, <2>1, ReturnSound DEF ConfigureFails
  <2>2. CASE Go(t, "configuring", "restoring") /\ UNCHANGED locals
    BY <1>11, <2>2 DEF ConfigureFails
  <2>3. QED
    BY <1>11, <2>1, <2>2 DEF ConfigureFails, Raise
<1>12. CASE UNCHANGED vars
  BY <1>12 DEF vars
<1>13. QED
  BY <1>1, <1>2, <1>3, <1>4, <1>5, <1>6, <1>7, <1>8, <1>9, <1>10, <1>11, <1>12
     DEF Next, Reload

\* A signature equal to the revision on disk means the installed document is the
\* one on disk, unless a save tore a load's two reads or a load failed half-way
\* (runtime.py:179-220).
THEOREM SignatureHonest == Spec => []SignatureIsHonest
BY SignatureInit, SignatureStep, PTL DEF Spec, SignatureInv

\* What does not load is neither installed nor taken for loaded
\* (runtime.py:215-220).
THEOREM BrokenNeverInstalled == Spec => []BrokenNeverSettles
<1>1. SignatureInv => BrokenNeverSettles
  BY DEF SignatureInv, BrokenNeverSettles
<1>2. QED
  BY <1>1, SignatureInit, SignatureStep, PTL DEF Spec

-----------------------------------------------------------------------------
(* The parts outside the lock.                                             *)

Configuring(t) == pc[t] = "configuring"

\* Without a race at most one load is configuring, it configures the parts with
\* the installed document, and without a failure it leaves none behind.
PartsInv ==
  /\ TypeOK
  /\ ~raced /\ ~failed =>
       /\ \A t, u \in Threads : Configuring(t) /\ Configuring(u) => t = u
       /\ \A t \in Threads :
            /\ step[t] # 0 => Configuring(t)
            /\ Configuring(t) =>
                 /\ document[t] = installed
                 /\ \A p \in 1..step[t] : parts[p] = installed
       /\ (\A t \in Threads : ~Configuring(t)) =>
            \A p \in 1..Len(Parts) : parts[p] = installed

LEMMA PartsInit == Init => PartsInv
<1> SUFFICES ASSUME Init PROVE PartsInv
  OBVIOUS
<1>1. TypeOK
  BY TypeInit
<1>2. QED
  BY <1>1 DEF Init, PartsInv, Configuring

\* A step that changes nothing but locals, starts and ends outside
\* "configuring", and touches no part.
LEMMA PartsKept ==
  ASSUME PartsInv, TypeOK', NEW t \in Threads,
         ~Configuring(t), ~Configuring(t)',
         \A u \in Threads \ {t} :
           pc'[u] = pc[u] /\ step'[u] = step[u] /\ document'[u] = document[u],
         step'[t] = 0 \/ step'[t] = step[t],
         raced' = raced, failed' = failed, installed' = installed,
         parts' = parts
  PROVE  PartsInv'
BY DEF PartsInv, Configuring

\* A thread's step leaves the others' locals alone.
LEMMA OthersKeepTheirs ==
  ASSUME TypeOK, NEW t \in Threads,
         \/ Look(t) \/ Compare(t) \/ ReadDocument(t) \/ ReadRevision(t)
         \/ Restore(t) \/ AdminLoad(t)
  PROVE  \A u \in Threads \ {t} :
           pc'[u] = pc[u] /\ step'[u] = step[u] /\ document'[u] = document[u]
<1>1. /\ \E to : pc' = [pc EXCEPT ![t] = to]
      /\ step' = step \/ step' = [step EXCEPT ![t] = 0]
      /\ document' = document \/ \E d : document' = [document EXCEPT ![t] = d]
  <2>1. ASSUME NEW from, Return(t, from) \/ Raise(t, from)
        PROVE  /\ \E to : pc' = [pc EXCEPT ![t] = to]
               /\ step' = step \/ step' = [step EXCEPT ![t] = 0]
               /\ document' = document \/ \E d : document' = [document EXCEPT ![t] = d]
    <3>1. CASE Return(t, from)
      BY <3>1 DEF Return, Go
    <3>2. CASE Go(t, from, "restoring") /\ UNCHANGED locals
      BY <3>2 DEF Go, locals
    <3>3. QED
      BY <2>1, <3>1, <3>2 DEF Raise
  <2>2. CASE Look(t) \/ ReadRevision(t) \/ AdminLoad(t)
    <3>1. CASE Look(t)
      BY <3>1 DEF Look, Go
    <3>2. CASE ReadRevision(t)
      BY <3>2 DEF ReadRevision, Go
    <3>3. CASE AdminLoad(t)
      BY <3>3 DEF AdminLoad, Go, locals
    <3>4. QED
      BY <2>2, <3>1, <3>2, <3>3
  <2>3. CASE Compare(t)
    BY <2>1, <2>3 DEF Compare, Go
  <2>4. CASE ReadDocument(t)
    BY <2>1, <2>4 DEF ReadDocument, Go
  <2>5. CASE Restore(t)
    BY <2>1, <2>5 DEF Restore
  <2>6. QED
    BY <2>2, <2>3, <2>4, <2>5
<1>2. QED
  BY <1>1 DEF TypeOK

LEMMA PartsStep == PartsInv /\ [Next]_vars => PartsInv'
<1> SUFFICES ASSUME PartsInv, [Next]_vars PROVE PartsInv'
  OBVIOUS
<1>0. TypeOK /\ TypeOK' /\ Len(Parts) \in Nat
  BY TypeStep, ReloadAssumption DEF PartsInv
<1> USE <1>0 DEF TypeOK, Go, liveVars, history, locals
<1>1. ASSUME NEW t \in Threads,
             \/ Look(t) \/ Compare(t) \/ ReadDocument(t) \/ ReadRevision(t)
             \/ Restore(t) \/ AdminLoad(t)
      PROVE  PartsInv'
  <2>1. ~Configuring(t) /\ ~Configuring(t)'
    BY <1>1 DEF Configuring, Look, Compare, ReadDocument, ReadRevision, Restore,
                AdminLoad, Return, Raise
  <2>2. \A u \in Threads \ {t} :
          pc'[u] = pc[u] /\ step'[u] = step[u] /\ document'[u] = document[u]
    BY <1>1, OthersKeepTheirs
  <2>3. /\ step'[t] = 0 \/ step'[t] = step[t]
        /\ raced' = raced /\ failed' = failed /\ installed' = installed
        /\ parts' = parts
    BY <1>1 DEF Look, Compare, ReadDocument, ReadRevision, Restore, AdminLoad,
                Return, Raise
  <2>4. QED
    BY <2>1, <2>2, <2>3, PartsKept
<1>2. ASSUME NEW t \in Threads, Install(t)
      PROVE  PartsInv'
  BY <1>2 DEF Install, PartsInv, Configuring
<1>3. ASSUME NEW t \in Threads, Configure(t)
      PROVE  PartsInv'
  BY <1>3 DEF Configure, PartsInv, Configuring
<1>4. ASSUME NEW t \in Threads, Finish(t)
      PROVE  PartsInv'
  BY <1>4 DEF Finish, Return, PartsInv, Configuring
<1>5. ASSUME NEW t \in Threads, ConfigureFails(t)
      PROVE  PartsInv'
  BY <1>5 DEF ConfigureFails, PartsInv
<1>6. CASE Save \/ UNCHANGED vars
  BY <1>6 DEF Save, vars, PartsInv, Configuring
<1>7. QED
  BY <1>1, <1>2, <1>3, <1>4, <1>5, <1>6 DEF Next, Reload

\* Between loads that neither overlapped nor failed the dispatcher and the two
\* retentions belong to the installed document (runtime.py:197-199).
THEOREM PartsFollow == Spec => []PartsFollowTheDocument
<1>1. PartsInv => PartsFollowTheDocument
  BY DEF PartsInv, PartsFollowTheDocument, Configuring
<1>2. QED
  BY <1>1, PartsInit, PartsStep, PTL DEF Spec

=============================================================================
