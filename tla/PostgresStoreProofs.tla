------------------------- MODULE PostgresStoreProofs -------------------------
(***************************************************************************)
(* Theorems about PostgresStore, for any number of instances, tables,      *)
(* documents, saves and crashes: nothing an instance knows is ahead of the *)
(* database, its signature is honest, its saves are whole, and the tables  *)
(* are one shared document.                                                *)
(***************************************************************************)
EXTENDS PostgresStore, TLAPS

\* Every place in the orders of tables names a table.
LEMMA OrderType ==
  ASSUME NEW n \in 0..(Len(Selections) - 1)
  PROVE  Deletions[n + 1] \in Tables /\ Selections[n + 1] \in Tables
BY StoreAssumption

\* A thread goes to one of the places, at the first table.
LEMMA GoType ==
  ASSUME TypeOK, NEW i \in Instances, NEW from, NEW to \in Places, Go(i, from, to)
  PROVE  /\ pc' \in [Instances -> Places]
         /\ step' \in [Instances -> 0..(Len(Selections) - 1)]
<1>1. 0 \in 0..(Len(Selections) - 1)
  BY StoreAssumption
<1>2. QED
  BY <1>1 DEF Go, TypeOK

\* Advancing never leaves the tables behind.
LEMMA AdvanceType ==
  ASSUME TypeOK, NEW i \in Instances, NEW from, NEW tables, NEW to \in Places,
         Len(tables) = Len(Selections), Advance(i, from, tables, to)
  PROVE  /\ pc' \in [Instances -> Places]
         /\ step' \in [Instances -> 0..(Len(Selections) - 1)]
<1>1. /\ Len(Selections) \in Nat \ {0}
      /\ step[i] \in 0..(Len(Selections) - 1)
  <2>1. Selections \in Seq(Tables) /\ Len(Selections) > 0
    BY StoreAssumption
  <2>2. step[i] \in 0..(Len(Selections) - 1)
    BY DEF TypeOK
  <2>3. QED
    BY <2>1, <2>2
<1>2. CASE step[i] + 1 = Len(tables)
  <2>1. 0 \in 0..(Len(Selections) - 1)
    BY <1>1
  <2>2. pc' = [pc EXCEPT ![i] = to] /\ step' = [step EXCEPT ![i] = 0]
    BY <1>2 DEF Advance
  <2>3. QED
    BY <2>1, <2>2 DEF TypeOK
<1>3. CASE step[i] + 1 # Len(tables)
  <2>1. step[i] + 1 \in 0..(Len(Selections) - 1)
    BY <1>1, <1>3
  <2>2. QED
    BY <1>3, <2>1 DEF Advance, TypeOK
<1>4. QED
  BY <1>2, <1>3

\* A transaction that ends forgets what it did.
LEMMA EndType ==
  ASSUME TypeOK, NEW i \in Instances, End(i) \/ Leave(i)
  PROVE  /\ doc' \in [Instances -> Contents]
         /\ number' \in [Instances -> Numbers]
         /\ found' \in [Instances -> (SUBSET Row) \cup {None}]
         /\ gone' \in [Instances -> Snapshot]
         /\ mine' \in [Instances -> Snapshot]
         /\ bare' \in [Instances -> BOOLEAN]
<1>1. Nothing \in Snapshot /\ 0 \in Numbers /\ Bootstrap \in Contents
  BY StoreAssumption DEF Nothing, Snapshot, Numbers
<1>2. \A j \in Instances : found[j] # None =>
        found[j] \ gone[i][Deletions[step[j] + 1]] \in SUBSET Row
  BY DEF TypeOK
<1>3. found' \in [Instances -> (SUBSET Row) \cup {None}]
  <2>1. CASE End(i)
    BY <2>1 DEF End, TypeOK
  <2>2. CASE Leave(i)
    BY <1>2, <2>2 DEF Leave
  <2>3. QED
    BY <2>1, <2>2
<1>4. Forget(i)
  BY DEF End, Leave
<1>5. QED
  BY <1>1, <1>3, <1>4 DEF Forget, TypeOK

\* A DELETE finds rows.
LEMMA FoundType ==
  ASSUME TypeOK, NEW i \in Instances
  PROVE  Found(i) \in Snapshot
<1> DEFINE table == Deletions[step[i] + 1]
           hit == IF found[i] = None THEN rows[table] ELSE found[i] \cap rows[table]
<1>1. table \in Tables
  BY OrderType DEF TypeOK
<1>2. hit \in SUBSET Row
  BY <1>1 DEF TypeOK, Snapshot
<1>3. \A t \in Tables : rows[t] \in SUBSET Row
  BY DEF TypeOK, Snapshot
<1> HIDE DEF hit
<1>4. \A t \in Tables :
        (IF t = table THEN hit
         ELSE {r \in rows[t] : <<t, table>> \in References
                                /\ \E s \in hit : s[1] = r[1]}) \in SUBSET Row
  BY <1>2, <1>3
<1>5. QED
  BY <1>4 DEF Found, Snapshot, hit

\* What a save writes are rows.
LEMMA WrittenType ==
  ASSUME TypeOK, NEW i \in Instances
  PROVE  Written(i) \in Snapshot
<1>1. \A t \in Tables : doc[i][t] \X {number[i]} \in SUBSET Row
  BY DEF TypeOK, Contents, Row
<1>2. QED
  BY <1>1 DEF Written, Snapshot

\* The parts of the types that a commit changes.
LEMMA CommitType ==
  ASSUME TypeOK, NEW i \in Instances, Committed(i)
  PROVE  /\ rows' \in Snapshot
         /\ revision' \in Nat
         /\ exposed' \in [Instances -> BOOLEAN]
         /\ restarted' \in BOOLEAN
<1>1. /\ \A t \in Tables : rows[t] \in SUBSET Row
      /\ \A t \in Tables : mine[i][t] \in SUBSET Row
  BY DEF TypeOK, Snapshot
<1>2. \A t \in Tables : (rows[t] \ gone[i][t]) \cup mine[i][t] \in SUBSET Row
  BY <1>1
<1>3. rows' \in Snapshot
  BY <1>2 DEF Committed, Snapshot
<1>4. revision' \in Nat
  BY DEF Committed, NewRevision, TypeOK, Revisions
<1>5. exposed' \in [Instances -> BOOLEAN]
  BY Zenon DEF Committed
<1>6. restarted' \in BOOLEAN
  BY Zenon DEF Committed
<1>7. QED
  BY <1>3, <1>4, <1>5, <1>6

\* A transaction that is rolled back preserves the types.
LEMMA RollbackType ==
  ASSUME TypeOK, NEW i \in Instances, Rollback(i)
  PROVE  TypeOK'
<1>1. \E to \in Places : Go(i, pc[i], to)
  BY DEF Rollback, Places, Idle
<1>2. /\ pc' \in [Instances -> Places]
      /\ step' \in [Instances -> 0..(Len(Selections) - 1)]
  BY <1>1, GoType
<1>3. End(i)
  BY DEF Rollback
<1>4. exposed' \in [Instances -> BOOLEAN]
  BY DEF Rollback, TypeOK
<1>5. QED
  BY <1>2, <1>3, <1>4, EndType DEF Rollback, TypeOK, database, load, bounds

\* Every step of a transaction preserves the types.
LEMMA TransactionType ==
  ASSUME TypeOK, NEW i \in Instances,
         Save(i) \/ Wait(i) \/ Delete(i) \/ Insert(i) \/ Commit(i) \/ Break(i)
  PROVE  TypeOK'
<1>1. CASE Save(i)
  <2>1. PICK d \in Documents : Begin(i, d, saves')
    BY <1>1 DEF Save
  <2>2. d \in Contents /\ saves' \in 0..MaxSaves
    BY <1>1, StoreAssumption DEF Save, TypeOK
  <2>3. /\ pc' \in [Instances -> Places]
        /\ step' \in [Instances -> 0..(Len(Selections) - 1)]
    BY <1>1, GoType DEF Save, Places
  <2>4. /\ doc' \in [Instances -> Contents]
        /\ number' \in [Instances -> Numbers]
        /\ bare' \in [Instances -> BOOLEAN]
        /\ exposed' \in [Instances -> BOOLEAN]
        /\ UNCHANGED <<found, gone, mine>>
    BY <2>1, <2>2 DEF Begin, Numbers, TypeOK
  <2>5. QED
    BY <1>1, <2>2, <2>3, <2>4 DEF Save, TypeOK, database, load
<1>2. CASE Wait(i)
  <2>1. rows[Deletions[step[i] + 1]] \in SUBSET Row
    BY OrderType DEF TypeOK, Snapshot
  <2>2. found' \in [Instances -> (SUBSET Row) \cup {None}]
    BY <1>2, <2>1 DEF Wait, TypeOK
  <2>3. QED
    BY <1>2, <2>2 DEF Wait, TypeOK, database, load, bounds
<1>3. CASE Delete(i)
  <2>1. /\ pc' \in [Instances -> Places]
        /\ step' \in [Instances -> 0..(Len(Selections) - 1)]
    BY <1>3, AdvanceType, StoreAssumption DEF Delete, Places
  <2>2. [t \in Tables |-> gone[i][t] \cup Found(i)[t]] \in Snapshot
    BY FoundType DEF TypeOK, Snapshot
  <2>3. gone' \in [Instances -> Snapshot]
    BY <1>3, <2>2 DEF Delete, TypeOK
  <2>4. found' \in [Instances -> (SUBSET Row) \cup {None}]
    BY <1>3 DEF Delete, TypeOK
  <2>5. bare' \in [Instances -> BOOLEAN]
    BY <1>3, Zenon DEF Delete, TypeOK
  <2>6. QED
    BY <1>3, <2>1, <2>3, <2>4, <2>5 DEF Delete, TypeOK, database, load, bounds
<1>4. CASE Insert(i)
  <2>1. /\ pc' \in [Instances -> Places]
        /\ step' \in [Instances -> 0..(Len(Selections) - 1)]
    BY <1>4, AdvanceType DEF Insert, Places
  <2>2. Selections[step[i] + 1] \in Tables
    BY OrderType DEF TypeOK
  <2>3. Written(i)[Selections[step[i] + 1]] \in SUBSET Row
    BY <2>2, WrittenType DEF Snapshot
  <2>4. mine' \in [Instances -> Snapshot]
    BY <1>4, <2>2, <2>3 DEF Insert, TypeOK, Snapshot
  <2>5. QED
    BY <1>4, <2>1, <2>4 DEF Insert, TypeOK, database, load, bounds
<1>5. CASE Commit(i)
  <2>1. /\ pc' \in [Instances -> Places]
        /\ step' \in [Instances -> 0..(Len(Selections) - 1)]
    <3>1. \E to \in Places : Go(i, "committing", to)
      BY <1>5 DEF Commit, Places
    <3>2. QED
      BY <3>1, GoType
  <2>2. Committed(i) /\ Leave(i)
    BY <1>5 DEF Commit, Committed
  <2>3. got' \in [Instances -> Revisions]
    BY <1>5 DEF Commit, NewRevision, TypeOK, Revisions
  <2>4. QED
    BY <2>1, <2>2, <2>3, CommitType, EndType
    DEF Committed, TypeOK, load, bounds, Revisions
<1>6. CASE Break(i)
  <2>1. CASE Rollback(i)
    BY <2>1, RollbackType
  <2>2. CASE Go(i, "committing", "ready") /\ Committed(i) /\ UNCHANGED got
    <3>1. /\ pc' \in [Instances -> Places]
          /\ step' \in [Instances -> 0..(Len(Selections) - 1)]
      BY <2>2, GoType DEF Places, Idle
    <3>2. Leave(i)
      BY <2>2 DEF Committed
    <3>3. QED
      BY <2>2, <3>1, <3>2, CommitType, EndType
      DEF Committed, TypeOK, load, bounds, Revisions
  <2>3. QED
    BY <1>6, <2>1, <2>2 DEF Break
<1>7. QED
  BY <1>1, <1>2, <1>3, <1>4, <1>5, <1>6

\* Every step of a load preserves the types.
LEMMA LoadType ==
  ASSUME TypeOK, NEW i \in Instances,
         \/ Record(i) \/ Look(i) \/ Read(i) \/ ReadRevision(i)
         \/ Note(i) \/ Install(i)
  PROVE  TypeOK'
<1>1. Nothing \in Snapshot /\ 0 \in Revisions
  BY DEF Nothing, Snapshot, Revisions
<1>2. CASE Read(i)
  <2>1. /\ pc' \in [Instances -> Places]
        /\ step' \in [Instances -> 0..(Len(Selections) - 1)]
    BY <1>2, AdvanceType DEF Read, Places
  <2>2. Selections[step[i] + 1] \in Tables
    BY OrderType DEF TypeOK
  <2>3. read' \in [Instances -> Snapshot]
    BY <1>2, <2>2 DEF Read, TypeOK, Snapshot
  <2>4. QED
    BY <1>2, <2>1, <2>3 DEF Read, TypeOK, database, transaction, bounds
<1>3. ASSUME ~Read(i)
      PROVE  TypeOK'
  <2>1. \E from, to : to \in Places /\ Go(i, from, to)
    BY <1>3 DEF Record, Look, ReadRevision, Note, Install, Places, Idle
  <2>2. /\ pc' \in [Instances -> Places]
        /\ step' \in [Instances -> 0..(Len(Selections) - 1)]
    BY <2>1, GoType
  <2>3. CASE Record(i)
    BY <1>1, <2>2, <2>3 DEF Record, TypeOK, database, transaction, load, bounds
  <2>4. CASE Look(i)
    BY <1>1, <2>2, <2>4 DEF Look, TypeOK, database, transaction, load, bounds
  <2>5. CASE ReadRevision(i)
    BY <1>1, <2>2, <2>5
    DEF ReadRevision, TypeOK, database, transaction, load, bounds
  <2>6. CASE Note(i)
    BY <1>1, <2>2, <2>6 DEF Note, TypeOK, database, transaction, load, bounds
  <2>7. CASE Install(i)
    BY <1>1, <2>2, <2>7 DEF Install, TypeOK, database, transaction, bounds
  <2>8. QED
    BY <1>3, <2>3, <2>4, <2>5, <2>6, <2>7
<1>4. QED
  BY <1>2, <1>3

\* A load that fails preserves the types, and so does a process that ends.
LEMMA FailureType ==
  ASSUME TypeOK, NEW i \in Instances, Reject(i) \/ Lose(i) \/ Crash(i)
  PROVE  TypeOK'
<1>1. Nothing \in Snapshot /\ 0 \in Revisions
  BY DEF Nothing, Snapshot, Revisions
<1>2. saves' \in 0..MaxSaves /\ crashes' \in 0..MaxCrashes
  <2>1. /\ saves \in 0..MaxSaves /\ crashes \in 0..MaxCrashes
        /\ MaxCrashes \in Nat
    BY StoreAssumption DEF TypeOK
  <2>2. CASE Reject(i)
    BY <2>1, <2>2 DEF Reject, bounds
  <2>3. CASE Lose(i)
    BY <2>1, <2>3 DEF Lose
  <2>4. CASE Crash(i)
    BY <2>1, <2>4 DEF Crash
  <2>5. QED
    BY <2>2, <2>3, <2>4
<1>3. CASE Stop(i)
  <2>1. /\ pc' \in [Instances -> Places]
        /\ step' \in [Instances -> 0..(Len(Selections) - 1)]
    BY <1>3, GoType DEF Stop, Places, Idle
  <2>2. End(i)
    BY <1>3 DEF Stop
  <2>3. /\ known' \in [Instances -> Revisions \cup {None}]
        /\ polled' \in [Instances -> Revisions \cup {None}]
        /\ signature' \in [Instances -> Revisions \cup {None}]
        /\ read' \in [Instances -> Snapshot]
        /\ serving' \in [Instances -> Snapshot]
        /\ torn' \in [Instances -> BOOLEAN]
        /\ got' \in [Instances -> Revisions]
        /\ exposed' \in [Instances -> BOOLEAN]
    BY <1>1, <1>3 DEF Stop, TypeOK
  <2>4. QED
    BY <1>2, <1>3, <2>1, <2>2, <2>3, EndType DEF Stop, TypeOK, database
<1>4. CASE Abandon(i) /\ signature[i] # None
  <2>1. /\ pc' \in [Instances -> Places]
        /\ step' \in [Instances -> 0..(Len(Selections) - 1)]
    BY <1>4, GoType DEF Abandon, Stop, Places, Idle
  <2>2. /\ read' = [read EXCEPT ![i] = Nothing]
        /\ got' = [got EXCEPT ![i] = 0]
        /\ exposed' = [exposed EXCEPT ![i] = FALSE]
        /\ UNCHANGED <<database, transaction, serving, signature, torn, known, polled,
                       restarted>>
    BY <1>4, Zenon DEF Abandon
  <2>3. QED
    BY <1>1, <1>2, <2>1, <2>2 DEF TypeOK, database, transaction
<1>5. QED
  BY <1>3, <1>4 DEF Reject, Lose, Crash, Abandon

\* Every other step of a process as a whole, or of its poller, preserves the types.
LEMMA ProcessType ==
  ASSUME TypeOK, NEW i \in Instances,
         Start(i) \/ Refresh(i) \/ Select(i) \/ Keep(i)
  PROVE  TypeOK'
<1>1. Nothing \in Snapshot /\ 0 \in Revisions /\ 0 \in Numbers
  BY StoreAssumption DEF Nothing, Snapshot, Revisions, Numbers
<1>2. CASE Start(i)
  <2>1. \E to \in Places : Go(i, "down", to)
    BY <1>2 DEF Start, Places
  <2>2. /\ pc' \in [Instances -> Places]
        /\ step' \in [Instances -> 0..(Len(Selections) - 1)]
    BY <2>1, GoType
  <2>3. QED
    BY <1>1, <1>2, <2>2, StoreAssumption DEF Start, Begin, TypeOK, database, load, bounds
<1>3. CASE Refresh(i)
  <2>1. /\ pc' \in [Instances -> Places]
        /\ step' \in [Instances -> 0..(Len(Selections) - 1)]
    BY <1>3, GoType DEF Refresh, Places
  <2>2. QED
    BY <1>3, <2>1 DEF Refresh, TypeOK, database, transaction, load, bounds
<1>4. CASE Select(i)
  BY <1>4 DEF Select, TypeOK, database, transaction, load, bounds
<1>5. CASE Keep(i)
  BY <1>5 DEF Keep, TypeOK, database, transaction, load, bounds
<1>6. QED
  BY <1>2, <1>3, <1>4, <1>5

\* The actions of one instance, in the groups of the lemmas above.
Step(i) ==
  \/ Save(i) \/ Wait(i) \/ Delete(i) \/ Insert(i) \/ Commit(i) \/ Break(i)
  \/ Rollback(i)
  \/ Record(i) \/ Look(i) \/ Read(i) \/ ReadRevision(i)
  \/ Note(i) \/ Install(i)
  \/ Reject(i) \/ Lose(i) \/ Crash(i)
  \/ Start(i) \/ Refresh(i) \/ Select(i) \/ Keep(i)

\* A step is one of an instance, or none.
LEMMA Steps ==
  ASSUME [Next]_vars
  PROVE  (\E i \in Instances : Step(i)) \/ UNCHANGED vars
BY DEF Next, Thread, Poller, Fail, BreakDeadlock, Step

\* Every step preserves the types.
LEMMA TypeStep ==
  ASSUME TypeOK, [Next]_vars
  PROVE  TypeOK'
<1>1. CASE \E i \in Instances : Step(i)
  BY <1>1, TransactionType, RollbackType, LoadType, FailureType, ProcessType DEF Step
<1>2. CASE UNCHANGED vars
  BY <1>2 DEF vars, TypeOK, database, transaction, load, bounds
<1>3. QED
  BY <1>1, <1>2, Steps

\* The types hold at first.
LEMMA TypeInit == Init => TypeOK
<1>1. /\ Nothing \in Snapshot /\ 0 \in Revisions /\ 0 \in Numbers
      /\ Bootstrap \in Contents /\ 0 \in 0..(Len(Selections) - 1)
      /\ "down" \in Places /\ 0 \in 0..MaxSaves /\ 0 \in 0..MaxCrashes
  BY StoreAssumption DEF Nothing, Snapshot, Revisions, Numbers, Places, Idle
<1>2. QED
  BY <1>1 DEF Init, Each, TypeOK

\* The variables of PostgresStore have their types, and no statement is about a
\* table behind the last one.
THEOREM TypeCorrect == Spec => []TypeOK
<1>1. QED
  BY TypeInit, TypeStep, PTL DEF Spec

-----------------------------------------------------------------------------
(* Honest signatures.  What keeps them so is in flight: a load during which *)
(* nobody has committed has read what is committed.                        *)

\* What the load of an instance has selected is what is committed.
Loaded(i) ==
  /\ pc[i] = "reading" =>
       \A n \in 1..step[i] : read[i][Selections[n]] = rows[Selections[n]]
  /\ pc[i] \in {"selecting", "noting", "installing"} => read[i] = rows

LoadsAreFresh == \A i \in Instances : ~exposed[i] => Loaded(i)

IInv == TypeOK /\ NothingIsAhead /\ LoadsAreFresh /\ SignatureIsHonest

\* A commit, whatever the instance learns of it.
Committing(i) ==
  /\ Committed(i)
  /\ pc[i] = "committing"
  /\ \E to \in {"refreshing", "recording", "ready"} : Go(i, "committing", to)
  /\ got' = got \/ got' = [got EXCEPT ![i] = 0]
       \/ got' = [got EXCEPT ![i] = revision']

\* The database changes with a commit and with nothing else.
LEMMA DatabaseChanges ==
  ASSUME NEW i \in Instances, Step(i)
  PROVE  Committing(i) \/ UNCHANGED <<rows, revision, restarted>>
<1>1. CASE Commit(i)
  BY <1>1 DEF Commit, Committing, Committed, Go
<1>2. CASE Break(i)
  BY <1>2 DEF Break, Committing, Committed, Go, Rollback, database
<1>3. CASE ~Commit(i) /\ ~Break(i)
  BY <1>3 DEF Step, Save, Wait, Delete, Insert, Rollback, Record, Look, Read,
              ReadRevision, Note, Install, Reject, Lose, Crash, Abandon, Stop,
              Start, Refresh, Select, Keep, database
<1>4. QED
  BY <1>1, <1>2, <1>3

\* A commit raises the revision, unless it is a start that overwrites.
LEMMA CommitRaises ==
  ASSUME TypeOK, NEW i \in Instances, Committing(i), ~restarted'
  PROVE  ~restarted /\ revision' \in Nat /\ revision < revision'
<1>1. /\ revision \in Nat
      /\ revision' = IF number[i] = 0 THEN 1 ELSE revision + 1
      /\ restarted' = (restarted \/ (number[i] = 0 /\ revision # 0))
  BY DEF Committing, Committed, NewRevision, TypeOK, Revisions
<1>2. ~restarted /\ (number[i] = 0 => revision = 0)
  BY <1>1
<1>3. QED
  BY <1>1, <1>2

\* What an instance knows comes from what it knew or from the database.
LEMMA KnownComesFrom ==
  ASSUME TypeOK, NEW i \in Instances, Step(i), NEW j \in Instances,
         UNCHANGED <<rows, revision, restarted>>, ~Committing(i)
  PROVE  {known'[j], polled'[j], signature'[j], got'[j]}
           \subseteq {known[j], polled[j], signature[j], got[j], 0, revision, None}
<1> USE DEF TypeOK, load
<1>1. CASE Save(i) \/ Wait(i) \/ Delete(i) \/ Insert(i) \/ Rollback(i) \/ Start(i)
  BY <1>1 DEF Save, Wait, Delete, Insert, Rollback, Start
<1>2. CASE Record(i) \/ Look(i) \/ Read(i) \/ ReadRevision(i)
  BY <1>2 DEF Record, Look, Read, ReadRevision
<1>3. CASE Reject(i) \/ Lose(i) \/ Crash(i) \/ Note(i) \/ Install(i)
  BY <1>3 DEF Reject, Lose, Crash, Abandon, Stop, Note, Install
<1>4. CASE Refresh(i) \/ Select(i) \/ Keep(i)
  BY <1>4 DEF Refresh, Select, Keep
<1>5. CASE Commit(i)
  BY <1>5 DEF Commit, Committing, Committed, Go
<1>6. CASE Break(i)
  <2>1. Rollback(i)
    BY <1>6 DEF Break, Committing, Committed, Go
  <2>2. QED
    BY <1>1, <2>1
<1>7. QED
  BY <1>1, <1>2, <1>3, <1>4, <1>5, <1>6 DEF Step

\* No step puts an instance ahead of the database.
LEMMA AheadStep ==
  ASSUME TypeOK, NothingIsAhead, NEW i \in Instances, Step(i)
  PROVE  NothingIsAhead'
<1> SUFFICES ASSUME ~restarted', NEW j \in Instances,
                    NEW r \in {known'[j], polled'[j], signature'[j], got'[j]} \ {None}
             PROVE  r <= revision'
  BY DEF NothingIsAhead
<1>1. /\ known[j] \in Nat \cup {None} /\ polled[j] \in Nat \cup {None}
      /\ signature[j] \in Nat \cup {None} /\ got[j] \in Nat /\ revision \in Nat
  BY DEF TypeOK, Revisions
<1>2. CASE Committing(i)
  <2>1. ~restarted /\ revision' \in Nat /\ revision < revision'
    BY <1>2, CommitRaises
  <2>2. r \in {known[j], polled[j], signature[j], got[j], 0, revision'}
    BY <1>2 DEF Committing, Committed, load, TypeOK
  <2>3. r \in {known[j], polled[j], signature[j], got[j]} => r <= revision
    BY <2>1 DEF NothingIsAhead
  <2>4. r \in Nat
    BY <1>1, <2>1, <2>2
  <2>5. QED
    BY <1>1, <2>1, <2>2, <2>3, <2>4
<1>3. CASE ~Committing(i)
  <2>1. UNCHANGED <<rows, revision, restarted>>
    BY <1>3, DatabaseChanges
  <2>2. r \in {known[j], polled[j], signature[j], got[j], 0, revision}
    BY <1>3, <2>1, KnownComesFrom
  <2>3. r \in {known[j], polled[j], signature[j], got[j]} => r <= revision
    BY <2>1 DEF NothingIsAhead
  <2>4. QED
    BY <1>1, <2>1, <2>2, <2>3
<1>4. QED
  BY <1>2, <1>3

\* A load that has passed the last table has read every table.
LEMMA LastTable ==
  ASSUME TypeOK, NEW i \in Instances, Read(i), ~exposed[i], Loaded(i)
  PROVE  Loaded(i)'
<1> DEFINE t == Selections[step[i] + 1]
<1>1. /\ step[i] \in 0..(Len(Selections) - 1)
      /\ t \in Tables
      /\ Len(Selections) \in Nat
  BY OrderType, StoreAssumption DEF TypeOK
<1>2. /\ pc[i] = "reading" /\ UNCHANGED rows
      /\ read' = [read EXCEPT ![i][t] = rows[t]]
  BY DEF Read, Advance, database
<1>3. \A n \in 1..(step[i] + 1) : read'[i][Selections[n]] = rows[Selections[n]]
  <2> SUFFICES ASSUME NEW n \in 1..(step[i] + 1)
               PROVE  read'[i][Selections[n]] = rows[Selections[n]]
    OBVIOUS
  <2>1. /\ read \in [Instances -> Snapshot] /\ read[i] \in [Tables -> SUBSET Row]
        /\ Selections[n] \in Tables
    <3>1. n - 1 \in 0..(Len(Selections) - 1) /\ (n - 1) + 1 = n
      BY <1>1
    <3>2. Selections[n] \in Tables
      BY <3>1, OrderType
    <3>3. QED
      BY <3>2 DEF TypeOK, Snapshot
  <2>2. CASE Selections[n] = t
    BY <1>1, <1>2, <2>1, <2>2
  <2>3. CASE Selections[n] # t
    <3>1. n \in 1..step[i]
      BY <1>1, <2>3
    <3>2. read[i][Selections[n]] = rows[Selections[n]]
      BY <1>2, <3>1 DEF Loaded
    <3>3. QED
      BY <1>1, <1>2, <2>1, <2>3, <3>2
  <2>4. QED
    BY <2>2, <2>3
<1>4. CASE step[i] + 1 = Len(Selections)
  <2>1. pc'[i] = "selecting"
    BY <1>4 DEF Read, Advance, TypeOK
  <2>2. \A u \in Tables : read'[i][u] = rows[u]
    BY <1>3, <1>4 DEF Tables
  <2>3. rows \in [Tables -> SUBSET Row] /\ read'[i] \in [Tables -> SUBSET Row]
    BY LoadType DEF TypeOK, Snapshot
  <2>4. read'[i] = rows
    BY <2>2, <2>3
  <2>5. QED
    BY <1>2, <2>1, <2>4 DEF Loaded
<1>5. CASE step[i] + 1 # Len(Selections)
  <2>1. pc'[i] = "reading" /\ step'[i] = step[i] + 1
    BY <1>2, <1>5 DEF Read, Advance, TypeOK
  <2>2. QED
    BY <1>2, <1>3, <2>1 DEF Loaded
<1>6. QED
  BY <1>4, <1>5

\* No step leaves a load stale that nobody has committed beside.
LEMMA FreshStep ==
  ASSUME TypeOK, LoadsAreFresh, NEW i \in Instances, Step(i)
  PROVE  LoadsAreFresh'
<1> SUFFICES ASSUME NEW j \in Instances, ~exposed'[j]
             PROVE  Loaded(j)'
  BY DEF LoadsAreFresh
<1>1. CASE Committing(i)
  <2>1. exposed'[j] = (j # i /\ (exposed[j] \/ pc[j] \notin Idle))
    BY <1>1, Zenon DEF Committing, Committed
  <2>2. PICK to \in {"refreshing", "recording", "ready"} : Go(i, "committing", to)
    BY <1>1 DEF Committing
  <2>3. pc'[j] \in {"refreshing", "recording"} \cup Idle
    BY <2>1, <2>2 DEF Go, TypeOK, Idle
  <2>4. QED
    BY <2>3 DEF Loaded, Idle
<1>2. CASE ~Committing(i) /\ j # i
  <2>1. UNCHANGED rows
    BY <1>2, DatabaseChanges
  <2>2. pc'[j] = pc[j] /\ step'[j] = step[j]
    BY <1>2 DEF Step, TypeOK, Save, Wait, Delete, Insert, Commit, Break, Rollback,
                Record, Look, Read, ReadRevision, Note, Install, Reject, Lose,
                Crash, Abandon, Stop, Start, Refresh, Select, Keep, Go, Advance
  <2>3. CASE Commit(i) \/ Break(i)
    <3>1. Rollback(i)
      BY <1>2, <2>3 DEF Commit, Break, Committing, Committed, Go
    <3>2. read'[j] = read[j] /\ exposed'[j] = exposed[j]
      BY <1>2, <3>1 DEF Rollback, TypeOK, load
    <3>3. QED
      BY <2>1, <2>2, <3>2 DEF LoadsAreFresh, Loaded
  <2>4. CASE ~Commit(i) /\ ~Break(i)
    <3>1. read'[j] = read[j] /\ exposed'[j] = exposed[j]
      BY <1>2, <2>4
      DEF Step, TypeOK, Save, Wait, Delete, Insert, Rollback, Record, Look, Read,
          ReadRevision, Note, Install, Reject, Lose, Crash, Abandon, Stop, Start,
          Refresh, Select, Keep, Begin, load
    <3>2. QED
      BY <2>1, <2>2, <3>1 DEF LoadsAreFresh, Loaded
  <2>5. QED
    BY <2>3, <2>4
<1>3. CASE ~Committing(i) /\ j = i
  <2>1. UNCHANGED rows
    BY <1>3, DatabaseChanges
  <2>2. ASSUME pc'[i] \in {"down", "ready", "deleting", "inserting", "committing",
                           "recording", "refreshing"}
        PROVE  Loaded(j)'
    BY <1>3, <2>2 DEF Loaded
  <2>3. CASE Save(i) \/ Wait(i) \/ Start(i)
    BY <2>2, <2>3 DEF Save, Wait, Start, Go, TypeOK
  <2>4. CASE Delete(i) \/ Insert(i)
    BY <2>2, <2>4 DEF Delete, Insert, Advance, TypeOK
  <2>5. CASE Rollback(i) \/ Commit(i) \/ Break(i)
    BY <2>2, <2>5 DEF Rollback, Commit, Break, Go, TypeOK
  <2>6. CASE Reject(i) \/ Lose(i) \/ Crash(i) \/ Install(i)
    BY <2>2, <2>6 DEF Reject, Lose, Crash, Abandon, Stop, Install, Go, TypeOK
  <2>7. CASE Record(i) \/ Look(i) \/ Refresh(i)
    <3>1. pc'[i] = "reading" /\ step'[i] = 0
      BY <2>7 DEF Record, Look, Refresh, Go, TypeOK
    <3>2. QED
      BY <1>3, <3>1 DEF Loaded
  <2>8. CASE Read(i)
    <3>1. ~exposed[i]
      BY <1>3, <2>8 DEF Read
    <3>2. QED
      BY <1>3, <2>8, <3>1, LastTable DEF LoadsAreFresh
  <2>9. CASE ReadRevision(i) \/ Note(i)
    <3>1. /\ pc[i] \in {"selecting", "noting"}
          /\ pc'[i] \in {"noting", "installing"}
          /\ read'[i] = read[i] /\ exposed'[i] = exposed[i]
      BY <2>9 DEF ReadRevision, Note, Go, TypeOK, load
    <3>2. read[i] = rows
      BY <1>3, <3>1 DEF LoadsAreFresh, Loaded
    <3>3. QED
      BY <1>3, <2>1, <3>1, <3>2 DEF Loaded
  <2>10. CASE Select(i) \/ Keep(i)
    BY <1>3, <2>1, <2>10 DEF Select, Keep, LoadsAreFresh, Loaded, load
  <2>11. QED
    BY <2>3, <2>4, <2>5, <2>6, <2>7, <2>8, <2>9, <2>10 DEF Step
<1>4. QED
  BY <1>1, <1>2, <1>3

\* What an instance serves, and the signature it keeps of it, change together,
\* when a load is installed or with a crash.
LEMMA ServingChanges ==
  ASSUME TypeOK, NEW i \in Instances, Step(i), NEW j \in Instances
  PROVE  \/ Install(i) /\ j = i
         \/ signature'[j] = None
         \/ /\ signature'[j] = signature[j] /\ serving'[j] = serving[j]
            /\ torn'[j] = torn[j]
<1> USE DEF TypeOK, load
<1>1. CASE Save(i) \/ Wait(i) \/ Delete(i) \/ Insert(i) \/ Rollback(i) \/ Start(i)
  BY <1>1 DEF Save, Wait, Delete, Insert, Rollback, Start
<1>2. CASE Commit(i) \/ Break(i)
  BY <1>2 DEF Commit, Break, Committed, Rollback
<1>3. CASE Record(i) \/ Look(i) \/ Read(i) \/ ReadRevision(i) \/ Note(i)
  BY <1>3 DEF Record, Look, Read, ReadRevision, Note
<1>4. CASE Refresh(i) \/ Select(i) \/ Keep(i)
  BY <1>4 DEF Refresh, Select, Keep
<1>5. CASE Reject(i) \/ Lose(i) \/ Crash(i)
  BY <1>5 DEF Reject, Lose, Crash, Abandon, Stop
<1>6. CASE Install(i)
  BY <1>6 DEF Install
<1>7. QED
  BY <1>1, <1>2, <1>3, <1>4, <1>5, <1>6 DEF Step

\* No step makes a signature dishonest.
LEMMA HonestStep ==
  ASSUME IInv, NEW i \in Instances, Step(i)
  PROVE  SignatureIsHonest'
<1> USE DEF IInv
<1> SUFFICES ASSUME NEW j \in Instances, ~torn'[j], ~restarted',
                    signature'[j] = revision'
             PROVE  serving'[j] = rows'
  BY DEF SignatureIsHonest
<1>0. /\ revision \in Nat /\ None \notin Nat
      /\ signature[j] \in Nat \cup {None}
  BY StoreAssumption DEF TypeOK, Revisions
<1>1. CASE Committing(i)
  <2>1. ~restarted /\ revision' \in Nat /\ revision < revision'
    BY <1>1, CommitRaises
  <2>2. signature'[j] = signature[j]
    BY <1>1 DEF Committing, Committed, load
  <2>3. signature[j] # None => signature[j] <= revision
    BY <2>1 DEF NothingIsAhead
  <2>4. QED
    BY <1>0, <2>1, <2>2, <2>3
<1>2. CASE ~Committing(i)
  <2>1. UNCHANGED <<rows, revision, restarted>>
    BY <1>2, DatabaseChanges
  <2>2. CASE Install(i) /\ j = i
    <3>1. serving'[i] = read[i] /\ torn'[i] = exposed[i] /\ pc[i] = "installing"
      BY <2>2 DEF Install, Go, TypeOK
    <3>2. read[i] = rows
      BY <2>2, <3>1 DEF LoadsAreFresh, Loaded
    <3>3. QED
      BY <2>1, <2>2, <3>1, <3>2
  <2>3. CASE signature'[j] = None
    BY <1>0, <2>1, <2>3
  <2>4. CASE /\ signature'[j] = signature[j] /\ serving'[j] = serving[j]
             /\ torn'[j] = torn[j]
    BY <2>1, <2>4 DEF SignatureIsHonest
  <2>5. QED
    BY <2>2, <2>3, <2>4, ServingChanges
<1>3. QED
  BY <1>1, <1>2

\* The invariant holds at first: no process runs.
LEMMA InvariantInit == Init => IInv
<1> SUFFICES ASSUME Init
             PROVE  IInv
  OBVIOUS
<1>1. TypeOK
  BY TypeInit
<1>2. NothingIsAhead
  BY DEF Init, Each, NothingIsAhead
<1>3. LoadsAreFresh
  BY DEF Init, Each, LoadsAreFresh, Loaded
<1>4. SignatureIsHonest
  BY StoreAssumption DEF Init, Each, SignatureIsHonest
<1>5. QED
  BY <1>1, <1>2, <1>3, <1>4 DEF IInv

\* The invariant is inductive.
LEMMA InvariantStep ==
  ASSUME IInv, [Next]_vars
  PROVE  IInv'
<1>1. TypeOK'
  BY TypeStep DEF IInv
<1>2. CASE \E i \in Instances : Step(i)
  BY <1>1, <1>2, AheadStep, FreshStep, HonestStep DEF IInv
<1>3. CASE UNCHANGED vars
  BY <1>1, <1>3
  DEF vars, database, load, IInv, NothingIsAhead, LoadsAreFresh, Loaded,
      SignatureIsHonest
<1>4. QED
  BY <1>2, <1>3, Steps

\* Unless a start has overwritten a database in use, no instance knows, has polled
\* or has installed a revision that was not committed.
THEOREM NeverAhead == Spec => []NothingIsAhead
<1>1. IInv => NothingIsAhead
  BY DEF IInv
<1>2. QED
  BY <1>1, InvariantInit, InvariantStep, PTL DEF Spec

\* An instance whose signature is the stored revision serves the stored document,
\* unless its load was torn or a start has overwritten the tables.
THEOREM SignatureHonest == Spec => []SignatureIsHonest
<1>1. IInv => SignatureIsHonest
  BY DEF IInv
<1>2. QED
  BY <1>1, InvariantInit, InvariantStep, PTL DEF Spec

-----------------------------------------------------------------------------
(* Whole saves.  A commit leaves the rows that its transaction did not      *)
(* delete.  There are none, if the tables hold one document: what another   *)
(* transaction leaves whole, it has deleted completely, and so this one has *)
(* deleted nothing in the first table, or would have had to wait.           *)

InFlight(i) == pc[i] \in {"deleting", "inserting", "committing"}

First == Deletions[1]

\* The table of the current DELETE.
Current(i) == Deletions[step[i] + 1]

PastFirst(i) == InFlight(i) /\ (pc[i] = "deleting" => step[i] > 0)

IsEmptied(i, t) ==
  \/ pc[i] = "deleting" /\ \E n \in 1..step[i] : t = Deletions[n]
  \/ pc[i] \in {"inserting", "committing"}

\* What a transaction has deleted is committed and nobody else's to delete.
Locks(i) ==
  /\ ~InFlight(i) => gone[i] = Nothing
  /\ pc[i] # "deleting" => found[i] = None
  /\ found[i] # None => found[i] \subseteq rows[Current(i)]
  /\ \A t \in Tables : gone[i][t] \subseteq rows[t]

GoneApart ==
  \A i, j \in Instances : i # j => \A t \in Tables : gone[i][t] \cap gone[j][t] = {}

LocksInv == (\A i \in Instances : Locks(i)) /\ GoneApart

\* What a transaction has inserted is of its document, and no key of it is one of
\* a row that it did not delete.
Inserts(i) ==
  /\ pc[i] \notin {"inserting", "committing"} => mine[i] = Nothing
  /\ pc[i] = "inserting" =>
       \A n \in 1..step[i] : mine[i][Selections[n]] = Written(i)[Selections[n]]
  /\ pc[i] = "committing" => mine[i] = Written(i)
  /\ \A t \in Tables : \A m \in mine[i][t], r \in rows[t] \ gone[i][t] : r[1] # m[1]

MineApart ==
  \A i, j \in Instances : i # j =>
    \A t \in Tables : \A m \in mine[i][t], n \in mine[j][t] : m[1] # n[1]

InsertsInv == (\A i \in Instances : Inserts(i)) /\ MineApart

\* A row with the number of a transaction has a key of its document: numbers are
\* given to one save each, and starts all write the same document.
RowNumbers ==
  \A t \in Tables : \A r \in rows[t] :
    /\ r[2] <= saves
    /\ r[2] = 0 => r[1] \in Bootstrap[t]
    /\ \A i \in Instances : InFlight(i) /\ number[i] = r[2] => r[1] \in doc[i][t]

Numbered(i) ==
  InFlight(i) =>
    /\ number[i] <= saves
    /\ doc[i] \in Documents \cup {Bootstrap}
    /\ number[i] = 0 => doc[i] = Bootstrap

NumbersApart ==
  \A i, j \in Instances :
    i # j /\ InFlight(i) /\ InFlight(j) /\ number[i] = number[j] => number[i] = 0

NumbersInv == RowNumbers /\ (\A i \in Instances : Numbered(i)) /\ NumbersApart

Bare(i) == PastFirst(i) /\ ~bare[i] => gone[i][First] # {}

BareInv == \A i \in Instances : Bare(i)

\* While the tables hold one document, a transaction has deleted all of what it
\* has emptied, unless another has committed before it held a row.
FindsAllOrNothing(i) ==
  pc[i] = "deleting" /\ step[i] = 0 /\ found[i] # None =>
    found[i] = {} \/ rows[First] \subseteq found[i]

Covers(i) ==
  InFlight(i) /\ (~exposed[i] \/ (PastFirst(i) /\ ~bare[i])) =>
    /\ \A t \in Tables : IsEmptied(i, t) => rows[t] \subseteq gone[i][t]
    /\ found[i] # None => rows[Current(i)] \subseteq found[i]

CoverInv == ~Mixed => \A i \in Instances : FindsAllOrNothing(i) /\ Covers(i)

WInv == TypeOK /\ LocksInv /\ InsertsInv /\ NumbersInv /\ BareInv /\ CoverInv

\* What an instance's transaction is, as a step of another leaves it.
Stays(j) ==
  /\ pc'[j] = pc[j] /\ step'[j] = step[j]
  /\ doc'[j] = doc[j] /\ number'[j] = number[j]
  /\ gone'[j] = gone[j] /\ mine'[j] = mine[j] /\ bare'[j] = bare[j]

\* The steps by which a transaction begins, ends or stays as it is.
Begins(i) ==
  /\ pc[i] \in Idle /\ pc'[i] = "deleting" /\ step'[i] = 0
  /\ UNCHANGED <<rows, found, gone, mine>>
  /\ bare'[i] = FALSE
  /\ \/ number'[i] = saves + 1 /\ saves' = saves + 1 /\ doc'[i] \in Documents
     \/ number'[i] = 0 /\ saves' = saves /\ doc'[i] = Bootstrap

Ends(i) ==
  /\ pc'[i] \in Idle
  /\ UNCHANGED <<rows, saves>>
  /\ End(i)

Continues(i) ==
  /\ UNCHANGED <<rows, saves, found, gone, mine>>
  /\ \/ Stays(i) /\ exposed'[i] = exposed[i]
     \/ ~InFlight(i) /\ pc'[i] \notin {"deleting", "inserting", "committing"}

\* A step of one instance leaves the transactions of the others as they are,
\* except that a commit is noticed.
LEMMA OthersStay ==
  ASSUME TypeOK, NEW i \in Instances, Step(i), NEW j \in Instances, j # i
  PROVE  /\ Stays(j)
         /\ ~Committing(i) => found'[j] = found[j] /\ exposed'[j] = exposed[j]
<1> USE DEF Stays, TypeOK, transaction, load
<1>1. CASE Save(i) \/ Wait(i) \/ Delete(i) \/ Insert(i) \/ Start(i)
  BY <1>1 DEF Save, Wait, Delete, Insert, Start, Begin, Go, Advance
<1>2. CASE Rollback(i)
  BY <1>2 DEF Rollback, End, Forget, Go
<1>3. CASE Record(i) \/ Look(i) \/ Read(i) \/ ReadRevision(i) \/ Note(i) \/ Install(i)
  BY <1>3 DEF Record, Look, Read, ReadRevision, Note, Install, Go, Advance
<1>4. CASE Refresh(i) \/ Select(i) \/ Keep(i)
  BY <1>4 DEF Refresh, Select, Keep, Go
<1>5. CASE Reject(i) \/ Lose(i) \/ Crash(i)
  BY <1>5 DEF Reject, Lose, Crash, Abandon, Stop, End, Forget, Go
<1>6. CASE Committing(i)
  <2>1. PICK to \in {"refreshing", "recording", "ready"} : Go(i, "committing", to)
    BY <1>6 DEF Committing
  <2>2. QED
    BY <1>6, <2>1 DEF Committing, Committed, Leave, Forget, Go
<1>7. CASE Commit(i) \/ Break(i)
  <2>1. Committing(i) \/ Rollback(i)
    BY <1>7 DEF Commit, Break, Committing, Committed, Go
  <2>2. QED
    BY <1>2, <1>6, <2>1
<1>8. QED
  BY <1>1, <1>2, <1>3, <1>4, <1>5, <1>7 DEF Step

\* Every step is of one of these kinds.
LEMMA Kinds ==
  ASSUME TypeOK, NEW i \in Instances, Step(i)
  PROVE  \/ Committing(i) \/ Wait(i) \/ Delete(i) \/ Insert(i)
         \/ Begins(i) \/ Ends(i) \/ Continues(i)
<1> USE DEF TypeOK
<1>1. CASE Save(i)
  <2>1. pc[i] \in Idle /\ pc'[i] = "deleting" /\ step'[i] = 0
    BY <1>1 DEF Save, Go, Idle
  <2>2. PICK d \in Documents : Begin(i, d, saves')
    BY <1>1 DEF Save
  <2>3. QED
    BY <1>1, <2>1, <2>2 DEF Save, Begin, Begins, database
<1>2. CASE Start(i)
  <2>1. pc[i] = "down" /\ pc'[i] \in {"deleting", "refreshing"} /\ step'[i] = 0
    BY <1>2 DEF Start, Go
  <2>2. /\ doc'[i] = Bootstrap /\ number'[i] = 0 /\ bare'[i] = FALSE
        /\ UNCHANGED <<rows, saves, found, gone, mine>>
    BY <1>2 DEF Start, Begin, database, bounds
  <2>3. CASE pc'[i] = "deleting"
    BY <2>1, <2>2, <2>3 DEF Begins, Idle
  <2>4. CASE pc'[i] = "refreshing"
    BY <2>1, <2>2, <2>4 DEF Continues, InFlight
  <2>5. QED
    BY <2>1, <2>3, <2>4
<1>3. CASE Rollback(i)
  BY <1>3 DEF Rollback, Go, Ends, Idle, database, bounds
<1>4. CASE Record(i) \/ Look(i) \/ ReadRevision(i) \/ Note(i) \/ Install(i) \/ Refresh(i)
  BY <1>4 DEF Record, Look, ReadRevision, Note, Install, Refresh, Go, Continues,
              InFlight, database, transaction, bounds
<1>5. CASE Read(i)
  BY <1>5 DEF Read, Advance, Continues, InFlight, database, transaction, bounds
<1>6. CASE Select(i) \/ Keep(i)
  BY <1>6 DEF Select, Keep, Continues, Stays, database, transaction, bounds
<1>7. CASE Reject(i) \/ Lose(i)
  <2>1. pc[i] \in {"noting", "reading", "selecting"} /\ Abandon(i) /\ UNCHANGED saves
    BY <1>7 DEF Reject, Lose, bounds
  <2>2. CASE Stop(i)
    BY <2>1, <2>2 DEF Stop, Go, Ends, Idle, database
  <2>3. CASE ~Stop(i)
    BY <2>1, <2>3 DEF Abandon, Go, Continues, InFlight, database, transaction
  <2>4. QED
    BY <2>2, <2>3
<1>8. CASE Crash(i)
  BY <1>8 DEF Crash, Stop, Go, Ends, Idle, database
<1>9. CASE Commit(i) \/ Break(i)
  <2>1. Committing(i) \/ Rollback(i)
    BY <1>9 DEF Commit, Break, Committing, Committed, Go
  <2>2. QED
    BY <1>3, <2>1
<1>10. QED
  BY <1>1, <1>2, <1>3, <1>4, <1>5, <1>6, <1>7, <1>8, <1>9 DEF Step

\* A commit ends the transaction and leaves its rows to the others.
LEMMA Commits ==
  ASSUME TypeOK, NEW i \in Instances, Committing(i)
  PROVE  /\ pc[i] = "committing" /\ ~InFlight(i)' /\ UNCHANGED saves
         /\ gone'[i] = Nothing /\ mine'[i] = Nothing /\ found'[i] = None
         /\ \A t \in Tables : rows'[t] = (rows[t] \ gone[i][t]) \cup mine[i][t]
         /\ \A j \in Instances \ {i} : found'[j] =
              IF found[j] = None THEN None ELSE found[j] \ gone[i][Current(j)]
         /\ \A j \in Instances \ {i} : InFlight(j) => exposed'[j]
<1>1. /\ Committed(i) /\ pc[i] = "committing" /\ Leave(i) /\ Forget(i)
      /\ UNCHANGED saves
  BY DEF Committing, Committed, Leave, bounds
<1>2. ~InFlight(i)'
  BY DEF Committing, Go, InFlight, TypeOK
<1>3. gone'[i] = Nothing /\ mine'[i] = Nothing /\ found'[i] = None
  BY <1>1 DEF Forget, Leave, TypeOK
<1>4. \A t \in Tables : rows'[t] = (rows[t] \ gone[i][t]) \cup mine[i][t]
  BY <1>1 DEF Committed
<1>5. \A j \in Instances \ {i} : found'[j] =
              IF found[j] = None THEN None ELSE found[j] \ gone[i][Current(j)]
  BY <1>1 DEF Leave, Current
<1>6. \A j \in Instances \ {i} : InFlight(j) => exposed'[j]
  BY <1>1, Zenon DEF Committed, InFlight, Idle
<1>7. QED
  BY <1>1, <1>2, <1>3, <1>4, <1>5, <1>6

\* A DELETE adds to what its transaction has deleted, and to nothing else.
LEMMA Deletes ==
  ASSUME TypeOK, NEW i \in Instances, Delete(i)
  PROVE  /\ pc[i] = "deleting" /\ InFlight(i) /\ InFlight(i)' /\ PastFirst(i)'
         /\ UNCHANGED <<rows, saves, doc, number, mine, exposed>>
         /\ found'[i] = None
         /\ \A t \in Tables : gone'[i][t] = gone[i][t] \cup Found(i)[t]
         /\ \A t \in Tables : Found(i)[t] \subseteq rows[t]
         /\ \A j \in Instances \ {i}, t \in Tables : gone[j][t] \cap Found(i)[t] = {}
         /\ bare'[i] <=> bare[i] \/ (step[i] = 0 /\ Found(i)[First] = {})
         /\ \/ pc'[i] = "deleting" /\ step'[i] = step[i] + 1
            \/ pc'[i] = "inserting" /\ step[i] + 1 = Len(Deletions)
<1>1. pc[i] = "deleting" /\ Blockers(i) = {}
  BY DEF Delete, Advance
<1>2. step[i] \in Nat
  BY DEF TypeOK
<1>3. \/ pc'[i] = "deleting" /\ step'[i] = step[i] + 1
      \/ pc'[i] = "inserting" /\ step[i] + 1 = Len(Deletions)
  BY <1>1 DEF Delete, Advance, TypeOK
<1>4. /\ UNCHANGED <<rows, saves, doc, number, mine, exposed>>
      /\ found'[i] = None
      /\ \A t \in Tables : gone'[i][t] = gone[i][t] \cup Found(i)[t]
  BY DEF Delete, TypeOK, database, bounds
<1>5. bare'[i] <=> bare[i] \/ (step[i] = 0 /\ Found(i)[First] = {})
  BY Zenon DEF Delete, TypeOK, First
<1>6. \A t \in Tables : Found(i)[t] \subseteq rows[t]
  <2>1. \A t \in Tables : Found(i)[t] =
          IF t = Current(i)
          THEN IF found[i] = None THEN rows[t] ELSE found[i] \cap rows[t]
          ELSE {r \in rows[t] :
                 <<t, Current(i)>> \in References
                 /\ \E s \in (IF found[i] = None THEN rows[Current(i)]
                              ELSE found[i] \cap rows[Current(i)]) : s[1] = r[1]}
    BY DEF Found, Current
  <2>2. QED
    BY <2>1
<1>7. \A j \in Instances \ {i}, t \in Tables : gone[j][t] \cap Found(i)[t] = {}
  BY <1>1 DEF Blockers
<1>8. QED
  BY <1>1, <1>2, <1>3, <1>4, <1>5, <1>6, <1>7 DEF InFlight, PastFirst

\* What the current DELETE finds in its own table.
LEMMA FoundHere ==
  ASSUME TypeOK, NEW i \in Instances
  PROVE  /\ Current(i) \in Tables
         /\ Found(i)[Current(i)] =
              IF found[i] = None THEN rows[Current(i)] ELSE found[i] \cap rows[Current(i)]
<1>1. Current(i) \in Tables
  BY OrderType DEF TypeOK, Current
<1>2. QED
  BY <1>1 DEF Found, Current

\* An INSERT adds the rows of one table, whose keys are nobody's.
LEMMA Fills ==
  ASSUME TypeOK, NEW i \in Instances, Insert(i)
  PROVE  LET u == Selections[step[i] + 1] IN
         /\ pc[i] = "inserting" /\ InFlight(i) /\ InFlight(i)'
         /\ UNCHANGED <<rows, saves, doc, number, found, gone, bare, exposed>>
         /\ u \in Tables
         /\ \A t \in Tables :
              mine'[i][t] = IF t = u THEN doc[i][u] \X {number[i]} ELSE mine[i][t]
         /\ \A r \in rows[u] \ gone[i][u] : r[1] \notin doc[i][u]
         /\ \A j \in Instances \ {i} :
              \A r \in gone[j][u] \cup mine[j][u] : r[1] \notin doc[i][u]
         /\ \/ pc'[i] = "inserting" /\ step'[i] = step[i] + 1
            \/ pc'[i] = "committing" /\ step[i] + 1 = Len(Selections)
<1> DEFINE u == Selections[step[i] + 1]
<1>1. pc[i] = "inserting" /\ Blockers(i) = {} /\ ~Clash(i)
  BY DEF Insert, Advance
<1>2. u \in Tables
  BY OrderType DEF TypeOK
<1>3. \/ pc'[i] = "inserting" /\ step'[i] = step[i] + 1
      \/ pc'[i] = "committing" /\ step[i] + 1 = Len(Selections)
  BY <1>1 DEF Insert, Advance, TypeOK
<1>4. \A t \in Tables :
        mine'[i][t] = IF t = u THEN doc[i][u] \X {number[i]} ELSE mine[i][t]
  BY <1>2 DEF Insert, Written, TypeOK, Snapshot
<1>5. \A r \in rows[u] \ gone[i][u] : r[1] \notin doc[i][u]
  BY <1>1 DEF Clash
<1>6. \A j \in Instances \ {i} :
        \A r \in gone[j][u] \cup mine[j][u] : r[1] \notin doc[i][u]
  BY <1>1 DEF Blockers
<1>7. UNCHANGED <<rows, saves, doc, number, found, gone, bare, exposed>>
  BY DEF Insert, database, bounds
<1>8. QED
  BY <1>1, <1>2, <1>3, <1>4, <1>5, <1>6, <1>7 DEF InFlight

\* A transaction that ends has done nothing.
LEMMA EndsEmpty ==
  ASSUME TypeOK, NEW i \in Instances, Ends(i)
  PROVE  /\ ~InFlight(i)' /\ UNCHANGED <<rows, saves>>
         /\ gone'[i] = Nothing /\ mine'[i] = Nothing /\ found'[i] = None
BY DEF Ends, End, Forget, Idle, InFlight, TypeOK

-----------------------------------------------------------------------------
(* The parts of the invariant, one after the other.                         *)

\* Nobody deletes or changes what a transaction has deleted before it ends.
LEMMA LocksStep ==
  ASSUME TypeOK, LocksInv, NEW i \in Instances, Step(i)
  PROVE  LocksInv'
<1>1. \A j \in Instances \ {i} : Stays(j)
  BY OthersStay
<1>2. \A j \in Instances \ {i} :
        ~Committing(i) => found'[j] = found[j] /\ exposed'[j] = exposed[j]
  BY OthersStay
<1>3. \A j \in Instances : Current(j) \in Tables
  BY FoundHere
<1>4. \A j \in Instances \ {i} : Current(j)' = Current(j)
  BY <1>1 DEF Stays, Current
<1>5. ASSUME NEW j \in Instances, j # i
      PROVE  Locks(j)'
  <2>1. /\ (InFlight(j)' <=> InFlight(j)) /\ pc'[j] = pc[j] /\ gone'[j] = gone[j]
        /\ Current(j)' = Current(j)
    BY <1>1, <1>4, <1>5 DEF Stays, InFlight
  <2>2. Locks(j)
    BY DEF LocksInv
  <2>3. CASE Committing(i)
    <3>1. /\ \A t \in Tables : rows'[t] = (rows[t] \ gone[i][t]) \cup mine[i][t]
          /\ found'[j] = IF found[j] = None THEN None
                         ELSE found[j] \ gone[i][Current(j)]
      BY <1>5, <2>3, Commits
    <3>2. \A t \in Tables : gone'[j][t] \subseteq rows'[t]
      BY <1>5, <2>1, <2>2, <3>1 DEF Locks, LocksInv, GoneApart
    <3>3. found'[j] # None => found'[j] \subseteq rows'[Current(j)]
      BY <1>3, <2>2, <3>1 DEF Locks
    <3>4. QED
      BY <2>1, <2>2, <3>1, <3>2, <3>3 DEF Locks
  <2>4. CASE ~Committing(i)
    <3>1. UNCHANGED rows /\ found'[j] = found[j]
      BY <1>2, <1>5, <2>4, DatabaseChanges
    <3>2. QED
      BY <2>1, <2>2, <3>1 DEF Locks
  <2>5. QED
    BY <2>3, <2>4
<1>6. \/ gone'[i] = Nothing
      \/ gone'[i] = gone[i]
      \/ Delete(i)
  BY Kinds, Commits, EndsEmpty, Fills DEF Wait, Begins, Continues
<1>7. GoneApart'
  <2> SUFFICES ASSUME NEW j \in Instances, j # i, NEW t \in Tables
               PROVE  gone'[i][t] \cap gone'[j][t] = {}
    <3>1. \A j, k \in Instances : j # i /\ k # i => gone'[j] = gone[j] /\ gone'[k] = gone[k]
      BY <1>1 DEF Stays
    <3>2. QED
      BY <3>1 DEF GoneApart, LocksInv
  <2>1. gone'[j] = gone[j] /\ gone[i][t] \cap gone[j][t] = {}
    BY <1>1 DEF Stays, LocksInv, GoneApart
  <2>2. CASE Delete(i)
    BY <2>1, <2>2, Deletes
  <2>3. QED
    BY <1>6, <2>1, <2>2 DEF Nothing
<1>8. Locks(i)'
  <2>1. Locks(i)
    BY DEF LocksInv
  <2>2. CASE Committing(i)
    BY <2>2, Commits DEF Locks, Nothing, InFlight
  <2>3. CASE Ends(i)
    BY <2>3, EndsEmpty DEF Locks, Nothing, InFlight
  <2>4. CASE Wait(i)
    <3>1. /\ pc[i] = "deleting" /\ pc' = pc /\ step' = step /\ rows' = rows
          /\ gone' = gone /\ found'[i] = rows[Current(i)]
      BY <2>4 DEF Wait, Current, TypeOK, database
    <3>2. QED
      BY <2>1, <3>1 DEF Locks, InFlight, Current
  <2>5. CASE Delete(i)
    <3>1. \A t \in Tables : gone'[i][t] \subseteq rows'[t]
      BY <2>1, <2>5, Deletes DEF Locks
    <3>2. QED
      BY <2>5, <3>1, Deletes DEF Locks
  <2>6. CASE Insert(i)
    BY <2>1, <2>6, Fills DEF Locks, InFlight
  <2>7. CASE Begins(i)
    BY <2>1, <2>7 DEF Locks, Begins, InFlight, Idle, Nothing
  <2>8. CASE Continues(i)
    <3>1. UNCHANGED <<rows, found, gone>>
      BY <2>8 DEF Continues
    <3>2. CASE Stays(i)
      BY <2>1, <3>1, <3>2 DEF Stays, Locks, InFlight, Current
    <3>3. CASE ~InFlight(i) /\ ~InFlight(i)'
      BY <2>1, <3>1, <3>3 DEF Locks, InFlight
    <3>4. QED
      BY <2>8, <3>2, <3>3 DEF Continues, InFlight
  <2>9. QED
    BY <2>2, <2>3, <2>4, <2>5, <2>6, <2>7, <2>8, Kinds
<1>9. QED
  BY <1>5, <1>7, <1>8 DEF LocksInv

\* What an INSERT has done is of its document.
LEMMA FillsInOrder ==
  ASSUME TypeOK, NEW i \in Instances, Inserts(i), Insert(i)
  PROVE  /\ pc'[i] = "inserting" =>
              \A n \in 1..step'[i] : mine'[i][Selections[n]] = Written(i)'[Selections[n]]
         /\ pc'[i] = "committing" => mine'[i] = Written(i)'
<1> DEFINE u == Selections[step[i] + 1]
<1>0. /\ pc[i] = "inserting" /\ u \in Tables
      /\ \A t \in Tables :
           mine'[i][t] = IF t = u THEN doc[i][u] \X {number[i]} ELSE mine[i][t]
  BY Fills
<1>1. step[i] \in 0..(Len(Selections) - 1) /\ Len(Selections) \in Nat
  BY StoreAssumption DEF TypeOK
<1>2. /\ \A t \in Tables : Written(i)'[t] = doc[i][t] \X {number[i]}
      /\ \A t \in Tables : Written(i)[t] = doc[i][t] \X {number[i]}
      /\ Written(i)' = [t \in Tables |-> Written(i)'[t]]
  BY Fills DEF Written
<1>3. \A n \in 1..Len(Selections) : Selections[n] \in Tables
  BY DEF Tables
<1>4. \A n \in 1..(step[i] + 1) :
        mine'[i][Selections[n]] = Written(i)'[Selections[n]]
  <2> SUFFICES ASSUME NEW n \in 1..(step[i] + 1)
               PROVE  mine'[i][Selections[n]] = Written(i)'[Selections[n]]
    OBVIOUS
  <2>1. n \in 1..Len(Selections) /\ Selections[n] \in Tables
    BY <1>1, <1>3
  <2>2. CASE Selections[n] = u
    <3>1. mine'[i][u] = doc[i][u] \X {number[i]}
      BY <1>0, Zenon
    <3>2. Written(i)'[u] = doc[i][u] \X {number[i]}
      BY <1>0, <1>2
    <3>3. QED
      BY <2>2, <3>1, <3>2, Zenon
  <2>3. CASE Selections[n] # u
    <3>1. n \in 1..step[i]
      BY <1>1, <2>3
    <3>2. mine[i][Selections[n]] = Written(i)[Selections[n]]
      BY <1>0, <3>1 DEF Inserts
    <3>3. mine'[i][Selections[n]] = mine[i][Selections[n]]
      BY <1>0, <2>1, <2>3, Zenon
    <3>4. Written(i)'[Selections[n]] = Written(i)[Selections[n]]
      <4>1. /\ Written(i)'[Selections[n]] = doc[i][Selections[n]] \X {number[i]}
            /\ Written(i)[Selections[n]] = doc[i][Selections[n]] \X {number[i]}
        BY <1>2, <2>1
      <4>2. QED
        BY <4>1, Zenon
    <3>5. QED
      BY <3>2, <3>3, <3>4, Zenon
  <2>4. QED
    BY <2>2, <2>3
<1>5. CASE pc'[i] = "committing"
  <2>1. step[i] + 1 = Len(Selections)
    BY <1>5, Fills
  <2>2. \A t \in Tables : mine'[i][t] = Written(i)'[t]
    BY <1>4, <2>1 DEF Tables
  <2>3. mine'[i] \in [Tables -> SUBSET Row]
    BY TransactionType DEF TypeOK, Snapshot
  <2>4. mine'[i] = Written(i)'
    BY <1>2, <2>2, <2>3
  <2>5. QED
    BY <1>5, <2>4
<1>6. CASE pc'[i] = "inserting"
  <2>1. step'[i] = step[i] + 1
    BY <1>6, Fills
  <2>2. QED
    BY <1>4, <1>6, <2>1
<1>7. QED
  BY <1>5, <1>6

\* Who is in no transaction has inserted nothing.
LEMMA Idles ==
  ASSUME NEW i \in Instances, ~InFlight(i)', mine'[i] = Nothing
  PROVE  Inserts(i)'
<1>1. pc'[i] \notin {"inserting", "committing"}
  BY DEF InFlight
<1>2. \A t \in Tables : mine'[i][t] = {}
  BY DEF Nothing
<1>3. Nothing' = Nothing
  BY DEF Nothing
<1>4. QED
  BY <1>1, <1>2, <1>3 DEF Inserts

\* What an insert adds is of the table it fills, and has a key that is free.
LEMMA FillsOne ==
  ASSUME TypeOK, NEW i \in Instances, Insert(i), NEW t \in Tables,
         NEW m \in mine'[i][t], m \notin mine[i][t]
  PROVE  /\ t = Selections[step[i] + 1]
         /\ m[1] \in doc[i][t]
         /\ \A r \in rows[t] \ gone[i][t] : r[1] \notin doc[i][t]
         /\ \A j \in Instances \ {i} :
              \A r \in mine[j][t] : r[1] \notin doc[i][t]
<1> DEFINE u == Selections[step[i] + 1]
<1>1. /\ mine'[i][t] = IF t = u THEN doc[i][u] \X {number[i]} ELSE mine[i][t]
      /\ \A r \in rows[u] \ gone[i][u] : r[1] \notin doc[i][u]
      /\ \A j \in Instances \ {i} :
           \A r \in gone[j][u] \cup mine[j][u] : r[1] \notin doc[i][u]
  BY Fills
<1> HIDE DEF u
<1>2. t = u /\ m \in doc[i][t] \X {number[i]}
  BY <1>1
<1>3. m[1] \in doc[i][t]
  BY <1>2
<1>4. QED
  BY <1>1, <1>2, <1>3 DEF u

\* Nobody inserts the key of a row that another transaction has inserted or keeps.
LEMMA InsertsStep ==
  ASSUME TypeOK, InsertsInv, NEW i \in Instances, Step(i)
  PROVE  InsertsInv'
<1>1. \A j \in Instances \ {i} : Stays(j)
  BY OthersStay
<1>2. ASSUME NEW j \in Instances, j # i
      PROVE  Inserts(j)'
  <2>1. /\ pc'[j] = pc[j] /\ step'[j] = step[j] /\ gone'[j] = gone[j]
        /\ mine'[j] = mine[j] /\ Written(j)' = Written(j)
    BY <1>1, <1>2 DEF Stays, Written
  <2>2. Inserts(j)
    BY DEF InsertsInv
  <2>3. \A t \in Tables : rows'[t] \subseteq rows[t] \cup mine[i][t]
    BY DatabaseChanges, Commits
  <2>4. \A t \in Tables :
          \A m \in mine'[j][t], r \in rows'[t] \ gone'[j][t] : r[1] # m[1]
    BY <1>2, <2>1, <2>2, <2>3 DEF Inserts, InsertsInv, MineApart
  <2>5. QED
    BY <2>1, <2>2, <2>4 DEF Inserts
<1>3. \/ mine'[i] = Nothing
      \/ mine'[i] = mine[i]
      \/ Insert(i)
  BY Kinds, Commits, EndsEmpty, Deletes DEF Wait, Begins, Continues
<1>4. MineApart'
  <2> SUFFICES ASSUME NEW j \in Instances, j # i, NEW t \in Tables,
                      NEW m \in mine'[i][t], NEW n \in mine'[j][t]
               PROVE  m[1] # n[1]
    <3>1. \A j, k \in Instances :
            j # i /\ k # i => mine'[j] = mine[j] /\ mine'[k] = mine[k]
      BY <1>1 DEF Stays
    <3>2. QED
      BY <3>1 DEF MineApart, InsertsInv
  <2>1. mine'[j] = mine[j]
    BY <1>1 DEF Stays
  <2>2. CASE mine'[i] = Nothing
    BY <2>2 DEF Nothing
  <2>3. CASE m \in mine[i][t]
    BY <2>1, <2>3 DEF InsertsInv, MineApart
  <2>4. CASE Insert(i) /\ m \notin mine[i][t]
    <3>1. m[1] \in doc[i][t] /\ n[1] \notin doc[i][t]
      BY <2>1, <2>4, FillsOne
    <3>2. QED
      BY <3>1
  <2>5. QED
    BY <1>3, <2>2, <2>3, <2>4
<1>5. Inserts(i)'
  <2>1. Inserts(i)
    BY DEF InsertsInv
  <2>2. CASE Committing(i)
    <3>1. ~InFlight(i)' /\ mine'[i] = Nothing
      BY <2>2, Commits
    <3>2. QED
      BY <3>1, Idles
  <2>3. CASE Ends(i)
    <3>1. ~InFlight(i)' /\ mine'[i] = Nothing
      BY <2>3, EndsEmpty
    <3>2. QED
      BY <3>1, Idles
  <2>4. CASE Wait(i)
    <3>1. /\ pc[i] = "deleting" /\ pc' = pc /\ rows' = rows /\ gone' = gone
          /\ mine' = mine
      BY <2>4 DEF Wait, database
    <3>2. QED
      BY <2>1, <3>1 DEF Inserts
  <2>5. CASE Delete(i)
    <3>1. mine'[i] = Nothing
      BY <2>1, <2>5, Deletes DEF Inserts
    <3>2. pc'[i] = "deleting" \/ (pc'[i] = "inserting" /\ step'[i] = 0)
      BY <2>5 DEF Delete, Advance, TypeOK
    <3>3. QED
      BY <3>1, <3>2 DEF Inserts, Nothing
  <2>6. CASE Insert(i)
    <3>1. /\ pc'[i] = "inserting" =>
               \A n \in 1..step'[i] :
                 mine'[i][Selections[n]] = Written(i)'[Selections[n]]
          /\ pc'[i] = "committing" => mine'[i] = Written(i)'
          /\ pc'[i] \in {"inserting", "committing"}
      BY <2>1, <2>6, FillsInOrder, Fills
    <3>2. \A t \in Tables :
            \A m \in mine'[i][t], r \in rows'[t] \ gone'[i][t] : r[1] # m[1]
      <4> SUFFICES ASSUME NEW t \in Tables, NEW m \in mine'[i][t],
                          NEW r \in rows'[t] \ gone'[i][t]
                   PROVE  r[1] # m[1]
        OBVIOUS
      <4>1. r \in rows[t] \ gone[i][t]
        BY <2>6, Fills
      <4>2. CASE m \in mine[i][t]
        BY <2>1, <4>1, <4>2 DEF Inserts
      <4>3. CASE m \notin mine[i][t]
        <5>1. m[1] \in doc[i][t] /\ r[1] \notin doc[i][t]
          BY <2>6, <4>1, <4>3, FillsOne
        <5>2. QED
          BY <5>1
      <4>4. QED
        BY <4>2, <4>3
    <3>3. QED
      BY <3>1, <3>2 DEF Inserts
  <2>7. CASE Begins(i)
    BY <2>1, <2>7 DEF Inserts, Begins, Idle, Nothing
  <2>8. CASE Continues(i)
    <3>1. UNCHANGED <<rows, gone, mine>>
      BY <2>8 DEF Continues
    <3>2. CASE Stays(i)
      <4>1. Written(i)' = Written(i) /\ pc'[i] = pc[i] /\ step'[i] = step[i]
        BY <3>2 DEF Stays, Written
      <4>2. QED
        BY <2>1, <3>1, <4>1 DEF Inserts
    <3>3. CASE ~InFlight(i) /\ ~InFlight(i)'
      BY <2>1, <3>1, <3>3 DEF Inserts, InFlight
    <3>4. QED
      BY <2>8, <3>2, <3>3 DEF Continues, InFlight
  <2>9. QED
    BY <2>2, <2>3, <2>4, <2>5, <2>6, <2>7, <2>8, Kinds
<1>6. QED
  BY <1>2, <1>4, <1>5 DEF InsertsInv

\* What is committed has been inserted, with the number of its save.
LEMMA NumbersStep ==
  ASSUME TypeOK, InsertsInv, NumbersInv, NEW i \in Instances, Step(i)
  PROVE  NumbersInv'
<1>1. \A j \in Instances \ {i} :
        /\ (InFlight(j)' <=> InFlight(j))
        /\ number'[j] = number[j] /\ doc'[j] = doc[j]
  BY OthersStay DEF Stays, InFlight
<1>2. saves \in Nat /\ \A j \in Instances : number[j] \in Nat
  BY StoreAssumption DEF TypeOK, Numbers
<1>3. \A t \in Tables : \A r \in rows[t] : r[2] \in Nat
  BY StoreAssumption DEF TypeOK, Snapshot, Row, Numbers
<1>4. ASSUME ~Begins(i)
      PROVE  /\ UNCHANGED saves
             /\ InFlight(i)' =>
                  InFlight(i) /\ number'[i] = number[i] /\ doc'[i] = doc[i]
  <2>1. CASE Committing(i)
    BY <2>1, Commits
  <2>2. CASE Ends(i)
    BY <2>2, EndsEmpty
  <2>3. CASE Wait(i)
    BY <2>3 DEF Wait, InFlight, bounds
  <2>4. CASE Delete(i)
    BY <2>4, Deletes
  <2>5. CASE Insert(i)
    BY <2>5, Fills
  <2>6. CASE Continues(i)
    BY <2>6 DEF Continues, Stays, InFlight
  <2>7. QED
    BY <1>4, <2>1, <2>2, <2>3, <2>4, <2>5, <2>6, Kinds
<1>5. ASSUME ~Begins(i)
      PROVE  /\ UNCHANGED saves
             /\ \A j \in Instances : InFlight(j)' =>
                  InFlight(j) /\ number'[j] = number[j] /\ doc'[j] = doc[j]
  BY <1>1, <1>4, <1>5
<1>6. CASE ~Begins(i)
  <2>1. (\A j \in Instances : Numbered(j)') /\ NumbersApart'
    BY <1>5, <1>6 DEF NumbersInv, Numbered, NumbersApart
  <2>2. ASSUME NEW t \in Tables, NEW r \in rows'[t]
        PROVE  /\ r[2] <= saves'
               /\ r[2] = 0 => r[1] \in Bootstrap[t]
               /\ \A j \in Instances :
                    InFlight(j)' /\ number'[j] = r[2] => r[1] \in doc'[j][t]
    <3>1. CASE r \in rows[t]
      BY <1>5, <1>6, <3>1 DEF NumbersInv, RowNumbers
    <3>2. CASE r \notin rows[t]
      <4>1. Committing(i)
        BY <2>2, <3>2, DatabaseChanges
      <4>2. r \in mine[i][t] /\ mine[i] = Written(i) /\ InFlight(i)
        BY <2>2, <3>2, <4>1, Commits DEF InsertsInv, Inserts, InFlight
      <4>3. r[1] \in doc[i][t] /\ r[2] = number[i]
        BY <4>2 DEF Written
      <4>4. /\ number[i] <= saves
            /\ number[i] = 0 => doc[i] = Bootstrap
        BY <4>2 DEF NumbersInv, Numbered
      <4>5. ASSUME NEW j \in Instances, InFlight(j)', number'[j] = r[2]
            PROVE  r[1] \in doc'[j][t]
        <5>1. InFlight(j) /\ number[j] = number[i] /\ doc'[j] = doc[j]
          BY <1>5, <1>6, <4>3, <4>5
        <5>2. CASE j = i
          BY <4>3, <5>1, <5>2
        <5>3. CASE j # i
          BY <4>2, <4>3, <4>4, <5>1, <5>3 DEF NumbersInv, NumbersApart, Numbered
        <5>4. QED
          BY <5>2, <5>3
      <4>6. QED
        BY <1>5, <1>6, <4>3, <4>4, <4>5
    <3>3. QED
      BY <3>1, <3>2
  <2>3. RowNumbers'
    BY <2>2 DEF RowNumbers
  <2>4. QED
    BY <2>1, <2>3 DEF NumbersInv
<1>7. CASE Begins(i)
  <2>1. /\ UNCHANGED rows
        /\ \/ number'[i] = saves + 1 /\ saves' = saves + 1 /\ doc'[i] \in Documents
           \/ number'[i] = 0 /\ saves' = saves /\ doc'[i] = Bootstrap
    BY <1>7 DEF Begins
  <2>2. \A t \in Tables : \A r \in rows[t] :
          /\ r[2] <= saves
          /\ r[2] = 0 => r[1] \in Bootstrap[t]
          /\ \A j \in Instances : InFlight(j) /\ number[j] = r[2] => r[1] \in doc[j][t]
    BY DEF NumbersInv, RowNumbers
  <2>3. RowNumbers'
    <3> SUFFICES ASSUME NEW t \in Tables, NEW r \in rows[t]
                 PROVE  /\ r[2] <= saves'
                        /\ r[2] = 0 => r[1] \in Bootstrap[t]
                        /\ \A j \in Instances :
                             InFlight(j)' /\ number'[j] = r[2] => r[1] \in doc'[j][t]
      BY <2>1 DEF RowNumbers
    <3>1. r[2] <= saves'
      BY <1>2, <1>3, <2>1, <2>2
    <3>2. number'[i] = r[2] => r[1] \in doc'[i][t]
      BY <1>2, <1>3, <2>1, <2>2
    <3>3. QED
      BY <1>1, <2>2, <3>1, <3>2
  <2>4. \A j \in Instances : InFlight(j) => number[j] <= saves
    BY DEF NumbersInv, Numbered
  <2>5. \A j \in Instances : Numbered(j)'
    <3>1. \A j \in Instances \ {i} : Numbered(j)'
      <4>1. \A j \in Instances \ {i} : Numbered(j)
        BY DEF NumbersInv
      <4>2. \A j \in Instances \ {i} : InFlight(j) => number[j] <= saves'
        BY <1>2, <2>1, <2>4
      <4>3. QED
        BY <1>1, <4>1, <4>2 DEF Numbered
    <3>2. Numbered(i)'
      BY <1>2, <2>1 DEF Numbered
    <3>3. QED
      BY <3>1, <3>2
  <2>6. NumbersApart'
    <3>1. \A j \in Instances \ {i} : InFlight(j)' /\ number'[j] = number'[i] =>
            number'[i] = 0
      BY <1>1, <1>2, <2>1, <2>4
    <3>2. \A j, k \in Instances \ {i} :
            j # k /\ InFlight(j)' /\ InFlight(k)' /\ number'[j] = number'[k] =>
              number'[j] = 0
      BY <1>1 DEF NumbersInv, NumbersApart
    <3>3. QED
      BY <3>1, <3>2 DEF NumbersApart
  <2>7. QED
    BY <2>3, <2>5, <2>6 DEF NumbersInv
<1>8. QED
  BY <1>6, <1>7

\* A transaction that is not bare keeps the row it has deleted first.
LEMMA BareStep ==
  ASSUME TypeOK, BareInv, NEW i \in Instances, Step(i)
  PROVE  BareInv'
<1>1. \A j \in Instances \ {i} : Bare(j)'
  BY OthersStay DEF Stays, BareInv, Bare, PastFirst, InFlight
<1>2. Bare(i) /\ First \in Tables /\ step[i] \in Nat
  BY OrderType, StoreAssumption DEF BareInv, First, TypeOK
<1>3. Bare(i)'
  <2>1. CASE Committing(i)
    BY <2>1, Commits DEF Bare, PastFirst
  <2>2. CASE Ends(i)
    BY <2>2, EndsEmpty DEF Bare, PastFirst
  <2>3. CASE Wait(i)
    BY <1>2, <2>3 DEF Wait, Bare, PastFirst, InFlight
  <2>4. CASE Delete(i)
    <3>1. SUFFICES ASSUME ~bare'[i]
                   PROVE  gone'[i][First] # {}
      BY DEF Bare
    <3>2. /\ ~bare[i] /\ (step[i] = 0 => Found(i)[First] # {})
          /\ gone'[i][First] = gone[i][First] \cup Found(i)[First]
      BY <1>2, <2>4, <3>1, Deletes
    <3>3. step[i] > 0 => gone[i][First] # {}
      BY <1>2, <2>4, <3>2, Deletes DEF Bare, PastFirst
    <3>4. QED
      BY <1>2, <3>2, <3>3
  <2>5. CASE Insert(i)
    BY <1>2, <2>5, Fills DEF Bare, PastFirst
  <2>6. CASE Begins(i)
    BY <2>6 DEF Begins, Bare, PastFirst
  <2>7. CASE Continues(i)
    BY <1>2, <2>7 DEF Continues, Stays, Bare, PastFirst, InFlight
  <2>8. QED
    BY <2>1, <2>2, <2>3, <2>4, <2>5, <2>6, <2>7, Kinds
<1>4. QED
  BY <1>1, <1>3 DEF BareInv

\* A transaction that leaves one document has deleted all that was committed.
LEMMA WholeCommit ==
  ASSUME TypeOK, InsertsInv, NumbersInv, NEW i \in Instances, Committing(i), ~Mixed'
  PROVE  \A t \in Tables : rows[t] \subseteq gone[i][t]
<1>1. /\ pc[i] = "committing" /\ InFlight(i)
      /\ \A t \in Tables : rows'[t] = (rows[t] \ gone[i][t]) \cup mine[i][t]
  BY Commits DEF InFlight
<1>2. \A t \in Tables : mine[i][t] = doc[i][t] \X {number[i]}
  <2>1. mine[i] = Written(i)
    BY <1>1 DEF InsertsInv, Inserts
  <2>2. QED
    BY <2>1 DEF Written
<1>3. PICK u \in Tables : doc[i][u] # {}
  BY <1>1, EveryDocumentHasRows DEF NumbersInv, Numbered
<1>4. PICK m \in rows'[u] : m[2] = number[i]
  <2>1. PICK x \in doc[i][u] : TRUE
    BY <1>3
  <2>2. <<x, number[i]>> \in rows'[u] /\ <<x, number[i]>>[2] = number[i]
    BY <1>1, <1>2, <2>1
  <2>3. QED
    BY <2>2
<1> SUFFICES ASSUME NEW t \in Tables, NEW r \in rows[t], r \notin gone[i][t]
             PROVE  FALSE
  OBVIOUS
<1>5. r \in rows'[t]
  BY <1>1
<1>6. r[2] = number[i]
  BY <1>4, <1>5 DEF Mixed, Mixes
<1>7. r[1] \in doc[i][t]
  BY <1>1, <1>6 DEF NumbersInv, RowNumbers
<1>8. <<r[1], number[i]>> \in mine[i][t]
  BY <1>2, <1>7
<1>9. r[1] # <<r[1], number[i]>>[1]
  BY <1>8 DEF InsertsInv, Inserts
<1>10. QED
  BY <1>9

\* A DELETE empties its table, unless it was bare in the first one.
LEMMA DeleteCovers ==
  ASSUME TypeOK, NEW i \in Instances, FindsAllOrNothing(i), Covers(i), Delete(i)
  PROVE  Covers(i)'
<1> SUFFICES ASSUME ~exposed'[i] \/ ~bare'[i], NEW t \in Tables, IsEmptied(i, t)'
             PROVE  rows'[t] \subseteq gone'[i][t]
  BY Deletes DEF Covers
<1>1. /\ pc[i] = "deleting" /\ UNCHANGED <<rows, exposed>>
      /\ gone'[i][t] = gone[i][t] \cup Found(i)[t]
      /\ bare'[i] <=> bare[i] \/ (step[i] = 0 /\ Found(i)[First] = {})
      /\ InFlight(i)
  BY Deletes
<1>2. step[i] \in Nat
  BY DEF TypeOK
<1>3. IsEmptied(i, t) \/ t = Current(i)
  <2>1. \E n \in 1..(step[i] + 1) : t = Deletions[n]
    <3>1. CASE pc'[i] = "deleting" /\ step'[i] = step[i] + 1
      BY <3>1 DEF IsEmptied
    <3>2. CASE step[i] + 1 = Len(Deletions)
      BY <3>2, EveryTableIsEmptied
    <3>3. QED
      BY <3>1, <3>2, Deletes
  <2>2. QED
    BY <1>1, <1>2, <2>1 DEF IsEmptied, Current
<1>4. /\ found[i] = None => Found(i)[Current(i)] = rows[Current(i)]
      /\ found[i] # None => Found(i)[Current(i)] = found[i] \cap rows[Current(i)]
  BY FoundHere
<1>5. CASE ~exposed[i] \/ step[i] > 0
  <2>1. ~exposed[i] \/ (PastFirst(i) /\ ~bare[i])
    BY <1>1, <1>5 DEF PastFirst
  <2>2. /\ IsEmptied(i, t) => rows[t] \subseteq gone[i][t]
        /\ found[i] # None => rows[Current(i)] \subseteq found[i]
    BY <1>1, <2>1 DEF Covers
  <2>3. QED
    BY <1>1, <1>3, <1>4, <2>2
<1>6. CASE exposed[i] /\ step[i] = 0
  <2>1. Found(i)[First] # {} /\ Current(i) = First
    BY <1>1, <1>6 DEF First, Current
  <2>2. ~IsEmptied(i, t)
    BY <1>1, <1>6 DEF IsEmptied
  <2>3. found[i] # None => found[i] = {} \/ rows[First] \subseteq found[i]
    BY <1>1, <1>6 DEF FindsAllOrNothing
  <2>4. QED
    BY <1>1, <1>3, <1>4, <2>1, <2>2, <2>3
<1>7. QED
  BY <1>2, <1>5, <1>6

\* While the tables hold one document, what a transaction has emptied is empty.
LEMMA CoverStep ==
  ASSUME WInv, NEW i \in Instances, Step(i)
  PROVE  CoverInv'
<1> USE DEF WInv
<1> SUFFICES ASSUME ~Mixed', NEW j \in Instances
             PROVE  FindsAllOrNothing(j)' /\ Covers(j)'
  BY DEF CoverInv
<1>1. CASE Committing(i) /\ j = i
  <2>1. ~InFlight(i)'
    BY <1>1, Commits
  <2>2. QED
    BY <1>1, <2>1 DEF FindsAllOrNothing, Covers, InFlight
<1>2. CASE Committing(i) /\ j # i
  <2>1. \A t \in Tables : rows[t] \subseteq gone[i][t]
    BY <1>2, WholeCommit
  <2>2. /\ Stays(j)
        /\ found'[j] = IF found[j] = None THEN None
                       ELSE found[j] \ gone[i][Current(j)]
        /\ InFlight(j) => exposed'[j]
    BY <1>2, OthersStay, Commits
  <2>3. Locks(j) /\ Current(j) \in Tables /\ First \in Tables
    <3>1. 0 \in 0..(Len(Selections) - 1)
      BY StoreAssumption
    <3>2. Deletions[0 + 1] \in Tables
      BY <3>1, OrderType
    <3>3. Current(j) \in Tables
      BY FoundHere
    <3>4. QED
      BY <3>2, <3>3 DEF LocksInv, First
  <2>4. found'[j] # None => found'[j] = {}
    BY <2>1, <2>2, <2>3 DEF Locks
  <2>5. ~(PastFirst(j) /\ ~bare[j])
    <3>1. gone[j][First] \subseteq gone[i][First]
      BY <2>1, <2>3 DEF Locks
    <3>2. gone[j][First] = {}
      BY <1>2, <2>3, <3>1 DEF LocksInv, GoneApart
    <3>3. QED
      BY <3>2 DEF BareInv, Bare
  <2>6. /\ (InFlight(j)' <=> InFlight(j)) /\ (PastFirst(j)' <=> PastFirst(j))
        /\ bare'[j] = bare[j]
    BY <2>2 DEF Stays, InFlight, PastFirst
  <2>7. FindsAllOrNothing(j)'
    BY <2>4 DEF FindsAllOrNothing
  <2>8. Covers(j)'
    BY <2>2, <2>5, <2>6 DEF Covers
  <2>9. QED
    BY <2>7, <2>8
<1>3. CASE ~Committing(i)
  <2>1. UNCHANGED rows
    BY <1>3, DatabaseChanges
  <2>2. FindsAllOrNothing(j) /\ Covers(j)
    BY <2>1 DEF CoverInv, Mixed, Mixes
  <2>3. CASE j # i
    <3>1. Stays(j) /\ found'[j] = found[j] /\ exposed'[j] = exposed[j]
      BY <1>3, <2>3, OthersStay
    <3>2. QED
      BY <2>1, <2>2, <3>1
      DEF Stays, FindsAllOrNothing, Covers, InFlight, PastFirst, IsEmptied, Current
  <2>4. CASE j = i /\ Wait(i)
    <3>1. /\ pc' = pc /\ step' = step /\ gone' = gone /\ bare' = bare
          /\ exposed' = exposed /\ found'[i] = rows[Current(i)]
      BY <2>4 DEF Wait, Current, TypeOK
    <3>2. FindsAllOrNothing(i)'
      BY <2>1, <3>1 DEF FindsAllOrNothing, Current, First
    <3>3. Covers(i)'
      BY <2>1, <2>2, <2>4, <3>1 DEF Covers, InFlight, PastFirst, IsEmptied, Current
    <3>4. QED
      BY <2>4, <3>2, <3>3
  <2>5. CASE j = i /\ Delete(i)
    <3>1. Covers(i)'
      BY <2>2, <2>5, DeleteCovers
    <3>2. found'[i] = None
      BY <2>5, Deletes
    <3>3. QED
      BY <2>5, <3>1, <3>2 DEF FindsAllOrNothing
  <2>6. CASE j = i /\ Insert(i)
    <3>1. /\ pc[i] = "inserting" /\ pc'[i] \in {"inserting", "committing"}
          /\ UNCHANGED <<rows, found, gone, bare, exposed>>
      BY <2>6, Fills
    <3>2. found[i] = None
      BY <3>1 DEF LocksInv, Locks
    <3>3. \A t \in Tables : IsEmptied(i, t)
      BY <3>1 DEF IsEmptied
    <3>4. InFlight(i) /\ PastFirst(i)
      BY <3>1 DEF InFlight, PastFirst
    <3>5. Covers(i)'
      BY <2>2, <2>6, <3>1, <3>2, <3>3, <3>4 DEF Covers
    <3>6. QED
      BY <2>6, <3>1, <3>2, <3>5 DEF FindsAllOrNothing
  <2>7. CASE j = i /\ Begins(i)
    <3>1. /\ pc[i] \in Idle /\ pc'[i] = "deleting" /\ step'[i] = 0 /\ found' = found
      BY <2>7 DEF Begins
    <3>2. found'[i] = None
      BY <3>1 DEF LocksInv, Locks, Idle
    <3>3. \A t \in Tables : ~IsEmptied(i, t)'
      BY <3>1 DEF IsEmptied
    <3>4. QED
      BY <2>7, <3>2, <3>3 DEF FindsAllOrNothing, Covers
  <2>8. CASE j = i /\ Ends(i)
    BY <2>8, EndsEmpty DEF FindsAllOrNothing, Covers
  <2>9. CASE j = i /\ Continues(i)
    <3>1. UNCHANGED <<rows, found, gone>>
      BY <2>9 DEF Continues
    <3>2. CASE Stays(i) /\ exposed'[i] = exposed[i]
      BY <2>2, <2>9, <3>1, <3>2
      DEF Stays, FindsAllOrNothing, Covers, InFlight, PastFirst, IsEmptied, Current
    <3>3. CASE ~InFlight(i)'
      BY <2>9, <3>3 DEF FindsAllOrNothing, Covers, InFlight
    <3>4. QED
      BY <2>9, <3>2, <3>3 DEF Continues, InFlight
  <2>10. QED
    BY <1>3, <2>3, <2>4, <2>5, <2>6, <2>7, <2>8, <2>9, Kinds
<1>4. QED
  BY <1>1, <1>2, <1>3

\* The invariant holds at first: nobody saves and the tables are empty.
LEMMA WholeInit == Init => WInv
<1> SUFFICES ASSUME Init
             PROVE  WInv
  OBVIOUS
<1>1. TypeOK
  BY TypeInit
<1>2. /\ rows = Nothing /\ saves = 0
      /\ \A i \in Instances :
           /\ pc[i] = "down" /\ found[i] = None /\ gone[i] = Nothing
           /\ mine[i] = Nothing /\ ~InFlight(i)
  BY DEF Init, Each, InFlight
<1>3. LocksInv
  BY <1>2 DEF LocksInv, Locks, GoneApart, Nothing
<1>4. InsertsInv
  BY <1>2 DEF InsertsInv, Inserts, MineApart, Nothing
<1>5. NumbersInv
  BY <1>2 DEF NumbersInv, RowNumbers, Numbered, NumbersApart, Nothing
<1>6. BareInv /\ CoverInv
  BY <1>2 DEF BareInv, Bare, PastFirst, CoverInv, FindsAllOrNothing, Covers
<1>7. QED
  BY <1>1, <1>3, <1>4, <1>5, <1>6 DEF WInv

\* The invariant is inductive.
LEMMA WholeStep ==
  ASSUME WInv, [Next]_vars
  PROVE  WInv'
<1>1. TypeOK'
  BY TypeStep DEF WInv
<1>2. CASE \E i \in Instances : Step(i)
  BY <1>1, <1>2, LocksStep, InsertsStep, NumbersStep, BareStep, CoverStep DEF WInv
<1>3. CASE UNCHANGED vars
  <2>1. /\ UNCHANGED <<rows, pc, step, doc, number, found, gone, mine, bare>>
        /\ UNCHANGED <<saves, exposed>>
    BY <1>3 DEF vars, database, transaction, bounds
  <2>2. LocksInv'
    BY <2>1 DEF WInv, LocksInv, Locks, GoneApart, InFlight, Current
  <2>3. NumbersInv'
    BY <2>1 DEF WInv, NumbersInv, RowNumbers, Numbered, NumbersApart, InFlight
  <2>4. BareInv' /\ CoverInv'
    BY <2>1 DEF WInv, BareInv, Bare, PastFirst, CoverInv, FindsAllOrNothing, Covers,
                Mixed, Mixes, InFlight, IsEmptied, Current
  <2>5. InsertsInv'
    <3>1. \A i \in Instances : Written(i)' = Written(i)
      BY <2>1 DEF Written
    <3>2. QED
      BY <2>1, <3>1 DEF WInv, InsertsInv, Inserts, MineApart
  <2>6. QED
    BY <1>1, <2>2, <2>3, <2>4, <2>5 DEF WInv
<1>4. QED
  BY <1>2, <1>3, Steps

\* A transaction that commits into tables that hold one document leaves its own,
\* unless it found no row in the first table and another committed meanwhile.
LEMMA CommitIsWhole ==
  ASSUME WInv, NEW i \in Instances, Committing(i), ~(bare[i] /\ exposed[i]), ~Mixed
  PROVE  rows' = Written(i)
<1> USE DEF WInv
<1>1. /\ pc[i] = "committing" /\ InFlight(i) /\ PastFirst(i)
      /\ rows' = [t \in Tables |-> (rows[t] \ gone[i][t]) \cup mine[i][t]]
  BY DEF Committing, Committed, InFlight, PastFirst
<1>2. \A t \in Tables : IsEmptied(i, t)
  BY <1>1 DEF IsEmptied
<1>3. \A t \in Tables : rows[t] \subseteq gone[i][t]
  BY <1>1, <1>2 DEF CoverInv, Covers
<1>4. mine[i] = Written(i)
  BY <1>1 DEF InsertsInv, Inserts
<1>5. \A t \in Tables : (rows[t] \ gone[i][t]) \cup mine[i][t] = Written(i)[t]
  BY <1>3, <1>4
<1>6. QED
  BY <1>1, <1>5 DEF Written

\* A save that commits leaves exactly its document, whatever others save at the
\* same time, unless it passed an empty table of endpoints before another
\* committed, or the tables held a mixture.
THEOREM SavesWhole == Spec => SavesAreWhole
<1> DEFINE Whole ==
      \A i \in Instances :
        pc[i] = "committing" /\ rows' # rows /\ pc'[i] # pc[i]
          /\ ~(bare[i] /\ exposed[i]) /\ ~Mixed
        => rows' = Written(i)
<1>1. ASSUME WInv, [Next]_vars
      PROVE  [Whole]_vars
  <2> SUFFICES ASSUME NEW j \in Instances, pc[j] = "committing", rows' # rows,
                      pc'[j] # pc[j], ~(bare[j] /\ exposed[j]), ~Mixed
               PROVE  rows' = Written(j)
    OBVIOUS
  <2>1. CASE UNCHANGED vars
    BY <2>1 DEF vars, database
  <2>2. CASE \E i \in Instances : Step(i)
    <3>1. PICK i \in Instances : Step(i)
      BY <2>2
    <3>2. Committing(i)
      BY <3>1, DatabaseChanges
    <3>3. j = i
      BY <1>1, <3>1, OthersStay DEF Stays, WInv
    <3>4. QED
      BY <1>1, <3>2, <3>3, CommitIsWhole
  <2>3. QED
    BY <1>1, <2>1, <2>2, Steps
<1> HIDE DEF Whole
<1>2. Spec => [][Whole]_vars
  BY <1>1, WholeInit, WholeStep, PTL DEF Spec
<1>3. QED
  BY <1>2 DEF SavesAreWhole, Whole

-----------------------------------------------------------------------------
(* The shared document.  What an instance's thread is doing, as its          *)
(* transaction and its load show it; a step moves one of them.              *)

Loading == {"reading", "selecting", "noting", "installing"}

\* What is seen of a thread, where it is.
LEMMA Seen ==
  ASSUME TypeOK, NEW i \in Instances
  PROVE  /\ InFlight(i) => /\ phase[i] = "saving" /\ proposal[i] = Written(i)
                           /\ lockless[i] = bare[i] /\ overlapped[i] = exposed[i]
         /\ ~InFlight(i) => proposal[i] = Nothing /\ lockless[i] = FALSE
         /\ pc[i] \in Loading => phase[i] = "loading" /\ overlapped[i] = exposed[i]
         /\ pc[i] \in Idle \cup {"recording", "refreshing"} =>
              phase[i] = "resting" /\ overlapped[i] = FALSE
<1>1. bare[i] \in BOOLEAN /\ exposed[i] \in BOOLEAN
  BY DEF TypeOK
<1>2. CASE InFlight(i)
  <2>1. phase[i] = "saving"
    BY <1>2 DEF InFlight, phase
  <2>2. pc[i] \notin Loading /\ pc[i] \notin Idle \cup {"recording", "refreshing"}
    BY <1>2 DEF InFlight, Loading, Idle
  <2>3. QED
    BY <1>1, <1>2, <2>1, <2>2 DEF proposal, lockless, overlapped
<1>3. CASE pc[i] \in Loading
  <2>1. phase[i] = "loading" /\ ~InFlight(i)
    BY <1>3 DEF InFlight, Loading, phase
  <2>2. pc[i] \notin Idle \cup {"recording", "refreshing"}
    BY <1>3 DEF Loading, Idle
  <2>3. QED
    BY <1>1, <2>1, <2>2 DEF proposal, lockless, overlapped
<1>4. CASE ~InFlight(i) /\ pc[i] \notin Loading
  <2>1. phase[i] = "resting"
    BY <1>4 DEF InFlight, Loading, phase
  <2>2. QED
    BY <1>1, <1>4, <2>1 DEF proposal, lockless, overlapped
<1>5. QED
  BY <1>2, <1>3, <1>4

\* The same of the next state.
LEMMA SeenNext ==
  ASSUME TypeOK', NEW i \in Instances
  PROVE  /\ InFlight(i)' => /\ phase'[i] = "saving" /\ proposal'[i] = Written(i)'
                            /\ lockless'[i] = bare'[i] /\ overlapped'[i] = exposed'[i]
         /\ ~InFlight(i)' => proposal'[i] = Nothing /\ lockless'[i] = FALSE
         /\ pc'[i] \in Loading => phase'[i] = "loading" /\ overlapped'[i] = exposed'[i]
         /\ pc'[i] \in Idle \cup {"recording", "refreshing"} =>
              phase'[i] = "resting" /\ overlapped'[i] = FALSE
<1>0. Nothing' = Nothing
  BY DEF Nothing
<1>1. bare'[i] \in BOOLEAN /\ exposed'[i] \in BOOLEAN
  BY DEF TypeOK
<1>2. CASE InFlight(i)'
  <2>1. phase'[i] = "saving"
    BY <1>2 DEF InFlight, phase
  <2>2. pc'[i] \notin Loading /\ pc'[i] \notin Idle \cup {"recording", "refreshing"}
    BY <1>2 DEF InFlight, Loading, Idle
  <2>3. QED
    BY <1>1, <1>2, <2>1, <2>2 DEF proposal, lockless, overlapped
<1>3. CASE pc'[i] \in Loading
  <2>1. phase'[i] = "loading" /\ ~InFlight(i)'
    BY <1>3 DEF InFlight, Loading, phase
  <2>2. pc'[i] \notin Idle \cup {"recording", "refreshing"}
    BY <1>3 DEF Loading, Idle
  <2>3. QED
    BY <1>0, <1>1, <2>1, <2>2 DEF proposal, lockless, overlapped
<1>4. CASE ~InFlight(i)' /\ pc'[i] \notin Loading
  <2>1. phase'[i] = "resting"
    BY <1>4 DEF InFlight, Loading, phase
  <2>2. QED
    BY <1>0, <1>1, <1>4, <2>1 DEF proposal, lockless, overlapped
<1>5. QED
  BY <1>2, <1>3, <1>4

\* A step of one instance shows of that instance only, except that a commit is
\* noticed.
LEMMA Moves ==
  ASSUME TypeOK, NEW i \in Instances, Step(i)
  PROVE  /\ phase' = [phase EXCEPT ![i] = phase'[i]]
         /\ proposal' = [proposal EXCEPT ![i] = proposal'[i]]
         /\ lockless' = [lockless EXCEPT ![i] = lockless'[i]]
<1>1. \A j \in Instances \ {i} : Stays(j)
  BY OthersStay
<1>2. \A j \in Instances \ {i} : phase'[j] = phase[j]
  BY <1>1 DEF Stays, phase
<1>3. \A j \in Instances \ {i} : Written(j)' = Written(j) /\ bare'[j] = bare[j]
  BY <1>1 DEF Stays, Written
<1>4. phase' = [phase EXCEPT ![i] = phase'[i]]
  BY <1>2 DEF phase
<1>5. proposal' = [proposal EXCEPT ![i] = proposal'[i]]
  <2>1. \A j \in Instances \ {i} : proposal'[j] = proposal[j]
    BY <1>2, <1>3 DEF proposal, Nothing
  <2>2. QED
    BY <2>1 DEF proposal
<1>6. lockless' = [lockless EXCEPT ![i] = lockless'[i]]
  <2>1. \A j \in Instances \ {i} : lockless'[j] = lockless[j]
    BY <1>2, <1>3 DEF lockless
  <2>2. QED
    BY <2>1 DEF lockless
<1>7. QED
  BY <1>4, <1>5, <1>6

\* Unless it is a commit.
LEMMA MovesUnnoticed ==
  ASSUME TypeOK, NEW i \in Instances, Step(i),
         \A j \in Instances \ {i} : exposed'[j] = exposed[j]
  PROVE  overlapped' = [overlapped EXCEPT ![i] = overlapped'[i]]
<1>1. \A j \in Instances \ {i} : pc'[j] = pc[j]
  BY OthersStay DEF Stays
<1>2. \A j \in Instances \ {i} : phase'[j] = phase[j]
  BY <1>1 DEF phase
<1>3. \A j \in Instances \ {i} : overlapped'[j] = overlapped[j]
  BY <1>2 DEF overlapped
<1>4. QED
  BY <1>3 DEF overlapped

\* A step that does not move what is seen of its instance is none of the document.
LEMMA NotSeen ==
  ASSUME TypeOK, NEW i \in Instances, Step(i),
         \A j \in Instances \ {i} : exposed'[j] = exposed[j],
         phase'[i] = phase[i], proposal'[i] = proposal[i],
         lockless'[i] = lockless[i], overlapped'[i] = overlapped[i],
         UNCHANGED <<rows, revision, restarted, serving, signature, torn>>
  PROVE  UNCHANGED Shared!vars
<1>1. /\ phase' = [phase EXCEPT ![i] = phase[i]]
      /\ proposal' = [proposal EXCEPT ![i] = proposal[i]]
      /\ lockless' = [lockless EXCEPT ![i] = lockless[i]]
      /\ overlapped' = [overlapped EXCEPT ![i] = overlapped[i]]
  BY Moves, MovesUnnoticed
<1>2. phase' = phase
  BY <1>1 DEF phase
<1>3. proposal' = proposal
  BY <1>1 DEF proposal
<1>4. lockless' = lockless
  BY <1>1 DEF lockless
<1>5. overlapped' = overlapped
  BY <1>1 DEF overlapped
<1>6. QED
  BY <1>2, <1>3, <1>4, <1>5 DEF Shared!vars

\* Only a start writes the first document.
LEMMA SavesAreNotFirst ==
  ASSUME NEW d \in Documents \cup {Bootstrap}, NEW n, n # 0
  PROVE  [t \in Tables |-> d[t] \X {n}] # FirstRows
<1>1. PICK t \in Tables : d[t] # {}
  BY EveryDocumentHasRows
<1>2. PICK k \in d[t] : TRUE
  BY <1>1
<1>3. <<k, n>> \in d[t] \X {n} /\ <<k, n>> \notin Bootstrap[t] \X {0}
  BY <1>2
<1>4. QED
  BY <1>1, <1>3 DEF FirstRows

\* A thread that is not committing commits nothing, and nobody notices it.
LEMMA NotCommitting ==
  ASSUME TypeOK, NEW i \in Instances, Step(i), pc[i] # "committing"
  PROVE  /\ UNCHANGED <<rows, revision, restarted>>
         /\ \A j \in Instances \ {i} : exposed'[j] = exposed[j]
<1>1. ~Committing(i)
  BY DEF Committing
<1>2. QED
  BY <1>1, DatabaseChanges, OthersStay

\* A save begins, and a start for a database without revision.
LEMMA ProposeMaps ==
  ASSUME TypeOK, TypeOK', NEW i \in Instances, Save(i) \/ Start(i), pc'[i] = "deleting"
  PROVE  Shared!Propose(i)
<1>1. /\ pc[i] \in Idle /\ pc[i] # "committing" /\ Step(i)
      /\ UNCHANGED <<rows, revision, restarted, serving, signature, torn>>
  BY DEF Save, Start, Go, Idle, Step, database, load
<1>2. InFlight(i)' /\ ~InFlight(i)
  BY <1>1 DEF InFlight, Idle
<1>3. bare'[i] = FALSE /\ exposed'[i] = FALSE
  BY DEF Save, Start, Begin, TypeOK
<1>4. /\ phase[i] = "resting" /\ phase'[i] = "saving"
      /\ lockless[i] = FALSE /\ lockless'[i] = FALSE /\ overlapped'[i] = FALSE
      /\ proposal'[i] = Written(i)'
  BY <1>1, <1>2, <1>3, Seen, SeenNext
<1>5. /\ phase' = [phase EXCEPT ![i] = "saving"]
      /\ proposal' = [proposal EXCEPT ![i] = proposal'[i]]
      /\ lockless' = [lockless EXCEPT ![i] = lockless[i]]
      /\ overlapped' = [overlapped EXCEPT ![i] = FALSE]
  BY <1>1, <1>4, Moves, MovesUnnoticed, NotCommitting
<1>6. lockless' = lockless
  BY <1>5 DEF lockless
<1>7. ASSUME proposal'[i] = FirstRows
      PROVE  revision = 0
  <2>1. CASE Start(i)
    BY <2>1 DEF Start, Go, TypeOK
  <2>2. CASE Save(i)
    <3>1. PICK d \in Documents : Begin(i, d, saves')
      BY <2>2 DEF Save
    <3>2. saves' = saves + 1 /\ saves \in Nat
      BY <2>2, StoreAssumption DEF Save, TypeOK
    <3>3. doc'[i] = d /\ number'[i] # 0
      BY <3>1, <3>2 DEF Begin, TypeOK
    <3>4. proposal'[i] # FirstRows
      BY <1>4, <3>3, SavesAreNotFirst DEF Written
    <3>5. QED
      BY <1>7, <3>4
  <2>3. QED
    BY <2>1, <2>2
<1>8. QED
  BY <1>1, <1>4, <1>5, <1>6, <1>7
  DEF Shared!Propose, Shared!Go, Shared!Fresh, Shared!storeVars, Shared!copyVars

\* A save or a start that is under way.
LEMMA SaveMaps ==
  ASSUME TypeOK, TypeOK', NEW i \in Instances, Wait(i) \/ Delete(i) \/ Insert(i)
  PROVE  Shared!Pass(i) \/ UNCHANGED Shared!vars
<1>1. /\ Step(i) /\ pc[i] \in {"deleting", "inserting"} /\ InFlight(i)
      /\ UNCHANGED <<rows, revision, restarted, serving, signature, torn, doc, number,
                     exposed>>
  BY DEF Wait, Delete, Insert, Advance, Step, InFlight, database, load
<1>2. InFlight(i)'
  BY DEF Wait, Delete, Insert, Advance, InFlight, TypeOK
<1>3. /\ phase[i] = "saving" /\ phase'[i] = "saving"
      /\ proposal[i] = Written(i) /\ proposal'[i] = Written(i)'
      /\ lockless[i] = bare[i] /\ lockless'[i] = bare'[i]
      /\ overlapped[i] = exposed[i] /\ overlapped'[i] = exposed'[i]
  BY <1>1, <1>2, Seen, SeenNext
<1>4. proposal'[i] = proposal[i] /\ overlapped'[i] = overlapped[i]
  BY <1>1, <1>3 DEF Written
<1>5. \A j \in Instances \ {i} : exposed'[j] = exposed[j]
  BY <1>1, NotCommitting
<1>6. CASE bare'[i] = bare[i]
  BY <1>1, <1>3, <1>4, <1>5, <1>6, NotSeen
<1>7. CASE bare'[i] # bare[i]
  <2>1. bare'[i] = TRUE
    <3>1. bare[i] \in BOOLEAN /\ bare'[i] \in BOOLEAN
      BY DEF TypeOK
    <3>2. bare[i] => bare'[i]
      BY DEF Wait, Delete, Insert, TypeOK
    <3>3. QED
      BY <1>7, <3>1, <3>2
  <2>2. /\ phase' = [phase EXCEPT ![i] = phase[i]]
        /\ proposal' = [proposal EXCEPT ![i] = proposal[i]]
        /\ overlapped' = [overlapped EXCEPT ![i] = overlapped[i]]
        /\ lockless' = [lockless EXCEPT ![i] = TRUE]
    BY <1>1, <1>3, <1>4, <1>5, <2>1, Moves, MovesUnnoticed
  <2>3. phase' = phase
    BY <2>2 DEF phase
  <2>4. proposal' = proposal
    BY <2>2 DEF proposal
  <2>5. overlapped' = overlapped
    BY <2>2 DEF overlapped
  <2>6. QED
    BY <1>1, <1>3, <2>2, <2>3, <2>4, <2>5
    DEF Shared!Pass, Shared!storeVars, Shared!copyVars
<1>8. QED
  BY <1>6, <1>7

\* A transaction is rolled back.
LEMMA RollbackMaps ==
  ASSUME TypeOK, TypeOK', NEW i \in Instances, Rollback(i)
  PROVE  Shared!Withdraw(i)
<1>1. /\ Step(i) /\ InFlight(i) /\ pc'[i] \in Idle
      /\ UNCHANGED <<rows, revision, restarted, serving, signature, torn>>
  BY DEF Rollback, Go, Step, InFlight, Idle, TypeOK, database, load
<1>2. ~InFlight(i)'
  BY <1>1 DEF InFlight, Idle
<1>3. \A j \in Instances \ {i} : exposed'[j] = exposed[j]
  BY DEF Rollback, TypeOK
<1>4. /\ phase[i] = "saving" /\ phase'[i] = "resting"
      /\ proposal'[i] = Nothing /\ lockless'[i] = FALSE /\ overlapped'[i] = FALSE
  BY <1>1, <1>2, Seen, SeenNext
<1>5. /\ phase' = [phase EXCEPT ![i] = "resting"]
      /\ proposal' = [proposal EXCEPT ![i] = Nothing]
      /\ lockless' = [lockless EXCEPT ![i] = FALSE]
      /\ overlapped' = [overlapped EXCEPT ![i] = FALSE]
  BY <1>1, <1>3, <1>4, Moves, MovesUnnoticed
<1>6. QED
  BY <1>1, <1>4, <1>5
  DEF Shared!Withdraw, Shared!Go, Shared!Release, Shared!Fresh, Shared!storeVars,
      Shared!copyVars

\* A transaction commits.
LEMMA CommitMaps ==
  ASSUME WInv, TypeOK', NEW i \in Instances, Step(i), Committing(i)
  PROVE  Shared!Commit(i)
<1>0. TypeOK /\ NumbersInv
  BY DEF WInv
<1>1. PICK to \in {"refreshing", "recording", "ready"} : Go(i, "committing", to)
  BY DEF Committing
<1>2. /\ pc[i] = "committing" /\ InFlight(i) /\ ~InFlight(i)'
      /\ pc'[i] \in Idle \cup {"recording", "refreshing"}
  BY <1>0, <1>1 DEF Go, InFlight, Idle, TypeOK
<1>3. /\ phase[i] = "saving" /\ phase'[i] = "resting"
      /\ proposal[i] = Written(i) /\ proposal'[i] = Nothing
      /\ lockless[i] = bare[i] /\ lockless'[i] = FALSE
      /\ overlapped[i] = exposed[i]
  BY <1>0, <1>2, Seen, SeenNext
<1>4. /\ phase' = [phase EXCEPT ![i] = "resting"]
      /\ proposal' = [proposal EXCEPT ![i] = Nothing]
      /\ lockless' = [lockless EXCEPT ![i] = FALSE]
  BY <1>0, <1>3, Moves
<1>5. ASSUME ~(lockless[i] /\ overlapped[i]), ~Mixes(rows)
      PROVE  rows' = proposal[i]
  <2>1. ~(bare[i] /\ exposed[i]) /\ ~Mixed
    BY <1>3, <1>5 DEF Mixed
  <2>2. QED
    BY <1>3, <2>1, CommitIsWhole
<1>6. proposal[i] = FirstRows <=> number[i] = 0
  <2>1. doc[i] \in Documents \cup {Bootstrap} /\ (number[i] = 0 => doc[i] = Bootstrap)
    BY <1>0, <1>2 DEF NumbersInv, Numbered
  <2>2. CASE number[i] = 0
    <3>1. \A t \in Tables : doc[i][t] \X {number[i]} = Bootstrap[t] \X {0}
      BY <2>1, <2>2
    <3>2. Written(i) = FirstRows
      BY <3>1 DEF Written, FirstRows
    <3>3. QED
      BY <1>3, <2>2, <3>2
  <2>3. CASE number[i] # 0
    <3>1. Written(i) # FirstRows
      BY <2>1, <2>3, SavesAreNotFirst DEF Written
    <3>2. QED
      BY <1>3, <2>3, <3>1
  <2>4. QED
    BY <2>2, <2>3
<1>7. /\ revision' = IF number[i] = 0 THEN 1 ELSE revision + 1
      /\ restarted' = (restarted \/ (number[i] = 0 /\ revision # 0))
      /\ exposed' = [j \in Instances |-> j # i /\ (exposed[j] \/ pc[j] \notin Idle)]
      /\ UNCHANGED <<serving, signature, torn>>
  BY DEF Committing, Committed, NewRevision, load
<1>8. overlapped' = [j \in Instances |-> j # i /\ phase[j] # "resting"]
  <2>1. ASSUME NEW j \in Instances
        PROVE  overlapped'[j] = (j # i /\ phase[j] # "resting")
    <3>1. CASE j = i
      BY <1>2, <3>1, SeenNext
    <3>2. CASE j # i /\ phase[j] = "resting"
      <4>1. phase'[j] = "resting"
        BY <1>4, <3>2 DEF phase
      <4>2. QED
        BY <3>2, <4>1 DEF overlapped
    <3>3. CASE j # i /\ phase[j] # "resting"
      <4>1. phase'[j] # "resting"
        BY <1>4, <3>3 DEF phase
      <4>2. pc[j] \notin Idle
        BY <1>0, <3>3, Seen
      <4>3. exposed'[j] = TRUE
        BY <1>7, <3>3, <4>2
      <4>4. QED
        BY <3>3, <4>1, <4>3 DEF overlapped
    <3>4. QED
      BY <3>1, <3>2, <3>3
  <2>2. QED
    BY <2>1 DEF overlapped
<1>9. /\ revision' = IF proposal[i] = FirstRows THEN 1 ELSE revision + 1
      /\ restarted' = (restarted \/ (proposal[i] = FirstRows /\ revision # 0))
  BY <1>6, <1>7
<1>10. QED
  BY <1>3, <1>4, <1>5, <1>7, <1>8, <1>9
  DEF Shared!Commit, Shared!Go, Shared!Release, Shared!copyVars

\* A load begins.
LEMMA LoadMaps ==
  ASSUME TypeOK, TypeOK', NEW i \in Instances, Record(i) \/ Look(i) \/ Refresh(i)
  PROVE  Shared!Load(i)
<1>1. /\ Step(i) /\ pc[i] \in {"ready", "recording", "refreshing"}
      /\ pc'[i] = "reading" /\ exposed'[i] = FALSE
      /\ UNCHANGED <<serving, signature, torn>>
  BY DEF Record, Look, Refresh, Go, Step, TypeOK, load
<1>2. /\ UNCHANGED <<rows, revision, restarted>>
      /\ \A j \in Instances \ {i} : exposed'[j] = exposed[j]
  BY <1>1, NotCommitting
<1>3. /\ ~InFlight(i) /\ ~InFlight(i)' /\ pc'[i] \in Loading
      /\ pc[i] \in Idle \cup {"recording", "refreshing"}
  BY <1>1 DEF InFlight, Loading, Idle
<1>4. /\ phase[i] = "resting" /\ phase'[i] = "loading"
      /\ proposal[i] = Nothing /\ proposal'[i] = Nothing
      /\ lockless[i] = FALSE /\ lockless'[i] = FALSE
      /\ overlapped'[i] = FALSE
  BY <1>1, <1>3, Seen, SeenNext
<1>5. /\ phase' = [phase EXCEPT ![i] = "loading"]
      /\ proposal' = [proposal EXCEPT ![i] = proposal[i]]
      /\ lockless' = [lockless EXCEPT ![i] = lockless[i]]
      /\ overlapped' = [overlapped EXCEPT ![i] = FALSE]
  BY <1>1, <1>2, <1>4, Moves, MovesUnnoticed
<1>6. UNCHANGED <<proposal, lockless>>
  <2>1. proposal' = proposal
    BY <1>5 DEF proposal
  <2>2. lockless' = lockless
    BY <1>5 DEF lockless
  <2>3. QED
    BY <2>1, <2>2
<1>7. QED
  BY <1>1, <1>2, <1>4, <1>5, <1>6
  DEF Shared!Load, Shared!Go, Shared!Fresh, Shared!saveVars, Shared!storeVars,
      Shared!copyVars

\* A load goes on.
LEMMA ReadMaps ==
  ASSUME TypeOK, TypeOK', NEW i \in Instances, Read(i) \/ ReadRevision(i) \/ Note(i)
  PROVE  UNCHANGED Shared!vars
<1>1. /\ Step(i) /\ pc[i] \in {"reading", "selecting", "noting"}
      /\ exposed'[i] = exposed[i]
      /\ UNCHANGED <<serving, signature, torn>>
  BY DEF Read, ReadRevision, Note, Go, Advance, Step, load
<1>2. pc'[i] \in Loading
  BY DEF Read, ReadRevision, Note, Go, Advance, Loading, TypeOK
<1>3. /\ UNCHANGED <<rows, revision, restarted>>
      /\ \A j \in Instances \ {i} : exposed'[j] = exposed[j]
  BY <1>1, NotCommitting
<1>4. /\ ~InFlight(i) /\ ~InFlight(i)' /\ pc[i] \in Loading
  BY <1>1, <1>2 DEF InFlight, Loading
<1>5. /\ phase'[i] = phase[i] /\ proposal'[i] = proposal[i]
      /\ lockless'[i] = lockless[i] /\ overlapped'[i] = overlapped[i]
  BY <1>1, <1>2, <1>4, Seen, SeenNext
<1>6. QED
  BY <1>1, <1>3, <1>5, NotSeen

\* A process starts on a database that is in use.
LEMMA StartMaps ==
  ASSUME TypeOK, TypeOK', NEW i \in Instances, Start(i), pc'[i] # "deleting"
  PROVE  UNCHANGED Shared!vars
<1>1. /\ Step(i) /\ pc[i] = "down" /\ pc'[i] = "refreshing"
      /\ UNCHANGED <<serving, signature, torn>>
  BY DEF Start, Go, Step, TypeOK, load
<1>2. /\ UNCHANGED <<rows, revision, restarted>>
      /\ \A j \in Instances \ {i} : exposed'[j] = exposed[j]
  BY <1>1, NotCommitting
<1>3. /\ ~InFlight(i) /\ ~InFlight(i)'
      /\ pc[i] \in Idle \cup {"recording", "refreshing"}
      /\ pc'[i] \in Idle \cup {"recording", "refreshing"}
  BY <1>1 DEF InFlight, Idle
<1>4. /\ phase'[i] = phase[i] /\ proposal'[i] = proposal[i]
      /\ lockless'[i] = lockless[i] /\ overlapped'[i] = overlapped[i]
  BY <1>3, Seen, SeenNext
<1>5. QED
  BY <1>1, <1>2, <1>4, NotSeen

\* The poller is none of the document.
LEMMA PollMaps ==
  ASSUME NEW i \in Instances, Select(i) \/ Keep(i)
  PROVE  UNCHANGED Shared!vars
<1>1. /\ UNCHANGED <<pc, doc, number, bare, exposed>>
      /\ UNCHANGED <<rows, revision, restarted, serving, signature, torn>>
  BY DEF Select, Keep, database, transaction, load
<1>2. \A j \in Instances : Written(j)' = Written(j)
  BY <1>1 DEF Written
<1>3. phase' = phase
  BY <1>1 DEF phase
<1>4. proposal' = proposal
  BY <1>2, <1>3 DEF proposal, Nothing
<1>5. lockless' = lockless /\ overlapped' = overlapped
  BY <1>1, <1>3 DEF lockless, overlapped
<1>6. QED
  BY <1>1, <1>3, <1>4, <1>5 DEF Shared!vars

\* A load is installed.
LEMMA InstallMaps ==
  ASSUME IInv, TypeOK', NEW i \in Instances, Install(i)
  PROVE  Shared!Install(i)
<1> USE DEF IInv
<1>1. /\ Step(i) /\ pc[i] = "installing" /\ pc'[i] = "ready" /\ exposed'[i] = FALSE
      /\ serving' = [serving EXCEPT ![i] = read[i]]
      /\ signature' = [signature EXCEPT ![i] = known[i]]
      /\ torn' = [torn EXCEPT ![i] = exposed[i]]
  BY DEF Install, Go, Step, TypeOK
<1>2. /\ UNCHANGED <<rows, revision, restarted>>
      /\ \A j \in Instances \ {i} : exposed'[j] = exposed[j]
  BY <1>1, NotCommitting
<1>3. /\ ~InFlight(i) /\ ~InFlight(i)' /\ pc[i] \in Loading
      /\ pc'[i] \in Idle \cup {"recording", "refreshing"}
  BY <1>1 DEF InFlight, Loading, Idle
<1>4. /\ phase[i] = "loading" /\ phase'[i] = "resting"
      /\ proposal[i] = Nothing /\ proposal'[i] = Nothing
      /\ lockless[i] = FALSE /\ lockless'[i] = FALSE
      /\ overlapped[i] = exposed[i] /\ overlapped'[i] = FALSE
  BY <1>3, Seen, SeenNext
<1>5. /\ phase' = [phase EXCEPT ![i] = "resting"]
      /\ proposal' = [proposal EXCEPT ![i] = proposal[i]]
      /\ lockless' = [lockless EXCEPT ![i] = lockless[i]]
      /\ overlapped' = [overlapped EXCEPT ![i] = FALSE]
  BY <1>1, <1>2, <1>4, Moves, MovesUnnoticed
<1>6. UNCHANGED <<proposal, lockless>>
  <2>1. proposal' = proposal
    BY <1>5 DEF proposal
  <2>2. lockless' = lockless
    BY <1>5 DEF lockless
  <2>3. QED
    BY <2>1, <2>2
<1>7. serving'[i] = read[i] /\ signature'[i] = known[i]
  BY <1>1 DEF TypeOK
<1>8. ~overlapped[i] => serving'[i] = rows
  BY <1>1, <1>4, <1>7 DEF LoadsAreFresh, Loaded
<1>9. ~restarted => signature'[i] = None \/ signature'[i] <= revision
  BY <1>7 DEF NothingIsAhead
<1>10. torn' = [torn EXCEPT ![i] = overlapped[i]]
  BY <1>1, <1>4
<1>11. /\ serving' = [serving EXCEPT ![i] = serving'[i]]
       /\ signature' = [signature EXCEPT ![i] = signature'[i]]
  BY <1>1, <1>7
<1> HIDE DEF IInv
<1>12. QED
  BY <1>2, <1>4, <1>5, <1>6, <1>8, <1>9, <1>10, <1>11
  DEF Shared!Install, Shared!Go, Shared!Fresh, Shared!saveVars, Shared!storeVars

\* A process ends.
LEMMA StopMaps ==
  ASSUME TypeOK, TypeOK', NEW i \in Instances, Step(i), Stop(i)
  PROVE  Shared!Stop(i)
<1>1. /\ pc'[i] = "down"
      /\ UNCHANGED <<rows, revision, restarted>>
      /\ serving' = [serving EXCEPT ![i] = Nothing]
      /\ signature' = [signature EXCEPT ![i] = None]
      /\ torn' = [torn EXCEPT ![i] = FALSE]
      /\ \A j \in Instances \ {i} : exposed'[j] = exposed[j]
  BY DEF Stop, Go, TypeOK, database
<1>2. ~InFlight(i)' /\ pc'[i] \in Idle \cup {"recording", "refreshing"}
  BY <1>1 DEF InFlight, Idle
<1>3. /\ phase'[i] = "resting"
      /\ proposal'[i] = Nothing /\ lockless'[i] = FALSE /\ overlapped'[i] = FALSE
  BY <1>2, SeenNext
<1>4. /\ phase' = [phase EXCEPT ![i] = "resting"]
      /\ proposal' = [proposal EXCEPT ![i] = Nothing]
      /\ lockless' = [lockless EXCEPT ![i] = FALSE]
      /\ overlapped' = [overlapped EXCEPT ![i] = FALSE]
  BY <1>1, <1>3, Moves, MovesUnnoticed
<1>5. QED
  BY <1>1, <1>4
  DEF Shared!Stop, Shared!Go, Shared!Release, Shared!Fresh, Shared!storeVars

\* A load fails.
LEMMA AbandonMaps ==
  ASSUME TypeOK, TypeOK', NEW i \in Instances, Reject(i) \/ Lose(i)
  PROVE  Shared!Abandon(i) \/ Shared!Stop(i)
<1>1. Step(i) /\ Abandon(i) /\ pc[i] \in {"reading", "selecting", "noting"}
  BY DEF Reject, Lose, Step
<1>2. CASE Stop(i)
  BY <1>1, <1>2, StopMaps
<1>3. CASE ~Stop(i)
  <2>1. /\ pc'[i] = "ready"
        /\ UNCHANGED <<serving, signature, torn>>
    BY <1>1, <1>3 DEF Abandon, Go, TypeOK
  <2>2. /\ UNCHANGED <<rows, revision, restarted>>
        /\ \A j \in Instances \ {i} : exposed'[j] = exposed[j]
    BY <1>1, NotCommitting
  <2>3. /\ ~InFlight(i) /\ ~InFlight(i)' /\ pc[i] \in Loading
        /\ pc'[i] \in Idle \cup {"recording", "refreshing"}
    BY <1>1, <2>1 DEF InFlight, Loading, Idle
  <2>4. /\ phase[i] = "loading" /\ phase'[i] = "resting"
        /\ proposal[i] = Nothing /\ proposal'[i] = Nothing
        /\ lockless[i] = FALSE /\ lockless'[i] = FALSE
        /\ overlapped'[i] = FALSE
    BY <2>3, Seen, SeenNext
  <2>5. /\ phase' = [phase EXCEPT ![i] = "resting"]
        /\ proposal' = [proposal EXCEPT ![i] = proposal[i]]
        /\ lockless' = [lockless EXCEPT ![i] = lockless[i]]
        /\ overlapped' = [overlapped EXCEPT ![i] = FALSE]
    BY <1>1, <2>2, <2>4, Moves, MovesUnnoticed
  <2>6. UNCHANGED <<proposal, lockless>>
    <3>1. proposal' = proposal
      BY <2>5 DEF proposal
    <3>2. lockless' = lockless
      BY <2>5 DEF lockless
    <3>3. QED
      BY <3>1, <3>2
  <2>7. QED
    BY <2>1, <2>2, <2>4, <2>5, <2>6
    DEF Shared!Abandon, Shared!Go, Shared!Fresh, Shared!saveVars, Shared!storeVars,
        Shared!copyVars
<1>4. QED
  BY <1>2, <1>3

\* At first nothing is stored, and no process runs.
LEMMA SharedInit == Init => Shared!Init
<1> SUFFICES ASSUME Init
             PROVE  Shared!Init
  OBVIOUS
<1>1. \A i \in Instances : pc[i] = "down"
  BY DEF Init, Each
<1>2. phase = [i \in Instances |-> "resting"]
  BY <1>1 DEF phase
<1>3. /\ proposal = [i \in Instances |-> Nothing]
      /\ lockless = [i \in Instances |-> FALSE]
      /\ overlapped = [i \in Instances |-> FALSE]
  BY <1>2 DEF proposal, lockless, overlapped
<1>4. QED
  BY <1>2, <1>3 DEF Init, Each, Shared!Init

\* Every step is one of the shared document, or none.
LEMMA SharedStep ==
  ASSUME IInv, WInv, TypeOK', [Next]_vars
  PROVE  [Shared!Next]_(Shared!vars)
<1>1. TypeOK
  BY DEF IInv
<1>2. CASE \E i \in Instances : Step(i)
  <2>1. PICK i \in Instances : Step(i)
    BY <1>2
  <2>2. CASE Save(i) \/ Start(i)
    <3>1. Save(i) => pc'[i] = "deleting"
      BY <1>1 DEF Save, Go, TypeOK
    <3>2. QED
      BY <1>1, <2>2, <3>1, ProposeMaps, StartMaps DEF Shared!Next
  <2>3. CASE Wait(i) \/ Delete(i) \/ Insert(i)
    BY <1>1, <2>3, SaveMaps DEF Shared!Next
  <2>4. CASE Rollback(i)
    BY <1>1, <2>4, RollbackMaps DEF Shared!Next
  <2>5. CASE Commit(i) \/ Break(i)
    <3>1. Committing(i) \/ Rollback(i)
      BY <2>5 DEF Commit, Break, Committing, Committed, Go
    <3>2. QED
      BY <1>1, <2>1, <2>4, <3>1, CommitMaps DEF Shared!Next
  <2>6. CASE Record(i) \/ Look(i) \/ Refresh(i)
    BY <1>1, <2>6, LoadMaps DEF Shared!Next
  <2>7. CASE Read(i) \/ ReadRevision(i) \/ Note(i)
    BY <1>1, <2>7, ReadMaps
  <2>8. CASE Install(i)
    BY <2>8, InstallMaps DEF Shared!Next
  <2>9. CASE Reject(i) \/ Lose(i)
    BY <1>1, <2>9, AbandonMaps DEF Shared!Next
  <2>10. CASE Crash(i)
    <3>1. Stop(i)
      BY <2>10 DEF Crash
    <3>2. QED
      BY <1>1, <2>1, <3>1, StopMaps DEF Shared!Next
  <2>11. CASE Select(i) \/ Keep(i)
    BY <2>11, PollMaps
  <2>12. QED
    BY <2>1, <2>2, <2>3, <2>4, <2>5, <2>6, <2>7, <2>8, <2>9, <2>10, <2>11 DEF Step
<1>3. CASE UNCHANGED vars
  <2>1. /\ UNCHANGED <<pc, doc, number, bare, exposed>>
        /\ UNCHANGED <<rows, revision, restarted, serving, signature, torn>>
    BY <1>3 DEF vars, database, transaction, load
  <2>2. \A j \in Instances : Written(j)' = Written(j)
    BY <2>1 DEF Written
  <2>3. phase' = phase
    BY <2>1 DEF phase
  <2>4. proposal' = proposal
    BY <2>2, <2>3 DEF proposal, Nothing
  <2>5. lockless' = lockless /\ overlapped' = overlapped
    BY <2>1, <2>3 DEF lockless, overlapped
  <2>6. QED
    BY <2>1, <2>3, <2>4, <2>5 DEF Shared!vars
<1>4. QED
  BY <1>2, <1>3, Steps

\* The tables are one shared document: a commit replaces it as a whole and raises
\* its revision by one, a load that no commit overlapped installs what is stored,
\* and what fails or crashes changes nothing for the other instances.
THEOREM SharedCorrect == Spec => DocumentIsShared
<1>1. Spec => []IInv
  BY InvariantInit, InvariantStep, PTL DEF Spec
<1>2. Spec => []WInv
  BY WholeInit, WholeStep, PTL DEF Spec
<1>3. Spec => []TypeOK
  BY TypeCorrect
<1>4. Spec => Shared!Spec
  BY SharedInit, SharedStep, <1>1, <1>2, <1>3, PTL DEF Spec, Shared!Spec
<1>5. QED
  BY <1>4 DEF DocumentIsShared

=============================================================================
