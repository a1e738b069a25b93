--------------------------- MODULE SharedDocument ---------------------------
(***************************************************************************)
(* What instances that share a stored document may rely on, without saying *)
(* how.                                                                    *)
(*                                                                         *)
(* A save replaces the document as a whole and raises its version, and an  *)
(* instance installs copies of what is stored.  Saves and loads take time: *)
(* a commit overlaps those of the others.  An overlapped load is torn: the *)
(* copy may be anything.  An overlapped save still leaves its own document *)
(* unless it found nothing that would have made it wait for the other.  A  *)
(* first document is for a store without version, which may have got one   *)
(* by the time it is saved.  The module says nothing of tables, rows,      *)
(* locks or pollers: PostgresStore.tla implements it.                      *)
(***************************************************************************)
EXTENDS Integers

CONSTANTS
  Instances, None,
  Nothing,    \* no document
  First,      \* the document of a store that has none
  Mixture(_)  \* a document is not one that was saved

VARIABLES
  stored, version,
  phase,        \* what each instance is doing
  proposal,     \* the document that it saves
  lockless,     \* ... and that it found nothing to replace for
  overlapped,   \* another save was committed since it began
  copy, at,     \* the document that it has, and the version it takes that for
  torn,         \* its copy is from an overlapped load
  overwritten   \* a first document was saved over another

vars == <<stored, version, phase, proposal, lockless, overlapped, copy, at, torn,
          overwritten>>
storeVars == <<stored, version, overwritten>>
copyVars == <<copy, at, torn>>
saveVars == <<proposal, lockless>>

Init ==
  /\ stored = Nothing
  /\ version = 0
  /\ phase = [i \in Instances |-> "resting"]
  /\ proposal = [i \in Instances |-> Nothing]
  /\ lockless = [i \in Instances |-> FALSE]
  /\ overlapped = [i \in Instances |-> FALSE]
  /\ copy = [i \in Instances |-> Nothing]
  /\ at = [i \in Instances |-> None]
  /\ torn = [i \in Instances |-> FALSE]
  /\ overwritten = FALSE

Go(i, from, to) ==
  /\ phase[i] = from
  /\ phase' = [phase EXCEPT ![i] = to]

Fresh(i) == overlapped' = [overlapped EXCEPT ![i] = FALSE]

Propose(i) ==
  /\ Go(i, "resting", "saving")
  /\ Fresh(i)
  /\ proposal' = [proposal EXCEPT ![i] = proposal'[i]]
  /\ proposal'[i] = First => version = 0
  /\ UNCHANGED <<lockless, storeVars, copyVars>>

\* The save finds nothing to replace.
Pass(i) ==
  /\ phase[i] = "saving"
  /\ lockless' = [lockless EXCEPT ![i] = TRUE]
  /\ UNCHANGED <<phase, proposal, overlapped, storeVars, copyVars>>

Release(i) ==
  /\ proposal' = [proposal EXCEPT ![i] = Nothing]
  /\ lockless' = [lockless EXCEPT ![i] = FALSE]

Commit(i) ==
  /\ Go(i, "saving", "resting")
  /\ ~(lockless[i] /\ overlapped[i]) /\ ~Mixture(stored) => stored' = proposal[i]
  /\ version' = IF proposal[i] = First THEN 1 ELSE version + 1
  /\ overwritten' = (overwritten \/ (proposal[i] = First /\ version # 0))
  /\ overlapped' = [j \in Instances |-> j # i /\ phase[j] # "resting"]
  /\ Release(i)
  /\ UNCHANGED copyVars

Withdraw(i) ==
  /\ Go(i, "saving", "resting")
  /\ Release(i)
  /\ Fresh(i)
  /\ UNCHANGED <<storeVars, copyVars>>

Load(i) ==
  /\ Go(i, "resting", "loading")
  /\ Fresh(i)
  /\ UNCHANGED <<saveVars, storeVars, copyVars>>

Install(i) ==
  /\ Go(i, "loading", "resting")
  /\ copy' = [copy EXCEPT ![i] = copy'[i]]
  /\ ~overlapped[i] => copy'[i] = stored
  /\ at' = [at EXCEPT ![i] = at'[i]]
  /\ ~overwritten => at'[i] = None \/ at'[i] <= version
  /\ torn' = [torn EXCEPT ![i] = overlapped[i]]
  /\ Fresh(i)
  /\ UNCHANGED <<saveVars, storeVars>>

\* A load fails, and the instance keeps the copy it has.
Abandon(i) ==
  /\ Go(i, "loading", "resting")
  /\ Fresh(i)
  /\ UNCHANGED <<saveVars, storeVars, copyVars>>

\* The instance ends, whatever it was doing; what it was saving is not saved.
Stop(i) ==
  /\ Go(i, phase[i], "resting")
  /\ Release(i)
  /\ Fresh(i)
  /\ copy' = [copy EXCEPT ![i] = Nothing]
  /\ at' = [at EXCEPT ![i] = None]
  /\ torn' = [torn EXCEPT ![i] = FALSE]
  /\ UNCHANGED storeVars

Next ==
  \E i \in Instances :
    \/ Propose(i) \/ Pass(i) \/ Commit(i) \/ Withdraw(i)
    \/ Load(i) \/ Install(i) \/ Abandon(i)
    \/ Stop(i)

Spec == Init /\ [][Next]_vars
=============================================================================
