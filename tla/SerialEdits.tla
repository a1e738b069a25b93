----------------------------- MODULE SerialEdits -----------------------------
(***************************************************************************)
(* What an administrator of shared documents may rely on, without saying   *)
(* how.                                                                    *)
(*                                                                         *)
(* A request is handled for an actor who has the rights it needs.  It      *)
(* replaces each document of its scope at most once, and as long as nobody *)
(* raced, by what it makes of the document that is stored at that moment:  *)
(* the documents are then what the requests make of them one after the     *)
(* other.  A race needs two requests about one document.  After one, saves *)
(* may be lost, but what is stored is still sound, unless two actors were  *)
(* writing the document itself: then it is broken and nothing is promised. *)
(* The module says nothing of files, threads or reloads:                   *)
(* Administration.tla implements it.                                       *)
(***************************************************************************)
CONSTANTS
  Actors, Kinds, Requests, Rights, None,
  Needs(_),       \* the rights a request needs
  Scope(_),       \* the kinds of documents it replaces
  Edited(_, _, _),\* what it may make of a kind's document
  Sound(_, _)     \* what a kind's document has to be

VARIABLES
  document,  \* what is stored of each kind
  asked,     \* the request that is handled for an actor, or None
  rights,    \* what an actor was found to be allowed, or None
  todo,      \* the documents an actor's request may still replace
  raced,     \* a document was replaced under another request's hands
  broken     \* the kinds that two actors were writing at once

vars == <<document, asked, rights, todo, raced, broken>>

Init ==
  /\ document = [k \in Kinds |-> document[k]]
  /\ \A k \in Kinds : Sound(k, document[k])
  /\ asked = [a \in Actors |-> None]
  /\ rights = [a \in Actors |-> None]
  /\ todo = [a \in Actors |-> {}]
  /\ raced = FALSE
  /\ broken = {}

\* An actor is recognised; no request is handled meanwhile.
Meet(a, R) ==
  /\ asked[a] = None
  /\ rights' = [rights EXCEPT ![a] = R]
  /\ UNCHANGED <<document, asked, todo, raced, broken>>

Begin(a, r, R) ==
  /\ asked[a] = None
  /\ Needs(r) \subseteq R
  /\ rights' = [rights EXCEPT ![a] = R]
  /\ asked' = [asked EXCEPT ![a] = r]
  /\ todo' = [todo EXCEPT ![a] = Scope(r)]
  /\ UNCHANGED <<document, raced, broken>>

\* Another request is about the document.
Contended(a, k) == \E b \in Actors \ {a} : asked[b] # None /\ k \in Scope(asked[b])

Save(a, k) ==
  /\ k \in todo[a]
  /\ document' = [document EXCEPT ![k] = document'[k]]
  /\ k \notin broken =>
       /\ Sound(k, document'[k])
       /\ ~raced => document'[k] \in Edited(k, document[k], asked[a])
  /\ todo' = [todo EXCEPT ![a] = @ \ {k}]
  /\ \E race \in BOOLEAN : (race => Contended(a, k)) /\ raced' = (raced \/ race)
  /\ UNCHANGED <<asked, rights, broken>>

\* Two actors write one document at once.
Collide(a, k) ==
  /\ k \in todo[a]
  /\ \E b \in Actors \ {a} : k \in todo[b]
  /\ broken' = broken \cup {k}
  /\ UNCHANGED <<document, asked, rights, todo, raced>>

Scribble(k) ==
  /\ k \in broken
  /\ document' = [document EXCEPT ![k] = document'[k]]
  /\ UNCHANGED <<asked, rights, todo, raced, broken>>

\* The request is answered, whether it has replaced its documents or not.
End(a) ==
  /\ asked[a] # None
  /\ asked' = [asked EXCEPT ![a] = None]
  /\ todo' = [todo EXCEPT ![a] = {}]
  /\ UNCHANGED <<document, rights, raced, broken>>

\* Every request ends where it is.
Crash ==
  /\ asked' = [a \in Actors |-> None]
  /\ rights' = [a \in Actors |-> None]
  /\ todo' = [a \in Actors |-> {}]
  /\ UNCHANGED <<document, raced, broken>>

Next ==
  \/ Crash
  \/ \E k \in Kinds : Scribble(k)
  \/ \E a \in Actors :
       \/ End(a)
       \/ \E k \in Kinds : Save(a, k) \/ Collide(a, k)
       \/ \E R \in {None} \cup SUBSET Rights : Meet(a, R)
       \/ \E r \in Requests, R \in SUBSET Rights : Begin(a, r, R)

Spec == Init /\ [][Next]_vars
=============================================================================
