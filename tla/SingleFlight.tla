---------------------------- MODULE SingleFlight ----------------------------
(***************************************************************************)
(* What request coalescing promises, without saying how.                   *)
(*                                                                         *)
(* A caller that brings a question either opens a flight for it or joins   *)
(* the flight that is open for the same question.  The caller that opened  *)
(* a flight settles it once, then retires it; every caller that joined is  *)
(* served the verdict of its flight.  A settled flight may still be joined *)
(* until it is retired.  The module says nothing of caches, upstreams,     *)
(* configuration or threads: Coalescing.tla implements it.                 *)
(***************************************************************************)
CONSTANTS Callers, Questions, Verdicts, None

VARIABLES
  phase,      \* where each caller stands
  question,   \* the question a caller brought, None before it asks
  opener,     \* the caller that opened the flight a caller belongs to
  open,       \* the caller whose flight is open for a question, or None
  verdict     \* the verdict of the flight a caller opened, None before

vars == <<phase, question, opener, open, verdict>>

Phases == {"outside", "leading", "settled", "following", "served"}

Init ==
  /\ phase = [c \in Callers |-> "outside"]
  /\ question = [c \in Callers |-> None]
  /\ opener = [c \in Callers |-> None]
  /\ open = [q \in Questions |-> None]
  /\ verdict = [c \in Callers |-> None]

Lead(c, q) ==
  /\ phase[c] = "outside"
  /\ open[q] = None
  /\ phase' = [phase EXCEPT ![c] = "leading"]
  /\ question' = [question EXCEPT ![c] = q]
  /\ opener' = [opener EXCEPT ![c] = c]
  /\ open' = [open EXCEPT ![q] = c]
  /\ UNCHANGED verdict

Follow(c, q) ==
  /\ phase[c] = "outside"
  /\ open[q] # None
  /\ phase' = [phase EXCEPT ![c] = "following"]
  /\ question' = [question EXCEPT ![c] = q]
  /\ opener' = [opener EXCEPT ![c] = open[q]]
  /\ UNCHANGED <<open, verdict>>

Settle(c, v) ==
  /\ phase[c] = "leading"
  /\ phase' = [phase EXCEPT ![c] = "settled"]
  /\ verdict' = [verdict EXCEPT ![c] = v]
  /\ UNCHANGED <<question, opener, open>>

Retire(c) ==
  /\ phase[c] = "settled"
  /\ phase' = [phase EXCEPT ![c] = "served"]
  /\ open' = [open EXCEPT ![question[c]] = None]
  /\ UNCHANGED <<question, opener, verdict>>

Serve(c) ==
  /\ phase[c] = "following"
  /\ verdict[opener[c]] # None
  /\ phase' = [phase EXCEPT ![c] = "served"]
  /\ UNCHANGED <<question, opener, open, verdict>>

Next ==
  \E c \in Callers :
    \/ \E q \in Questions : Lead(c, q) \/ Follow(c, q)
    \/ \E v \in Verdicts : Settle(c, v)
    \/ Retire(c)
    \/ Serve(c)

\* Every flight is settled and retired, and every follower is served.
Fairness ==
  \A c \in Callers :
    /\ WF_vars(\E v \in Verdicts : Settle(c, v))
    /\ WF_vars(Retire(c))
    /\ WF_vars(Serve(c))

Spec == Init /\ [][Next]_vars /\ Fairness
SafeSpec == Init /\ [][Next]_vars
=============================================================================
