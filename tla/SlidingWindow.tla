---------------------------- MODULE SlidingWindow ----------------------------
(***************************************************************************)
(* What a rate limiter of one key promises, without saying how.            *)
(*                                                                         *)
(* A call is decided for the time it brings: it is admitted when fewer     *)
(* than Limit admissions are recorded for the window that ends with it,    *)
(* and denied when there are as many.  A call is overtaken when a decision *)
(* was taken for a later time; from then on admissions may exceed the      *)
(* limit, and only a shared store still justifies each denial.  The answer *)
(* of a shared store may be lost, before or after the decision.  The       *)
(* module says nothing of deques, sorted sets, expiry or clocks:           *)
(* RateLimiter.tla implements it.                                          *)
(***************************************************************************)
EXTENDS Integers, Sequences, FiniteSets

CONSTANTS Calls, Limit, Window, Times

VARIABLES
  verdict,   \* of each call
  admitted,  \* the times of the recorded admissions, in the order of decisions
  latest,    \* the latest time that was decided for
  ordered,   \* no call was overtaken so far
  shared     \* the admissions are in a store other processes use too

vars == <<verdict, admitted, latest, ordered, shared>>
windowVars == <<admitted, latest, ordered>>

Init ==
  /\ verdict = [c \in Calls |-> "undecided"]
  /\ admitted = <<>>
  /\ latest = 0
  /\ ordered = TRUE
  /\ shared \in BOOLEAN

Recent(time) ==
  Cardinality({i \in 1..Len(admitted) : admitted[i] > time - Window})

Notice(time) ==
  /\ latest' = IF latest < time THEN time ELSE latest
  /\ ordered' = (ordered /\ time >= latest)

Record(time) ==
  /\ ordered' => Recent(time) < Limit
  /\ admitted' = Append(admitted, time)

Refuse(time) ==
  /\ ordered' \/ shared => Recent(time) >= Limit
  /\ UNCHANGED admitted

Answer(c, v) ==
  /\ verdict[c] = "undecided"
  /\ verdict' = [verdict EXCEPT ![c] = v]

Decide(c, time) ==
  /\ Notice(time)
  /\ \/ Record(time) /\ Answer(c, "admitted")
     \/ Refuse(time) /\ Answer(c, "denied")
  /\ UNCHANGED shared

\* The store does not answer: the call passes, whether it was recorded or not.
Lose(c) ==
  /\ shared
  /\ Answer(c, "failed")
  /\ \/ UNCHANGED windowVars
     \/ \E time \in Times : Notice(time) /\ (Record(time) \/ Refuse(time))
  /\ UNCHANGED shared

\* A shared store drops what it holds once the window of its last entry is over;
\* a call from inside that window is overtaken.
Forget ==
  /\ shared
  /\ \E i \in 1..Len(admitted) :
       /\ latest' = IF latest < admitted[i] + Window THEN admitted[i] + Window ELSE latest
       /\ ordered => \A j \in 1..Len(admitted) : admitted[j] <= admitted[i]
  /\ UNCHANGED <<verdict, admitted, ordered, shared>>

Next ==
  \/ Forget
  \/ \E c \in Calls : Lose(c) \/ \E time \in Times : Decide(c, time)

Spec == Init /\ [][Next]_vars
=============================================================================
