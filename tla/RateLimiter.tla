----------------------------- MODULE RateLimiter -----------------------------
(***************************************************************************)
(* check_and_record of the two rate-limit backends, for the bucket of one  *)
(* key.  A caller reads its clock first and reaches the bucket later: the  *)
(* memory backend takes its lock after time.time(), the Redis backend      *)
(* sends the caller's time to a script that Redis runs atomically.  So a   *)
(* caller can be overtaken, or, with Redis, have a clock that lags behind  *)
(* another instance's.                                                     *)
(*                                                                         *)
(* Time is counted in ticks, Second ticks to the second: times have        *)
(* fractions, limits, windows and Retry-After have none.                   *)
(***************************************************************************)
EXTENDS Integers, Sequences, FiniteSets

CONSTANTS
  Requests,  \* one call of check_and_record each
  Backends,  \* the backends a gateway may be configured with
  Limit,     \* rate_limit.requests
  Window,    \* rate_limit.window_seconds, in ticks
  Second,
  Lags,      \* how far an instance's clock may be behind
  MaxTime    \* bounds the clock

ASSUME LimiterAssumption ==
  /\ Backends \subseteq {"memory", "redis"}
  /\ Limit \in Nat \ {0}
  /\ Window \in Nat \ {0}
  /\ Second \in Nat \ {0}
  /\ Window % Second = 0
  /\ Lags \subseteq Nat
  /\ MaxTime \in Nat

VARIABLES
  backend,  \* "memory" or "redis": fixed when the process starts
  clock,
  bucket,   \* the deque of a key, or its sorted set: times of admissions
  expires,  \* when Redis drops the key
  pc,       \* where each call is
  now,      \* the time each call has read
  wait,     \* the retry_after of a denied call, in seconds
  log,      \* history: recorded admissions, in the order of their decisions
  seen,     \* history: how many there were when a call was denied
  latest,   \* history: the latest time entries were dropped for
  ordered   \* history: no decision was taken for an older time than that

vars == <<backend, clock, bucket, expires, pc, now, wait, log, seen, latest,
          ordered>>
bucketVars == <<bucket, expires, log, latest, ordered>>
denialVars == <<wait, seen>>

Places == {"idle", "stamped", "admitted", "denied", "failed"}

\* The last conjunct is a bound of its own: no bucket outgrows its limit.
TypeOK ==
  /\ backend \in Backends
  /\ clock \in 0..MaxTime
  /\ bucket \in Seq(Int)
  /\ expires \in Nat
  /\ pc \in [Requests -> Places]
  /\ now \in [Requests -> Int]
  /\ wait \in [Requests -> Int]
  /\ log \in Seq(Int)
  /\ seen \in [Requests -> Nat]
  /\ latest \in Int
  /\ ordered \in BOOLEAN
  /\ Len(bucket) <= Limit

Init ==
  /\ backend \in Backends
  /\ clock = 0
  /\ bucket = <<>>
  /\ expires = 0
  /\ pc = [r \in Requests |-> "idle"]
  /\ now = [r \in Requests |-> 0]
  /\ wait = [r \in Requests |-> 0]
  /\ log = <<>>
  /\ seen = [r \in Requests |-> 0]
  /\ latest = 0
  /\ ordered = TRUE

-----------------------------------------------------------------------------

Go(r, from, to) == pc[r] = from /\ pc' = [pc EXCEPT ![r] = to]
Larger(a, b) == IF a < b THEN b ELSE a

Tick ==
  /\ clock < MaxTime
  /\ clock' = clock + 1
  /\ UNCHANGED <<backend, pc, now, bucketVars, denialVars>>

\* now = time.time(), before the lock or the script; callers of one memory bucket
\* read one clock.
Stamp(r) ==
  /\ Go(r, "idle", "stamped")
  /\ \E lag \in Lags :
       /\ lag <= clock
       /\ backend = "memory" => lag = 0
       /\ now' = [now EXCEPT ![r] = clock - lag]
  /\ UNCHANGED <<backend, clock, bucketVars, denialVars>>

\* Mutant of Cutoff: a tick early.
CutoffEarly(r) == now[r] - Window - 1

Cutoff(r) == now[r] - Window

\* The n entries at the front are the ones that left the window.
Stale(r, n) ==
  /\ \A i \in 1..n : bucket[i] <= Cutoff(r)
  /\ n < Len(bucket) => bucket[n + 1] > Cutoff(r)

Kept(n) == SubSeq(bucket, n + 1, Len(bucket))

\* The deque appends; the sorted set keeps its members in the order of their
\* times.
Insert(kept, time) ==
  \E p \in 0..Len(kept) :
    /\ IF backend = "memory"
       THEN p = Len(kept)
       ELSE /\ \A i \in 1..p : kept[i] <= time
            /\ p < Len(kept) => kept[p + 1] > time
    /\ bucket' = SubSeq(kept, 1, p) \o <<time>> \o SubSeq(kept, p + 1, Len(kept))

\* Mutant of RetryAfter: both backends round down.
RetryAfterFloor(head, time) ==
  Larger(1, (head + Window - time) \div Second)

\* The memory backend rounds down, the script rounds up.
RetryAfter(head, time) ==
  Larger(1, IF backend = "memory"
            THEN (head + Window - time) \div Second
            ELSE (head + Window - time + Second - 1) \div Second)

Notice(r) ==
  /\ latest' = Larger(latest, now[r])
  /\ ordered' = (ordered /\ now[r] >= latest)

Admit(r, kept) ==
  /\ Len(kept) < Limit
  /\ Insert(kept, now[r])
  /\ expires' = IF backend = "redis" THEN clock + Window + Second ELSE 0
  /\ log' = Append(log, now[r])
  /\ Notice(r)
  /\ UNCHANGED denialVars

Deny(r, kept) ==
  /\ Len(kept) >= Limit
  /\ bucket' = kept
  /\ wait' = [wait EXCEPT ![r] = RetryAfter(kept[1], now[r])]
  /\ seen' = [seen EXCEPT ![r] = Len(log)]
  /\ Notice(r)
  /\ UNCHANGED <<expires, log>>

\* The critical section, or the script, and its answer.
Check(r) ==
  /\ \E n \in 0..Len(bucket) :
       /\ Stale(r, n)
       /\ \/ Admit(r, Kept(n)) /\ Go(r, "stamped", "admitted")
          \/ Deny(r, Kept(n)) /\ Go(r, "stamped", "denied")
  /\ UNCHANGED <<backend, clock, now>>

\* Redis cannot be reached, or its answer comes too late: the request is allowed,
\* whether the script ran or not.
Fail(r) ==
  /\ backend = "redis"
  /\ Go(r, "stamped", "failed")
  /\ \/ UNCHANGED <<bucketVars, denialVars>>
     \/ \E n \in 0..Len(bucket) :
          /\ Stale(r, n)
          /\ Admit(r, Kept(n)) \/ Deny(r, Kept(n))
  /\ UNCHANGED <<backend, clock, now>>

\* Mutant of Expire: the key's life is not renewed with its entries.
ExpireAnytime ==
  /\ backend = "redis"
  /\ bucket # <<>>
  /\ bucket' = <<>>
  /\ UNCHANGED <<backend, clock, expires, pc, now, denialVars, log, latest, ordered>>

\* EXPIRE: nothing was admitted for a window and a second.
Expire ==
  /\ backend = "redis"
  /\ bucket # <<>>
  /\ clock >= expires
  /\ bucket' = <<>>
  /\ latest' = Larger(latest, bucket[Len(bucket)] + Window)
  /\ UNCHANGED <<backend, clock, expires, pc, now, denialVars, log, ordered>>

Next ==
  \/ Tick
  \/ Expire
  \/ \E r \in Requests : Stamp(r) \/ Check(r) \/ Fail(r)

Spec == Init /\ [][Next]_vars

-----------------------------------------------------------------------------
(* Safety.                                                                 *)

\* As long as no call is overtaken, the limit holds in every window, not only in
\* those that start at a request: any Limit + 1 recorded admissions in a row span
\* more than the window, across denials, dropped entries, keys that expire and
\* answers that were lost (cache.py:13-31, 81-92, 149-163).
WindowRespected ==
  ordered =>
    \A i \in 1..Len(log) :
      i + Limit <= Len(log) => log[i + Limit] >= log[i] + Window

\* A call is only denied for Limit admissions inside the window that ends with
\* it.  The sorted set keeps that promise to overtaken calls as well.
DeniedOnlyWhenFull ==
  [][\A r \in Requests :
       pc[r] = "stamped" /\ pc'[r] = "denied" /\ (ordered' \/ backend = "redis") =>
         Cardinality({i \in 1..Len(log) : log[i] > now[r] - Window}) >= Limit]_vars

\* Retry-After is honoured: a call that comes as late as an earlier denial asked
\* for, with no admission since, is not denied.  The memory backend rounds down,
\* so there it may take one second more than it said (cache.py:28-29, 89).
RetryAfterIsHonoured ==
  [][\A r, s \in Requests :
       /\ pc[r] = "stamped" /\ pc'[r] = "denied"
       /\ pc[s] = "denied" /\ seen[s] = Len(log)
       => now[r] < now[s] + Second * (IF backend = "memory" THEN wait[s] + 1
                                                            ELSE wait[s])]_vars

-----------------------------------------------------------------------------
(* What it implements.                                                     *)

verdict == [r \in Requests |-> IF pc[r] \in {"idle", "stamped"} THEN "undecided"
                               ELSE pc[r]]

Sliding == INSTANCE SlidingWindow WITH
  Calls <- Requests, Times <- 0..MaxTime, admitted <- log,
  shared <- (backend = "redis")

\* Either backend is a sliding window: the entries it drops from the bucket never
\* make it admit a call that the recorded admissions fill the window for, nor deny
\* one they leave room for, whatever expired and whichever answers were lost
\* (cache.py:13-31, 81-92, 149-163).
WindowSlides == Sliding!Spec

=============================================================================
