------------------------- MODULE RateLimiterProofs -------------------------
(***************************************************************************)
(* Theorems about RateLimiter, for any limit, window, clock and number of  *)
(* calls, and for both backends: no bucket outgrows its limit, as long as  *)
(* no call is overtaken the limit holds in every window, denials and       *)
(* Retry-After can be relied on, and it implements SlidingWindow.          *)
(***************************************************************************)
EXTENDS RateLimiter, FiniteSetTheorems, TLAPS

\* What is left of a bucket when its first n entries are dropped.
LEMMA KeptType ==
  ASSUME TypeOK, NEW n \in 0..Len(bucket)
  PROVE  /\ Kept(n) \in Seq(Int)
         /\ Len(Kept(n)) = Len(bucket) - n
         /\ \A i \in 1..Len(Kept(n)) : Kept(n)[i] = bucket[n + i]
BY DEF TypeOK, Kept

LEMMA ConcatLength ==
  ASSUME NEW s \in Seq(Int), NEW t \in Seq(Int)
  PROVE  s \o t \in Seq(Int) /\ Len(s \o t) = Len(s) + Len(t)
OBVIOUS

LEMMA ConcatEntries ==
  ASSUME NEW s \in Seq(Int), NEW t \in Seq(Int)
  PROVE  /\ \A i \in 1..Len(s) : (s \o t)[i] = s[i]
         /\ \A i \in 1..Len(t) : (s \o t)[Len(s) + i] = t[i]
OBVIOUS

\* An insertion makes a bucket one entry longer.
LEMMA InsertType ==
  ASSUME NEW kept \in Seq(Int), NEW time \in Int, Insert(kept, time)
  PROVE  bucket' \in Seq(Int) /\ Len(bucket') = Len(kept) + 1
<1>1. PICK p \in 0..Len(kept) :
        bucket' = SubSeq(kept, 1, p) \o <<time>> \o SubSeq(kept, p + 1, Len(kept))
  BY DEF Insert
<1>2. SubSeq(kept, 1, p) \in Seq(Int) /\ Len(SubSeq(kept, 1, p)) = p
  OBVIOUS
<1>3. /\ SubSeq(kept, p + 1, Len(kept)) \in Seq(Int)
      /\ Len(SubSeq(kept, p + 1, Len(kept))) = Len(kept) - p
  OBVIOUS
<1> DEFINE a == SubSeq(kept, 1, p)
           b == SubSeq(kept, p + 1, Len(kept))
           c == a \o <<time>>
<1>4. a \in Seq(Int) /\ Len(a) = p /\ b \in Seq(Int) /\ Len(b) = Len(kept) - p
  BY <1>2, <1>3
<1>5. bucket' = c \o b
  BY <1>1
<1> HIDE DEF a, b
<1>6. c \in Seq(Int) /\ Len(c) = p + 1
  BY <1>4
<1> HIDE DEF c
<1>7. c \o b \in Seq(Int) /\ Len(c \o b) = Len(c) + Len(b)
  BY <1>4, <1>6, ConcatLength, Zenon
<1>8. Len(kept) \in Nat /\ p \in Nat
  OBVIOUS
<1>9. Len(bucket') = (p + 1) + (Len(kept) - p)
  BY <1>4, <1>5, <1>6, <1>7
<1>10. Len(bucket') = Len(kept) + 1
  BY <1>8, <1>9
<1>11. QED
  BY <1>5, <1>7, <1>10

\* A time that is not older than any entry goes to the end.
LEMMA InsertAtEnd ==
  ASSUME NEW kept \in Seq(Int), NEW time \in Int, Insert(kept, time),
         \A i \in 1..Len(kept) : kept[i] <= time
  PROVE  bucket' = Append(kept, time)
<1>1. PICK p \in 0..Len(kept) :
        /\ IF backend = "memory"
           THEN p = Len(kept)
           ELSE /\ \A i \in 1..p : kept[i] <= time
                /\ p < Len(kept) => kept[p + 1] > time
        /\ bucket' = SubSeq(kept, 1, p) \o <<time>>
                       \o SubSeq(kept, p + 1, Len(kept))
  BY DEF Insert
<1>2. p = Len(kept)
  <2>1. SUFFICES ASSUME p < Len(kept) PROVE FALSE
    OBVIOUS
  <2>2. p + 1 \in 1..Len(kept) /\ kept[p + 1] > time
    BY <1>1, <2>1
  <2>3. kept[p + 1] <= time /\ kept[p + 1] \in Int
    BY <2>2
  <2>4. QED
    BY <2>2, <2>3
<1>3. SubSeq(kept, 1, Len(kept)) = kept /\ SubSeq(kept, Len(kept) + 1, Len(kept)) = <<>>
  OBVIOUS
<1>4. bucket' = kept \o <<time>> \o <<>>
  BY <1>1, <1>2, <1>3
<1>5. QED
  BY <1>4

\* Both decisions leave a typed bucket within its limit.
LEMMA DecisionType ==
  ASSUME TypeOK, NEW r \in Requests, NEW n \in 0..Len(bucket),
         Admit(r, Kept(n)) \/ Deny(r, Kept(n))
  PROVE  /\ bucket' \in Seq(Int) /\ Len(bucket') <= Limit
         /\ log' \in Seq(Int)
         /\ latest' \in Int /\ ordered' \in BOOLEAN
         /\ seen' \in [Requests -> Nat]
<1>1. now[r] \in Int /\ Kept(n) \in Seq(Int) /\ Len(Kept(n)) = Len(bucket) - n
  BY KeptType DEF TypeOK
<1>2. latest' \in Int /\ ordered' \in BOOLEAN
  BY <1>1 DEF Admit, Deny, Notice, Larger, TypeOK
<1>3. CASE Admit(r, Kept(n))
  <2>1. bucket' \in Seq(Int) /\ Len(bucket') = Len(Kept(n)) + 1
    BY <1>1, <1>3, InsertType DEF Admit
  <2>2. QED
    <3>1. /\ Len(Kept(n)) < Limit /\ log' = Append(log, now[r]) /\ seen' = seen
      BY <1>3 DEF Admit, denialVars
    <3>2. Len(bucket') <= Limit
      <4>1. Len(Kept(n)) \in Nat /\ Limit \in Nat
        BY <1>1, LimiterAssumption
      <4>2. QED
        BY <2>1, <3>1, <4>1
    <3>3. log' \in Seq(Int)
      BY <1>1, <3>1 DEF TypeOK
    <3>4. QED
      BY <1>2, <2>1, <3>1, <3>2, <3>3 DEF TypeOK
<1>4. CASE Deny(r, Kept(n))
  <2>1. bucket' \in Seq(Int) /\ Len(bucket') <= Limit
    BY <1>1, <1>4, LimiterAssumption DEF Deny, TypeOK
  <2>2. QED
    BY <1>2, <1>4, <2>1 DEF Deny, TypeOK
<1>5. QED
  BY <1>3, <1>4

LEMMA DecisionWait ==
  ASSUME TypeOK, NEW r \in Requests, NEW n \in 0..Len(bucket),
         Admit(r, Kept(n)) \/ Deny(r, Kept(n))
  PROVE  wait' \in [Requests -> Int] /\ expires' \in Nat
<1>1. now[r] \in Int /\ Kept(n) \in Seq(Int)
  BY KeptType DEF TypeOK
<1>2. CASE Admit(r, Kept(n))
  <2>1. clock + Window + Second \in Nat
    BY LimiterAssumption DEF TypeOK
  <2>2. expires' \in Nat
    BY <1>2, <2>1 DEF Admit
  <2>3. wait' = wait
    BY <1>2 DEF Admit, denialVars
  <2>4. QED
    BY <2>2, <2>3 DEF TypeOK
<1>3. CASE Deny(r, Kept(n))
  <2>1. Kept(n)[1] \in Int
    BY <1>1, <1>3, LimiterAssumption DEF Deny
  <2>2. RetryAfter(Kept(n)[1], now[r]) \in Int
    <3> DEFINE head == Kept(n)[1] + Window - now[r]
    <3>1. head \in Int /\ Second \in Nat \ {0}
      BY <1>1, <2>1, LimiterAssumption
    <3> HIDE DEF head
    <3>2. head \div Second \in Int /\ (head + Second - 1) \div Second \in Int
      BY <3>1
    <3>3. RetryAfter(Kept(n)[1], now[r]) \in
            {1, head \div Second, (head + Second - 1) \div Second}
      BY <2>1 DEF RetryAfter, Larger, head
    <3>4. QED
      BY <3>2, <3>3
  <2>3. QED
    BY <1>3, <2>2 DEF Deny, TypeOK
<1>4. QED
  BY <1>2, <1>3

LEMMA TypeStep ==
  ASSUME TypeOK, [Next]_vars
  PROVE  TypeOK'
<1>1. CASE Tick
  BY <1>1, LimiterAssumption DEF Tick, TypeOK, bucketVars, denialVars
<1>2. CASE Expire
  <2>1. latest' \in Int
    BY <1>2, LimiterAssumption DEF Expire, TypeOK, Larger
  <2>2. QED
    BY <1>2, <2>1, LimiterAssumption DEF Expire, TypeOK, denialVars
<1>3. ASSUME NEW r \in Requests, Stamp(r)
      PROVE  TypeOK'
  <2>1. now' \in [Requests -> Int]
    BY <1>3, LimiterAssumption DEF Stamp, TypeOK
  <2>2. QED
    BY <1>3, <2>1 DEF Stamp, Go, Places, TypeOK, bucketVars, denialVars
<1>4. ASSUME NEW r \in Requests, Check(r)
      PROVE  TypeOK'
  <2>1. PICK n \in 0..Len(bucket) : Admit(r, Kept(n)) \/ Deny(r, Kept(n))
    BY <1>4 DEF Check
  <2>2. /\ pc' \in [Requests -> Places]
        /\ backend' = backend /\ clock' = clock /\ now' = now
    BY <1>4 DEF Check, Go, Places, TypeOK
  <2>3. QED
    BY <2>1, <2>2, DecisionType, DecisionWait DEF TypeOK
<1>5. ASSUME NEW r \in Requests, Fail(r)
      PROVE  TypeOK'
  <2>1. /\ pc' \in [Requests -> Places]
        /\ backend' = backend /\ clock' = clock /\ now' = now
    BY <1>5 DEF Fail, Go, Places, TypeOK
  <2>2. CASE UNCHANGED <<bucketVars, denialVars>>
    BY <2>1, <2>2 DEF TypeOK, bucketVars, denialVars
  <2>3. CASE \E n \in 0..Len(bucket) : Admit(r, Kept(n)) \/ Deny(r, Kept(n))
    BY <2>1, <2>3, DecisionType, DecisionWait DEF TypeOK
  <2>4. QED
    BY <1>5, <2>2, <2>3 DEF Fail
<1>6. CASE UNCHANGED vars
  BY <1>6 DEF vars, TypeOK
<1>7. QED
  BY <1>1, <1>2, <1>3, <1>4, <1>5, <1>6 DEF Next

LEMMA TypeInit == Init => TypeOK
BY LimiterAssumption DEF Init, TypeOK, Places

\* The variables have their types, and no bucket ever outgrows its limit.
THEOREM TypeCorrect == Spec => []TypeOK
BY TypeInit, TypeStep, PTL DEF Spec

-----------------------------------------------------------------------------
(* The window.                                                             *)

\* While no call is overtaken the bucket is the end of the log, the log is in
\* the order of its times, and whatever was dropped had left the window of the
\* latest decision.
Dropped == Len(log) - Len(bucket)

Faithful ==
  /\ Dropped \in 0..Len(log)
  /\ \A i \in 1..Len(bucket) : bucket[i] = log[Dropped + i]
  /\ \A i \in 1..Len(log) : log[i] <= latest
  /\ \A i, j \in 1..Len(log) : i <= j => log[i] <= log[j]
  /\ \A i \in 1..Dropped : log[i] + Window <= latest

WindowInv ==
  /\ TypeOK
  /\ ordered => Faithful
  /\ WindowRespected

LEMMA WindowInit == Init => WindowInv
<1>1. Init => TypeOK
  BY TypeInit
<1>2. QED
  BY <1>1 DEF Init, WindowInv, Faithful, Dropped, WindowRespected

\* What a decision that is not overtaken says about the clocks.
LEMMA NotOvertaken ==
  ASSUME TypeOK, NEW r \in Requests, Notice(r), ordered'
  PROVE  ordered /\ now[r] \in Int /\ now[r] >= latest /\ latest' = now[r]
<1>1. ordered /\ now[r] >= latest
  BY Zenon DEF Notice
<1>2. now[r] \in Int /\ latest \in Int
  BY DEF TypeOK
<1>3. latest' = Larger(latest, now[r])
  BY DEF Notice
<1>4. QED
  BY <1>1, <1>2, <1>3 DEF Larger

\* Dropping n stale entries keeps the rest the end of the log.
LEMMA StaleDropped ==
  ASSUME TypeOK, Faithful, NEW r \in Requests, NEW n \in 0..Len(bucket),
         Stale(r, n), now[r] >= latest
  PROVE  /\ \A i \in 1..Len(Kept(n)) : Kept(n)[i] = log[Dropped + n + i]
         /\ \A i \in 1..(Dropped + n) : log[i] + Window <= now[r]
         /\ Dropped + n = Len(log) - Len(Kept(n))
<1>1. now[r] \in Int /\ latest \in Int /\ Window \in Int
  BY LimiterAssumption DEF TypeOK
<1> DEFINE k == Kept(n)
<1>k. /\ Len(k) = Len(bucket) - n /\ \A i \in 1..Len(k) : k[i] = bucket[n + i]
      /\ Len(bucket) \in Nat /\ Len(log) \in Nat /\ Dropped \in Int
  BY KeptType DEF TypeOK, Dropped
<1> HIDE DEF k
<1>2. ASSUME NEW i \in 1..Len(k)
      PROVE  k[i] = log[Dropped + n + i]
  <2>1. n + i \in 1..Len(bucket) /\ Dropped + (n + i) = Dropped + n + i
    BY <1>k
  <2>2. QED
    BY <1>k, <2>1 DEF Faithful
<1>3. ASSUME NEW i \in 1..(Dropped + n)
      PROVE  log[i] + Window <= now[r]
  <2>1. i \in Int /\ Dropped \in Int /\ log[i] \in Int
    BY DEF Faithful, TypeOK, Dropped
  <2>2. CASE i <= Dropped
    BY <1>1, <2>1, <2>2 DEF Faithful
  <2>3. CASE i > Dropped
    <3>1. i - Dropped \in 1..n /\ log[i] = bucket[i - Dropped]
      BY <2>1, <2>3 DEF Faithful
    <3>2. log[i] <= now[r] - Window
      BY <3>1 DEF Stale, Cutoff
    <3>3. QED
      BY <1>1, <2>1, <3>2
  <2>4. QED
    BY <2>1, <2>2, <2>3
<1>4. Dropped + n = Len(log) - Len(k)
  BY <1>k DEF Dropped
<1>5. QED
  BY <1>2, <1>3, <1>4 DEF k

LEMMA AdmitStep ==
  ASSUME WindowInv, NEW r \in Requests, NEW n \in 0..Len(bucket),
         Stale(r, n), Admit(r, Kept(n)), ordered'
  PROVE  Faithful' /\ WindowRespected'
<1> DEFINE k == Kept(n)
           time == now[r]
           d == Dropped + n
<1>1. /\ TypeOK /\ ordered /\ Faithful /\ time \in Int /\ time >= latest
      /\ latest' = time
  BY NotOvertaken DEF WindowInv, Admit
<1>2. k \in Seq(Int) /\ Len(k) = Len(bucket) - n
  BY <1>1, KeptType
<1>3. /\ \A i \in 1..Len(k) : k[i] = log[d + i]
      /\ \A i \in 1..d : log[i] + Window <= time
      /\ d = Len(log) - Len(k)
  BY <1>1, StaleDropped
<1>4. /\ Len(log) \in Nat /\ Len(bucket) \in Nat /\ Dropped \in Nat
      /\ log \in Seq(Int) /\ latest \in Int
      /\ \A i \in 1..Len(log) : log[i] \in Int /\ log[i] <= latest
      /\ \A i, j \in 1..Len(log) : i <= j => log[i] <= log[j]
  BY <1>1 DEF Faithful, TypeOK
<1>5. Len(k) < Limit /\ Insert(k, time) /\ log' = Append(log, time)
  BY DEF Admit
<1>6. d \in Nat /\ Len(k) \in Nat /\ Len(log) = d + Len(k)
  BY <1>2, <1>3, <1>4
<1> HIDE DEF k, time, d
<1>7. \A i \in 1..Len(log) : log[i] \in Int /\ log[i] <= time
  BY <1>1, <1>4
<1>8. \A i \in 1..Len(k) : d + i \in 1..Len(log)
  BY <1>6
<1>9. \A i \in 1..Len(k) : k[i] <= time
  BY <1>3, <1>7, <1>8
<1>10. bucket' = Append(k, time)
  BY <1>1, <1>2, <1>5, <1>9, InsertAtEnd
<1>11. /\ Len(log') = Len(log) + 1 /\ log'[Len(log) + 1] = time
       /\ \A i \in 1..Len(log) : log'[i] = log[i]
  BY <1>1, <1>4, <1>5
<1>12. /\ Len(bucket') = Len(k) + 1 /\ bucket'[Len(k) + 1] = time
       /\ \A i \in 1..Len(k) : bucket'[i] = k[i]
  BY <1>1, <1>2, <1>10
<1>13. Dropped' = d
  BY <1>6, <1>11, <1>12 DEF Dropped
<1>14. Faithful'
  <2>1. ASSUME NEW i \in 1..Len(bucket')
        PROVE  bucket'[i] = log'[Dropped' + i]
    <3>1. i \in 1..(Len(k) + 1)
      BY <1>12
    <3>2. CASE i = Len(k) + 1
      <4>1. d + i = Len(log) + 1
        BY <1>6, <3>2
      <4>2. QED
        BY <1>11, <1>12, <1>13, <3>2, <4>1
    <3>3. CASE i # Len(k) + 1
      <4>1. i \in 1..Len(k)
        BY <1>6, <3>1, <3>3
      <4>2. d + i \in 1..Len(log)
        BY <1>8, <4>1
      <4>3. QED
        BY <1>3, <1>11, <1>12, <1>13, <4>1, <4>2
    <3>4. QED
      BY <3>2, <3>3
  <2>2. ASSUME NEW i \in 1..Len(log')
        PROVE  /\ log'[i] \in Int /\ log'[i] <= time
               /\ i # Len(log) + 1 => i \in 1..Len(log) /\ log'[i] = log[i]
    <3>1. i \in 1..(Len(log) + 1)
      BY <1>11
    <3>2. CASE i = Len(log) + 1
      BY <1>1, <1>11, <3>2
    <3>3. CASE i # Len(log) + 1
      <4>1. i \in 1..Len(log)
        BY <1>4, <3>1, <3>3
      <4>2. QED
        BY <1>7, <1>11, <4>1
    <3>4. QED
      BY <3>2, <3>3
  <2>3. ASSUME NEW i \in 1..Len(log'), NEW j \in 1..Len(log'), i <= j
        PROVE  log'[i] <= log'[j]
    <3>1. CASE j = Len(log) + 1
      BY <1>11, <2>2, <3>1
    <3>2. CASE j # Len(log) + 1
      <4>1. j \in 1..Len(log) /\ i # Len(log) + 1
        BY <1>4, <2>2, <2>3, <3>2
      <4>2. i \in 1..Len(log) /\ log'[i] = log[i] /\ log'[j] = log[j]
        BY <2>2, <3>2, <4>1
      <4>3. QED
        BY <1>4, <2>3, <4>1, <4>2
    <3>3. QED
      BY <3>1, <3>2
  <2>4. ASSUME NEW i \in 1..Dropped'
        PROVE  log'[i] + Window <= latest'
    <3>1. i \in 1..d /\ i \in 1..Len(log)
      BY <1>6, <1>13
    <3>2. QED
      BY <1>1, <1>3, <1>11, <3>1
  <2>5. Dropped' \in 0..Len(log')
    BY <1>4, <1>6, <1>11, <1>13
  <2>6. QED
    BY <1>1, <2>1, <2>2, <2>3, <2>4, <2>5 DEF Faithful
<1>15. WindowRespected'
  <2>1. SUFFICES ASSUME NEW i \in 1..Len(log'), i + Limit <= Len(log')
                 PROVE  log'[i + Limit] >= log'[i] + Window
    BY DEF WindowRespected
  <2>2. Limit \in Nat \ {0} /\ Window \in Nat
    BY LimiterAssumption
  <2>3. i \in 1..Len(log)
    BY <1>4, <1>11, <2>1, <2>2
  <2>4. CASE i + Limit <= Len(log)
    <3>1. log[i + Limit] >= log[i] + Window
      BY <1>1, <2>3, <2>4 DEF WindowInv, WindowRespected
    <3>2. i + Limit \in 1..Len(log)
      BY <2>2, <2>3, <2>4
    <3>3. QED
      BY <1>11, <2>3, <3>1, <3>2
  <2>5. CASE i + Limit = Len(log) + 1
    <3>1. i \in 1..d
      BY <1>5, <1>6, <2>2, <2>3, <2>5
    <3>2. log'[i + Limit] = time /\ log'[i] = log[i]
      BY <1>11, <2>3, <2>5
    <3>3. log[i] \in Int /\ log[i] + Window <= time
      BY <1>3, <1>7, <2>3, <3>1
    <3>4. QED
      BY <1>1, <2>2, <3>2, <3>3
  <2>6. i + Limit <= Len(log) \/ i + Limit = Len(log) + 1
    BY <1>4, <1>11, <2>1, <2>2, <2>3
  <2>7. QED
    BY <2>4, <2>5, <2>6
<1>16. QED
  BY <1>14, <1>15

LEMMA DenyStep ==
  ASSUME WindowInv, NEW r \in Requests, NEW n \in 0..Len(bucket),
         Stale(r, n), Deny(r, Kept(n)), ordered'
  PROVE  Faithful' /\ WindowRespected'
<1> DEFINE k == Kept(n)
           time == now[r]
           d == Dropped + n
<1>1. /\ TypeOK /\ ordered /\ Faithful /\ time \in Int /\ time >= latest
      /\ latest' = time /\ log' = log /\ bucket' = k
  BY NotOvertaken DEF WindowInv, Deny
<1>2. k \in Seq(Int) /\ Len(k) = Len(bucket) - n
  BY <1>1, KeptType
<1>3. /\ \A i \in 1..Len(k) : k[i] = log[d + i]
      /\ \A i \in 1..d : log[i] + Window <= time
      /\ d = Len(log) - Len(k)
  BY <1>1, StaleDropped
<1>4. /\ Len(log) \in Nat /\ Len(bucket) \in Nat /\ Dropped \in Nat
      /\ latest \in Int
      /\ \A i \in 1..Len(log) : log[i] \in Int /\ log[i] <= latest
      /\ \A i, j \in 1..Len(log) : i <= j => log[i] <= log[j]
  BY <1>1 DEF Faithful, TypeOK
<1>5. d \in 0..Len(log)
  BY <1>2, <1>3, <1>4
<1> HIDE DEF k, time, d
<1>6. Dropped' = d
  BY <1>1, <1>3 DEF Dropped
<1>7. \A i \in 1..Len(log) : log[i] <= time
  BY <1>1, <1>4
<1>8. Faithful'
  BY <1>1, <1>3, <1>4, <1>5, <1>6, <1>7 DEF Faithful
<1>9. WindowRespected'
  BY <1>1 DEF WindowInv, WindowRespected
<1>10. QED
  BY <1>8, <1>9

LEMMA ExpireStep ==
  ASSUME WindowInv, Expire, ordered'
  PROVE  Faithful' /\ WindowRespected'
<1>1. /\ TypeOK /\ ordered /\ Faithful /\ log' = log /\ bucket' = <<>>
      /\ latest' = Larger(latest, bucket[Len(bucket)] + Window)
  BY DEF WindowInv, Expire
<1>2. Len(bucket) \in 1..Len(log) /\ bucket[Len(bucket)] = log[Len(log)]
  <2>1. bucket # <<>> /\ bucket \in Seq(Int) /\ log \in Seq(Int)
    BY <1>1 DEF Expire, TypeOK
  <2>2. QED
    BY <1>1, <2>1 DEF Faithful, Dropped
<1>3. /\ \A i \in 1..Len(log) : log[i] \in Int /\ log[i] <= log[Len(log)]
      /\ \A i \in 1..Len(log) : log[i] <= latest
  BY <1>1, <1>2 DEF Faithful, TypeOK
<1>4. latest' \in Int /\ latest' >= latest /\ latest' >= log[Len(log)] + Window
  BY <1>1, <1>2, <1>3, LimiterAssumption DEF Larger, TypeOK
<1>5. Dropped' = Len(log)
  BY <1>1 DEF Dropped, TypeOK
<1>6. \A i \in 1..Len(log) : log[i] <= latest' /\ log[i] + Window <= latest'
  <2>1. Len(log) \in 1..Len(log) /\ latest \in Int /\ Window \in Nat
    BY <1>1, <1>2, LimiterAssumption DEF TypeOK
  <2>2. QED
    BY <1>3, <1>4, <2>1
<1>7. Faithful'
  BY <1>1, <1>5, <1>6 DEF Faithful, TypeOK
<1>8. WindowRespected'
  BY <1>1 DEF WindowInv, WindowRespected
<1>9. QED
  BY <1>7, <1>8

LEMMA WindowStep == WindowInv /\ [Next]_vars => WindowInv'
<1> SUFFICES ASSUME WindowInv, [Next]_vars PROVE WindowInv'
  OBVIOUS
<1>1. TypeOK'
  BY TypeStep DEF WindowInv
<1>2. CASE ~ordered'
  BY <1>1, <1>2 DEF WindowInv, WindowRespected
<1>3. CASE ordered' /\ UNCHANGED bucketVars
  BY <1>1, <1>3 DEF WindowInv, WindowRespected, bucketVars, Faithful, Dropped
<1>4. CASE ordered' /\ Expire
  BY <1>1, <1>4, ExpireStep DEF WindowInv
<1>5. ASSUME NEW r \in Requests, NEW n \in 0..Len(bucket), ordered', Stale(r, n),
             Admit(r, Kept(n)) \/ Deny(r, Kept(n))
      PROVE  WindowInv'
  BY <1>1, <1>5, AdmitStep, DenyStep DEF WindowInv
<1>6. CASE Tick \/ (\E r \in Requests : Stamp(r)) \/ UNCHANGED vars
  BY <1>2, <1>3, <1>6 DEF Tick, Stamp, vars, bucketVars
<1>7. ASSUME NEW r \in Requests, Check(r)
      PROVE  WindowInv'
  BY <1>2, <1>5, <1>7 DEF Check
<1>8. ASSUME NEW r \in Requests, Fail(r)
      PROVE  WindowInv'
  BY <1>2, <1>3, <1>5, <1>8 DEF Fail
<1>9. QED
  BY <1>2, <1>4, <1>6, <1>7, <1>8 DEF Next

\* Any Limit + 1 recorded admissions in a row span more than the window, for
\* every limit and window, as long as no call is overtaken (cache.py:13-31,
\* 81-92).
THEOREM WindowCorrect == Spec => []WindowRespected
<1>1. WindowInv => WindowRespected
  BY DEF WindowInv
<1>2. QED
  BY <1>1, WindowInit, WindowStep, PTL DEF Spec

-----------------------------------------------------------------------------
(* Denials.  Every entry of a bucket is an admission of its own, and where  *)
(* denials are trusted the bucket is in the order of its times: then a full *)
(* bucket whose first entry is inside the window is a full window.          *)

\* f maps the entries of a bucket to different admissions of the same times.
Draws(f, b, l) ==
  /\ f \in [1..Len(b) -> 1..Len(l)]
  /\ \A i, j \in 1..Len(b) : f[i] = f[j] => i = j
  /\ \A i \in 1..Len(b) : b[i] = l[f[i]]

Drawn == \E f : Draws(f, bucket, log)

Sorted(b) == \A i, j \in 1..Len(b) : i <= j => b[i] <= b[j]

\* A full bucket on which a call was denied, and which nobody has added to since,
\* has room again no later than the denial said.
Promise(s) ==
  now[s] + Second * (IF backend = "memory" THEN wait[s] + 1 ELSE wait[s])

PromiseKept ==
  \A s \in Requests : pc[s] = "denied" =>
    /\ seen[s] <= Len(log)
    /\ seen[s] = Len(log) /\ Len(bucket) >= Limit =>
         bucket[1] + Window <= Promise(s)

DenialInv ==
  /\ WindowInv
  /\ Drawn
  /\ backend = "redis" => Sorted(bucket)
  /\ PromiseKept

\* What is left of a bucket is drawn from the same admissions, in order.
LEMMA KeptDrawn ==
  ASSUME TypeOK, NEW n \in 0..Len(bucket), Drawn
  PROVE  \E f : Draws(f, Kept(n), log)
<1>1. PICK f : Draws(f, bucket, log)
  BY DEF Drawn
<1> DEFINE k == Kept(n)
           g == [i \in 1..Len(k) |-> f[n + i]]
<1>2. /\ Len(k) = Len(bucket) - n /\ \A i \in 1..Len(k) : k[i] = bucket[n + i]
      /\ Len(bucket) \in Nat
  BY KeptType DEF TypeOK
<1> HIDE DEF k
<1>3. \A i \in 1..Len(k) : n + i \in 1..Len(bucket) /\ g[i] = f[n + i]
  BY <1>2
<1>4. g \in [1..Len(k) -> 1..Len(log)]
  BY <1>1, <1>3 DEF Draws
<1>5. ASSUME NEW i \in 1..Len(k), NEW j \in 1..Len(k), g[i] = g[j]
      PROVE  i = j
  <2>1. n + i = n + j
    BY <1>1, <1>3, <1>5 DEF Draws
  <2>2. QED
    BY <2>1
<1>6. \A i \in 1..Len(k) : k[i] = log[g[i]]
  BY <1>1, <1>2, <1>3 DEF Draws
<1> HIDE DEF g
<1>7. Draws(g, k, log)
  BY <1>4, <1>5, <1>6 DEF Draws
<1>8. QED
  BY <1>7 DEF k

LEMMA KeptSorted ==
  ASSUME TypeOK, NEW n \in 0..Len(bucket), Sorted(bucket)
  PROVE  Sorted(Kept(n))
<1> SUFFICES ASSUME NEW i \in 1..Len(Kept(n)), NEW j \in 1..Len(Kept(n)), i <= j
             PROVE  Kept(n)[i] <= Kept(n)[j]
  BY DEF Sorted
<1>1. Len(Kept(n)) = Len(bucket) - n /\ Len(bucket) \in Nat
  BY KeptType DEF TypeOK
<1>2. n + i \in 1..Len(bucket) /\ n + j \in 1..Len(bucket) /\ n + i <= n + j
  BY <1>1
<1>3. Kept(n)[i] = bucket[n + i] /\ Kept(n)[j] = bucket[n + j]
  BY KeptType
<1>4. QED
  BY <1>2, <1>3 DEF Sorted

\* The entries of a bucket after an insertion.
LEMMA InsertEntries ==
  ASSUME NEW kept \in Seq(Int), NEW time \in Int, Insert(kept, time)
  PROVE  \E p \in 0..Len(kept) :
           /\ \A i \in 1..(Len(kept) + 1) :
                bucket'[i] = IF i <= p THEN kept[i]
                             ELSE IF i = p + 1 THEN time ELSE kept[i - 1]
           /\ backend # "memory" =>
                /\ \A i \in 1..p : kept[i] <= time
                /\ p < Len(kept) => kept[p + 1] > time
<1>1. PICK p \in 0..Len(kept) :
        /\ IF backend = "memory"
           THEN p = Len(kept)
           ELSE /\ \A i \in 1..p : kept[i] <= time
                /\ p < Len(kept) => kept[p + 1] > time
        /\ bucket' = SubSeq(kept, 1, p) \o <<time>>
                       \o SubSeq(kept, p + 1, Len(kept))
  BY DEF Insert
<1> DEFINE a == SubSeq(kept, 1, p)
           b == SubSeq(kept, p + 1, Len(kept))
           c == a \o <<time>>
<1>2. /\ a \in Seq(Int) /\ Len(a) = p /\ \A i \in 1..p : a[i] = kept[i]
      /\ p \in Nat /\ Len(kept) \in Nat
  OBVIOUS
<1>3. /\ b \in Seq(Int) /\ Len(b) = Len(kept) - p
      /\ \A i \in 1..(Len(kept) - p) : b[i] = kept[p + i]
  OBVIOUS
<1>4. bucket' = c \o b
  BY <1>1
<1> HIDE DEF a, b
<1>5. /\ c \in Seq(Int) /\ Len(c) = p + 1 /\ c[p + 1] = time
      /\ \A i \in 1..p : c[i] = kept[i]
  BY <1>2
<1> HIDE DEF c
<1>6. /\ \A i \in 1..(p + 1) : bucket'[i] = c[i]
      /\ \A i \in 1..(Len(kept) - p) : bucket'[p + 1 + i] = b[i]
  <2>1. /\ \A i \in 1..Len(c) : (c \o b)[i] = c[i]
        /\ \A i \in 1..Len(b) : (c \o b)[Len(c) + i] = b[i]
    BY <1>3, <1>5, ConcatEntries, Zenon
  <2>2. QED
    BY <1>3, <1>4, <1>5, <2>1, Zenon
<1>7. ASSUME NEW i \in 1..(Len(kept) + 1)
      PROVE  bucket'[i] = IF i <= p THEN kept[i]
                          ELSE IF i = p + 1 THEN time ELSE kept[i - 1]
  <2>1. CASE i <= p
    <3>1. i \in 1..p /\ i \in 1..(p + 1)
      BY <1>2, <2>1
    <3>2. QED
      BY <1>5, <1>6, <2>1, <3>1
  <2>2. CASE i = p + 1
    <3>1. i \in 1..(p + 1) /\ ~(i <= p)
      BY <1>2, <2>2
    <3>2. QED
      BY <1>5, <1>6, <2>2, <3>1
  <2>3. CASE i > p + 1
    <3>1. /\ i - (p + 1) \in 1..(Len(kept) - p)
          /\ p + 1 + (i - (p + 1)) = i /\ p + (i - (p + 1)) = i - 1
      BY <1>2, <2>3
    <3>2. bucket'[i] = kept[i - 1]
      BY <1>3, <1>6, <3>1
    <3>3. QED
      BY <1>2, <2>3, <3>2
  <2>4. QED
    BY <1>2, <2>1, <2>2, <2>3
<1>8. QED
  BY <1>1, <1>7

\* An admission is drawn as itself.
LEMMA AdmitDrawn ==
  ASSUME NEW kept \in Seq(Int), NEW time \in Int, log \in Seq(Int),
         \E g : Draws(g, kept, log), Insert(kept, time), log' = Append(log, time)
  PROVE  Drawn'
<1>1. PICK g : Draws(g, kept, log)
  OBVIOUS
<1>2. PICK p \in 0..Len(kept) :
        \A i \in 1..(Len(kept) + 1) :
          bucket'[i] = IF i <= p THEN kept[i]
                       ELSE IF i = p + 1 THEN time ELSE kept[i - 1]
  BY InsertEntries
<1>3. /\ Len(bucket') = Len(kept) + 1 /\ Len(kept) \in Nat /\ Len(log) \in Nat
      /\ p \in Nat /\ p <= Len(kept)
  BY InsertType
<1>4. /\ Len(log') = Len(log) + 1 /\ log'[Len(log) + 1] = time
      /\ \A i \in 1..Len(log) : log'[i] = log[i]
  OBVIOUS
<1>5. /\ \A i \in 1..Len(kept) : g[i] \in 1..Len(log) /\ kept[i] = log[g[i]]
      /\ \A i, j \in 1..Len(kept) : g[i] = g[j] => i = j
  BY <1>1 DEF Draws
<1> DEFINE h == [i \in 1..(Len(kept) + 1) |->
                   IF i <= p THEN g[i] ELSE IF i = p + 1 THEN Len(log) + 1 ELSE g[i - 1]]
<1>6. ASSUME NEW i \in 1..(Len(kept) + 1)
      PROVE  /\ i <= p => i \in 1..Len(kept) /\ h[i] = g[i]
             /\ i = p + 1 => h[i] = Len(log) + 1
             /\ i > p + 1 => i - 1 \in 1..Len(kept) /\ h[i] = g[i - 1]
             /\ i <= p \/ i = p + 1 \/ i > p + 1
  BY <1>3
<1>7. h \in [1..(Len(kept) + 1) -> 1..Len(log')]
  <2>1. \A i \in 1..(Len(kept) + 1) : h[i] \in 1..(Len(log) + 1)
    <3> SUFFICES ASSUME NEW i \in 1..(Len(kept) + 1)
                 PROVE  h[i] \in 1..(Len(log) + 1)
      OBVIOUS
    <3> HIDE DEF h
    <3>1. h[i] = Len(log) + 1 \/ h[i] \in 1..Len(log)
      BY <1>5, <1>6
    <3>2. QED
      BY <1>3, <3>1
  <2>2. QED
    BY <1>4, <2>1
<1>h. h = [i \in 1..(Len(kept) + 1) |-> h[i]]
  OBVIOUS
<1> HIDE DEF h
<1>8. ASSUME NEW i \in 1..(Len(kept) + 1), NEW j \in 1..(Len(kept) + 1), h[i] = h[j]
      PROVE  i = j
  <2>1. \A k \in 1..Len(kept) : g[k] # Len(log) + 1
    BY <1>3, <1>5
  <2>2. CASE i = p + 1
    <3>1. ~(j <= p) /\ ~(j > p + 1)
      BY <1>6, <1>8, <2>1, <2>2
    <3>2. QED
      BY <1>3, <2>2, <3>1
  <2>3. CASE j = p + 1
    <3>1. ~(i <= p) /\ ~(i > p + 1)
      BY <1>6, <1>8, <2>1, <2>3
    <3>2. QED
      BY <1>3, <2>3, <3>1
  <2>4. CASE i <= p /\ j <= p
    BY <1>5, <1>6, <1>8, <2>4
  <2>5. CASE i > p + 1 /\ j > p + 1
    <3>1. /\ i - 1 \in 1..Len(kept) /\ j - 1 \in 1..Len(kept)
          /\ g[i - 1] = g[j - 1]
      BY <1>6, <1>8, <2>5
    <3>2. i - 1 = j - 1
      BY <1>5, <3>1
    <3>3. QED
      BY <1>3, <3>2
  <2>6. CASE i <= p /\ j > p + 1
    <3>1. i = j - 1
      BY <1>5, <1>6, <1>8, <2>6
    <3>2. QED
      BY <1>3, <2>6, <3>1
  <2>7. CASE i > p + 1 /\ j <= p
    <3>1. i - 1 = j
      BY <1>5, <1>6, <1>8, <2>7
    <3>2. QED
      BY <1>3, <2>7, <3>1
  <2>8. QED
    BY <1>6, <2>2, <2>3, <2>4, <2>5, <2>6, <2>7
<1>9. ASSUME NEW i \in 1..(Len(kept) + 1)
      PROVE  bucket'[i] = log'[h[i]]
  <2>1. CASE i <= p
    <3>1. bucket'[i] = kept[i] /\ h[i] = g[i] /\ i \in 1..Len(kept)
      BY <1>2, <1>6, <2>1
    <3>2. kept[i] = log[g[i]] /\ log'[g[i]] = log[g[i]]
      BY <1>4, <1>5, <3>1
    <3>3. QED
      BY <3>1, <3>2
  <2>2. CASE i = p + 1
    BY <1>2, <1>3, <1>4, <1>6, <2>2
  <2>3. CASE i > p + 1
    <3>1. bucket'[i] = kept[i - 1] /\ h[i] = g[i - 1] /\ i - 1 \in 1..Len(kept)
      BY <1>2, <1>3, <1>6, <2>3
    <3>2. kept[i - 1] = log[g[i - 1]] /\ log'[g[i - 1]] = log[g[i - 1]]
      BY <1>4, <1>5, <3>1
    <3>3. QED
      BY <3>1, <3>2
  <2>4. QED
    BY <1>6, <2>1, <2>2, <2>3
<1>10. Draws(h, bucket', log')
  BY <1>3, <1>7, <1>8, <1>9 DEF Draws
<1>11. QED
  BY <1>10 DEF Drawn

\* The sorted set stays sorted.
LEMMA AdmitSorted ==
  ASSUME NEW kept \in Seq(Int), NEW time \in Int, Sorted(kept), Insert(kept, time),
         backend # "memory"
  PROVE  Sorted(bucket')
<1>1. PICK p \in 0..Len(kept) :
        /\ \A i \in 1..(Len(kept) + 1) :
             bucket'[i] = IF i <= p THEN kept[i]
                          ELSE IF i = p + 1 THEN time ELSE kept[i - 1]
        /\ \A i \in 1..p : kept[i] <= time
        /\ p < Len(kept) => kept[p + 1] > time
  BY InsertEntries
<1>2. /\ Len(bucket') = Len(kept) + 1 /\ Len(kept) \in Nat
      /\ p \in Nat /\ p <= Len(kept)
  BY InsertType
<1>3. /\ \A i \in 1..Len(kept) : kept[i] \in Int
      /\ \A i, j \in 1..Len(kept) : i <= j => kept[i] <= kept[j]
  BY DEF Sorted
<1>4. ASSUME NEW i \in 1..Len(kept), i > p
      PROVE  time < kept[i]
  <2>1. p + 1 \in 1..Len(kept) /\ p + 1 <= i /\ p < Len(kept)
    BY <1>2, <1>4
  <2>2. kept[p + 1] > time /\ kept[p + 1] <= kept[i]
    BY <1>1, <1>3, <2>1
  <2>3. QED
    BY <1>3, <2>1, <2>2
<1>5. ASSUME NEW i \in 1..(Len(kept) + 1), NEW j \in 1..(Len(kept) + 1), i < j
      PROVE  bucket'[i] <= bucket'[j]
  <2>1. CASE j <= p
    BY <1>1, <1>2, <1>3, <1>5, <2>1
  <2>2. CASE j = p + 1
    <3>1. i \in 1..p /\ bucket'[i] = kept[i] /\ bucket'[j] = time
      BY <1>1, <1>2, <1>5, <2>2
    <3>2. QED
      BY <1>1, <3>1
  <2>3. CASE j > p + 1
    <3>1. /\ j - 1 \in 1..Len(kept) /\ j - 1 > p /\ bucket'[j] = kept[j - 1]
          /\ time < kept[j - 1]
      BY <1>1, <1>2, <1>4, <2>3
    <3>2. CASE i <= p
      <4>1. i \in 1..Len(kept) /\ i <= j - 1 /\ bucket'[i] = kept[i]
        BY <1>1, <1>2, <1>5, <3>1, <3>2
      <4>2. QED
        BY <1>3, <3>1, <4>1
    <3>3. CASE i = p + 1
      <4>1. bucket'[i] = time
        BY <1>1, <1>2, <3>3
      <4>2. QED
        BY <1>3, <3>1, <4>1
    <3>4. CASE i > p + 1
      <4>1. i - 1 \in 1..Len(kept) /\ i - 1 <= j - 1 /\ bucket'[i] = kept[i - 1]
        BY <1>1, <1>2, <1>5, <3>1, <3>4
      <4>2. QED
        BY <1>3, <3>1, <4>1
    <3>5. QED
      BY <1>2, <3>2, <3>3, <3>4
  <2>4. QED
    BY <1>2, <2>1, <2>2, <2>3
<1>6. \A i \in 1..(Len(kept) + 1) : bucket'[i] \in Int
  BY <1>2, InsertType
<1>7. QED
  BY <1>2, <1>5, <1>6 DEF Sorted

\* Rounding down loses less than a second, rounding up nothing.
LEMMA PromiseSuffices ==
  ASSUME NEW head \in Int, NEW time \in Int
  PROVE  LET seconds == RetryAfter(head, time) IN
         head + Window <= time +
           Second * (IF backend = "memory" THEN seconds + 1 ELSE seconds)
<1> DEFINE ticks == head + Window - time
           down == ticks \div Second
           up == (ticks + Second - 1) \div Second
           seconds == RetryAfter(head, time)
<1>1. Second \in Nat \ {0} /\ ticks \in Int
  BY LimiterAssumption
<1>2. seconds = Larger(1, IF backend = "memory" THEN down ELSE up)
  BY DEF RetryAfter
<1>3. head + Window = time + ticks
  BY LimiterAssumption
<1> HIDE DEF ticks
<1>4. down \in Int /\ up \in Int
  BY <1>1
<1>5. /\ ticks < Second * down + Second
      /\ ticks + Second - 1 < Second * up + Second
  <2>1. \A n \in Int : n = Second * (n \div Second) + (n % Second)
    BY <1>1
  <2>2. \A n \in Int : n % Second \in 0..(Second - 1)
    BY <1>1
  <2>3. ticks + Second - 1 \in Int
    BY <1>1
  <2>4. \A n \in Int : n < Second * (n \div Second) + Second
    BY <1>1, <2>1, <2>2
  <2>5. QED
    BY <1>1, <2>3, <2>4
<1> HIDE DEF down, up
<1>6. \A a, b \in Int : a <= b => Second * a <= Second * b
  BY <1>1
<1>7. CASE backend = "memory"
  <2>1. seconds \in Int /\ down <= seconds
    BY <1>2, <1>4, <1>7 DEF Larger
  <2>2. Second * (down + 1) <= Second * (seconds + 1)
    BY <1>4, <1>6, <2>1
  <2>3. Second * (down + 1) = Second * down + Second
    BY <1>1, <1>4
  <2>4. Second * down \in Int /\ Second * (seconds + 1) \in Int
    BY <1>1, <1>4, <2>1
  <2>5. ticks <= Second * (seconds + 1)
    BY <1>1, <1>5, <2>2, <2>3, <2>4
  <2>6. QED
    BY <1>1, <1>3, <1>7, <2>4, <2>5
<1>8. CASE backend # "memory"
  <2>1. seconds \in Int /\ up <= seconds
    BY <1>2, <1>4, <1>8 DEF Larger
  <2>2. Second * up <= Second * seconds
    BY <1>4, <1>6, <2>1
  <2>3. Second * up \in Int /\ Second * seconds \in Int
    BY <1>1, <1>4, <2>1
  <2>4. ticks <= Second * seconds
    BY <1>1, <1>5, <2>2, <2>3
  <2>5. QED
    BY <1>1, <1>3, <1>8, <2>3, <2>4
<1>9. QED
  BY <1>7, <1>8

\* A decision that leaves a full bucket has dropped nothing.
LEMMA FullStays ==
  ASSUME TypeOK, NEW n \in 0..Len(bucket), Len(Kept(n)) >= Limit
  PROVE  Kept(n) = bucket /\ Len(bucket) = Limit
<1>1. /\ bucket \in Seq(Int) /\ Len(bucket) <= Limit /\ Limit \in Nat
      /\ Len(Kept(n)) = Len(bucket) - n /\ Len(bucket) \in Nat
  BY KeptType, LimiterAssumption DEF TypeOK
<1>2. n = 0 /\ Len(bucket) = Limit
  BY <1>1
<1>3. Kept(0) = bucket
  BY <1>1 DEF Kept
<1>4. QED
  BY <1>2, <1>3

\* A decision keeps the promises of earlier denials and makes one of its own.
LEMMA PromiseStep ==
  ASSUME TypeOK, PromiseKept, NEW r \in Requests, NEW n \in 0..Len(bucket),
         NEW to \in Places \ {"idle", "stamped"},
         pc[r] = "stamped", pc' = [pc EXCEPT ![r] = to],
         UNCHANGED <<backend, now>>,
         \/ Admit(r, Kept(n)) /\ to # "denied"
         \/ Deny(r, Kept(n))
  PROVE  PromiseKept'
<1> SUFFICES ASSUME NEW s \in Requests, pc'[s] = "denied"
             PROVE  /\ seen'[s] <= Len(log')
                    /\ seen'[s] = Len(log') /\ Len(bucket') >= Limit =>
                         bucket'[1] + Window <= Promise(s)'
  BY DEF PromiseKept
<1>1. /\ s # r => pc[s] = "denied"
      /\ s = r => to = "denied"
  BY DEF TypeOK
<1>2. /\ Len(log) \in Nat /\ seen[s] \in Nat /\ Kept(n) \in Seq(Int)
      /\ now[r] \in Int
  BY KeptType DEF TypeOK
<1>3. CASE Admit(r, Kept(n)) /\ to # "denied"
  <2>1. /\ s # r /\ log' = Append(log, now[r]) /\ seen' = seen
    BY <1>1, <1>3 DEF Admit, denialVars
  <2>2. Len(log') = Len(log) + 1
    BY <2>1 DEF TypeOK
  <2>3. seen'[s] <= Len(log)
    BY <1>1, <2>1 DEF PromiseKept
  <2>4. QED
    BY <1>2, <2>1, <2>2, <2>3
<1>4. CASE Deny(r, Kept(n)) /\ s # r
  <2>1. /\ log' = log /\ bucket' = Kept(n)
        /\ seen'[s] = seen[s] /\ wait'[s] = wait[s]
    BY <1>4 DEF Deny, TypeOK
  <2>2. Promise(s)' = Promise(s)
    BY <2>1 DEF Promise
  <2>3. Len(bucket') >= Limit => bucket' = bucket
    BY <2>1, FullStays
  <2>4. QED
    BY <1>1, <1>4, <2>1, <2>2, <2>3 DEF PromiseKept
<1>5. CASE Deny(r, Kept(n)) /\ s = r
  <2>1. /\ log' = log /\ bucket' = Kept(n) /\ Len(Kept(n)) >= Limit
        /\ seen'[r] = Len(log)
        /\ wait'[r] = RetryAfter(Kept(n)[1], now[r])
    BY <1>5 DEF Deny, TypeOK
  <2>2. Kept(n)[1] \in Int
    BY <1>2, <2>1, LimiterAssumption
  <2>3. bucket'[1] + Window <= Promise(r)'
    BY <1>2, <2>1, <2>2, PromiseSuffices DEF Promise
  <2>4. QED
    BY <1>2, <1>5, <2>1, <2>3
<1>6. QED
  BY <1>3, <1>4, <1>5

\* A denial closes a full window: each of the entries it counted is an admission
\* of its own inside the window.
LEMMA FullWindow ==
  ASSUME TypeOK, Drawn, Sorted(bucket), NEW r \in Requests, NEW n \in 0..Len(bucket),
         Stale(r, n), Deny(r, Kept(n))
  PROVE  Cardinality({i \in 1..Len(log) : log[i] > now[r] - Window}) >= Limit
<1> DEFINE k == Kept(n)
           S == {i \in 1..Len(log) : log[i] > now[r] - Window}
<1>1. /\ Limit \in Nat \ {0} /\ now[r] - Window \in Int
      /\ Len(bucket) \in Nat /\ Len(log) \in Nat
      /\ \A i \in 1..Len(bucket) : bucket[i] \in Int
  BY LimiterAssumption DEF TypeOK
<1>2. /\ Len(k) = Len(bucket) - n /\ \A i \in 1..Len(k) : k[i] = bucket[n + i]
      /\ Len(k) >= Limit
  BY KeptType DEF Deny
<1>3. PICK f : Draws(f, k, log)
  BY KeptDrawn
<1> HIDE DEF k
<1>4. ASSUME NEW i \in 1..Limit
      PROVE  i \in 1..Len(k) /\ k[i] > now[r] - Window
  <2>1. i \in 1..Len(k) /\ n + i \in 1..Len(bucket) /\ n + 1 \in 1..Len(bucket)
        /\ n < Len(bucket) /\ n + 1 <= n + i
    BY <1>1, <1>2
  <2>2. bucket[n + 1] > now[r] - Window
    BY <2>1 DEF Stale, Cutoff
  <2>3. bucket[n + 1] <= bucket[n + i]
    BY <2>1 DEF Sorted
  <2>4. k[i] = bucket[n + i] /\ bucket[n + 1] \in Int /\ bucket[n + i] \in Int
    BY <1>1, <1>2, <2>1
  <2>5. QED
    BY <1>1, <2>1, <2>2, <2>3, <2>4
<1> DEFINE g == [i \in 1..Limit |-> f[i]]
<1>5. g \in [1..Limit -> S]
  BY <1>3, <1>4 DEF Draws
<1>6. \A i, j \in 1..Limit : g[i] = g[j] => i = j
  BY <1>3, <1>4 DEF Draws
<1>7. IsFiniteSet(S) /\ Cardinality(S) \in Nat
  <2>1. IsFiniteSet(1..Len(log)) /\ S \in SUBSET (1..Len(log))
    BY <1>1, FS_Interval
  <2>2. IsFiniteSet(S)
    BY <2>1, FS_Subset, Zenon
  <2>3. QED
    BY <2>2, FS_CardinalityType, Zenon
<1>8. IsFiniteSet(1..Limit) /\ Cardinality(1..Limit) = Limit
  <2>1. Cardinality(1..Limit) = IF 1 > Limit THEN 0 ELSE Limit - 1 + 1
    BY <1>1, FS_Interval
  <2>2. IsFiniteSet(1..Limit)
    BY <1>1, FS_Interval
  <2>3. QED
    BY <1>1, <2>1, <2>2
<1> DEFINE N == 1..Limit
<1> HIDE DEF S, g
<1>9. ~(Cardinality(S) < Cardinality(N))
  <2>1. g \in [N -> S] /\ IsFiniteSet(N) /\ \A i, j \in N : g[i] = g[j] => i = j
    BY <1>5, <1>6, <1>8
  <2> HIDE DEF N
  <2>2. SUFFICES ASSUME Cardinality(S) < Cardinality(N)
                 PROVE  FALSE
    OBVIOUS
  <2>3. \E i, j \in N : i # j /\ g[i] = g[j]
    BY <1>7, <2>1, <2>2, FS_PigeonHole
  <2>4. QED
    BY <2>1, <2>3
<1>10. Cardinality(S) >= Limit
  BY <1>1, <1>7, <1>8, <1>9
<1>11. QED
  BY <1>10 DEF S

\* Every decision, recorded or lost, preserves the invariant.
LEMMA DenialDecision ==
  ASSUME DenialInv, NEW r \in Requests, NEW n \in 0..Len(bucket),
         NEW to \in Places \ {"idle", "stamped"},
         pc[r] = "stamped", pc' = [pc EXCEPT ![r] = to],
         UNCHANGED <<backend, now>>,
         \/ Admit(r, Kept(n)) /\ to # "denied"
         \/ Deny(r, Kept(n))
  PROVE  Drawn' /\ (backend = "redis" => Sorted(bucket')) /\ PromiseKept'
<1>1. TypeOK /\ Drawn /\ PromiseKept /\ (backend = "redis" => Sorted(bucket))
  BY DEF DenialInv, WindowInv
<1>2. PromiseKept'
  BY <1>1, PromiseStep
<1>3. \E f : Draws(f, Kept(n), log)
  BY <1>1, KeptDrawn
<1>4. Kept(n) \in Seq(Int) /\ now[r] \in Int /\ log \in Seq(Int)
  BY <1>1, KeptType DEF TypeOK
<1>5. backend = "redis" => Sorted(Kept(n))
  BY <1>1, KeptSorted
<1>6. CASE Admit(r, Kept(n))
  <2>1. Insert(Kept(n), now[r]) /\ log' = Append(log, now[r])
    BY <1>6 DEF Admit
  <2>2. Drawn'
    BY <1>3, <1>4, <2>1, AdmitDrawn
  <2>3. backend = "redis" => Sorted(bucket')
    BY <1>4, <1>5, <2>1, AdmitSorted
  <2>4. QED
    BY <1>2, <2>2, <2>3
<1>7. CASE Deny(r, Kept(n))
  <2>1. bucket' = Kept(n) /\ log' = log
    BY <1>7 DEF Deny
  <2>2. Drawn'
    BY <1>3, <2>1 DEF Drawn, Draws
  <2>3. QED
    BY <1>2, <1>5, <2>1, <2>2
<1>8. QED
  BY <1>6, <1>7

LEMMA DenialInit == Init => DenialInv
<1> SUFFICES ASSUME Init
             PROVE  DenialInv
  OBVIOUS
<1>1. WindowInv
  BY WindowInit
<1>2. bucket = <<>> /\ log = <<>> /\ \A s \in Requests : pc[s] = "idle"
  BY DEF Init
<1>3. Draws([i \in 1..0 |-> 1], bucket, log)
  BY <1>2 DEF Draws
<1>4. Sorted(bucket) /\ PromiseKept
  BY <1>2 DEF Sorted, PromiseKept
<1>5. QED
  BY <1>1, <1>3, <1>4 DEF DenialInv, Drawn

\* What the denials rest on is inductive.
LEMMA DenialStep ==
  ASSUME DenialInv, [Next]_vars
  PROVE  DenialInv'
<1>1. WindowInv' /\ TypeOK
  BY WindowStep DEF DenialInv, WindowInv
<1>2. SUFFICES Drawn' /\ (backend' = "redis" => Sorted(bucket')) /\ PromiseKept'
  BY <1>1 DEF DenialInv
<1>3. CASE UNCHANGED <<backend, bucket, log, now, wait, seen, pc>>
  BY <1>3 DEF DenialInv, Drawn, Draws, Sorted, PromiseKept, Promise
<1>4. CASE Expire
  <2>1. bucket' = <<>> /\ UNCHANGED <<log, seen, pc>>
    BY <1>4 DEF Expire, denialVars
  <2>2. Drawn'
    <3>1. Draws([i \in 1..0 |-> 1], bucket', log')
      BY <2>1 DEF Draws
    <3>2. QED
      BY <3>1 DEF Drawn
  <2>3. Sorted(bucket')
    BY <2>1 DEF Sorted
  <2>4. PromiseKept'
    BY <2>1, LimiterAssumption DEF DenialInv, PromiseKept
  <2>5. QED
    BY <2>2, <2>3, <2>4
<1>5. ASSUME NEW r \in Requests, Stamp(r)
      PROVE  Drawn' /\ (backend' = "redis" => Sorted(bucket')) /\ PromiseKept'
  <2>1. /\ UNCHANGED <<backend, bucket, log, wait, seen>>
        /\ \A s \in Requests : pc'[s] = "denied" => pc[s] = "denied" /\ now'[s] = now[s]
    BY <1>1, <1>5 DEF Stamp, Go, bucketVars, denialVars, TypeOK
  <2>2. \A s \in Requests : pc'[s] = "denied" => Promise(s)' = Promise(s)
    BY <2>1 DEF Promise
  <2>3. PromiseKept'
    BY <2>1, <2>2 DEF DenialInv, PromiseKept
  <2>4. QED
    BY <2>1, <2>3 DEF DenialInv, Drawn, Draws, Sorted
<1>6. ASSUME NEW r \in Requests, Check(r)
      PROVE  Drawn' /\ (backend' = "redis" => Sorted(bucket')) /\ PromiseKept'
  <2>1. PICK n \in 0..Len(bucket) :
          /\ Stale(r, n)
          /\ \/ Admit(r, Kept(n)) /\ Go(r, "stamped", "admitted")
             \/ Deny(r, Kept(n)) /\ Go(r, "stamped", "denied")
    BY <1>6 DEF Check
  <2>2. backend' = backend /\ now' = now
    BY <1>6 DEF Check
  <2>3. QED
    BY <2>1, <2>2, DenialDecision DEF Go, Places
<1>7. ASSUME NEW r \in Requests, Fail(r)
      PROVE  Drawn' /\ (backend' = "redis" => Sorted(bucket')) /\ PromiseKept'
  <2>1. /\ backend' = backend /\ now' = now
        /\ pc[r] = "stamped" /\ pc' = [pc EXCEPT ![r] = "failed"]
    BY <1>7 DEF Fail, Go
  <2>2. CASE UNCHANGED <<bucketVars, denialVars>>
    <3>1. UNCHANGED <<bucket, log, wait, seen>>
      BY <2>2 DEF bucketVars, denialVars
    <3>2. \A s \in Requests : pc'[s] = "denied" => pc[s] = "denied"
      BY <1>1, <2>1 DEF TypeOK
    <3>3. \A s \in Requests : Promise(s)' = Promise(s)
      BY <2>1, <3>1 DEF Promise
    <3>4. PromiseKept'
      BY <3>1, <3>2, <3>3 DEF DenialInv, PromiseKept
    <3>5. QED
      BY <2>1, <3>1, <3>4 DEF DenialInv, Drawn, Draws, Sorted
  <2>3. CASE \E n \in 0..Len(bucket) : Admit(r, Kept(n)) \/ Deny(r, Kept(n))
    BY <2>1, <2>3, DenialDecision DEF Places
  <2>4. QED
    BY <1>7, <2>2, <2>3 DEF Fail
<1>8. QED
  BY <1>3, <1>4, <1>5, <1>6, <1>7 DEF Next, Tick, vars, bucketVars, denialVars

\* A step that denies a call is a decision about it.
LEMMA DenialIsADecision ==
  ASSUME TypeOK, [Next]_vars, NEW r \in Requests, pc[r] = "stamped", pc'[r] = "denied"
  PROVE  \E n \in 0..Len(bucket) : Stale(r, n) /\ Deny(r, Kept(n))
<1>1. \A q \in Requests : ~Stamp(q) /\ ~Fail(q)
  BY DEF Stamp, Fail, Go, TypeOK
<1>2. PICK q \in Requests : Check(q)
  BY <1>1 DEF Next, Tick, Expire, vars
<1>3. PICK n \in 0..Len(bucket) :
        /\ Stale(q, n)
        /\ \/ Admit(q, Kept(n)) /\ Go(q, "stamped", "admitted")
           \/ Deny(q, Kept(n)) /\ Go(q, "stamped", "denied")
  BY <1>2 DEF Check
<1>4. q = r /\ Go(q, "stamped", "denied")
  BY <1>3 DEF Go, TypeOK
<1>5. ~Go(q, "stamped", "admitted")
  BY <1>4 DEF Go, TypeOK
<1>6. QED
  BY <1>3, <1>4, <1>5

\* A bucket that is the end of the log is in order of time.
LEMMA FaithfulSorted ==
  ASSUME TypeOK, Faithful
  PROVE  Sorted(bucket)
<1>1. Len(log) \in Nat /\ Len(bucket) \in Nat
  BY DEF TypeOK
<1>2. /\ Dropped = Len(log) - Len(bucket) /\ Dropped \in Nat
      /\ \A i \in 1..Len(bucket) : bucket[i] = log[Dropped + i]
      /\ \A i, j \in 1..Len(log) : i <= j => log[i] <= log[j]
  BY <1>1 DEF Faithful, Dropped
<1> SUFFICES ASSUME NEW i \in 1..Len(bucket), NEW j \in 1..Len(bucket), i <= j
             PROVE  bucket[i] <= bucket[j]
  BY DEF Sorted
<1> DEFINE d == Dropped
<1>3. d = Len(log) - Len(bucket) /\ d \in Nat
  BY <1>2
<1> HIDE DEF d
<1>4. d + i \in 1..Len(log) /\ d + j \in 1..Len(log) /\ d + i <= d + j
  BY <1>1, <1>3
<1>5. bucket[i] = log[d + i] /\ bucket[j] = log[d + j]
  BY <1>2 DEF d
<1>6. QED
  BY <1>2, <1>4, <1>5

\* A call is only denied for Limit admissions inside the window that ends with it,
\* with Redis also when it was overtaken (cache.py:13-31, 81-92, 149-163).
THEOREM DenialsCorrect == Spec => DeniedOnlyWhenFull
<1> DEFINE Full ==
      \A r \in Requests :
        pc[r] = "stamped" /\ pc'[r] = "denied" /\ (ordered' \/ backend = "redis") =>
          Cardinality({i \in 1..Len(log) : log[i] > now[r] - Window}) >= Limit
<1>1. ASSUME DenialInv, [Next]_vars
      PROVE  [Full]_vars
  <2> SUFFICES ASSUME NEW r \in Requests, pc[r] = "stamped", pc'[r] = "denied",
                      ordered' \/ backend = "redis"
               PROVE  Cardinality({i \in 1..Len(log) : log[i] > now[r] - Window})
                        >= Limit
    OBVIOUS
  <2>1. TypeOK /\ Drawn /\ (backend = "redis" => Sorted(bucket))
    BY <1>1 DEF DenialInv, WindowInv
  <2>2. PICK n \in 0..Len(bucket) : Stale(r, n) /\ Deny(r, Kept(n))
    BY <1>1, <2>1, DenialIsADecision
  <2>3. Sorted(bucket)
    <3>1. CASE backend = "redis"
      BY <2>1, <3>1
    <3>2. CASE ordered'
      <4>1. ordered
        BY <2>1, <2>2, <3>2, NotOvertaken DEF Deny
      <4>2. Faithful
        BY <1>1, <4>1 DEF DenialInv, WindowInv
      <4>3. QED
        BY <2>1, <4>2, FaithfulSorted
    <3>3. QED
      BY <3>1, <3>2
  <2>4. QED
    BY <2>1, <2>2, <2>3, FullWindow
<1> HIDE DEF Full
<1>2. Spec => [][Full]_vars
  BY <1>1, DenialInit, DenialStep, PTL DEF Spec
<1>3. QED
  BY <1>2, PTL DEF DeniedOnlyWhenFull, Full

\* A call that comes as late as an earlier denial asked for, with no admission
\* since, is not denied; the memory backend may take a second more than it said
\* (cache.py:28-29, 89).
THEOREM RetryCorrect == Spec => RetryAfterIsHonoured
<1> DEFINE Honoured ==
      \A r, s \in Requests :
        /\ pc[r] = "stamped" /\ pc'[r] = "denied"
        /\ pc[s] = "denied" /\ seen[s] = Len(log)
        => now[r] < now[s] + Second * (IF backend = "memory" THEN wait[s] + 1
                                                             ELSE wait[s])
<1>1. ASSUME DenialInv, [Next]_vars
      PROVE  [Honoured]_vars
  <2> SUFFICES ASSUME NEW r \in Requests, NEW s \in Requests,
                      pc[r] = "stamped", pc'[r] = "denied",
                      pc[s] = "denied", seen[s] = Len(log)
               PROVE  now[r] < Promise(s)
    BY DEF Promise
  <2>1. TypeOK /\ PromiseKept
    BY <1>1 DEF DenialInv, WindowInv
  <2>2. PICK n \in 0..Len(bucket) : Stale(r, n) /\ Deny(r, Kept(n))
    BY <1>1, <2>1, DenialIsADecision
  <2>3. Kept(n) = bucket /\ Len(bucket) = Limit
    BY <2>1, <2>2, FullStays DEF Deny
  <2>4. n = 0 /\ bucket[1] > now[r] - Window
    <3>1. Len(Kept(n)) = Len(bucket) - n /\ Limit \in Nat \ {0}
      BY <2>1, KeptType, LimiterAssumption
    <3>2. n = 0 /\ n < Len(bucket)
      BY <2>3, <3>1
    <3>3. QED
      BY <2>2, <3>2 DEF Stale, Cutoff
  <2>5. bucket[1] + Window <= Promise(s)
    BY <2>1, <2>3, LimiterAssumption DEF PromiseKept
  <2>6. /\ bucket[1] \in Int /\ now[r] \in Int /\ Window \in Int
        /\ Promise(s) \in Int
    BY <2>1, <2>3, LimiterAssumption DEF TypeOK, Promise
  <2>7. QED
    BY <2>4, <2>5, <2>6
<1> HIDE DEF Honoured
<1>2. Spec => [][Honoured]_vars
  BY <1>1, DenialInit, DenialStep, PTL DEF Spec
<1>3. QED
  BY <1>2 DEF RetryAfterIsHonoured, Honoured

-----------------------------------------------------------------------------
(* The sliding window.  A decision keeps exactly the recorded admissions of *)
(* the window that ends with it, as long as no call is overtaken; the times *)
(* that are decided for are times of the clock.                             *)

TimesInv == \A r \in Requests : now[r] \in 0..MaxTime

SlideInv == DenialInv /\ TimesInv

\* The instance counts as this module does.
LEMMA RecentCounts ==
  ASSUME NEW time
  PROVE  Sliding!Recent(time) = Cardinality({i \in 1..Len(log) : log[i] > time - Window})
BY DEF Sliding!Recent, Sliding!Cardinality, Cardinality, Sliding!IsFiniteSet, IsFiniteSet

\* Answering a call decides it, once.
LEMMA AnswerMaps ==
  ASSUME TypeOK, NEW r \in Requests, NEW v \in {"admitted", "denied", "failed"},
         Go(r, "stamped", v)
  PROVE  Sliding!Answer(r, v)
<1>1. /\ pc \in [Requests -> Places] /\ pc[r] = "stamped"
      /\ pc' = [pc EXCEPT ![r] = v]
  BY DEF Go, TypeOK
<1>2. verdict[r] = "undecided"
  BY <1>1 DEF verdict
<1>3. ASSUME NEW q \in Requests
      PROVE  verdict'[q] = [verdict EXCEPT ![r] = v][q]
  <2>1. CASE q = r
    BY <1>1, <2>1 DEF verdict
  <2>2. CASE q # r
    BY <1>1, <2>2 DEF verdict
  <2>3. QED
    BY <2>1, <2>2
<1>4. verdict' = [verdict EXCEPT ![r] = v]
  BY <1>3 DEF verdict
<1>5. QED
  BY <1>2, <1>4 DEF Sliding!Answer

\* A bucket with room for a call that is not overtaken is a window with room.
LEMMA RoomInWindow ==
  ASSUME TypeOK, Faithful, NEW r \in Requests, NEW n \in 0..Len(bucket),
         Stale(r, n), now[r] >= latest, Len(Kept(n)) < Limit
  PROVE  Cardinality({i \in 1..Len(log) : log[i] > now[r] - Window}) < Limit
<1> DEFINE S == {i \in 1..Len(log) : log[i] > now[r] - Window}
           size == Len(log)
           left == Len(Kept(n))
           d == Dropped + n
<1>1. /\ size \in Nat /\ left \in Nat /\ Limit \in Nat /\ d = size - left
      /\ d \in Nat /\ \A i \in 1..d : log[i] + Window <= now[r]
  <2>1. Len(bucket) \in Nat /\ Len(log) \in Nat /\ Limit \in Nat
    BY LimiterAssumption DEF TypeOK
  <2>2. Len(Kept(n)) = Len(bucket) - n /\ Dropped \in Nat
    BY <2>1, KeptType DEF Faithful
  <2>3. /\ \A i \in 1..d : log[i] + Window <= now[r]
        /\ d = size - left
    BY StaleDropped
  <2>4. left \in Nat /\ d \in Nat
    BY <2>1, <2>2
  <2>5. QED
    BY <2>1, <2>3, <2>4
<1>2. \A i \in 1..size : log[i] \in Int
  BY DEF TypeOK
<1>3. now[r] \in Int /\ Window \in Int
  BY LimiterAssumption DEF TypeOK
<1> HIDE DEF size, left, d
<1>4. S \subseteq (d + 1)..size
  <2> SUFFICES ASSUME NEW i \in 1..size, log[i] > now[r] - Window
               PROVE  i \in (d + 1)..size
    BY DEF size
  <2>1. ~(i \in 1..d)
    BY <1>1, <1>2, <1>3
  <2>2. QED
    BY <1>1, <2>1
<1>5. IsFiniteSet((d + 1)..size) /\ Cardinality((d + 1)..size) = left
  <2>1. d + 1 \in Int /\ size \in Int
    BY <1>1
  <2>2. /\ IsFiniteSet((d + 1)..size)
        /\ Cardinality((d + 1)..size) = IF d + 1 > size THEN 0 ELSE size - (d + 1) + 1
    BY <2>1, FS_Interval
  <2>3. QED
    BY <1>1, <2>2
<1> HIDE DEF S
<1>6. Cardinality(S) <= left /\ Cardinality(S) \in Nat
  <2>1. IsFiniteSet(S) /\ Cardinality(S) <= Cardinality((d + 1)..size)
    BY <1>4, <1>5, FS_Subset
  <2>2. QED
    BY <1>5, <2>1, FS_CardinalityType
<1>7. left < Limit
  BY DEF left
<1>8. Cardinality(S) < Limit
  BY <1>1, <1>6, <1>7
<1>9. QED
  BY <1>8 DEF S

\* Recording an admission leaves the window within its limit.
LEMMA AdmitMaps ==
  ASSUME SlideInv, NEW r \in Requests, NEW n \in 0..Len(bucket),
         Stale(r, n), Admit(r, Kept(n))
  PROVE  Sliding!Notice(now[r]) /\ Sliding!Record(now[r])
<1>1. TypeOK /\ (ordered => Faithful)
  BY DEF SlideInv, DenialInv, WindowInv
<1>2. Sliding!Notice(now[r])
  BY DEF Admit, Notice, Larger, Sliding!Notice
<1>3. ASSUME ordered'
      PROVE  Sliding!Recent(now[r]) < Limit
  <2>1. ordered /\ now[r] >= latest
    BY <1>1, <1>3, NotOvertaken DEF Admit
  <2>2. Len(Kept(n)) < Limit
    BY DEF Admit
  <2>3. QED
    BY <1>1, <2>1, <2>2, RoomInWindow, RecentCounts
<1>4. log' = Append(log, now[r])
  BY DEF Admit
<1>5. QED
  BY <1>2, <1>3, <1>4 DEF Sliding!Record

\* A denial is a window without room, where denials are trusted.
LEMMA DenyMaps ==
  ASSUME SlideInv, NEW r \in Requests, NEW n \in 0..Len(bucket),
         Stale(r, n), Deny(r, Kept(n))
  PROVE  Sliding!Notice(now[r]) /\ Sliding!Refuse(now[r])
<1>1. /\ TypeOK /\ Drawn /\ (ordered => Faithful)
      /\ (backend = "redis" => Sorted(bucket))
  BY DEF SlideInv, DenialInv, WindowInv
<1>2. Sliding!Notice(now[r])
  BY DEF Deny, Notice, Larger, Sliding!Notice
<1>3. ASSUME ordered' \/ backend = "redis"
      PROVE  Sliding!Recent(now[r]) >= Limit
  <2>1. Sorted(bucket)
    <3>1. CASE backend = "redis"
      BY <1>1, <3>1
    <3>2. CASE ordered'
      <4>1. ordered
        BY <1>1, <3>2, NotOvertaken DEF Deny
      <4>2. QED
        BY <1>1, <4>1, FaithfulSorted
    <3>3. QED
      BY <1>3, <3>1, <3>2
  <2>2. QED
    BY <1>1, <2>1, FullWindow, RecentCounts
<1>4. log' = log
  BY DEF Deny
<1>5. QED
  BY <1>2, <1>3, <1>4 DEF Sliding!Refuse

\* A check decides its call for the time the call has read.
LEMMA CheckMaps ==
  ASSUME SlideInv, NEW r \in Requests, Check(r)
  PROVE  Sliding!Next
<1>1. TypeOK /\ now[r] \in 0..MaxTime
  BY DEF SlideInv, DenialInv, WindowInv, TimesInv
<1>2. PICK n \in 0..Len(bucket) :
        /\ Stale(r, n)
        /\ \/ Admit(r, Kept(n)) /\ Go(r, "stamped", "admitted")
           \/ Deny(r, Kept(n)) /\ Go(r, "stamped", "denied")
  BY DEF Check
<1>3. backend' = backend
  BY DEF Check
<1>4. CASE Admit(r, Kept(n)) /\ Go(r, "stamped", "admitted")
  <2>1. Sliding!Notice(now[r]) /\ Sliding!Record(now[r])
    BY <1>2, <1>4, AdmitMaps
  <2>2. Sliding!Answer(r, "admitted")
    BY <1>1, <1>4, AnswerMaps
  <2>3. Sliding!Decide(r, now[r])
    BY <1>3, <2>1, <2>2 DEF Sliding!Decide
  <2>4. QED
    BY <1>1, <2>3 DEF Sliding!Next
<1>5. CASE Deny(r, Kept(n)) /\ Go(r, "stamped", "denied")
  <2>1. Sliding!Notice(now[r]) /\ Sliding!Refuse(now[r])
    BY <1>2, <1>5, DenyMaps
  <2>2. Sliding!Answer(r, "denied")
    BY <1>1, <1>5, AnswerMaps
  <2>3. Sliding!Decide(r, now[r])
    BY <1>3, <2>1, <2>2 DEF Sliding!Decide
  <2>4. QED
    BY <1>1, <2>3 DEF Sliding!Next
<1>6. QED
  BY <1>2, <1>4, <1>5

\* An answer that is lost was a decision, or none.
LEMMA FailMaps ==
  ASSUME SlideInv, NEW r \in Requests, Fail(r)
  PROVE  Sliding!Next
<1>1. TypeOK /\ now[r] \in 0..MaxTime
  BY DEF SlideInv, DenialInv, WindowInv, TimesInv
<1>2. backend = "redis" /\ backend' = backend /\ Go(r, "stamped", "failed")
  BY DEF Fail
<1>3. Sliding!Answer(r, "failed")
  BY <1>1, <1>2, AnswerMaps
<1>4. CASE UNCHANGED <<bucketVars, denialVars>>
  <2>1. UNCHANGED <<log, latest, ordered>>
    BY <1>4 DEF bucketVars
  <2>2. Sliding!Lose(r)
    BY <1>2, <1>3, <2>1 DEF Sliding!Lose, Sliding!windowVars
  <2>3. QED
    BY <2>2 DEF Sliding!Next
<1>5. CASE \E n \in 0..Len(bucket) :
             Stale(r, n) /\ (Admit(r, Kept(n)) \/ Deny(r, Kept(n)))
  <2>1. PICK n \in 0..Len(bucket) :
          Stale(r, n) /\ (Admit(r, Kept(n)) \/ Deny(r, Kept(n)))
    BY <1>5
  <2>2. /\ Sliding!Notice(now[r])
        /\ Sliding!Record(now[r]) \/ Sliding!Refuse(now[r])
    BY <2>1, AdmitMaps, DenyMaps
  <2>3. Sliding!Lose(r)
    BY <1>1, <1>2, <1>3, <2>2 DEF Sliding!Lose
  <2>4. QED
    BY <2>3 DEF Sliding!Next
<1>6. QED
  BY <1>4, <1>5 DEF Fail

\* A key that expires is forgotten: its last entry is an admission, and the latest
\* one unless a call was overtaken.
LEMMA ExpireMaps ==
  ASSUME SlideInv, Expire
  PROVE  Sliding!Next
<1>1. TypeOK /\ Drawn /\ (ordered => Faithful)
  BY DEF SlideInv, DenialInv, WindowInv
<1>2. /\ backend = "redis" /\ bucket # <<>>
      /\ latest' = Larger(latest, bucket[Len(bucket)] + Window)
      /\ UNCHANGED <<backend, pc, log, ordered>>
  BY DEF Expire
<1>3. Len(bucket) \in 1..Len(bucket) /\ Len(bucket) \in Nat /\ Len(log) \in Nat
  BY <1>1, <1>2 DEF TypeOK
<1>4. PICK f : Draws(f, bucket, log)
  BY <1>1 DEF Drawn
<1> DEFINE i == f[Len(bucket)]
<1>5. i \in 1..Len(log) /\ log[i] = bucket[Len(bucket)]
  BY <1>3, <1>4 DEF Draws
<1>6. ASSUME ordered, NEW j \in 1..Len(log)
      PROVE  log[j] <= log[i]
  <2>1. /\ Faithful /\ Dropped + Len(bucket) = Len(log)
    BY <1>1, <1>3, <1>6 DEF Dropped
  <2>2. bucket[Len(bucket)] = log[Len(log)]
    BY <1>3, <2>1 DEF Faithful
  <2>3. Len(log) \in 1..Len(log) /\ j <= Len(log)
    BY <1>3
  <2>4. log[j] <= log[Len(log)]
    BY <2>1, <2>3 DEF Faithful
  <2>5. QED
    BY <1>5, <2>2, <2>4
<1>7. latest' = IF latest < log[i] + Window THEN log[i] + Window ELSE latest
  BY <1>2, <1>5 DEF Larger
<1>8. verdict' = verdict
  BY <1>2 DEF verdict
<1> HIDE DEF i
<1>9. Sliding!Forget
  BY <1>2, <1>5, <1>6, <1>7, <1>8 DEF Sliding!Forget
<1>10. QED
  BY <1>9 DEF Sliding!Next

LEMMA SlideInit == Init => SlideInv /\ Sliding!Init
<1> SUFFICES ASSUME Init
             PROVE  SlideInv /\ Sliding!Init
  OBVIOUS
<1>1. DenialInv
  BY DenialInit
<1>2. TimesInv
  BY LimiterAssumption DEF Init, TimesInv
<1>3. verdict = [r \in Requests |-> "undecided"]
  BY DEF Init, verdict
<1>4. Sliding!Init
  BY <1>3 DEF Init, Sliding!Init
<1>5. QED
  BY <1>1, <1>2, <1>4 DEF SlideInv

LEMMA SlideStep == SlideInv /\ [Next]_vars => SlideInv'
<1> SUFFICES ASSUME SlideInv, [Next]_vars
             PROVE  SlideInv'
  OBVIOUS
<1>1. DenialInv' /\ TypeOK /\ TimesInv
  BY DenialStep DEF SlideInv, DenialInv, WindowInv
<1>2. CASE now' = now
  BY <1>1, <1>2 DEF SlideInv, TimesInv
<1>3. ASSUME NEW r \in Requests, Stamp(r)
      PROVE  TimesInv'
  <2>1. PICK lag \in Lags : lag <= clock /\ now' = [now EXCEPT ![r] = clock - lag]
    BY <1>3 DEF Stamp
  <2>2. clock - lag \in 0..MaxTime
    <3>1. lag \in Nat /\ clock \in 0..MaxTime /\ MaxTime \in Nat
      BY <1>1, LimiterAssumption DEF TypeOK
    <3>2. QED
      BY <2>1, <3>1
  <2>3. QED
    BY <1>1, <2>1, <2>2 DEF TypeOK, TimesInv
<1>4. (\E r \in Requests : Stamp(r)) \/ now' = now
  BY DEF Next, Tick, Expire, Check, Fail, vars
<1>5. QED
  BY <1>1, <1>2, <1>3, <1>4 DEF SlideInv

\* Every step of a limiter is a step of the sliding window, or none.
LEMMA SlideMaps ==
  ASSUME SlideInv, [Next]_vars
  PROVE  [Sliding!Next]_(Sliding!vars)
<1>1. CASE UNCHANGED <<verdict, log, latest, ordered, backend>>
  BY <1>1 DEF Sliding!vars
<1>2. CASE Tick \/ UNCHANGED vars
  <2>1. UNCHANGED <<pc, log, latest, ordered, backend>>
    BY <1>2 DEF Tick, vars, bucketVars
  <2>2. QED
    BY <1>1, <2>1 DEF verdict
<1>3. ASSUME NEW r \in Requests, Stamp(r)
      PROVE  UNCHANGED <<verdict, log, latest, ordered, backend>>
  <2>1. /\ pc \in [Requests -> Places] /\ pc[r] = "idle"
        /\ pc' = [pc EXCEPT ![r] = "stamped"]
    BY <1>3 DEF Stamp, Go, SlideInv, DenialInv, WindowInv, TypeOK
  <2>2. ASSUME NEW q \in Requests
        PROVE  verdict'[q] = verdict[q]
    <3>1. CASE q = r
      BY <2>1, <3>1 DEF verdict
    <3>2. CASE q # r
      BY <2>1, <3>2 DEF verdict
    <3>3. QED
      BY <3>1, <3>2
  <2>3. verdict' = verdict
    BY <2>2 DEF verdict
  <2>4. UNCHANGED <<log, latest, ordered, backend>>
    BY <1>3 DEF Stamp, bucketVars
  <2>5. QED
    BY <2>3, <2>4
<1>4. CASE Expire
  BY <1>4, ExpireMaps
<1>5. CASE \E r \in Requests : Check(r) \/ Fail(r)
  BY <1>5, CheckMaps, FailMaps
<1>6. QED
  BY <1>1, <1>2, <1>3, <1>4, <1>5 DEF Next

\* Both backends implement the sliding window for every limit, window, clock and
\* lag: what they drop, expire or lose never decides a call wrongly
\* (cache.py:13-31, 81-92, 149-163).
THEOREM SlidingCorrect == Spec => WindowSlides
<1>1. Spec => []SlideInv
  BY SlideInit, SlideStep, PTL DEF Spec
<1>2. Spec => Sliding!Spec
  BY <1>1, SlideInit, SlideMaps, PTL DEF Spec, Sliding!Spec
<1>3. QED
  BY <1>2 DEF WindowSlides

=============================================================================
