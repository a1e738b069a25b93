----------------------------- MODULE ServerProofs -----------------------------
(***************************************************************************)
(* Theorems about Server, for any connections, pools, configurations and   *)
(* bounds: its types, that the client, the log and the forwarded jobs of a *)
(* request tell one story, and that its row goes to the aggregators of one *)
(* configuration.                                                          *)
(***************************************************************************)
EXTENDS Server, TLAPS

-----------------------------------------------------------------------------
(* Sequences.                                                              *)

LEMMA AppendElements ==
  ASSUME NEW S, NEW s \in Seq(S), NEW x \in S
  PROVE  Append(s, x) \in Seq(S) /\ ToSet(Append(s, x)) = ToSet(s) \cup {x}
<1>1. /\ Append(s, x) \in Seq(S)
      /\ DOMAIN Append(s, x) = 1 .. Len(s) + 1 /\ DOMAIN s = 1 .. Len(s) /\ Len(s) \in Nat
      /\ \A i \in 1 .. Len(s) : Append(s, x)[i] = s[i]
      /\ Append(s, x)[Len(s) + 1] = x
  OBVIOUS
<1>2. ASSUME NEW y
      PROVE  y \in ToSet(Append(s, x)) <=> y \in ToSet(s) \cup {x}
  BY <1>1 DEF ToSet
<1>3. QED
  BY <1>1, <1>2

LEMMA TailElements ==
  ASSUME NEW S, NEW s \in Seq(S), s # <<>>
  PROVE  /\ Tail(s) \in Seq(S) /\ Head(s) \in S
         /\ ToSet(s) = ToSet(Tail(s)) \cup {Head(s)}
<1>1. /\ Tail(s) \in Seq(S) /\ Head(s) = s[1] /\ Len(s) \in Nat \ {0}
      /\ DOMAIN Tail(s) = 1 .. Len(s) - 1 /\ DOMAIN s = 1 .. Len(s)
      /\ \A i \in 1 .. Len(s) - 1 : Tail(s)[i] = s[i + 1]
  OBVIOUS
<1>2. ASSUME NEW y
      PROVE  y \in ToSet(s) <=> y \in ToSet(Tail(s)) \cup {Head(s)}
  <2>1. ASSUME NEW i \in DOMAIN s, y = s[i]
        PROVE  y \in ToSet(Tail(s)) \cup {Head(s)}
    <3>1. CASE i = 1
      BY <1>1, <2>1, <3>1
    <3>2. CASE i # 1
      <4>1. i - 1 \in 1 .. Len(s) - 1 /\ Tail(s)[i - 1] = y
        BY <1>1, <2>1, <3>2
      <4>2. QED
        BY <1>1, <4>1 DEF ToSet
    <3>3. QED
      BY <3>1, <3>2
  <2>2. ASSUME NEW i \in DOMAIN Tail(s), y = Tail(s)[i]
        PROVE  y \in ToSet(s)
    <3>1. i + 1 \in DOMAIN s /\ s[i + 1] = y
      BY <1>1, <2>2
    <3>2. QED
      BY <3>1 DEF ToSet
  <2>3. Head(s) \in ToSet(s)
    BY <1>1 DEF ToSet
  <2>4. QED
    BY <2>1, <2>2, <2>3 DEF ToSet
<1>3. s[1] \in S
  BY <1>1
<1>4. QED
  BY <1>1, <1>2, <1>3

LEMMA EmptyElements == ToSet(<<>>) = {}
BY DEF ToSet

-----------------------------------------------------------------------------
(* Types.                                                                  *)

Everywhere == Places \cup {"sleeping", "dead"}
Entries == Jobs \cup {Stop}

LEMMA SinksType ==
  ASSUME NEW d \in Documents
  PROVE  Observability[d].sinks \in Seq(Sinks) /\ Observability[d].retention \in BOOLEAN
BY ServerAssumption

\* The handler of one connection, as TypeOK has it.
HandlerOK(c) ==
  /\ pc[c] \notin Ended \cup {"waiting"} => count[c] > 0
  /\ pc[c] = "configuring" => loaded[c] \in Documents
  /\ pc[c] = "emitting" => pending[c] # <<>>

LEMMA HandlersOK == TypeOK => \A c \in Connections : HandlerOK(c)
BY DEF TypeOK, HandlerOK

\* A request that is being handled is one of the requests.
LEMMA CurrentType ==
  ASSUME TypeOK, NEW c \in Connections, count[c] > 0
  PROVE  Current(c) \in Requests
<1>1. count[c] \in 0 .. asked /\ asked \in 0 .. MaxRequests /\ MaxRequests \in Nat
  BY ServerAssumption DEF TypeOK
<1>2. count[c] \in 1 .. MaxRequests
  BY <1>1
<1>3. QED
  BY <1>2 DEF Current, Requests

LEMMA StepType ==
  ASSUME TypeOK, [Next]_vars
  PROVE  TypeOK'
<1> USE ServerAssumption
<1>1. ASSUME NEW c \in Connections, Connect(c)
      PROVE  TypeOK'
  BY <1>1 DEF TypeOK, Connect, Go, configVars, logVars, handlerVars, jobVars, Places, Ended
<1>2. ASSUME NEW c \in Connections, Start(c)
      PROVE  TypeOK'
  BY <1>2 DEF TypeOK, Start, Go, configVars, logVars, handlerVars, jobVars, Places, Ended
<1>3. ASSUME NEW c \in Connections, HangUp(c)
      PROVE  TypeOK'
  BY <1>3 DEF TypeOK, HangUp, configVars, logVars, handlerVars, jobVars, Places, Ended
<1>4. ASSUME NEW c \in Connections, Request(c)
      PROVE  TypeOK'
  <2>1. /\ asked \in Nat /\ asked + 1 \in 0 .. MaxRequests /\ asked' = asked + 1
        /\ count \in [Connections -> 0 .. asked] /\ MaxRequests \in Nat
    BY <1>4 DEF TypeOK, Request
  <2>2. count' \in [Connections -> 0 .. asked'] /\ count'[c] > 0
        /\ \A d \in Connections : count[d] > 0 => count'[d] > 0
    BY <1>4, <2>1 DEF Request
  <2>3. /\ loaded' \in [Connections -> Documents \cup {None}]
        /\ known' \in [Connections \cup {Cleaner} -> Documents \cup {None}]
        /\ signature' \in Documents
    <3>1. /\ loaded \in [Connections -> Documents \cup {None}]
          /\ known \in [Connections \cup {Cleaner} -> Documents \cup {None}]
          /\ disk \in Documents /\ signature \in Documents
      BY DEF TypeOK
    <3>2. \/ UNCHANGED <<signature, loaded, known>>
          \/ /\ signature' = disk
             /\ loaded' = [loaded EXCEPT ![c] = disk]
             /\ known' = [known EXCEPT ![c] = signature]
      BY <1>4 DEF Request, LoadDocument
    <3>3. QED
      BY <3>1, <3>2
  <2>4. /\ pc' \in [Connections \cup {Cleaner} -> Everywhere]
        /\ \A d \in Connections : d # c => pc'[d] = pc[d] /\ loaded'[d] = loaded[d]
        /\ pc'[c] \in {"routing", "configuring"}
        /\ pc'[c] = "configuring" => loaded'[c] \in Documents
    BY <1>4 DEF TypeOK, Request, LoadDocument, Go, Everywhere, Places, Handling
  <2>5. \A d \in Connections : HandlerOK(d)'
    BY <1>4, <2>2, <2>4, HandlersOK DEF HandlerOK, Request, Ended
  <2>6. QED
    BY <1>4, <2>1, <2>2, <2>3, <2>4, <2>5
    DEF TypeOK, HandlerOK, Request, logVars, jobVars, Everywhere
<1>5. ASSUME NEW c \in Connections, Proxy(c)
      PROVE  TypeOK'
  BY <1>5 DEF TypeOK, Proxy, Go, configVars, logVars, jobVars, Places, Ended, Handling, Outcomes
<1>6. ASSUME NEW c \in Connections, EmitHook(c)
      PROVE  TypeOK'
  <2>1. Job(Current(c), Hook) \in Jobs \cup {Stop}
    BY <1>6, CurrentType DEF TypeOK, EmitHook, Go, Ended, Job, Jobs
  <2>2. queue' \in Seq(Jobs \cup {Stop})
    BY <1>6, <2>1 DEF TypeOK, EmitHook
  <2>3. QED
    BY <1>6, <2>2 DEF TypeOK, EmitHook, Go, configVars, logVars, handlerVars, Places, Ended, Handling
<1>7. ASSUME NEW c \in Connections, SaveSettings(c)
      PROVE  TypeOK'
  BY <1>7 DEF TypeOK, SaveSettings, Go, logVars, handlerVars, jobVars, Places, Ended, Handling, Cleaning
<1>8. ASSUME NEW c \in Connections, LoadSettings(c)
      PROVE  TypeOK'
  BY <1>8 DEF TypeOK, LoadSettings, LoadDocument, Go, logVars, handlerVars, jobVars, Places, Ended, Handling, Cleaning
<1>9. ASSUME NEW c \in Connections, Monitor(c)
      PROVE  TypeOK'
  <2>1. \E to \in {"closed", "answering", "streaming"} : Go(c, "routing", to)
    BY <1>9 DEF Monitor
  <2>2. UNCHANGED <<configVars, logVars, handlerVars, jobVars, store, main>>
    BY <1>9 DEF Monitor
  <2>3. QED
    BY <2>1, <2>2 DEF TypeOK, Go, configVars, logVars, handlerVars, jobVars, Places, Ended, Handling, Cleaning
<1>10. ASSUME NEW c \in Connections, Stream(c)
      PROVE  TypeOK'
  BY <1>10 DEF TypeOK, Stream, Go, configVars, logVars, handlerVars, jobVars, Places, Ended, Handling, Cleaning
<1>11. ASSUME NEW c \in Connections, WriteRow(c)
      PROVE  TypeOK'
  <2>1. Current(c) \in Requests /\ pc[c] = "logging"
    BY <1>11, CurrentType DEF TypeOK, WriteRow, Go, Ended
  <2>2. CASE store = "closed"
    BY <1>11, <2>2
    DEF TypeOK, WriteRow, Go, configVars, jobVars, Places, Ended
  <2>3. CASE store # "closed"
    <3>1. /\ pc' \in [Connections \cup {Cleaner} -> Everywhere]
          /\ \A d \in Connections : d # c => pc'[d] = pc[d]
          /\ pc'[c] = IF sinks = <<>> THEN "answering" ELSE "emitting"
      BY <1>11, <2>3 DEF TypeOK, WriteRow, Go, Places, Handling, Everywhere
    <3>2. /\ pending' \in [Connections -> Seq(Sinks)]
          /\ \A d \in Connections : d # c => pending'[d] = pending[d]
          /\ pending'[c] = sinks
      <4>1. pending \in [Connections -> Seq(Sinks)]
            /\ sinks \in {Observability[d].sinks : d \in Documents}
        BY DEF TypeOK
      <4>2. sinks \in Seq(Sinks)
        BY <4>1, SinksType
      <4>3. pending' = [pending EXCEPT ![c] = sinks]
        BY <1>11, <2>3 DEF WriteRow
      <4>4. QED
        BY <4>1, <4>2, <4>3
    <3>3. /\ rows' \subseteq Requests /\ expired' \subseteq rows'
          /\ recorded' \in [Requests -> Outcomes]
      <4>1. rows' = rows \cup {Current(c)} /\ expired' = expired
            /\ recorded' = [recorded EXCEPT ![Current(c)] = outcome[c]]
        BY <1>11, <2>3 DEF WriteRow
      <4>2. outcome[c] \in Outcomes
        BY DEF TypeOK
      <4>3. QED
        BY <2>1, <4>1, <4>2 DEF TypeOK
    <3>4. \A d \in Connections : HandlerOK(d)'
      BY <1>11, <2>1, <3>1, <3>2, HandlersOK
      DEF HandlerOK, WriteRow, configVars, Ended
    <3>5. QED
      BY <1>11, <3>1, <3>2, <3>3, <3>4
      DEF TypeOK, HandlerOK, WriteRow, configVars, jobVars, Everywhere
  <2>4. QED
    BY <2>2, <2>3
<1>12. ASSUME NEW c \in Connections, EmitLog(c)
      PROVE  TypeOK'
  <2>1. Current(c) \in Requests /\ pc[c] = "emitting" /\ pending[c] # <<>>
        /\ pending[c] \in Seq(Sinks)
    BY <1>12, CurrentType DEF TypeOK, EmitLog, Go, Ended
  <2>2. Rest(c) \in Seq(Sinks) /\ Head(pending[c]) \in Sinks
    BY <2>1, TailElements DEF Rest
  <2>3. queue' \in Seq(Jobs \cup {Stop})
    <3>1. Job(Current(c), Head(pending[c])) \in Jobs \cup {Stop}
      BY <2>1, <2>2 DEF Job, Jobs
    <3>2. QED
      BY <1>12, <3>1 DEF TypeOK, EmitLog
  <2>4. /\ pc' \in [Connections \cup {Cleaner} -> Everywhere]
        /\ \A d \in Connections : d # c => pc'[d] = pc[d]
        /\ pc'[c] = IF Rest(c) = <<>> THEN "answering" ELSE "emitting"
    BY <1>12 DEF TypeOK, EmitLog, Go, Places, Handling, Everywhere
  <2>5. /\ pending' \in [Connections -> Seq(Sinks)]
        /\ \A d \in Connections : d # c => pending'[d] = pending[d]
        /\ pending'[c] = Rest(c)
    BY <1>12, <2>2 DEF TypeOK, EmitLog
  <2>6. \A d \in Connections : HandlerOK(d)'
    BY <1>12, <2>1, <2>4, <2>5, HandlersOK DEF HandlerOK, EmitLog, configVars, Ended
  <2>7. QED
    BY <1>12, <2>3, <2>4, <2>5, <2>6
    DEF TypeOK, HandlerOK, EmitLog, configVars, logVars, Everywhere
<1>13. ASSUME NEW c \in Connections, Answer(c)
      PROVE  TypeOK'
  <2>1. Current(c) \in Requests
    BY <1>13, CurrentType DEF TypeOK, Answer, Go, Ended
  <2>2. answered' \in [Requests -> Outcomes] /\ outcome' \in [Connections -> Outcomes]
    BY <1>13, <2>1 DEF TypeOK, Answer, Outcomes
  <2>3. QED
    BY <1>13, <2>2 DEF TypeOK, Answer, Go, configVars, logVars, jobVars, Places, Ended
<1>14. ASSUME NEW c \in Connections, Configure(c)
      PROVE  TypeOK'
  <2>1. loaded[c] \in Documents
    BY <1>14 DEF TypeOK, Configure, Go
  <2>2. /\ pc' = [pc EXCEPT ![c] = "checking"] /\ loaded' = [loaded EXCEPT ![c] = None]
        /\ pc[c] = "configuring"
        /\ UNCHANGED <<count, pending, asked>>
    BY <1>14 DEF Configure, Go, handlerVars
  <2>3. \A d \in Connections : HandlerOK(d)'
    BY <2>2, HandlersOK DEF HandlerOK, TypeOK, Ended
  <2>4. pc' \in [Connections \cup {Cleaner} -> Everywhere]
    BY <2>2 DEF TypeOK, Everywhere, Places, Cleaning
  <2>5. /\ sinks' \in {Observability[d].sinks : d \in Documents}
        /\ retention' \in BOOLEAN
        /\ loaded' \in [Connections -> Documents \cup {None}]
    BY <1>14, <2>1, <2>2, ServerAssumption DEF TypeOK, Configure
  <2>6. QED
    BY <1>14, <2>2, <2>3, <2>4, <2>5
    DEF TypeOK, HandlerOK, Configure, Everywhere, logVars, handlerVars, jobVars
<1>15. ASSUME NEW t \in Connections \cup {Cleaner}, Clean(t)
      PROVE  TypeOK'
  <2>1. Resume(t) \in {"sleeping", "answering", "routing"}
    BY DEF Resume
  <2>2. pc' \in [Connections \cup {Cleaner} -> Everywhere]
    BY <1>15, <2>1
    DEF TypeOK, Clean, Check, Delete, Go, Leave, Raise, Everywhere, Places, Handling, Cleaning
  <2>3. \A d \in Connections : HandlerOK(d)'
    <3>1. /\ loaded' = loaded /\ UNCHANGED handlerVars
          /\ pc[t] \in {"checking", "deleting"}
      BY <1>15 DEF Clean, Check, Delete, Go
    <3>2. \E to \in {"deleting", "sleeping", "answering", "routing", "dead"} :
            pc' = [pc EXCEPT ![t] = to]
      BY <1>15, <2>1 DEF Clean, Check, Delete, Go, Leave, Raise
    <3>3. ASSUME NEW d \in Connections
          PROVE  HandlerOK(d)'
      <4>1. HandlerOK(d)
        BY HandlersOK
      <4>2. \/ pc'[d] = pc[d]
            \/ /\ pc[d] \in {"checking", "deleting"}
               /\ pc'[d] \in {"deleting", "sleeping", "answering", "routing", "dead"}
        BY <3>1, <3>2 DEF TypeOK
      <4>3. QED
        BY <3>1, <4>1, <4>2 DEF HandlerOK, handlerVars, Ended
    <3>4. QED
      BY <3>3
  <2>4. /\ known' \in [Connections \cup {Cleaner} -> Documents \cup {None}]
        /\ signature' \in Documents /\ rows' \subseteq Requests /\ expired' \subseteq rows'
    <3>1. CASE Check(t)
      BY <3>1 DEF TypeOK, Check, Leave, logVars
    <3>2. CASE Delete(t)
      BY <3>2 DEF TypeOK, Delete, Leave, Raise
    <3>3. QED
      BY <1>15, <3>1, <3>2 DEF Clean
  <2>5. UNCHANGED <<disk, sinks, retention, loaded, recorded, handlerVars, jobVars, store, main>>
    BY <1>15 DEF Clean, Check, Delete, logVars
  <2>6. QED
    BY <2>2, <2>3, <2>4, <2>5 DEF TypeOK, HandlerOK, handlerVars, jobVars, Everywhere
<1>16. CASE Wake
  BY <1>16 DEF TypeOK, Wake, Go, configVars, logVars, handlerVars, jobVars, Places, Cleaning
<1>17. ASSUME NEW r \in rows, Age(r)
      PROVE  TypeOK'
  BY <1>17 DEF TypeOK, Age, configVars, handlerVars, jobVars
<1>18. CASE Deliver
  <2>1. /\ Tail(queue) \in Seq(Jobs \cup {Stop}) /\ Head(queue) \in Jobs \cup {Stop}
    BY <1>18, TailElements DEF TypeOK, Deliver
  <2>2. QED
    BY <1>18, <2>1 DEF TypeOK, Deliver, configVars, logVars, handlerVars
<1>19. CASE StopDelivering
  BY <1>19 DEF TypeOK, StopDelivering, configVars, logVars, handlerVars
<1>20. CASE Shutdown \/ Interrupt
  <2>1. /\ main' \in Stages /\ store' \in {"open", "closed"} /\ stopping' \in BOOLEAN
        /\ queue' \in Seq(Jobs \cup {Stop})
    <3>1. CASE CloseDispatcher
      BY <3>1, AppendElements DEF TypeOK, CloseDispatcher, Then, Stages
    <3>2. CASE Interrupt \/ ClosePools \/ CloseStore \/ Exit
      BY <3>2
      DEF TypeOK, Interrupt, ClosePools, CloseStore, Exit, Then, Stages, jobVars
    <3>3. QED
      BY <1>20, <3>1, <3>2 DEF Shutdown
  <2>2. UNCHANGED <<configVars, logVars, handlerVars, postman, tried, pc>>
    BY <1>20
    DEF Shutdown, Interrupt, ClosePools, CloseStore, CloseDispatcher, Exit, jobVars
  <2>3. QED
    BY <2>1, <2>2 DEF TypeOK, configVars, logVars, handlerVars
<1>21. CASE UNCHANGED vars
  BY <1>21 DEF TypeOK, vars, configVars, logVars, handlerVars, jobVars
<1>22. QED
  BY <1>1, <1>2, <1>3, <1>4, <1>5, <1>6, <1>7, <1>8, <1>9, <1>10, <1>11, <1>12, <1>13,
     <1>14, <1>15, <1>16, <1>17, <1>18, <1>19, <1>20, <1>21
  DEF Next, Serve, Client, Clear, Dispatch

LEMMA InitType == Init => TypeOK
<1> SUFFICES ASSUME Init PROVE TypeOK
  OBVIOUS
<1> USE ServerAssumption
<1>1. /\ pc \in [Connections \cup {Cleaner} -> Places \cup {"sleeping", "dead"}]
      /\ \A c \in Connections : pc[c] = "away"
  BY DEF Init, Places, Ended
<1>2. queue \in Seq(Jobs \cup {Stop}) /\ pending \in [Connections -> Seq(Sinks)]
  BY DEF Init
<1>3. asked \in 0 .. MaxRequests /\ count \in [Connections -> 0 .. asked]
  BY DEF Init
<1>4. QED
  BY <1>1, <1>2, <1>3, SinksType DEF Init, TypeOK, Ended, Outcomes, Stages

\* The variables have their types.
THEOREM TypeCorrect == Spec => []TypeOK
BY InitType, StepType, PTL DEF Spec

-----------------------------------------------------------------------------
(* The story of each request of a public connection: nothing is told of a  *)
(* request that is yet to come, everything of one that is over, and of the *)
(* current one what its handler has done of it.                            *)

Forwarded(r) == {s \in Sinks : Job(r, s) \in Issued}
HookEmitted(r) == Job(r, Hook) \in Issued

Fresh(r) ==
  recorded[r] = None /\ answered[r] = None /\ Forwarded(r) = {} /\ ~HookEmitted(r)

Ready(r, o) ==
  /\ o \in {"made", "failed"} /\ answered[r] = None /\ recorded[r] = None
  /\ Forwarded(r) = {} /\ (HookEmitted(r) <=> o = "made")

Logged(r, o) ==
  o \in {"made", "failed"} /\ recorded[r] = o /\ (HookEmitted(r) <=> o = "made")

OfOne(S) == \E d \in Documents : S = ToSet(Observability[d].sinks)

Told(r) ==
  /\ answered[r] \in {"made", "failed"}
  /\ Logged(r, answered[r]) /\ OfOne(Forwarded(r))

Lost(r) ==
  /\ answered[r] = None /\ recorded[r] = None /\ Forwarded(r) = {}
  /\ HookEmitted(r) => store = "closed"

Early == {"routing", "configuring", "checking", "deleting"}

Telling(c, r) ==
  /\ pc[c] \in Early => Fresh(r)
  /\ pc[c] = "hooking" => Fresh(r) /\ outcome[c] = "made"
  /\ pc[c] = "logging" => Ready(r, outcome[c])
  /\ pc[c] = "emitting" => /\ answered[r] = None /\ Logged(r, outcome[c])
                           /\ OfOne(Forwarded(r) \cup ToSet(pending[c]))
  /\ pc[c] = "answering" => /\ answered[r] = None /\ Logged(r, outcome[c])
                            /\ OfOne(Forwarded(r))
  /\ pc[c] = "waiting" => Told(r)
  /\ pc[c] = "closed" => Told(r) \/ Lost(r)

\* A public handler has no place of an administrator's, and goes on with its request
\* when it has loaded a document.
Public(c) ==
  /\ pc[c] \notin {"saved", "streaming", "sleeping", "dead"}
  /\ pc[c] \in {"away", "queued"} => count[c] = 0
  /\ pc[c] \in {"configuring", "checking", "deleting"} => known[c] # None

Story(c) ==
  /\ Public(c)
  /\ \A n \in 1 .. MaxRequests :
       /\ n > count[c] => Fresh(<<c, n>>)
       /\ n < count[c] => Told(<<c, n>>)
       /\ n = count[c] => Telling(c, <<c, n>>)

\* Administrators' requests are answered in no way that is told here.
Silent(c) == \A n \in 1 .. MaxRequests : answered[<<c, n>>] = None

StoryInv ==
  /\ TypeOK
  /\ \A c \in PublicConnections : Story(c)
  /\ \A c \in AdminConnections : Silent(c)

\* A request that nothing new is told of.
Same(r) ==
  /\ recorded'[r] = recorded[r] /\ answered'[r] = answered[r]
  /\ Forwarded(r)' = Forwarded(r) /\ (HookEmitted(r)' <=> HookEmitted(r))

LEMMA SameStory ==
  ASSUME NEW r, Same(r), store = "closed" => store' = "closed"
  PROVE  /\ Fresh(r) => Fresh(r)'
         /\ Told(r) => Told(r)'
         /\ Lost(r) => Lost(r)'
         /\ \A o : (Ready(r, o) => Ready(r, o)') /\ (Logged(r, o) => Logged(r, o)')
BY DEF Same, Fresh, Told, Lost, Ready, Logged, OfOne

\* A connection that a step leaves alone keeps its story.
LEMMA StoryStays ==
  ASSUME NEW c, Story(c), \A n \in 1 .. MaxRequests : Same(<<c, n>>),
         store = "closed" => store' = "closed",
         pc'[c] = pc[c], count'[c] = count[c], outcome'[c] = outcome[c],
         pending'[c] = pending[c], known'[c] = known[c]
  PROVE  Story(c)'
<1>1. Public(c)'
  BY DEF Story, Public
<1>2. ASSUME NEW n \in 1 .. MaxRequests, Telling(c, <<c, n>>)
      PROVE  Telling(c, <<c, n>>)'
  <2> DEFINE r == <<c, n>>
  <2>1. Same(r) /\ Forwarded(r)' = Forwarded(r) /\ answered'[r] = answered[r]
    BY DEF Same
  <2> HIDE DEF r
  <2>2. (Fresh(r) => Fresh(r)') /\ (Told(r) => Told(r)') /\ (Lost(r) => Lost(r)')
    BY <2>1, SameStory
  <2>3. /\ Ready(r, outcome[c]) => Ready(r, outcome[c])'
        /\ Logged(r, outcome[c]) => Logged(r, outcome[c])'
    BY <2>1 DEF Same, Ready, Logged
  <2>4. /\ OfOne(Forwarded(r)) => OfOne(Forwarded(r))'
        /\ OfOne(Forwarded(r) \cup ToSet(pending[c])) =>
             OfOne(Forwarded(r) \cup ToSet(pending[c]))'
    BY <2>1 DEF OfOne
  <2>5. Telling(c, r)
    BY <1>2 DEF r
  <2>6. Telling(c, r)'
    BY <2>1, <2>2, <2>3, <2>4, <2>5 DEF Telling
  <2>7. QED
    BY <2>6 DEF r
<1>3. ASSUME NEW n \in 1 .. MaxRequests
      PROVE  /\ Fresh(<<c, n>>) => Fresh(<<c, n>>)'
             /\ Told(<<c, n>>) => Told(<<c, n>>)'
  BY DEF Same, Fresh, Told, Logged, OfOne
<1>4. QED
  BY <1>1, <1>2, <1>3 DEF Story

-----------------------------------------------------------------------------
(* What steps tell.                                                        *)

LEMMA NothingTold ==
  ASSUME UNCHANGED <<recorded, answered, queue, tried>>, NEW r
  PROVE  Same(r)
BY DEF Same, Forwarded, HookEmitted, Issued

LEMMA IssuedSame ==
  ASSUME Issued' = Issued, UNCHANGED <<recorded, answered>>, NEW r
  PROVE  Same(r)
BY DEF Same, Forwarded, HookEmitted

\* A job that is put is issued, and no other.
LEMMA IssuedPut ==
  ASSUME TypeOK, NEW job \in Jobs, queue' = Append(queue, job), UNCHANGED tried
  PROVE  Issued' = Issued \cup {job}
<1>1. ToSet(queue') = ToSet(queue) \cup {job}
  <2>1. queue \in Seq(Jobs \cup {Stop}) /\ job \in Jobs \cup {Stop}
    BY DEF TypeOK
  <2>2. ToSet(Append(queue, job)) = ToSet(queue) \cup {job}
    BY <2>1, AppendElements
  <2>3. QED
    BY <2>2
<1>2. job # Stop
  BY ServerAssumption DEF Jobs, Stop
<1>3. QED
  BY <1>1, <1>2 DEF Issued

LEMMA SameJob ==
  ASSUME NEW r, NEW s, NEW q, NEW u
  PROVE  Job(r, s) = Job(q, u) <=> r = q /\ s = u
BY DEF Job

\* It is a job of its request only.
LEMMA PutIsOfOne ==
  ASSUME TypeOK, NEW q \in Requests, NEW u \in Sinks \cup {Hook},
         queue' = Append(queue, Job(q, u)), UNCHANGED <<tried, recorded, answered>>
  PROVE  /\ \A r : r # q => Same(r)
         /\ u = Hook => Forwarded(q)' = Forwarded(q) /\ HookEmitted(q)'
         /\ u \in Sinks => /\ Forwarded(q)' = Forwarded(q) \cup {u}
                           /\ HookEmitted(q)' <=> HookEmitted(q)
<1>1. Job(q, u) \in Jobs
  BY DEF Job, Jobs
<1>2. Issued' = Issued \cup {Job(q, u)}
  BY <1>1, IssuedPut
<1>3. Hook \notin Sinks
  BY ServerAssumption
<1>4. ASSUME NEW r, r # q
      PROVE  Same(r)
  <2>1. \A s : Job(r, s) \in Issued' <=> Job(r, s) \in Issued
    BY <1>2, <1>4, SameJob
  <2>2. QED
    BY <2>1 DEF Same, Forwarded, HookEmitted
<1>5. \A s : Job(q, s) \in Issued' <=> Job(q, s) \in Issued \/ s = u
  BY <1>2, SameJob
<1>6. ASSUME u = Hook
      PROVE  Forwarded(q)' = Forwarded(q) /\ HookEmitted(q)'
  BY <1>3, <1>5, <1>6 DEF Forwarded, HookEmitted
<1>7. ASSUME u \in Sinks
      PROVE  /\ Forwarded(q)' = Forwarded(q) \cup {u}
             /\ HookEmitted(q)' <=> HookEmitted(q)
  BY <1>3, <1>5, <1>7 DEF Forwarded, HookEmitted
<1>8. QED
  BY <1>4, <1>6, <1>7

LEMMA DispatchKeeps ==
  ASSUME TypeOK, Dispatch \/ Shutdown \/ Interrupt
  PROVE  Issued' = Issued
<1>1. CASE Deliver
  <2>1. ToSet(queue) = ToSet(queue') \cup {Head(queue)}
    BY <1>1, TailElements DEF TypeOK, Deliver
  <2>2. CASE Head(queue) = Stop /\ UNCHANGED tried
    BY <2>1, <2>2 DEF Issued
  <2>3. CASE tried' = tried \cup {Head(queue)}
    BY <2>1, <2>3 DEF Issued
  <2>4. QED
    BY <1>1, <2>2, <2>3 DEF Deliver
<1>2. CASE CloseDispatcher
  <2>1. ToSet(queue') = ToSet(queue) \cup {Stop}
    <3>1. queue \in Seq(Jobs \cup {Stop}) /\ Stop \in Jobs \cup {Stop}
      BY DEF TypeOK
    <3>2. ToSet(Append(queue, Stop)) = ToSet(queue) \cup {Stop}
      BY <3>1, AppendElements
    <3>3. QED
      BY <1>2, <3>2 DEF CloseDispatcher
  <2>2. QED
    BY <1>2, <2>1 DEF Issued, CloseDispatcher
<1>3. CASE StopDelivering \/ Interrupt \/ ClosePools \/ CloseStore \/ Exit
  BY <1>3
  DEF StopDelivering, Interrupt, ClosePools, CloseStore, Exit, jobVars, Issued
<1>4. QED
  BY <1>1, <1>2, <1>3 DEF Dispatch, Shutdown

-----------------------------------------------------------------------------
(* A public handler's steps.                                               *)

\* Where the request that is handled stays the current one, the rest has been told.
LEMMA StoryGoesOn ==
  ASSUME NEW c, Story(c), Public(c)', NEW k \in Nat, count[c] = k, count'[c] = k,
         \A n \in 1 .. MaxRequests : n # k => Same(<<c, n>>),
         k \in 1 .. MaxRequests => Telling(c, <<c, k>>)'
  PROVE  Story(c)'
<1>1. ASSUME NEW n \in 1 .. MaxRequests, n # k
      PROVE  /\ Fresh(<<c, n>>) => Fresh(<<c, n>>)'
             /\ Told(<<c, n>>) => Told(<<c, n>>)'
  BY <1>1 DEF Same, Fresh, Told, Logged, OfOne
<1>2. ASSUME NEW n \in 1 .. MaxRequests, n = k
      PROVE  Telling(c, <<c, n>>)'
  BY <1>2
<1>3. ASSUME NEW n \in 1 .. MaxRequests
      PROVE  /\ n > count'[c] => Fresh(<<c, n>>)'
             /\ n < count'[c] => Told(<<c, n>>)'
  BY <1>1 DEF Story
<1>4. QED
  BY <1>2, <1>3 DEF Story

LEMMA ConnectionTypes ==
  ASSUME TypeOK, NEW c \in Connections
  PROVE  count[c] \in Nat /\ count[c] <= MaxRequests /\ MaxRequests \in Nat
         /\ pending[c] \in Seq(Sinks) /\ outcome[c] \in Outcomes
BY ServerAssumption DEF TypeOK

\* Steps of a handler that tell nothing.
LEMMA QuietStory ==
  ASSUME TypeOK, NEW c \in PublicConnections, Story(c),
         Connect(c) \/ Start(c) \/ HangUp(c) \/ Proxy(c) \/ Configure(c) \/ Clean(c)
  PROVE  Story(c)'
<1>0. c \in Connections /\ count[c] \in Nat
  BY ConnectionTypes DEF Connections
<1> PICK k \in Nat : k = count[c]
  BY <1>0
<1> DEFINE r == <<c, k>>
<1>1. /\ c \in Connections /\ k \in Nat /\ count[c] = k /\ Public(c)
      /\ k \in 1 .. MaxRequests => Telling(c, r)
  BY <1>0 DEF Story
<1>2. UNCHANGED <<recorded, answered, queue, tried, count, store, pending>>
  BY DEF Connect, Start, HangUp, Proxy, Configure, Clean, Check, Delete, logVars, handlerVars,
         jobVars
<1>3. \A q : Same(q)
  BY <1>2, NothingTold
<1>4. Fresh(r) => Fresh(r)' /\ (\A o : Ready(r, o)' <=> Ready(r, o))
  BY <1>2 DEF Fresh, Ready, Forwarded, HookEmitted, Issued
<1>5. (Told(r) => Told(r)') /\ (Lost(r) => Lost(r)')
  BY <1>2 DEF Told, Lost, Logged, OfOne, Forwarded, HookEmitted, Issued
<1> HIDE DEF r
<1>6. CASE Connect(c) \/ Start(c)
  <2>1. pc[c] \in {"away", "queued"} /\ pc'[c] \in {"queued", "waiting"}
    BY <1>1, <1>6 DEF Connect, Start, Go, TypeOK
  <2>2. count[c] = 0 /\ k = 0
    BY <1>1, <2>1 DEF Public
  <2>3. Public(c)'
    BY <1>2, <2>1, <2>2 DEF Public
  <2>4. k \in 1 .. MaxRequests => Telling(c, r)'
    BY <1>1, <2>2, ConnectionTypes
  <2>5. QED
    BY <1>1, <1>2, <1>3, <2>3, <2>4, StoryGoesOn DEF r
<1>7. CASE HangUp(c)
  <2>1. pc[c] = "waiting" /\ pc'[c] = "closed"
    BY <1>1, <1>7 DEF HangUp, TypeOK, Public
  <2>2. Public(c)'
    BY <2>1 DEF Public
  <2>3. k \in 1 .. MaxRequests => Telling(c, r)'
    BY <1>1, <1>5, <2>1 DEF Telling, Early
  <2>4. QED
    BY <1>1, <1>2, <1>3, <2>2, <2>3, StoryGoesOn DEF r
<1>8. CASE Proxy(c)
  <2>1. /\ pc[c] = "routing" /\ outcome'[c] \in {"made", "failed"}
        /\ pc'[c] = IF outcome'[c] = "made" THEN "hooking" ELSE "logging"
    BY <1>1, <1>8, ServerAssumption DEF Proxy, Go, TypeOK, Outcomes
  <2>2. Public(c)'
    BY <2>1 DEF Public
  <2>3. Fresh(r) /\ outcome'[c] = "failed" => Ready(r, outcome'[c])
    BY DEF Fresh, Ready
  <2>4. k \in 1 .. MaxRequests => Telling(c, r)'
    BY <1>1, <1>2, <1>4, <2>1, <2>3 DEF Telling, Early, Ready, Forwarded, HookEmitted, Issued
  <2>5. QED
    BY <1>1, <1>2, <1>3, <2>2, <2>4, StoryGoesOn DEF r
<1>9. CASE Configure(c) \/ Clean(c)
  <2>1. pc[c] \in {"configuring", "checking", "deleting"} /\ known[c] # None /\ c # Cleaner
    BY <1>1, <1>9, ServerAssumption
    DEF Configure, Clean, Check, Delete, Go, Public
  <2>2. /\ pc'[c] \in {"checking", "deleting", "routing"}
        /\ pc'[c] \in {"checking", "deleting"} => known'[c] = known[c]
    <3>1. pc \in [Connections \cup {Cleaner} -> Everywhere]
          /\ known \in [Connections \cup {Cleaner} -> Documents \cup {None}]
      BY DEF TypeOK, Everywhere
    <3>2. Resume(c) = "routing"
      BY <2>1 DEF Resume
    <3>3. CASE Configure(c)
      BY <1>1, <3>1, <3>3 DEF Configure, Go
    <3>4. CASE Check(c)
      BY <1>1, <3>1, <3>2, <3>4 DEF Check, Go, Leave
    <3>5. CASE Delete(c)
      BY <1>1, <2>1, <3>1, <3>2, <3>5 DEF Delete, Raise, Leave
    <3>6. QED
      BY <1>9, <3>3, <3>4, <3>5 DEF Clean
  <2>3. Public(c)'
    BY <2>1, <2>2 DEF Public
  <2>4. k \in 1 .. MaxRequests => Telling(c, r)'
    <3>1. ASSUME k \in 1 .. MaxRequests
          PROVE  Fresh(r)'
      BY <1>1, <1>4, <2>1, <3>1 DEF Telling, Early
    <3>2. QED
      BY <2>2, <3>1 DEF Telling, Early
  <2>5. QED
    BY <1>1, <1>2, <1>3, <2>3, <2>4, StoryGoesOn DEF r
<1>10. QED
  BY <1>6, <1>7, <1>8, <1>9

\* The next request is told of nothing yet, the last has been told.
LEMMA RequestStory ==
  ASSUME TypeOK, NEW c \in PublicConnections, Story(c), Request(c)
  PROVE  Story(c)'
<1>1. c \in Connections /\ count[c] \in Nat /\ count'[c] = count[c] + 1
  BY ConnectionTypes DEF Connections, Request, TypeOK
<1>2. UNCHANGED <<recorded, answered, queue, tried, store>>
  BY DEF Request, logVars, jobVars
<1>3. /\ pc[c] = "waiting" /\ pc'[c] \in {"routing", "configuring"}
      /\ pc'[c] = "configuring" => known'[c] = signature
  BY <1>1 DEF Request, LoadDocument, Go, TypeOK
<1>4. signature # None
  BY ServerAssumption DEF TypeOK
<1>5. Public(c)'
  BY <1>3, <1>4 DEF Public
<1>6. ASSUME NEW n \in 1 .. MaxRequests
      PROVE  /\ n > count'[c] => Fresh(<<c, n>>)'
             /\ n < count'[c] => Told(<<c, n>>)'
             /\ n = count'[c] => Telling(c, <<c, n>>)'
  <2>1. (Fresh(<<c, n>>) => Fresh(<<c, n>>)') /\ (Told(<<c, n>>) => Told(<<c, n>>)')
    BY <1>2 DEF Fresh, Told, Logged, OfOne, Forwarded, HookEmitted, Issued
  <2>2. CASE n > count[c]
    BY <1>1, <1>3, <2>1, <2>2 DEF Story, Telling, Early
  <2>3. CASE n < count[c]
    BY <1>1, <2>1, <2>3 DEF Story
  <2>4. CASE n = count[c]
    <3>1. Told(<<c, n>>)
      BY <1>3, <2>4 DEF Story, Telling
    <3>2. QED
      BY <1>1, <2>1, <2>4, <3>1
  <2>5. QED
    BY <1>1, <2>2, <2>3, <2>4
<1>7. QED
  BY <1>5, <1>6 DEF Story

\* The number of a request that is handled.
LEMMA Handled ==
  ASSUME TypeOK, NEW c \in PublicConnections, Story(c),
         pc[c] \in {"hooking", "logging", "emitting", "answering"}
  PROVE  \E k \in 1 .. MaxRequests :
           /\ k = count[c] /\ k \in Nat /\ Current(c) = <<c, k>>
           /\ Current(c) \in Requests /\ Telling(c, <<c, k>>)
<1>1. c \in Connections /\ count[c] > 0
  BY DEF TypeOK, Connections, Ended
<1>2. count[c] \in Nat /\ count[c] <= MaxRequests /\ MaxRequests \in Nat
  BY <1>1, ConnectionTypes
<1>3. Current(c) \in Requests /\ Current(c) = <<c, count[c]>>
  BY <1>1, CurrentType DEF Current
<1>4. count[c] \in 1 .. MaxRequests
  BY <1>1, <1>2
<1>5. QED
  BY <1>2, <1>3, <1>4 DEF Story

LEMMA EmitHookStory ==
  ASSUME TypeOK, NEW c \in PublicConnections, Story(c), EmitHook(c)
  PROVE  Story(c)'
<1>1. /\ pc[c] = "hooking" /\ pc'[c] = "logging" /\ outcome' = outcome /\ count' = count
      /\ queue' = Append(queue, Job(Current(c), Hook))
      /\ UNCHANGED <<tried, recorded, answered>>
  BY DEF EmitHook, Go, TypeOK, Connections, handlerVars, logVars
<1>2. PICK k \in 1 .. MaxRequests :
        /\ k = count[c] /\ k \in Nat /\ Current(c) = <<c, k>>
        /\ Current(c) \in Requests /\ Telling(c, <<c, k>>)
  BY <1>1, Handled
<1> DEFINE r == <<c, k>>
<1>3. /\ \A q : q # r => Same(q)
      /\ Forwarded(r)' = Forwarded(r) /\ HookEmitted(r)'
  BY <1>1, <1>2, PutIsOfOne
<1>4. \A n \in 1 .. MaxRequests : n # k => Same(<<c, n>>)
  BY <1>3
<1> HIDE DEF r
<1>5. Fresh(r) /\ outcome[c] = "made"
  BY <1>1, <1>2 DEF Telling, r
<1>6. Ready(r, outcome[c])'
  BY <1>1, <1>3, <1>5 DEF Ready, Fresh
<1>7. Telling(c, r)'
  BY <1>1, <1>6 DEF Telling, Early
<1>8. Public(c)'
  BY <1>1 DEF Public
<1>9. QED
  BY <1>1, <1>2, <1>4, <1>7, <1>8, StoryGoesOn DEF r

LEMMA WriteRowStory ==
  ASSUME TypeOK, NEW c \in PublicConnections, Story(c), WriteRow(c)
  PROVE  Story(c)'
<1>1. /\ pc[c] = "logging" /\ UNCHANGED <<count, outcome, answered, queue, tried, store>>
      /\ pc \in [Connections \cup {Cleaner} -> Everywhere] /\ c \in Connections
  BY DEF WriteRow, Go, TypeOK, Connections, jobVars, Everywhere
<1>2. PICK k \in 1 .. MaxRequests :
        /\ k = count[c] /\ k \in Nat /\ Current(c) = <<c, k>>
        /\ Current(c) \in Requests /\ Telling(c, <<c, k>>)
  BY <1>1, Handled
<1> DEFINE r == <<c, k>>
<1>3. Ready(r, outcome[c])
  BY <1>1, <1>2 DEF Telling
<1>4. Issued' = Issued
  BY <1>1 DEF Issued
<1>5. CASE store = "closed"
  <2>1. pc'[c] = "closed" /\ recorded' = recorded
    BY <1>1, <1>5 DEF WriteRow, Go, logVars
  <2>2. \A n \in 1 .. MaxRequests : n # k => Same(<<c, n>>)
    BY <1>1, <1>4, <2>1, IssuedSame
  <2> HIDE DEF r
  <2>3. Lost(r)'
    BY <1>1, <1>3, <1>4, <1>5, <2>1 DEF Ready, Lost, Forwarded, HookEmitted
  <2>4. Telling(c, r)' /\ Public(c)'
    BY <2>1, <2>3 DEF Telling, Early, Public
  <2>5. QED
    BY <1>1, <1>2, <2>2, <2>4, StoryGoesOn DEF r
<1>6. CASE store # "closed"
  <2>1. /\ pc'[c] = IF sinks = <<>> THEN "answering" ELSE "emitting"
        /\ recorded' = [recorded EXCEPT ![r] = outcome[c]]
        /\ pending'[c] = sinks
    BY <1>1, <1>2, <1>6 DEF WriteRow, Go, TypeOK
  <2>2. r \in Requests /\ recorded \in [Requests -> Outcomes]
    BY <1>2 DEF TypeOK
  <2>3. \A n \in 1 .. MaxRequests : n # k => Same(<<c, n>>)
    <3>1. ASSUME NEW n \in 1 .. MaxRequests, n # k
          PROVE  recorded'[<<c, n>>] = recorded[<<c, n>>]
      BY <2>1, <2>2, <3>1
    <3>2. QED
      BY <1>1, <1>4, <3>1 DEF Same, Forwarded, HookEmitted
  <2> HIDE DEF r
  <2>4. Forwarded(r)' = {} /\ (HookEmitted(r)' <=> HookEmitted(r)) /\ answered'[r] = None
        /\ recorded'[r] = outcome[c]
    BY <1>1, <1>3, <1>4, <2>1, <2>2 DEF Ready, Forwarded, HookEmitted
  <2>5. Logged(r, outcome[c])'
    BY <1>1, <1>3, <2>4 DEF Ready, Logged
  <2>6. OfOne(ToSet(sinks))
    BY DEF OfOne, TypeOK
  <2>7. CASE sinks = <<>>
    <3>1. OfOne(Forwarded(r))'
      BY <2>4, <2>6, <2>7, EmptyElements DEF OfOne
    <3>2. Telling(c, r)' /\ Public(c)'
      BY <2>1, <2>4, <2>5, <2>7, <3>1 DEF Telling, Early, Public
    <3>3. QED
      BY <1>1, <1>2, <2>3, <3>2, StoryGoesOn DEF r
  <2>8. CASE sinks # <<>>
    <3>1. OfOne(Forwarded(r) \cup ToSet(pending[c]))'
      BY <2>1, <2>4, <2>6 DEF OfOne
    <3>2. Telling(c, r)' /\ Public(c)'
      BY <2>1, <2>4, <2>5, <2>8, <3>1 DEF Telling, Early, Public
    <3>3. QED
      BY <1>1, <1>2, <2>3, <3>2, StoryGoesOn DEF r
  <2>9. QED
    BY <2>7, <2>8
<1>7. QED
  BY <1>5, <1>6

LEMMA EmitLogStory ==
  ASSUME TypeOK, NEW c \in PublicConnections, Story(c), EmitLog(c)
  PROVE  Story(c)'
<1>1. /\ pc[c] = "emitting" /\ UNCHANGED <<count, outcome, answered, recorded, tried>>
      /\ pc \in [Connections \cup {Cleaner} -> Everywhere] /\ c \in Connections
      /\ pc'[c] = IF Rest(c) = <<>> THEN "answering" ELSE "emitting"
      /\ pending'[c] = Rest(c)
      /\ queue' = Append(queue, Job(Current(c), Head(pending[c])))
      /\ pending[c] # <<>> /\ pending[c] \in Seq(Sinks)
  BY DEF EmitLog, Go, TypeOK, Connections, logVars, Everywhere
<1>2. PICK k \in 1 .. MaxRequests :
        /\ k = count[c] /\ k \in Nat /\ Current(c) = <<c, k>>
        /\ Current(c) \in Requests /\ Telling(c, <<c, k>>)
  BY <1>1, Handled
<1> DEFINE r == <<c, k>>
<1>3. Head(pending[c]) \in Sinks
      /\ ToSet(pending[c]) = ToSet(Rest(c)) \cup {Head(pending[c])}
  BY <1>1, TailElements DEF Rest
<1>4. /\ \A q : q # r => Same(q)
      /\ Forwarded(r)' = Forwarded(r) \cup {Head(pending[c])}
      /\ HookEmitted(r)' <=> HookEmitted(r)
  BY <1>1, <1>2, <1>3, PutIsOfOne
<1>5. \A n \in 1 .. MaxRequests : n # k => Same(<<c, n>>)
  BY <1>4
<1>6. /\ answered[r] = None /\ Logged(r, outcome[c])
      /\ OfOne(Forwarded(r) \cup ToSet(pending[c]))
  BY <1>1, <1>2 DEF Telling
<1> HIDE DEF r
<1>7. Logged(r, outcome[c])'
  BY <1>1, <1>4, <1>6 DEF Logged
<1>8. Forwarded(r)' \cup ToSet(pending'[c]) = Forwarded(r) \cup ToSet(pending[c])
  BY <1>1, <1>3, <1>4
<1>9. OfOne(Forwarded(r) \cup ToSet(pending[c]))'
  BY <1>6, <1>8 DEF OfOne
<1>10. Rest(c) = <<>> => OfOne(Forwarded(r))'
  <2>1. ASSUME Rest(c) = <<>>
        PROVE  Forwarded(r)' = Forwarded(r)' \cup ToSet(pending'[c])
    BY <1>1, <2>1, EmptyElements
  <2>2. QED
    BY <1>9, <2>1 DEF OfOne
<1>11. Telling(c, r)' /\ Public(c)'
  BY <1>1, <1>6, <1>7, <1>9, <1>10 DEF Telling, Early, Public
<1>12. QED
  BY <1>1, <1>2, <1>5, <1>11, StoryGoesOn DEF r

LEMMA AnswerStory ==
  ASSUME TypeOK, NEW c \in PublicConnections, Story(c), Answer(c)
  PROVE  Story(c)'
<1>1. /\ pc[c] = "answering" /\ pc'[c] = "waiting"
      /\ UNCHANGED <<count, recorded, queue, tried>>
      /\ answered' = [answered EXCEPT ![Current(c)] = outcome[c]]
  BY DEF Answer, Go, TypeOK, Connections, logVars, jobVars
<1>2. PICK k \in 1 .. MaxRequests :
        /\ k = count[c] /\ k \in Nat /\ Current(c) = <<c, k>>
        /\ Current(c) \in Requests /\ Telling(c, <<c, k>>)
  BY <1>1, Handled
<1> DEFINE r == <<c, k>>
<1>3. r \in Requests /\ answered \in [Requests -> Outcomes]
  BY <1>2 DEF TypeOK
<1>4. \A n \in 1 .. MaxRequests : n # k => Same(<<c, n>>)
  <2>1. ASSUME NEW n \in 1 .. MaxRequests, n # k
        PROVE  answered'[<<c, n>>] = answered[<<c, n>>]
    BY <1>1, <1>2, <1>3, <2>1
  <2>2. QED
    BY <1>1, <2>1 DEF Same, Forwarded, HookEmitted, Issued
<1>5. Logged(r, outcome[c]) /\ OfOne(Forwarded(r)) /\ answered'[r] = outcome[c]
  BY <1>1, <1>2, <1>3 DEF Telling
<1> HIDE DEF r
<1>6. Told(r)'
  BY <1>1, <1>5 DEF Told, Logged, OfOne, Forwarded, HookEmitted, Issued
<1>7. Telling(c, r)' /\ Public(c)'
  BY <1>1, <1>6 DEF Telling, Early, Public
<1>8. QED
  BY <1>1, <1>2, <1>4, <1>7, StoryGoesOn DEF r

-----------------------------------------------------------------------------
(* Every step.                                                             *)

LEMMA NoServeClosesStore ==
  ASSUME NEW e, Serve(e) \/ Client(e)
  PROVE  store' = store
BY DEF Serve, Client, Connect, Request, HangUp, Start, Proxy, SaveSettings, LoadSettings, Monitor,
       Stream, Configure, Clean, Check, Delete, EmitHook, WriteRow, EmitLog, Answer

\* What a handler's step says of the requests of others.
LEMMA OthersUntold ==
  ASSUME TypeOK, NEW e \in Connections, Serve(e) \/ Client(e), NEW r \in Requests, r[1] # e
  PROVE  Same(r)
<1>1. Current(e)[1] = e
  BY DEF Current
<1>2. CASE EmitHook(e)
  <2>1. /\ Current(e) \in Requests /\ queue' = Append(queue, Job(Current(e), Hook))
        /\ UNCHANGED <<tried, recorded, answered>>
    BY <1>2, CurrentType DEF TypeOK, EmitHook, Go, Ended, handlerVars, logVars
  <2>2. QED
    BY <1>1, <2>1, PutIsOfOne
<1>3. CASE EmitLog(e)
  <2>1. /\ Current(e) \in Requests /\ pending[e] # <<>> /\ pending[e] \in Seq(Sinks)
        /\ queue' = Append(queue, Job(Current(e), Head(pending[e])))
        /\ UNCHANGED <<tried, recorded, answered>>
    BY <1>3, CurrentType DEF TypeOK, EmitLog, Go, Ended, logVars
  <2>2. Head(pending[e]) \in Sinks
    BY <2>1, TailElements
  <2>3. QED
    BY <1>1, <2>1, <2>2, PutIsOfOne
<1>4. CASE WriteRow(e)
  <2>1. UNCHANGED <<answered, queue, tried>>
    BY <1>4 DEF WriteRow, jobVars
  <2>2. recorded'[r] = recorded[r]
    BY <1>1, <1>4 DEF WriteRow, TypeOK
  <2>3. QED
    BY <2>1, <2>2 DEF Same, Forwarded, HookEmitted, Issued
<1>5. CASE Answer(e)
  <2>1. UNCHANGED <<recorded, queue, tried>>
    BY <1>5 DEF Answer, logVars, jobVars
  <2>2. answered'[r] = answered[r]
    BY <1>1, <1>5 DEF Answer, TypeOK
  <2>3. QED
    BY <2>1, <2>2 DEF Same, Forwarded, HookEmitted, Issued
<1>6. CASE UNCHANGED <<recorded, answered, queue, tried>>
  BY <1>6, NothingTold
<1>7. QED
  BY <1>2, <1>3, <1>4, <1>5, <1>6
  DEF Serve, Client, Connect, Request, HangUp, Start, Proxy, SaveSettings, LoadSettings, Monitor,
      Stream, Configure, Clean, Check, Delete, logVars, handlerVars, jobVars

LEMMA OthersStay ==
  ASSUME TypeOK, NEW e \in Connections, Serve(e) \/ Client(e), NEW c \in Connections, c # e
  PROVE  /\ pc'[c] = pc[c] /\ count'[c] = count[c] /\ outcome'[c] = outcome[c]
         /\ pending'[c] = pending[c] /\ known'[c] = known[c]
<1>1. /\ DOMAIN pc = Connections \cup {Cleaner} /\ DOMAIN known = Connections \cup {Cleaner}
      /\ DOMAIN count = Connections /\ DOMAIN outcome = Connections
      /\ DOMAIN pending = Connections
  BY DEF TypeOK
<1>2. CASE Client(e)
  BY <1>1, <1>2
  DEF Client, Connect, Request, HangUp, LoadDocument, Go, configVars, handlerVars
<1>3. CASE Start(e) \/ Proxy(e) \/ SaveSettings(e) \/ LoadSettings(e) \/ Monitor(e) \/ Stream(e)
  BY <1>1, <1>3
  DEF Start, Proxy, SaveSettings, LoadSettings, Monitor, Stream, LoadDocument, Go, configVars,
      handlerVars
<1>4. CASE Configure(e) \/ Clean(e)
  BY <1>1, <1>4
  DEF Configure, Clean, Check, Delete, Leave, Raise, Go, configVars, handlerVars
<1>5. CASE EmitHook(e) \/ WriteRow(e) \/ EmitLog(e) \/ Answer(e)
  BY <1>1, <1>5 DEF EmitHook, WriteRow, EmitLog, Answer, Go, configVars, handlerVars
<1>6. QED
  BY <1>2, <1>3, <1>4, <1>5 DEF Serve

\* A step of no connection tells nothing.
LEMMA BackgroundStays ==
  ASSUME TypeOK, \/ Clear \/ Dispatch \/ Shutdown \/ Interrupt \/ UNCHANGED vars
                 \/ \E r \in rows : Age(r)
  PROVE  /\ \A r : Same(r)
         /\ store = "closed" => store' = "closed"
         /\ UNCHANGED <<count, outcome, pending>>
         /\ \A c \in Connections : pc'[c] = pc[c] /\ known'[c] = known[c]
<1>1. CASE Dispatch \/ Shutdown \/ Interrupt
  <2>1. UNCHANGED <<recorded, answered, count, outcome, pending, pc, known>>
    BY <1>1
    DEF Dispatch, Shutdown, Interrupt, Deliver, StopDelivering, ClosePools, CloseStore,
        CloseDispatcher, Exit, configVars, logVars, handlerVars
  <2>2. Issued' = Issued
    BY <1>1, DispatchKeeps
  <2>3. store = "closed" => store' = "closed"
    BY <1>1
    DEF Dispatch, Shutdown, Interrupt, Deliver, StopDelivering, ClosePools, CloseStore,
        CloseDispatcher, Exit
  <2>4. QED
    BY <2>1, <2>2, <2>3, IssuedSame
<1>2. CASE Clear
  <2>1. Cleaner \notin Connections
    BY ServerAssumption
  <2>2. UNCHANGED <<recorded, answered, queue, tried, count, outcome, pending, store>>
    BY <1>2 DEF Clear, Wake, Clean, Check, Delete, logVars, handlerVars, jobVars
  <2>3. \A c \in Connections : pc'[c] = pc[c] /\ known'[c] = known[c]
    BY <1>2, <2>1
    DEF Clear, Wake, Clean, Check, Delete, Leave, Raise, Go, configVars, TypeOK
  <2>4. QED
    BY <2>2, <2>3, NothingTold
<1>3. CASE UNCHANGED vars \/ \E r \in rows : Age(r)
  <2>1. UNCHANGED <<recorded, answered, queue, tried, count, outcome, pending, store, pc, known>>
    BY <1>3 DEF vars, Age, configVars, logVars, handlerVars, jobVars
  <2>2. QED
    BY <2>1, NothingTold
<1>4. QED
  BY <1>1, <1>2, <1>3

LEMMA OwnStory ==
  ASSUME TypeOK, NEW c \in PublicConnections, Story(c), Serve(c) \/ Client(c)
  PROVE  Story(c)'
<1>1. c \notin AdminConnections
  BY ServerAssumption
<1>2. pc[c] \notin {"saved", "streaming"}
  BY DEF Story, Public
<1>3. ~SaveSettings(c) /\ ~LoadSettings(c) /\ ~Monitor(c) /\ ~Stream(c)
  BY <1>1, <1>2 DEF SaveSettings, LoadSettings, Monitor, Stream, Go
<1>4. QED
  BY <1>3, QuietStory, RequestStory, EmitHookStory, WriteRowStory, EmitLogStory, AnswerStory
  DEF Serve, Client

LEMMA SilentStays ==
  ASSUME TypeOK, NEW c \in AdminConnections, Silent(c), Serve(c) \/ Client(c)
  PROVE  Silent(c)'
<1>1. c \notin PublicConnections
  BY ServerAssumption
<1>2. answered' = answered
  BY <1>1
  DEF Serve, Client, Connect, Request, HangUp, Start, Proxy, SaveSettings, LoadSettings, Monitor,
      Stream, Configure, Clean, Check, Delete, EmitHook, WriteRow, EmitLog, Answer, handlerVars
<1>3. QED
  BY <1>2 DEF Silent

LEMMA InitStory == Init => StoryInv
<1> SUFFICES ASSUME Init PROVE StoryInv
  OBVIOUS
<1>1. TypeOK
  BY InitType
<1>2. Issued = {}
  BY EmptyElements DEF Init, Issued
<1>3. ASSUME NEW c \in Connections, NEW n \in 1 .. MaxRequests
      PROVE  Fresh(<<c, n>>)
  <2>1. <<c, n>> \in Requests
    BY <1>3 DEF Requests
  <2>2. recorded[<<c, n>>] = None /\ answered[<<c, n>>] = None
    BY <2>1 DEF Init
  <2>3. QED
    BY <1>2, <2>2 DEF Fresh, Forwarded, HookEmitted
<1>4. ASSUME NEW c \in PublicConnections
      PROVE  Story(c)
  <2>1. count[c] = 0 /\ pc[c] = "away"
    BY <1>4, ServerAssumption DEF Init, Connections
  <2>2. MaxRequests \in Nat
    BY ServerAssumption
  <2>3. QED
    BY <1>3, <2>1, <2>2 DEF Story, Public, Connections
<1>5. \A c \in AdminConnections : Silent(c)
  BY <1>3 DEF Silent, Fresh, Connections
<1>6. QED
  BY <1>1, <1>4, <1>5 DEF StoryInv

LEMMA StepStory ==
  ASSUME StoryInv, [Next]_vars
  PROVE  StoryInv'
<1>1. /\ TypeOK /\ \A c \in PublicConnections : Story(c)
      /\ \A c \in AdminConnections : Silent(c)
  BY DEF StoryInv
<1>2. TypeOK'
  BY <1>1, StepType
<1>3. ASSUME NEW e \in Connections, Serve(e) \/ Client(e)
      PROVE  StoryInv'
  <2>1. ASSUME NEW c \in PublicConnections
        PROVE  Story(c)'
    <3>1. CASE c = e
      BY <1>1, <1>3, <3>1, OwnStory
    <3>2. CASE c # e
      <4>1. \A n \in 1 .. MaxRequests : Same(<<c, n>>)
        BY <1>1, <1>3, <3>2, OthersUntold DEF Requests, Connections
      <4>2. store' = store
        BY <1>3, NoServeClosesStore
      <4>3. /\ pc'[c] = pc[c] /\ count'[c] = count[c] /\ outcome'[c] = outcome[c]
            /\ pending'[c] = pending[c] /\ known'[c] = known[c]
        BY <1>1, <1>3, <3>2, OthersStay DEF Connections
      <4>4. QED
        BY <1>1, <4>1, <4>2, <4>3, StoryStays
    <3>3. QED
      BY <3>1, <3>2
  <2>2. ASSUME NEW c \in AdminConnections
        PROVE  Silent(c)'
    <3>1. CASE c = e
      BY <1>1, <1>3, <3>1, SilentStays
    <3>2. CASE c # e
      <4>1. \A n \in 1 .. MaxRequests : Same(<<c, n>>)
        BY <1>1, <1>3, <3>2, OthersUntold DEF Requests, Connections
      <4>2. QED
        BY <1>1, <4>1 DEF Silent, Same
    <3>3. QED
      BY <3>1, <3>2
  <2>3. QED
    BY <1>2, <2>1, <2>2 DEF StoryInv
<1>4. CASE \/ Clear \/ Dispatch \/ Shutdown \/ Interrupt \/ UNCHANGED vars
           \/ \E r \in rows : Age(r)
  <2>1. /\ \A r : Same(r)
        /\ store = "closed" => store' = "closed"
        /\ UNCHANGED <<count, outcome, pending>>
        /\ \A c \in Connections : pc'[c] = pc[c] /\ known'[c] = known[c]
    BY <1>1, <1>4, BackgroundStays
  <2>2. ASSUME NEW c \in PublicConnections
        PROVE  Story(c)'
    BY <1>1, <2>1, StoryStays DEF Connections
  <2>3. \A c \in AdminConnections : Silent(c)'
    BY <1>1, <2>1 DEF Silent, Same
  <2>4. QED
    BY <1>2, <2>2, <2>3 DEF StoryInv
<1>5. QED
  BY <1>3, <1>4 DEF Next

\* A request of which the client has not been told.
Untold(c, r) ==
  /\ answered[r] = None
  /\ Forwarded(r) # {} => recorded[r] \in {"made", "failed"}
  /\ pc[c] = "closed" /\ HookEmitted(r) => store = "closed"

LEMMA TellingOrTold ==
  ASSUME TypeOK, NEW c \in PublicConnections, Story(c),
         NEW n \in 1 .. MaxRequests, n <= count[c], Telling(c, <<c, n>>)
  PROVE  Told(<<c, n>>) \/ Untold(c, <<c, n>>)
<1> DEFINE r == <<c, n>>
<1>1. pc[c] \in Places \cup {"sleeping", "dead"} /\ Public(c) /\ count[c] \in Nat
  BY ConnectionTypes DEF TypeOK, Story, Connections
<1>2. count[c] # 0
  BY <1>1
<1>3. pc[c] \in Early \cup {"hooking", "logging", "emitting", "answering", "waiting", "closed"}
  BY <1>1, <1>2 DEF Public, Places, Ended, Cleaning, Handling, Early
<1> HIDE DEF r
<1>4. Telling(c, r)
  BY DEF r
<1>5. Fresh(r) \/ (\E o : Ready(r, o)) => Untold(c, r) \/ pc[c] = "closed"
  BY DEF Fresh, Ready, Untold
<1>6. Lost(r) => Untold(c, r)
  BY DEF Lost, Untold
<1>7. CASE pc[c] \in Early \cup {"hooking", "logging"}
  BY <1>4, <1>5, <1>7 DEF Telling, Early, r
<1>8. CASE pc[c] \in {"emitting", "answering"}
  BY <1>4, <1>8 DEF Telling, Logged, Untold, r
<1>9. CASE pc[c] \in {"waiting", "closed"}
  BY <1>4, <1>6, <1>9 DEF Telling, r
<1>10. QED
  BY <1>3, <1>7, <1>8, <1>9

\* The client, the log and the dispatcher are told the same of every request.
THEOREM StoryCorrect == Spec => []OneStory
<1>1. Init => StoryInv
  BY InitStory
<1>2. StoryInv /\ [Next]_vars => StoryInv'
  BY StepStory
<1>3. StoryInv => OneStory
  <2> SUFFICES ASSUME StoryInv, NEW c \in PublicConnections, NEW n \in 1 .. count[c]
               PROVE  LET r == <<c, n>>
                      IN /\ answered[r] \in {"made", "failed"} =>
                              /\ recorded[r] = answered[r]
                              /\ Job(r, Hook) \in Issued <=> answered[r] = "made"
                         /\ (\E s \in Sinks : Job(r, s) \in Issued) =>
                              recorded[r] \in {"made", "failed"}
                         /\ Job(r, Hook) \in Issued /\ answered[r] = None /\ pc[c] = "closed" =>
                              store = "closed"
    BY DEF OneStory
  <2> DEFINE r == <<c, n>>
  <2>1. TypeOK /\ Story(c) /\ c \in Connections
    BY DEF StoryInv, Connections
  <2>2. count[c] \in Nat /\ count[c] <= MaxRequests /\ MaxRequests \in Nat
    BY <2>1, ConnectionTypes
  <2>3. n \in 1 .. MaxRequests /\ n \in Nat
    BY <2>2
  <2>4. Told(r) \/ Telling(c, r)
    BY <2>1, <2>2, <2>3 DEF Story
  <2>5. None \notin {"made", "failed"}
    BY ServerAssumption
  <2> HIDE DEF r
  <2>6. Told(r) => /\ answered[r] \in {"made", "failed"} /\ recorded[r] = answered[r]
                   /\ HookEmitted(r) <=> answered[r] = "made"
    BY DEF Told, Logged
  <2>7. Telling(c, r) => Told(r) \/ Untold(c, r)
    BY <2>1, <2>2, <2>3, TellingOrTold DEF r
  <2>8. (\E s \in Sinks : Job(r, s) \in Issued) => Forwarded(r) # {}
    BY DEF Forwarded
  <2>9. QED
    BY <2>4, <2>5, <2>6, <2>7, <2>8 DEF Untold, HookEmitted, r
<1>4. QED
  BY <1>1, <1>2, <1>3, PTL DEF Spec

\* The jobs of an answered request are those of one configuration's aggregators.
THEOREM OneConfigurationCorrect == Spec => []OneConfigurationPerRow
<1>1. Init => StoryInv
  BY InitStory
<1>2. StoryInv /\ [Next]_vars => StoryInv'
  BY StepStory
<1>3. StoryInv => OneConfigurationPerRow
  <2> SUFFICES ASSUME StoryInv, NEW q \in Requests, answered[q] \in {"made", "failed"}
               PROVE  OfOne(Forwarded(q))
    BY DEF OneConfigurationPerRow, OfOne, Forwarded
  <2>1. PICK c \in Connections, n \in 1 .. MaxRequests : q = <<c, n>>
    BY DEF Requests
  <2>2. None \notin {"made", "failed"}
    BY ServerAssumption
  <2>3. c \in PublicConnections
    BY <2>1, <2>2 DEF StoryInv, Silent, Connections
  <2>4. TypeOK /\ Story(c)
    BY <2>3 DEF StoryInv
  <2>5. count[c] \in Nat /\ n \in Nat
    BY <2>1, <2>4, ConnectionTypes
  <2>6. Fresh(q) \/ Told(q) \/ (n <= count[c] /\ Telling(c, q))
    BY <2>1, <2>4, <2>5 DEF Story
  <2>7. Told(q)
    BY <2>1, <2>2, <2>3, <2>4, <2>6, TellingOrTold DEF Fresh, Untold
  <2>8. QED
    BY <2>7 DEF Told
<1>4. QED
  BY <1>1, <1>2, <1>3, PTL DEF Spec
=============================================================================
