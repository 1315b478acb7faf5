-------------------------- MODULE HeartbeatsProofs --------------------------
(***************************************************************************)
(* Proofs about the heartbeats, for any number of components and sender    *)
(* threads, any intervals and any delays.                                  *)
(***************************************************************************)
EXTENDS Heartbeats, TLAPS

(***************************************************************************)
(* The invariants.                                                         *)
(***************************************************************************)

\* A product is published only while its heartbeat is started, the listening
\* node has sockets only for what it is subscribed to, and the subscription is
\* made before the command is sent.
Subscriptions ==
    /\ \A c \in Components : registered[c] # 0 => heartbeatStarted[c]
    /\ \A c \in Components : socket[c] # 0 => c \in subscribed
    /\ command.kind = "register" => command.id \in subscribed

TypeInv == TypeOK /\ Subscriptions

\* While no beat is noted for the only element of a component, none has been
\* noted since the element was put into the queue.
QuietSince ==
    \A e \in messageTimes : Single(e.id) /\ e.id \notin filledHeartbeats
        => quiet[e.id] + e.expectedTime >= e.interval

\* A beat that is noted has been noted since the last report, if there was one.
NotedSince ==
    \A e \in messageTimes :
        e.id \in filledHeartbeats /\ callback[e.id] # "none"
            => quiet[e.id] + e.expectedTime <= e.interval

\* steady counts only while the component is sending.
SteadyIsSending == \A c \in Components : steady[c] > 0 => Sending(c)

\* Looking back from now, as far as the component was sending and one of its
\* threads in its loop: a unit "age" ago, the last beat sent until then is
\* still under way, or one has been noted since.
BeatsCover ==
    \A c \in Components, t \in Threads : \A age \in 0..Long :
        /\ sender[c][t].pc = "loop"
        /\ Period[c] - sender[c][t].sleep <= age /\ age < steady[c]
        => \/ quiet[c] <= age
           \/ \E b \in inFlight[c] : age - Period[c] < b.age /\ b.age <= age

MissedInv == TypeInv /\ QuietSince
AliveInv == MissedInv /\ SteadyIsSending /\ BeatsCover

(***************************************************************************)
(* Type correctness.                                                       *)
(***************************************************************************)

ElementType ==
    [id : Components, element : Elements, interval : Nat, expectedTime : Int]

ThreadType ==
    [pc : {"none", "start", "loop"}, sleep : Nat, time : {0} \cup Times]

BeatType == [time : {0} \cup Times, age : 0..Delay]

LEMMA InitType == Init => TypeInv
<1> SUFFICES ASSUME Init PROVE TypeInv
  OBVIOUS
<1>1. /\ heartbeatStarted \in [Components -> BOOLEAN]
      /\ heartbeatRunning \in [Components -> BOOLEAN]
      /\ registered \in [Components -> {0} \cup Times]
      /\ socket \in [Components -> {0} \cup Times]
      /\ \A c \in Components : socket[c] = 0 /\ registered[c] = 0
  BY DEF Init
<1>2. /\ sender \in [Components -> [Threads -> ThreadType]]
      /\ \A c \in Components, t \in Threads : sender[c][t].sleep <= Period[c]
  BY HeartbeatAssumption DEF Init, NoThread, ThreadType
<1>3. /\ quiet \in [Components -> Nat] /\ steady \in [Components -> Nat]
      /\ \A c \in Components : quiet[c] <= Long /\ steady[c] <= Long
  BY HeartbeatAssumption DEF Init, Long
<1>4. /\ callback \in [Components -> {"none", "missed", "received"}]
      /\ inFlight \in [Components -> SUBSET BeatType]
      /\ \A c \in Components : inFlight[c] = {}
  BY DEF Init
<1>. QED
  BY <1>1, <1>2, <1>3, <1>4
  DEF Init, TypeInv, TypeOK, Subscriptions, NoCommand, ThreadType, BeatType

LEMMA LongType ==
    /\ Long = MaxWait + Lag + 1 /\ Long \in Nat
    /\ MaxWait \in Nat /\ Lag \in Nat /\ Delay \in Nat
    /\ \A c \in Components : \A interval \in Intervals[c] :
         interval \in Nat /\ interval > 0 /\ interval <= MaxWait
  BY HeartbeatAssumption DEF Long

\* The components in the queue are those that have a listener.
LEMMA ListenersServed ==
    ASSUME TypeInv
    PROVE  /\ \A e \in messageTimes : e.id \in listener
           /\ \A c \in listener : \E e \in messageTimes : e.id = c
  BY DEF TypeInv, TypeOK

\* What becomes of the threads when one of them changes.
LEMMA ThreadChanges ==
    ASSUME sender \in [Components -> [Threads -> ThreadType]],
           NEW c \in Components, NEW t \in Threads, NEW thread \in ThreadType,
           sender' = [sender EXCEPT ![c][t] = thread]
    PROVE  /\ sender' \in [Components -> [Threads -> ThreadType]]
           /\ sender'[c][t] = thread
           /\ \A d \in Components, u \in Threads :
                d # c \/ u # t => sender'[d][u] = sender[d][u]
  OBVIOUS

LEMMA StartHeartbeatType ==
    ASSUME TypeInv, NEW c \in Components, NEW t \in Threads,
           NEW time \in {0} \cup Times, StartHeartbeat(c, t, time)
    PROVE  TypeInv'
<1>1. /\ heartbeatStarted' \in [Components -> BOOLEAN]
      /\ registered' \in [Components -> {0} \cup Times]
      /\ listed' \subseteq {d \in Components : registered'[d] # 0}
      /\ \A d \in Components : registered'[d] # 0 => heartbeatStarted'[d]
  <2>1. ASSUME NEW d \in listed' PROVE d \in Components /\ registered'[d] # 0
    <3>1. CASE d = c
      <4>1. time # 0 \/ d \in listed
        BY <2>1, <3>1 DEF StartHeartbeat
      <4>2. c \notin listed
        BY DEF StartHeartbeat, TypeInv, TypeOK, Subscriptions
      <4>. QED
        BY <2>1, <3>1, <4>1, <4>2 DEF StartHeartbeat, TypeInv, TypeOK
    <3>2. CASE d # c
      BY <2>1, <3>2 DEF StartHeartbeat, TypeInv, TypeOK
    <3>. QED
      BY <3>1, <3>2
  <2>. QED
    BY <2>1 DEF TypeInv, TypeOK, Subscriptions, StartHeartbeat
<1>2. /\ sender' \in [Components -> [Threads -> ThreadType]]
      /\ \A d \in Components, u \in Threads : sender'[d][u].sleep <= Period[d]
  <2> DEFINE thread == [pc |-> "start", sleep |-> 0, time |-> time]
  <2>1. thread \in ThreadType /\ thread.sleep = 0
    BY DEF ThreadType
  <2>2. sender' = [sender EXCEPT ![c][t] = thread]
    BY DEF StartHeartbeat
  <2>3. sender \in [Components -> [Threads -> ThreadType]]
    BY DEF TypeInv, TypeOK, ThreadType
  <2> HIDE DEF thread
  <2>4. /\ sender' \in [Components -> [Threads -> ThreadType]]
        /\ sender'[c][t].sleep = 0
        /\ \A d \in Components, u \in Threads :
             d # c \/ u # t => sender'[d][u] = sender[d][u]
    BY <2>1, <2>2, <2>3, ThreadChanges
  <2>5. \A d \in Components, u \in Threads : sender[d][u].sleep <= Period[d]
    BY DEF TypeInv, TypeOK
  <2>6. 0 <= Period[c]
    BY HeartbeatAssumption
  <2>7. \A d \in Components, u \in Threads : sender'[d][u].sleep <= Period[d]
    BY <2>4, <2>5, <2>6
  <2>. QED
    BY <2>4, <2>7
<1>. QED
  BY <1>1, <1>2
  DEF TypeInv, TypeOK, ThreadType, Subscriptions, StartHeartbeat, listenerVars, Long

LEMMA StopHeartbeatType ==
    ASSUME TypeInv, NEW c \in Components, StopHeartbeat(c)
    PROVE  TypeInv'
<1>1. /\ registered' \in [Components -> {0} \cup Times]
      /\ listed' \subseteq {d \in Components : registered'[d] # 0}
      /\ \A d \in Components : registered'[d] # 0 => heartbeatStarted'[d]
  BY DEF TypeInv, TypeOK, Subscriptions, StopHeartbeat
<1>2. /\ steady' \in [Components -> Nat]
      /\ \A d \in Components : steady'[d] <= Long
  BY LongType DEF TypeInv, TypeOK, StopHeartbeat
<1>3. /\ heartbeatStarted' \in [Components -> BOOLEAN]
      /\ heartbeatRunning' \in [Components -> BOOLEAN]
  BY DEF TypeInv, TypeOK, StopHeartbeat
<1>. QED
  BY <1>1, <1>2, <1>3
  DEF TypeInv, TypeOK, Subscriptions, StopHeartbeat, listenerVars, Long

\* What a new thread changes when it begins.
LEMMA BeginChanges ==
    ASSUME TypeInv, NEW c \in Components, NEW t \in Threads, ThreadBegins(c, t)
    PROVE  /\ sender' \in [Components -> [Threads -> ThreadType]]
           /\ sender'[c][t].pc = "loop" /\ sender'[c][t].sleep = 0
           /\ sender'[c][t].time = sender[c][t].time
           /\ \A d \in Components, u \in Threads :
                d # c \/ u # t => sender'[d][u] = sender[d][u]
<1>1. sender \in [Components -> [Threads -> ThreadType]]
  BY DEF TypeInv, TypeOK, ThreadType
<1> DEFINE thread == [pc |-> "loop", sleep |-> 0, time |-> sender[c][t].time]
<1>2. thread \in ThreadType
  BY <1>1 DEF ThreadType
<1>3. sender' = [sender EXCEPT ![c][t] = thread]
  BY DEF ThreadBegins
<1> HIDE DEF thread
<1>4. /\ sender' \in [Components -> [Threads -> ThreadType]]
      /\ sender'[c][t] = thread
      /\ \A d \in Components, u \in Threads :
           d # c \/ u # t => sender'[d][u] = sender[d][u]
  BY <1>1, <1>2, <1>3, ThreadChanges
<1>. QED
  BY <1>4 DEF thread

LEMMA ThreadBeginsType ==
    ASSUME TypeInv, NEW c \in Components, NEW t \in Threads, ThreadBegins(c, t)
    PROVE  TypeInv'
<1>1. heartbeatRunning' \in [Components -> BOOLEAN]
  BY DEF TypeInv, TypeOK, ThreadBegins
<1>2. /\ sender' \in [Components -> [Threads -> ThreadType]]
      /\ \A d \in Components, u \in Threads : sender'[d][u].sleep <= Period[d]
  <2>1. \A d \in Components, u \in Threads : sender[d][u].sleep <= Period[d]
    BY DEF TypeInv, TypeOK
  <2>2. /\ sender' \in [Components -> [Threads -> ThreadType]]
        /\ sender'[c][t].sleep = 0
        /\ \A d \in Components, u \in Threads :
             d # c \/ u # t => sender'[d][u] = sender[d][u]
    BY BeginChanges
  <2>3. \A d \in Components, u \in Threads : sender'[d][u].sleep <= Period[d]
    <3>1. 0 <= Period[c]
      BY HeartbeatAssumption
    <3>. QED
      BY <2>1, <2>2, <3>1
  <2>. QED
    BY <2>2, <2>3
<1>. QED
  BY <1>1, <1>2
  DEF TypeInv, TypeOK, ThreadType, Subscriptions, ThreadBegins, listenerVars, Long,
      linkVars

\* The two ways a round of a sender's loop can go.
LEMMA BeatChanges ==
    ASSUME TypeInv, NEW c \in Components, NEW t \in Threads, Beat(c, t)
    PROVE  \/ /\ heartbeatRunning[c]
              /\ sender' = [sender EXCEPT ![c][t] =
                   [pc |-> "loop", sleep |-> Period[c], time |-> sender[c][t].time]]
              /\ \E arrives \in Arrives(c) :
                   inFlight' = [inFlight EXCEPT ![c] = IF arrives
                      THEN @ \cup {[time |-> sender[c][t].time, age |-> 0]} ELSE @]
           \/ /\ ~heartbeatRunning[c]
              /\ sender' = [sender EXCEPT ![c][t] = NoThread]
              /\ inFlight' = inFlight
<1>1. CASE heartbeatRunning[c] /\ \E arrives \in Arrives(c) : Send(c, t, arrives)
  <2>1. sender[c][t] \in ThreadType /\ sender[c][t].pc = "loop"
    BY DEF Beat, TypeInv, TypeOK, ThreadType
  <2>2. [sender[c][t] EXCEPT !.sleep = Period[c]] =
           [pc |-> "loop", sleep |-> Period[c], time |-> sender[c][t].time]
    BY <2>1 DEF ThreadType
  <2>. QED
    BY <1>1, <2>2 DEF Send, TypeInv, TypeOK
<1>2. CASE ~heartbeatRunning[c] /\ ThreadEnds(c, t)
  BY <1>2 DEF ThreadEnds
<1>. QED
  BY <1>1, <1>2 DEF Beat

LEMMA BeatStepType ==
    ASSUME TypeInv, NEW c \in Components, NEW t \in Threads, Beat(c, t)
    PROVE  TypeInv'
<1>1. /\ sender' \in [Components -> [Threads -> ThreadType]]
      /\ \A d \in Components, u \in Threads : sender'[d][u].sleep <= Period[d]
  <2> DEFINE next == [pc |-> "loop", sleep |-> Period[c], time |-> sender[c][t].time]
  <2>1. sender \in [Components -> [Threads -> ThreadType]]
    BY DEF TypeInv, TypeOK, ThreadType
  <2>2. /\ NoThread \in ThreadType /\ NoThread.sleep <= Period[c]
        /\ next \in ThreadType /\ next.sleep <= Period[c]
    BY <2>1, HeartbeatAssumption DEF ThreadType, NoThread
  <2>3. PICK thread \in {NoThread, next} : sender' = [sender EXCEPT ![c][t] = thread]
    BY BeatChanges
  <2> HIDE DEF next
  <2>4. /\ sender' \in [Components -> [Threads -> ThreadType]]
        /\ sender'[c][t] = thread
        /\ \A d \in Components, u \in Threads :
             d # c \/ u # t => sender'[d][u] = sender[d][u]
    BY <2>1, <2>2, <2>3, ThreadChanges
  <2>5. \A d \in Components, u \in Threads : sender[d][u].sleep <= Period[d]
    BY DEF TypeInv, TypeOK
  <2>6. thread.sleep <= Period[c]
    BY <2>2, <2>3
  <2>7. \A d \in Components, u \in Threads : sender'[d][u].sleep <= Period[d]
    BY <2>4, <2>5, <2>6
  <2>. QED
    BY <2>4, <2>7
<1>2. /\ inFlight' \in [Components -> SUBSET BeatType]
      /\ \A d \in Components : socket[d] = 0 => inFlight'[d] = {}
  <2> DEFINE beat == [time |-> sender[c][t].time, age |-> 0]
  <2>1. inFlight' = inFlight \/ /\ socket[c] # 0
                                /\ inFlight' = [inFlight EXCEPT ![c] = @ \cup {beat}]
    <3>0. inFlight = [inFlight EXCEPT ![c] = @]
      BY DEF TypeInv, TypeOK
    <3>1. CASE inFlight' = inFlight
      BY <3>1
    <3>2. ASSUME NEW arrives \in Arrives(c),
                 inFlight' = [inFlight EXCEPT ![c] = IF arrives THEN @ \cup {beat} ELSE @]
          PROVE  \/ inFlight' = inFlight
                 \/ /\ socket[c] # 0
                    /\ inFlight' = [inFlight EXCEPT ![c] = @ \cup {beat}]
      BY <3>0, <3>2 DEF Arrives
    <3>. QED
      BY <3>1, <3>2, BeatChanges
  <2>2. inFlight \in [Components -> SUBSET BeatType]
        /\ \A d \in Components : socket[d] = 0 => inFlight[d] = {}
    BY DEF TypeInv, TypeOK, BeatType
  <2>3. sender[c][t] \in ThreadType /\ 0 \in 0..Delay
    BY HeartbeatAssumption DEF TypeInv, TypeOK, ThreadType
  <2>4. beat \in BeatType
    BY <2>3 DEF ThreadType, BeatType
  <2>. QED
    <3> HIDE DEF beat
    <3>. QED
      BY <2>1, <2>2, <2>4
<1>. QED
  BY <1>1, <1>2
  DEF TypeInv, TypeOK, ThreadType, BeatType, Subscriptions, Beat, listenerVars, Long

LEMMA FollowDirectoryType ==
    ASSUME TypeInv, NEW c \in Components, FollowDirectory(c)
    PROVE  TypeInv'
<1>1. /\ socket' \in [Components -> {0} \cup Times]
      /\ \A d \in Components : socket'[d] # 0 => d \in subscribed
  <2>1. Listing(c) \in {0} \cup Times
    BY DEF Listing, TypeInv, TypeOK
  <2>. QED
    BY <2>1 DEF FollowDirectory, TypeInv, TypeOK, Subscriptions
<1>2. /\ inFlight' \in [Components -> SUBSET BeatType]
      /\ \A d \in Components : socket'[d] = 0 => inFlight'[d] = {}
  BY DEF FollowDirectory, TypeInv, TypeOK, BeatType
<1>3. /\ steady' \in [Components -> Nat]
      /\ \A d \in Components : steady'[d] <= Long
  BY LongType DEF TypeInv, TypeOK, FollowDirectory
<1>. QED
  BY <1>1, <1>2, <1>3
  DEF TypeInv, TypeOK, BeatType, Subscriptions, FollowDirectory, senderVars,
      listenerVars, Long

LEMMA RejectBeatType ==
    ASSUME TypeInv, NEW c \in Components, NEW beat \in inFlight[c],
           RejectBeat(c, beat)
    PROVE  TypeInv'
<1>1. /\ socket' \in [Components -> {0} \cup Times]
      /\ \A d \in Components : socket'[d] # 0 => d \in subscribed
  BY DEF RejectBeat, TypeInv, TypeOK, Subscriptions
<1>2. /\ inFlight' \in [Components -> SUBSET BeatType]
      /\ \A d \in Components : socket'[d] = 0 => inFlight'[d] = {}
  BY DEF RejectBeat, TypeInv, TypeOK, BeatType
<1>3. /\ steady' \in [Components -> Nat]
      /\ \A d \in Components : steady'[d] <= Long
  BY LongType DEF TypeInv, TypeOK, RejectBeat
<1>4. listed' \subseteq {d \in Components : registered'[d] # 0}
  BY DEF TypeInv, TypeOK, RejectBeat, senderVars
<1>. QED
  BY <1>1, <1>2, <1>3, <1>4
  DEF TypeInv, TypeOK, BeatType, Subscriptions, RejectBeat, senderVars,
      listenerVars, Long

LEMMA SubscriptionFilledType ==
    ASSUME TypeInv, NEW c \in Components, NEW beat \in inFlight[c],
           SubscriptionFilled(c, beat)
    PROVE  TypeInv'
<1>1. c \in subscribed
  BY DEF TypeInv, TypeOK, Subscriptions
<1>2. /\ inFlight' \in [Components -> SUBSET BeatType]
      /\ \A d \in Components : socket'[d] = 0 => inFlight'[d] = {}
  BY DEF SubscriptionFilled, TypeInv, TypeOK, BeatType
<1>3. /\ quiet' \in [Components -> Nat]
      /\ \A d \in Components : quiet'[d] <= Long
  BY LongType DEF TypeInv, TypeOK, SubscriptionFilled
<1>. QED
  BY <1>1, <1>2, <1>3
  DEF TypeInv, TypeOK, BeatType, Subscriptions, SubscriptionFilled, senderVars, Long

LEMMA RegisterType ==
    ASSUME TypeInv, NEW c \in Components, RegisterHeartbeatListener(c)
    PROVE  TypeInv'
  BY DEF TypeInv, TypeOK, Subscriptions, RegisterHeartbeatListener, senderVars,
      listenerVars, linkVars, Long

LEMMA UnregisterType ==
    ASSUME TypeInv, NEW c \in Components, UnregisterHeartbeatListener(c)
    PROVE  TypeInv'
  BY DEF TypeInv, TypeOK, Subscriptions, UnregisterHeartbeatListener, senderVars,
      listenerVars, linkVars, Long

LEMMA HandleRegisterType ==
    ASSUME TypeInv, NEW element \in Elements, NEW interval \in 1..MaxWait,
           HandleRegister(element, interval)
    PROVE  TypeInv'
<1>1. command.id \in Components /\ command.id \in subscribed
  BY DEF TypeInv, TypeOK, Subscriptions, HandleRegister, NoCommand
<1>2. /\ messageTimes' \subseteq ElementType
      /\ \A e \in messageTimes' : /\ e.interval \in Intervals[e.id]
                                  /\ e.expectedTime \in -Lag..e.interval
  <2> DEFINE g == Expected(command.id, element, interval, interval)
  <2>1. messageTimes' = messageTimes \cup {g} /\ interval \in Intervals[command.id]
    BY DEF HandleRegister
  <2>2. /\ g \in ElementType /\ g.interval \in Intervals[g.id]
        /\ g.expectedTime \in -Lag..g.interval
    BY <1>1, <2>1, LongType DEF Expected, ElementType
  <2> HIDE DEF g
  <2>. QED
    BY <2>1, <2>2 DEF TypeInv, TypeOK, ElementType
<1>3. {e.id : e \in messageTimes'} = listener'
  <2>1. PICK e : e.id = command.id /\ messageTimes' = messageTimes \cup {e}
    BY DEF HandleRegister, Expected
  <2>2. listener' = listener \cup {command.id}
    BY DEF HandleRegister
  <2>. QED
    BY <2>1, <2>2, ListenersServed
<1>4. callback' \in [Components -> {"none", "missed", "received"}]
  BY DEF TypeInv, TypeOK, HandleRegister
<1>. QED
  BY <1>1, <1>2, <1>3, <1>4
  DEF TypeInv, TypeOK, ElementType, Subscriptions, HandleRegister, NoCommand,
      senderVars, linkVars, Long

LEMMA HandleUnregisterType ==
    ASSUME TypeInv, HandleUnregister
    PROVE  TypeInv'
  BY DEF TypeInv, TypeOK, Subscriptions, HandleUnregister, NoCommand, senderVars,
      linkVars, Long

LEMMA ExpireType ==
    ASSUME TypeInv, NEW e \in messageTimes, NEW interval \in Intervals[e.id],
           Expire(e, interval)
    PROVE  TypeInv'
<1>1. /\ messageTimes' \subseteq ElementType
      /\ \A f \in messageTimes' : /\ f.interval \in Intervals[f.id]
                                  /\ f.expectedTime \in -Lag..f.interval
  <2> DEFINE g == Expected(e.id, e.element, interval, interval)
  <2>1. messageTimes' = (messageTimes \ {e}) \cup {g} /\ e \in ElementType
    BY DEF Expire, Report, TypeInv, TypeOK, ElementType
  <2>2. /\ g \in ElementType /\ g.interval \in Intervals[g.id]
        /\ g.expectedTime \in -Lag..g.interval
    BY <2>1, LongType DEF Expected, ElementType
  <2> HIDE DEF g
  <2>. QED
    BY <2>1, <2>2 DEF TypeInv, TypeOK, ElementType
<1>2. {f.id : f \in messageTimes'} = listener'
  <2>1. PICK f : f.id = e.id /\ messageTimes' = (messageTimes \ {e}) \cup {f}
    BY DEF Expire, Report, Expected
  <2>2. listener' = listener
    BY DEF Expire, Report
  <2>. QED
    BY <2>1, <2>2, ListenersServed
<1>3. callback' \in [Components -> {"none", "missed", "received"}]
  BY DEF TypeInv, TypeOK, Expire, Report
<1>. QED
  BY <1>1, <1>2, <1>3
  DEF TypeInv, TypeOK, ElementType, Subscriptions, Expire, Report, senderVars,
      linkVars, Long

LEMMA TickType ==
    ASSUME TypeInv, Tick
    PROVE  TypeInv'
<1>1. /\ sender' \in [Components -> [Threads -> ThreadType]]
      /\ \A d \in Components, u \in Threads : sender'[d][u].sleep <= Period[d]
  <2>1. ASSUME NEW d \in Components, NEW u \in Threads
        PROVE  sender'[d][u] \in ThreadType /\ sender'[d][u].sleep <= Period[d]
    <3>1. sender[d][u] \in ThreadType /\ sender[d][u].sleep <= Period[d]
          /\ Period[d] \in Nat
      BY HeartbeatAssumption DEF TypeInv, TypeOK, ThreadType
    <3>2. CASE sender[d][u].pc = "loop"
      <4>1. sender'[d][u] = [sender[d][u] EXCEPT !.sleep = @ - 1]
            /\ sender[d][u].sleep > 0
        BY <3>2 DEF Tick
      <4>. QED
        BY <4>1, <3>1 DEF ThreadType
    <3>3. CASE sender[d][u].pc # "loop"
      BY <3>1, <3>3 DEF Tick
    <3>. QED
      BY <3>2, <3>3
  <2>. QED
    BY <2>1 DEF Tick
<1>2. /\ inFlight' \in [Components -> SUBSET BeatType]
      /\ \A d \in Components : socket'[d] = 0 => inFlight'[d] = {}
  <2>1. ASSUME NEW d \in Components
        PROVE  /\ inFlight'[d] \subseteq BeatType
               /\ socket'[d] = 0 => inFlight'[d] = {}
    <3>1. /\ inFlight'[d] = {[beat EXCEPT !.age = @ + 1] : beat \in inFlight[d]}
          /\ socket'[d] = socket[d]
          /\ socket[d] = 0 => inFlight[d] = {}
      BY DEF Tick, TypeInv, TypeOK
    <3>2. ASSUME NEW beat \in inFlight[d]
          PROVE  [beat EXCEPT !.age = @ + 1] \in BeatType
      <4>1. beat \in BeatType /\ beat.age < Delay
        BY DEF Tick, TypeInv, TypeOK, BeatType
      <4>. QED
        BY <4>1, LongType DEF BeatType
    <3>. QED
      BY <3>1, <3>2
  <2>. QED
    BY <2>1 DEF Tick
<1>3. /\ messageTimes' \subseteq ElementType
      /\ \A e \in messageTimes' : /\ e.interval \in Intervals[e.id]
                                  /\ e.expectedTime \in -Lag..e.interval
      /\ {e.id : e \in messageTimes'} = listener'
  <2>1. messageTimes' = {[e EXCEPT !.expectedTime = @ - 1] : e \in messageTimes}
    BY DEF Tick
  <2>2. ASSUME NEW e \in messageTimes
        PROVE  LET f == [e EXCEPT !.expectedTime = @ - 1]
               IN  /\ f \in ElementType /\ f.id = e.id
                   /\ f.interval \in Intervals[f.id]
                   /\ f.expectedTime \in -Lag..f.interval
    <3>1. /\ e \in ElementType /\ e.interval \in Intervals[e.id]
          /\ e.expectedTime \in -Lag..e.interval /\ e.expectedTime > -Lag
      BY DEF TypeInv, TypeOK, Tick, ElementType
    <3>2. Lag \in Nat
      BY LongType
    <3>. QED
      BY <3>1, <3>2 DEF ElementType
  <2>3. listener' = listener
    BY DEF Tick
  <2>4. \A f \in messageTimes' : \E e \in messageTimes :
          f = [e EXCEPT !.expectedTime = @ - 1]
    BY <2>1
  <2>5. \A e \in messageTimes : \E f \in messageTimes' : f.id = e.id
    BY <2>1, <2>2
  <2>6. \A f \in messageTimes' :
          /\ f \in ElementType /\ f.interval \in Intervals[f.id]
          /\ f.expectedTime \in -Lag..f.interval /\ f.id \in listener
    <3> TAKE f \in messageTimes'
    <3>1. PICK e \in messageTimes : f = [e EXCEPT !.expectedTime = @ - 1]
      BY <2>4
    <3>. QED
      BY <2>2, <3>1, ListenersServed
  <2>. QED
    BY <2>3, <2>5, <2>6, ListenersServed
<1>4. /\ quiet' \in [Components -> Nat] /\ steady' \in [Components -> Nat]
      /\ \A c \in Components : quiet'[c] <= Long /\ steady'[c] <= Long
  <2>1. ASSUME NEW c \in Components
        PROVE  /\ quiet'[c] \in Nat /\ quiet'[c] <= Long
               /\ steady'[c] \in Nat /\ steady'[c] <= Long
    <3>1. quiet[c] + 1 \in Nat /\ steady[c] + 1 \in Nat /\ Long \in Nat
      BY LongType DEF TypeInv, TypeOK
    <3>2. quiet'[c] = UpTo(quiet[c] + 1)
      BY DEF Tick
    <3>3. steady'[c] = IF Sending(c) THEN UpTo(steady[c] + 1) ELSE 0
      BY DEF Tick
    <3>. QED
      BY <3>1, <3>2, <3>3 DEF UpTo
  <2>. QED
    BY <2>1 DEF Tick
<1>. QED
  BY <1>1, <1>2, <1>3, <1>4
  DEF TypeInv, TypeOK, ThreadType, BeatType, ElementType, Subscriptions, Tick, Long

LEMMA NextType == TypeInv /\ [Next]_vars => TypeInv'
<1> SUFFICES ASSUME TypeInv, [Next]_vars PROVE TypeInv'
  OBVIOUS
<1>1. CASE UNCHANGED vars
  BY <1>1 DEF vars, senderVars, linkVars, listenerVars, TypeInv, TypeOK,
              Subscriptions, Long
<1>. QED
  BY <1>1, StartHeartbeatType, StopHeartbeatType, ThreadBeginsType, BeatStepType,
     FollowDirectoryType, SubscriptionFilledType, RejectBeatType, RegisterType, UnregisterType, HandleRegisterType,
     HandleUnregisterType, ExpireType, TickType
  DEF Next

\* Every variable has its type, and the queue of expected times has elements
\* for exactly the components that have a listener.
THEOREM TypeCorrect == Spec => []TypeOK
<1>1. TypeInv => TypeOK
  BY DEF TypeInv
<1>. QED
  BY <1>1, InitType, NextType, PTL DEF Spec

(***************************************************************************)
(* Nobody is reported missed who was heard of.                             *)
(***************************************************************************)

\* The steps that concern the listener thread, and what the others leave alone.
LEMMA ListenerSteps ==
    ASSUME [Next]_vars
    PROVE  \/ UNCHANGED <<listener, messageTimes, filledHeartbeats, callback, quiet>>
           \/ \E c \in Components : \E beat \in inFlight[c] : SubscriptionFilled(c, beat)
           \/ \E element \in Elements, interval \in 1..MaxWait :
                HandleRegister(element, interval)
           \/ HandleUnregister
           \/ \E e \in messageTimes : \E interval \in Intervals[e.id] :
                Expire(e, interval)
           \/ Tick
  BY DEF Next, vars, listenerVars, StartHeartbeat, StopHeartbeat, ThreadBegins,
         Beat, FollowDirectory, RejectBeat, RegisterHeartbeatListener,
         UnregisterHeartbeatListener

\* The elements of the queue after a step of the clock.
LEMMA TickElements ==
    ASSUME TypeInv, Tick, NEW f \in messageTimes'
    PROVE  \E e \in messageTimes :
              /\ f = [e EXCEPT !.expectedTime = @ - 1]
              /\ f.id = e.id /\ f.expectedTime = e.expectedTime - 1
              /\ f.interval = e.interval /\ e.id \in Components
              /\ e.interval \in Intervals[e.id] /\ e.interval \in Nat
              /\ e.interval <= MaxWait
              /\ e.expectedTime \in -Lag..e.interval /\ e.expectedTime > -Lag
<1>1. PICK e \in messageTimes : f = [e EXCEPT !.expectedTime = @ - 1]
  BY DEF Tick
<1>2. e \in ElementType /\ e.expectedTime \in -Lag..e.interval
      /\ e.expectedTime > -Lag /\ e.interval \in Intervals[e.id]
  BY DEF TypeInv, TypeOK, ElementType, Tick
<1>3. f.id = e.id /\ f.expectedTime = e.expectedTime - 1 /\ f.interval = e.interval
  BY <1>1, <1>2 DEF ElementType
<1>4. e.id \in Components /\ e.interval \in Nat /\ e.interval <= MaxWait
  BY <1>2, LongType DEF ElementType
<1>. QED
  BY <1>1, <1>2, <1>3, <1>4

\* The clock keeps elements apart.
LEMMA TickSingle ==
    ASSUME TypeInv, Tick, NEW c, Single(c)'
    PROVE  Single(c)
<1> SUFFICES ASSUME NEW e \in messageTimes, NEW f \in messageTimes,
                    e.id = c, f.id = c
             PROVE  e = f
  BY DEF Single
<1> DEFINE e1 == [e EXCEPT !.expectedTime = @ - 1]
           f1 == [f EXCEPT !.expectedTime = @ - 1]
<1>1. e1 \in messageTimes' /\ f1 \in messageTimes'
  BY DEF Tick
<1>2. e \in ElementType /\ f \in ElementType
  BY DEF TypeInv, TypeOK, ElementType
<1>3. /\ e1.id = e.id /\ e1.element = e.element /\ e1.interval = e.interval
      /\ e1.expectedTime = e.expectedTime - 1
      /\ f1.id = f.id /\ f1.element = f.element /\ f1.interval = f.interval
      /\ f1.expectedTime = f.expectedTime - 1
  BY <1>2 DEF ElementType
<1> HIDE DEF e1, f1
<1>4. e1 = f1
  BY <1>1, <1>3 DEF Single
<1>5. /\ e.id = f.id /\ e.element = f.element /\ e.interval = f.interval
      /\ e.expectedTime = f.expectedTime
  BY <1>2, <1>3, <1>4 DEF ElementType
<1>. QED
  BY <1>2, <1>5 DEF ElementType

\* The time since a beat was noted after a step of the clock.
LEMMA TickQuiet ==
    ASSUME TypeInv, Tick, NEW c \in Components
    PROVE  /\ quiet[c] \in Nat /\ quiet[c] <= Long
           /\ quiet'[c] = IF quiet[c] < Long THEN quiet[c] + 1 ELSE Long
<1>1. quiet'[c] = UpTo(quiet[c] + 1)
  BY DEF Tick
<1>2. quiet[c] \in Nat /\ quiet[c] <= Long /\ Long \in Nat
  BY LongType DEF TypeInv, TypeOK
<1>. QED
  BY <1>1, <1>2 DEF UpTo

LEMMA QuietSinceStep ==
    ASSUME TypeInv, QuietSince, [Next]_vars
    PROVE  QuietSince'
<1> SUFFICES ASSUME NEW f \in messageTimes', Single(f.id)', f.id \notin filledHeartbeats'
             PROVE  quiet'[f.id] + f.expectedTime >= f.interval
  BY DEF QuietSince
<1>0. \A e \in messageTimes : e.id \in Components
  BY DEF TypeInv, TypeOK
<1>1. CASE UNCHANGED <<listener, messageTimes, filledHeartbeats, callback, quiet>>
  BY <1>1 DEF QuietSince, Single
<1>2. CASE \E c \in Components : \E beat \in inFlight[c] : SubscriptionFilled(c, beat)
  <2>1. PICK c \in Components : /\ messageTimes' = messageTimes
                                /\ filledHeartbeats' = filledHeartbeats \cup {c}
                                /\ quiet' = [quiet EXCEPT ![c] = 0]
    BY <1>2 DEF SubscriptionFilled
  <2>2. f.id # c /\ quiet'[f.id] = quiet[f.id]
    BY <1>0, <2>1 DEF TypeInv, TypeOK
  <2>3. Single(f.id)
    BY <2>1 DEF Single
  <2>. QED
    BY <2>1, <2>2, <2>3 DEF QuietSince
<1>3. CASE \E element \in Elements, interval \in 1..MaxWait :
             HandleRegister(element, interval)
  <2>1. PICK element \in Elements, interval \in 1..MaxWait :
          HandleRegister(element, interval)
    BY <1>3
  <2>2. command.id \in Components
    BY <2>1 DEF HandleRegister, TypeInv, TypeOK, NoCommand
  <2> DEFINE g == Expected(command.id, element, interval, interval)
  <2>3. /\ messageTimes' = messageTimes \cup {g}
        /\ g.id = command.id /\ g.expectedTime = interval /\ g.interval = interval
    BY <2>1 DEF HandleRegister, Expected
  <2>4. quiet' = quiet /\ filledHeartbeats' = filledHeartbeats
    BY <2>1 DEF HandleRegister
  <2>5. quiet[command.id] + interval >= interval
    BY <2>2, LongType DEF TypeInv, TypeOK
  <2> HIDE DEF g
  <2>6. CASE f.id = command.id
    <3>1. f = g
      BY <2>3, <2>6 DEF Single
    <3>. QED
      BY <2>3, <2>4, <2>5, <3>1
  <2>7. CASE f.id # command.id
    <3>1. f \in messageTimes /\ Single(f.id)
      BY <2>3, <2>7 DEF Single
    <3>. QED
      BY <2>4, <3>1 DEF QuietSince
  <2>. QED
    BY <2>6, <2>7
<1>4. CASE HandleUnregister
  <2>1. /\ f \in messageTimes /\ f.id # command.id
        /\ quiet' = quiet /\ filledHeartbeats' = filledHeartbeats
        /\ \A e \in messageTimes : e.id # command.id => e \in messageTimes'
    BY <1>4 DEF HandleUnregister
  <2>2. Single(f.id)
    BY <2>1 DEF Single
  <2>. QED
    BY <2>1, <2>2 DEF QuietSince
<1>5. CASE \E e \in messageTimes : \E interval \in Intervals[e.id] :
             Expire(e, interval)
  <2>1. PICK e \in messageTimes : \E interval \in Intervals[e.id] : Expire(e, interval)
    BY <1>5
  <2>2. PICK interval \in Intervals[e.id] : Expire(e, interval)
    BY <2>1
  <2> DEFINE g == Expected(e.id, e.element, interval, interval)
  <2>3. /\ messageTimes' = (messageTimes \ {e}) \cup {g}
        /\ g.id = e.id /\ g.expectedTime = interval /\ g.interval = interval
    BY <2>2 DEF Expire, Report, Expected
  <2>4. quiet' = quiet /\ filledHeartbeats' = filledHeartbeats \ {e.id}
    BY <2>2 DEF Expire, Report
  <2>5. quiet[e.id] + interval >= interval
    BY <1>0, LongType DEF TypeInv, TypeOK
  <2> HIDE DEF g
  <2>6. CASE f.id = e.id
    <3>1. f = g
      BY <2>3, <2>6 DEF Single
    <3>. QED
      BY <2>3, <2>4, <2>5, <3>1
  <2>7. CASE f.id # e.id
    <3>1. f \in messageTimes /\ Single(f.id)
      BY <2>3, <2>7 DEF Single
    <3>. QED
      BY <2>4, <2>7, <3>1 DEF QuietSince
  <2>. QED
    BY <2>6, <2>7
<1>6. CASE Tick
  <2>1. PICK e \in messageTimes :
           /\ f.id = e.id /\ f.expectedTime = e.expectedTime - 1
           /\ f.interval = e.interval /\ e.id \in Components
           /\ e.interval \in Nat /\ e.interval <= MaxWait
           /\ e.expectedTime \in -Lag..e.interval /\ e.expectedTime > -Lag
    BY <1>6, TickElements
  <2>2. Single(e.id) /\ e.id \notin filledHeartbeats
    BY <1>6, <2>1, TickSingle DEF Tick
  <2>3. quiet[e.id] + e.expectedTime >= e.interval
    BY <2>2 DEF QuietSince
  <2>4. /\ quiet[e.id] \in Nat /\ quiet[e.id] <= Long
        /\ quiet'[e.id] = IF quiet[e.id] < Long THEN quiet[e.id] + 1 ELSE Long
    BY <1>6, <2>1, TickQuiet
  <2>5. Long = MaxWait + Lag + 1 /\ MaxWait \in Nat /\ Lag \in Nat
    BY LongType
  <2>. QED
    BY <2>1, <2>3, <2>4, <2>5
<1>. QED
  BY <1>1, <1>2, <1>3, <1>4, <1>5, <1>6, ListenerSteps

LEMMA MissedInvHolds == Spec => []MissedInv
<1>1. Init => MissedInv
  BY InitType DEF MissedInv, Init, QuietSince
<1>2. MissedInv /\ [Next]_vars => MissedInv'
  BY NextType, QuietSinceStep DEF MissedInv
<1>. QED
  BY <1>1, <1>2, PTL DEF Spec

\* A call of a listener is about an element whose time has come, and says
\* whether a beat was noted.
LEMMA CalledMeans ==
    ASSUME TypeInv, NEW c \in Components, NEW interval, NEW kind,
           Called(kind, c, interval)
    PROVE  \E e \in messageTimes :
              /\ e.id = c /\ e.interval = interval /\ interval \in Nat
              /\ interval <= MaxWait
              /\ e.expectedTime <= 0 /\ e.expectedTime \in Int
              /\ e.expectedTime >= -Lag
              /\ kind = IF c \in filledHeartbeats THEN "received" ELSE "missed"
<1>1. PICK e \in messageTimes :
         /\ e.id = c /\ e.interval = interval /\ e.expectedTime <= 0
         /\ \E next \in Intervals[c] : Expire(e, next)
  BY DEF Called
<1>2. callback'[c] = IF c \in filledHeartbeats THEN "received" ELSE "missed"
  BY <1>1, ListenersServed DEF Expire, Report, TypeInv, TypeOK
<1>3. /\ e.expectedTime \in -Lag..interval /\ Lag \in Nat
      /\ interval \in Nat /\ interval <= MaxWait
  BY <1>1, LongType DEF TypeInv, TypeOK
<1>. QED
  BY <1>1, <1>2, <1>3 DEF Called

\* A component whose listener is registered once is reported missed only when
\* none of its beats was noted for the whole time its listener asked for last,
\* whatever listeners are registered more than once.
THEOREM MissedIsSilentHolds == Spec => MissedIsSilent
<1>1. MissedInv =>
        \A c \in Components : \A interval \in Intervals[c] :
          Called("missed", c, interval) /\ Single(c) => quiet[c] >= interval
  <2> SUFFICES ASSUME MissedInv, NEW c \in Components, NEW interval \in Intervals[c],
                      Called("missed", c, interval), Single(c)
               PROVE  quiet[c] >= interval
    OBVIOUS
  <2>1. PICK e \in messageTimes :
           /\ e.id = c /\ e.interval = interval /\ interval \in Nat
           /\ e.expectedTime <= 0 /\ e.expectedTime \in Int
           /\ c \notin filledHeartbeats
    BY CalledMeans DEF MissedInv
  <2>2. quiet[c] + e.expectedTime >= interval
    BY <2>1 DEF MissedInv, QuietSince
  <2>3. quiet[c] \in Nat
    BY DEF MissedInv, TypeInv, TypeOK
  <2>. QED
    BY <2>1, <2>2, <2>3
<1>. QED
  BY <1>1, MissedInvHolds, PTL DEF MissedIsSilent

(***************************************************************************)
(* Nobody is reported alive on the strength of an old beat.                *)
(***************************************************************************)

LEMMA NotedSinceStep ==
    ASSUME TypeInv, NotedSince, [Next]_vars
    PROVE  NotedSince'
<1> SUFFICES ASSUME NEW f \in messageTimes', f.id \in filledHeartbeats',
                    callback'[f.id] # "none"
             PROVE  quiet'[f.id] + f.expectedTime <= f.interval
  BY DEF NotedSince
<1>0. \A e \in messageTimes : /\ e.id \in Components /\ e.expectedTime \in Int
                              /\ e.interval \in Nat /\ e.expectedTime <= e.interval
  BY LongType DEF TypeInv, TypeOK
<1>1. CASE UNCHANGED <<listener, messageTimes, filledHeartbeats, callback, quiet>>
  BY <1>1 DEF NotedSince
<1>2. CASE \E c \in Components : \E beat \in inFlight[c] : SubscriptionFilled(c, beat)
  <2>1. PICK c \in Components : /\ messageTimes' = messageTimes
                                /\ callback' = callback
                                /\ filledHeartbeats' = filledHeartbeats \cup {c}
                                /\ quiet' = [quiet EXCEPT ![c] = 0]
    BY <1>2 DEF SubscriptionFilled
  <2>2. CASE f.id = c
    <3>1. quiet'[f.id] = 0 /\ f.expectedTime \in Int /\ f.expectedTime <= f.interval
          /\ f.interval \in Nat
      BY <1>0, <2>1, <2>2 DEF TypeInv, TypeOK
    <3>. QED
      BY <3>1
  <2>3. CASE f.id # c
    <3>1. quiet'[f.id] = quiet[f.id]
      BY <1>0, <2>1, <2>3 DEF TypeInv, TypeOK
    <3>. QED
      BY <2>1, <2>3, <3>1 DEF NotedSince
  <2>. QED
    BY <2>2, <2>3
<1>3. CASE \E element \in Elements, interval \in 1..MaxWait :
             HandleRegister(element, interval)
  <2>1. PICK element \in Elements, interval \in 1..MaxWait :
          HandleRegister(element, interval)
    BY <1>3
  <2> DEFINE g == Expected(command.id, element, interval, interval)
  <2>2. /\ messageTimes' = messageTimes \cup {g} /\ g.id = command.id
        /\ quiet' = quiet /\ filledHeartbeats' = filledHeartbeats
    BY <2>1 DEF HandleRegister, Expected
  <2>3. command.id \in Components
    BY <2>1 DEF HandleRegister, TypeInv, TypeOK, NoCommand
  <2>4. /\ callback'[command.id] = "none"
        /\ \A c \in Components \ {command.id} : callback'[c] = callback[c]
    BY <2>1, <2>3 DEF HandleRegister, TypeInv, TypeOK
  <2> HIDE DEF g
  <2>5. f.id # command.id /\ f \in messageTimes /\ f.id \in Components
    BY <1>0, <2>2, <2>4
  <2>. QED
    BY <2>2, <2>4, <2>5 DEF NotedSince
<1>4. CASE HandleUnregister
  BY <1>4 DEF NotedSince, HandleUnregister
<1>5. CASE \E e \in messageTimes : \E interval \in Intervals[e.id] :
             Expire(e, interval)
  <2>0. PICK e \in messageTimes : \E interval \in Intervals[e.id] : Expire(e, interval)
    BY <1>5
  <2>1. PICK interval \in Intervals[e.id] : Expire(e, interval)
    BY <2>0
  <2> DEFINE g == Expected(e.id, e.element, interval, interval)
  <2>2. /\ messageTimes' = (messageTimes \ {e}) \cup {g} /\ g.id = e.id
        /\ quiet' = quiet /\ filledHeartbeats' = filledHeartbeats \ {e.id}
    BY <2>1 DEF Expire, Report, Expected
  <2> HIDE DEF g
  <2>3. f.id # e.id /\ f \in messageTimes
    BY <2>2
  <2>4. callback'[f.id] = callback[f.id]
    BY <1>0, <2>1, <2>3 DEF Expire, Report, TypeInv, TypeOK
  <2>. QED
    BY <2>2, <2>3, <2>4 DEF NotedSince
<1>6. CASE Tick
  <2>1. PICK e \in messageTimes :
           /\ f.id = e.id /\ f.expectedTime = e.expectedTime - 1
           /\ f.interval = e.interval /\ e.interval \in Nat
           /\ e.id \in Components /\ e.expectedTime \in -Lag..e.interval
    BY <1>6, TickElements
  <2>2. quiet[e.id] + e.expectedTime <= e.interval
    BY <1>6, <2>1 DEF NotedSince, Tick
  <2>3. /\ quiet[e.id] \in Nat /\ quiet[e.id] <= Long
        /\ quiet'[e.id] = IF quiet[e.id] < Long THEN quiet[e.id] + 1 ELSE Long
    BY <1>6, <2>1, TickQuiet
  <2>4. Lag \in Nat /\ Long \in Nat
    BY LongType
  <2>. QED
    BY <2>1, <2>2, <2>3, <2>4
<1>. QED
  BY <1>1, <1>2, <1>3, <1>4, <1>5, <1>6, ListenerSteps

\* A component is reported alive because of a beat that was noted since the
\* last report, however late the listener thread runs and however often a
\* listener is registered; only the first report may rest on an older beat.
THEOREM ReceivedIsRecentHolds == Spec => ReceivedIsRecent
<1>1. Init => TypeInv /\ NotedSince
  BY InitType DEF Init, NotedSince
<1>2. TypeInv /\ NotedSince /\ [Next]_vars => TypeInv' /\ NotedSince'
  BY NextType, NotedSinceStep
<1>3. TypeInv /\ NotedSince =>
        \A c \in Components : \A interval \in Intervals[c] :
           Called("received", c, interval) /\ callback[c] # "none"
              => quiet[c] <= interval + Lag
  <2> SUFFICES ASSUME TypeInv, NotedSince, NEW c \in Components,
                      NEW interval \in Intervals[c],
                      Called("received", c, interval), callback[c] # "none"
               PROVE  quiet[c] <= interval + Lag
    OBVIOUS
  <2>1. PICK e \in messageTimes :
           /\ e.id = c /\ e.interval = interval /\ interval \in Nat
           /\ e.expectedTime \in Int /\ e.expectedTime >= -Lag
           /\ c \in filledHeartbeats
    BY CalledMeans
  <2>2. quiet[c] + e.expectedTime <= interval
    BY <2>1 DEF NotedSince
  <2>3. quiet[c] \in Nat /\ Lag \in Nat
    BY LongType DEF TypeInv, TypeOK
  <2>. QED
    BY <2>1, <2>2, <2>3
<1>. QED
  BY <1>1, <1>2, <1>3, PTL DEF Spec, ReceivedIsRecent

(***************************************************************************)
(* Nobody is reported missed who has been sending.                         *)
(***************************************************************************)

\* What a step may do to a component: the ways it can touch the senders, the
\* beats and the time that passes.
LEMMA SenderSteps ==
    ASSUME [Next]_vars
    PROVE  \/ UNCHANGED <<senderVars, socket, inFlight, subscribed, quiet, steady>>
           \/ \E c \in Components, t \in Threads, time \in {0} \cup Times :
                StartHeartbeat(c, t, time)
           \/ \E c \in Components : StopHeartbeat(c)
           \/ \E c \in Components, t \in Threads : ThreadBegins(c, t)
           \/ \E c \in Components, t \in Threads : Beat(c, t)
           \/ \E c \in Components : FollowDirectory(c)
           \/ \E c \in Components : \E beat \in inFlight[c] : SubscriptionFilled(c, beat)
           \/ \E c \in Components : \E beat \in inFlight[c] : RejectBeat(c, beat)
           \/ \E c \in Components : RegisterHeartbeatListener(c)
           \/ Tick
  BY DEF Next, vars, linkVars, UnregisterHeartbeatListener, HandleRegister,
         HandleUnregister, Expire, Report

\* What a round of the sender's loop does.
LEMMA BeatMeans ==
    ASSUME TypeInv, NEW c \in Components, NEW t \in Threads, Beat(c, t)
    PROVE  /\ sender[c][t].pc = "loop" /\ sender[c][t].sleep = 0
           /\ \/ /\ heartbeatRunning[c]
                 /\ sender'[c][t].pc = "loop" /\ sender'[c][t].sleep = Period[c]
                 /\ sender'[c][t].time = sender[c][t].time
                 /\ registered[c] # 0 /\ socket[c] = registered[c] =>
                      \E b \in inFlight'[c] : b.age = 0
              \/ ~heartbeatRunning[c] /\ sender'[c][t] = NoThread
           /\ \A d \in Components : inFlight[d] \subseteq inFlight'[d]
           /\ \A d \in Components, u \in Threads :
                d # c \/ u # t => sender'[d][u] = sender[d][u]
           /\ UNCHANGED <<heartbeatStarted, heartbeatRunning, registered, socket,
                          subscribed, quiet, steady>>
<1>1. sender \in [Components -> [Threads -> ThreadType]]
      /\ inFlight \in [Components -> SUBSET BeatType]
  BY DEF TypeInv, TypeOK, ThreadType, BeatType
<1>2. /\ sender[c][t].pc = "loop" /\ sender[c][t].sleep = 0
      /\ UNCHANGED <<heartbeatStarted, heartbeatRunning, registered, socket,
                     subscribed, quiet, steady>>
  BY DEF Beat
<1>3. CASE heartbeatRunning[c]
  <2> DEFINE next == [pc |-> "loop", sleep |-> Period[c], time |-> sender[c][t].time]
             beat == [time |-> sender[c][t].time, age |-> 0]
  <2>1. /\ next \in ThreadType /\ next.pc = "loop" /\ next.sleep = Period[c]
        /\ next.time = sender[c][t].time
    BY <1>1, HeartbeatAssumption DEF ThreadType
  <2>2. /\ sender' = [sender EXCEPT ![c][t] = next]
        /\ \E arrives \in Arrives(c) :
             inFlight' = [inFlight EXCEPT ![c] =
                            IF arrives THEN @ \cup {beat} ELSE @]
    BY <1>3, BeatChanges
  <2>3. beat.age = 0
    OBVIOUS
  <2> HIDE DEF next, beat
  <2>4. /\ sender'[c][t] = next
        /\ \A d \in Components, u \in Threads :
              d # c \/ u # t => sender'[d][u] = sender[d][u]
    BY <1>1, <2>1, <2>2, ThreadChanges
  <2>5. \A d \in Components : inFlight[d] \subseteq inFlight'[d]
    BY <1>1, <2>2
  <2>6. registered[c] # 0 /\ socket[c] = registered[c] => beat \in inFlight'[c]
    BY <1>1, <2>2 DEF Arrives
  <2>. QED
    BY <1>2, <1>3, <2>1, <2>3, <2>4, <2>5, <2>6
<1>4. CASE ~heartbeatRunning[c]
  <2>1. NoThread \in ThreadType
    BY DEF NoThread, ThreadType
  <2>2. /\ sender'[c][t] = NoThread
        /\ \A d \in Components, u \in Threads :
              d # c \/ u # t => sender'[d][u] = sender[d][u]
    BY <1>1, <1>4, <2>1, ThreadChanges, BeatChanges
  <2>. QED
    BY <1>2, <1>4, <2>2, BeatChanges
<1>. QED
  BY <1>3, <1>4

\* What startHeartbeat changes.
LEMMA StartMeans ==
    ASSUME TypeInv, NEW c \in Components, NEW t \in Threads,
           NEW time \in {0} \cup Times, StartHeartbeat(c, t, time)
    PROVE  /\ registered[c] = 0 /\ sender'[c][t].pc = "start"
           /\ \A d \in Components, u \in Threads :
                d # c \/ u # t => sender'[d][u] = sender[d][u]
           /\ \A d \in Components \ {c} : registered'[d] = registered[d]
           /\ UNCHANGED <<heartbeatRunning, socket, inFlight, subscribed, quiet, steady>>
<1> DEFINE thread == [pc |-> "start", sleep |-> 0, time |-> time]
<1>1. thread \in ThreadType /\ thread.pc = "start"
  BY DEF ThreadType
<1>2. sender \in [Components -> [Threads -> ThreadType]]
  BY DEF TypeInv, TypeOK, ThreadType
<1>3. sender' = [sender EXCEPT ![c][t] = thread]
  BY DEF StartHeartbeat
<1> HIDE DEF thread
<1>4. /\ sender'[c][t].pc = "start"
      /\ \A d \in Components, u \in Threads :
            d # c \/ u # t => sender'[d][u] = sender[d][u]
  BY <1>1, <1>2, <1>3, ThreadChanges
<1>5. registered[c] = 0
  BY DEF StartHeartbeat, TypeInv, TypeOK, Subscriptions
<1>. QED
  BY <1>4, <1>5 DEF StartHeartbeat, TypeInv, TypeOK

\* What the clock does to a thread.
LEMMA TickThread ==
    ASSUME TypeInv, Tick, NEW c \in Components, NEW t \in Threads
    PROVE  /\ sender'[c][t].pc = sender[c][t].pc
           /\ sender'[c][t].time = sender[c][t].time
           /\ sender[c][t] = NoThread => sender'[c][t] = NoThread
           /\ sender[c][t].pc = "loop" =>
                sender'[c][t].sleep = sender[c][t].sleep - 1
<1>1. sender[c][t] \in ThreadType
  BY DEF TypeInv, TypeOK, ThreadType
<1>2. sender'[c][t] = IF sender[c][t].pc = "loop"
                      THEN [sender[c][t] EXCEPT !.sleep = @ - 1] ELSE sender[c][t]
  BY DEF Tick
<1>3. sender[c][t] = NoThread => sender'[c][t] = NoThread
  BY <1>2 DEF NoThread
<1>. QED
  BY <1>1, <1>2, <1>3 DEF ThreadType

\* A component goes on sending as long as its product, its flag and the socket
\* stay, and its threads keep their registration time.
LEMMA SendingStays ==
    ASSUME NEW d \in Components, Sending(d),
           registered'[d] = registered[d], heartbeatRunning'[d],
           d \in subscribed', socket'[d] = socket[d],
           \A u \in Threads :
              /\ sender[d][u].pc = "loop" => sender'[d][u].pc = "loop"
              /\ \/ sender'[d][u] = NoThread
                 \/ sender[d][u] # NoThread /\ sender'[d][u].time = sender[d][u].time
    PROVE  Sending(d)'
  BY DEF Sending, Alive, Publishing

LEMMA SteadyStep ==
    ASSUME TypeInv, SteadyIsSending, [Next]_vars
    PROVE  SteadyIsSending'
<1> SUFFICES ASSUME NEW d \in Components, steady'[d] > 0
             PROVE  Sending(d)'
  BY DEF SteadyIsSending
<1>0. steady[d] > 0 => Sending(d)
  BY DEF SteadyIsSending
<1>a. Sending(d) => /\ registered[d] # 0 /\ heartbeatRunning[d] /\ d \in subscribed
                    /\ socket[d] = registered[d]
  BY DEF Sending, Alive, Publishing
<1>b. 0 \in Nat /\ ~(0 > 0)
  OBVIOUS
<1>1. CASE UNCHANGED <<senderVars, socket, inFlight, subscribed, quiet, steady>>
  BY <1>0, <1>1 DEF senderVars, Sending, Alive, Publishing
<1>2. ASSUME NEW c \in Components, NEW t \in Threads, NEW time \in {0} \cup Times,
             StartHeartbeat(c, t, time)
      PROVE  Sending(d)'
  <2>1. d # c
    BY <1>0, <1>a, <1>2, StartMeans
  <2>2. /\ registered'[d] = registered[d]
        /\ \A u \in Threads : sender'[d][u] = sender[d][u]
        /\ UNCHANGED <<heartbeatRunning, socket, inFlight, subscribed, quiet, steady>>
    BY <1>2, <2>1, StartMeans
  <2>. QED
    BY <1>0, <1>a, <2>2, SendingStays
<1>3. CASE \E c \in Components : StopHeartbeat(c)
  <2>1. PICK c \in Components : StopHeartbeat(c)
    BY <1>3
  <2>2. d # c
    BY <2>1, <1>b DEF StopHeartbeat, TypeInv, TypeOK
  <2>3. /\ registered'[d] = registered[d] /\ heartbeatRunning'[d] = heartbeatRunning[d]
        /\ steady'[d] = steady[d]
        /\ UNCHANGED <<sender, socket, subscribed>>
    BY <2>1, <2>2 DEF StopHeartbeat, TypeInv, TypeOK
  <2>. QED
    BY <1>0, <1>a, <2>3, SendingStays
<1>4. CASE \E c \in Components, t \in Threads : ThreadBegins(c, t)
  <2>1. PICK c \in Components, t \in Threads : ThreadBegins(c, t)
    BY <1>4
  <2>2. /\ sender[c][t].pc = "start" /\ UNCHANGED <<registered, socket, subscribed, steady>>
        /\ heartbeatRunning[d] => heartbeatRunning'[d]
    BY <2>1 DEF ThreadBegins, linkVars, TypeInv, TypeOK
  <2>3. \A u \in Threads :
          /\ sender[d][u].pc = "loop" => sender'[d][u].pc = "loop"
          /\ \/ sender'[d][u] = NoThread
             \/ sender[d][u] # NoThread /\ sender'[d][u].time = sender[d][u].time
    <3> TAKE u \in Threads
    <3>1. CASE d = c /\ u = t
      <4>1. sender'[c][t].pc = "loop" /\ sender'[c][t].time = sender[c][t].time
        BY <2>1, BeginChanges
      <4>2. sender[c][t] # NoThread
        BY <2>2 DEF NoThread
      <4>. QED
        BY <3>1, <4>1, <4>2
    <3>2. CASE d # c \/ u # t
      BY <2>1, <3>2, BeginChanges
    <3>. QED
      BY <3>1, <3>2
  <2>. QED
    BY <1>0, <1>a, <2>2, <2>3, SendingStays
<1>5. CASE \E c \in Components, t \in Threads : Beat(c, t)
  <2>1. PICK c \in Components, t \in Threads : Beat(c, t)
    BY <1>5
  <2>2. /\ sender[c][t].pc = "loop"
        /\ \/ /\ heartbeatRunning[c]
              /\ sender'[c][t].pc = "loop" /\ sender'[c][t].time = sender[c][t].time
           \/ ~heartbeatRunning[c]
        /\ \A u \in Threads : d # c \/ u # t => sender'[d][u] = sender[d][u]
        /\ UNCHANGED <<heartbeatRunning, registered, socket, subscribed, steady>>
    BY <2>1, BeatMeans
  <2>3. steady[d] > 0 /\ Sending(d) /\ heartbeatRunning[d]
    BY <1>0, <1>a, <2>2
  <2>4. sender[c][t] # NoThread
    BY <2>2 DEF NoThread
  <2>5. \A u \in Threads :
          /\ sender[d][u].pc = "loop" => sender'[d][u].pc = "loop"
          /\ \/ sender'[d][u] = NoThread
             \/ sender[d][u] # NoThread /\ sender'[d][u].time = sender[d][u].time
    BY <2>2, <2>3, <2>4
  <2>. QED
    BY <1>a, <2>2, <2>3, <2>5, SendingStays
<1>6. CASE \E c \in Components : FollowDirectory(c)
  <2>1. PICK c \in Components : FollowDirectory(c)
    BY <1>6
  <2>2. d # c
    BY <2>1, <1>b DEF FollowDirectory, TypeInv, TypeOK
  <2>3. socket'[d] = socket[d] /\ steady'[d] = steady[d]
        /\ UNCHANGED <<senderVars, subscribed>>
    BY <2>1, <2>2 DEF FollowDirectory, TypeInv, TypeOK
  <2>. QED
    BY <1>0, <1>a, <2>3, SendingStays DEF senderVars
<1>7. CASE \E c \in Components : \E beat \in inFlight[c] : SubscriptionFilled(c, beat)
  BY <1>0, <1>7 DEF SubscriptionFilled, senderVars, Sending, Alive, Publishing
<1>8. CASE \E c \in Components : \E beat \in inFlight[c] : RejectBeat(c, beat)
  <2>1. PICK c \in Components : \E beat \in inFlight[c] : RejectBeat(c, beat)
    BY <1>8
  <2>2. d # c
    BY <2>1, <1>b DEF RejectBeat, TypeInv, TypeOK
  <2>3. socket'[d] = socket[d] /\ steady'[d] = steady[d]
        /\ UNCHANGED <<senderVars, subscribed>>
    BY <2>1, <2>2 DEF RejectBeat, TypeInv, TypeOK
  <2>. QED
    BY <1>0, <1>a, <2>3, SendingStays DEF senderVars
<1>9. CASE \E c \in Components : RegisterHeartbeatListener(c)
  BY <1>0, <1>9
  DEF RegisterHeartbeatListener, senderVars, linkVars, Sending, Alive, Publishing
<1>10. CASE Tick
  <2>1. Sending(d)
    BY <1>10, <1>b DEF Tick
  <2>2. UNCHANGED <<heartbeatRunning, registered, socket, subscribed>>
    BY <1>10 DEF Tick
  <2>3. \A u \in Threads :
          /\ sender'[d][u].pc = sender[d][u].pc
          /\ sender'[d][u].time = sender[d][u].time
          /\ sender[d][u] = NoThread => sender'[d][u] = NoThread
    BY <1>10, TickThread
  <2>. QED
    BY <1>a, <2>1, <2>2, <2>3, SendingStays
<1>. QED
  BY <1>1, <1>2, <1>3, <1>4, <1>5, <1>6, <1>7, <1>8, <1>9, <1>10, SenderSteps

\* BeatsCover for one thread and one age, in the state before a step and in
\* the state after it.
Covered(c, age) ==
    quiet[c] <= age \/ \E b \in inFlight[c] : age - Period[c] < b.age /\ b.age <= age

LEMMA BeatsCoverStep ==
    ASSUME TypeInv, SteadyIsSending, BeatsCover, [Next]_vars
    PROVE  BeatsCover'
<1> SUFFICES ASSUME NEW d \in Components, NEW u \in Threads, NEW age \in 0..Long,
                    sender'[d][u].pc = "loop",
                    Period[d] - sender'[d][u].sleep <= age, age < steady'[d]
             PROVE  Covered(d, age)'
  BY DEF BeatsCover, Covered, Long
<1>0. \A t \in Threads : \A a \in 0..Long :
        /\ sender[d][t].pc = "loop"
        /\ Period[d] - sender[d][t].sleep <= a /\ a < steady[d]
        => Covered(d, a)
  BY DEF BeatsCover, Covered
<1>a. /\ Period[d] \in Nat /\ Period[d] > 0 /\ Long \in Nat /\ age \in Nat
      /\ quiet[d] \in Nat /\ steady[d] \in Nat /\ steady'[d] \in Nat
      /\ inFlight[d] \subseteq BeatType /\ Delay \in Nat
  BY HeartbeatAssumption, LongType, NextType DEF TypeInv, TypeOK, BeatType
<1>b. \A t \in Threads : sender[d][t].sleep \in Nat
  BY DEF TypeInv, TypeOK
<1>c. steady[d] > 0 => /\ registered[d] # 0 /\ heartbeatRunning[d]
                       /\ socket[d] = registered[d]
                       /\ \E t \in Threads : sender[d][t].pc = "loop"
  BY DEF SteadyIsSending, Sending, Alive, Publishing
<1>d. steady'[d] # 0
  BY <1>a
<1>1. CASE UNCHANGED <<senderVars, socket, inFlight, subscribed, quiet, steady>>
  BY <1>0, <1>1 DEF senderVars, Covered
<1>2. ASSUME NEW c \in Components, NEW t \in Threads, NEW time \in {0} \cup Times,
             StartHeartbeat(c, t, time)
      PROVE  Covered(d, age)'
  <2>1. /\ sender'[d][u] = sender[d][u]
        /\ steady' = steady /\ inFlight' = inFlight /\ quiet' = quiet
    BY <1>2, StartMeans
  <2>. QED
    BY <1>0, <2>1 DEF Covered
<1>3. CASE \E c \in Components : StopHeartbeat(c)
  <2>1. PICK c \in Components : StopHeartbeat(c)
    BY <1>3
  <2>2. sender' = sender /\ inFlight' = inFlight /\ quiet' = quiet
    BY <2>1 DEF StopHeartbeat
  <2>3. steady'[d] = 0 \/ steady'[d] = steady[d]
    BY <2>1 DEF StopHeartbeat, TypeInv, TypeOK
  <2>. QED
    BY <1>0, <1>d, <2>2, <2>3 DEF Covered
<1>4. CASE \E c \in Components, t \in Threads : ThreadBegins(c, t)
  <2>1. PICK c \in Components, t \in Threads : ThreadBegins(c, t)
    BY <1>4
  <2>2. /\ steady' = steady /\ inFlight' = inFlight /\ quiet' = quiet
        /\ sender'[c][t].sleep = 0
        /\ d # c \/ u # t => sender'[d][u] = sender[d][u]
    BY <2>1, BeginChanges DEF ThreadBegins, linkVars
  <2>3. CASE d = c /\ u = t
    <3>1. Period[d] <= age /\ steady[d] > 0
      BY <1>a, <2>2, <2>3
    <3>2. PICK v \in Threads : sender[d][v].pc = "loop"
      BY <1>c, <3>1
    <3>3. Period[d] - sender[d][v].sleep <= age
      BY <1>a, <1>b, <3>1
    <3>4. Covered(d, age)
      BY <1>0, <2>2, <3>2, <3>3
    <3>. QED
      BY <2>2, <3>4 DEF Covered
  <2>4. CASE d # c \/ u # t
    BY <1>0, <2>2, <2>4 DEF Covered
  <2>. QED
    BY <2>3, <2>4
<1>5. CASE \E c \in Components, t \in Threads : Beat(c, t)
  <2>1. PICK c \in Components, t \in Threads : Beat(c, t)
    BY <1>5
  <2>2. /\ steady' = steady /\ quiet' = quiet
        /\ inFlight[d] \subseteq inFlight'[d]
        /\ d # c \/ u # t => sender'[d][u] = sender[d][u]
    <3>1. steady' = steady /\ quiet' = quiet
      BY <2>1 DEF Beat
    <3>2. inFlight[d] \subseteq inFlight'[d]
      BY <2>1, BeatMeans
    <3>3. \A e \in Components, v \in Threads :
            e # c \/ v # t => sender'[e][v] = sender[e][v]
      BY <2>1, BeatMeans
    <3>. QED
      BY <3>1, <3>2, <3>3
  <2>3. Covered(d, age) => Covered(d, age)'
    BY <2>2 DEF Covered
  <2>4. CASE d = c /\ u = t
    <3>1. steady[d] > 0
      BY <1>a, <2>2
    <3>2. /\ \E b \in inFlight'[d] : b.age = 0
          /\ sender[d][u].pc = "loop" /\ sender[d][u].sleep = 0
      BY <1>c, <2>1, <2>4, <3>1, BeatMeans
    <3>3. CASE age < Period[d]
      BY <1>a, <3>2, <3>3 DEF Covered
    <3>4. CASE Period[d] <= age
      BY <1>0, <1>a, <2>2, <2>3, <3>2, <3>4
    <3>. QED
      BY <1>a, <3>3, <3>4
  <2>5. CASE d # c \/ u # t
    BY <1>0, <2>2, <2>3, <2>5
  <2>. QED
    BY <2>4, <2>5
<1>6. CASE \E c \in Components : FollowDirectory(c)
  <2>1. PICK c \in Components : FollowDirectory(c)
    BY <1>6
  <2>2. d # c
    BY <1>d, <2>1 DEF FollowDirectory, TypeInv, TypeOK
  <2>3. /\ sender' = sender /\ quiet' = quiet
        /\ inFlight'[d] = inFlight[d] /\ steady'[d] = steady[d]
    BY <2>1, <2>2 DEF FollowDirectory, senderVars, TypeInv, TypeOK
  <2>. QED
    BY <1>0, <2>3 DEF Covered
<1>7. CASE \E c \in Components : \E b \in inFlight[c] : SubscriptionFilled(c, b)
  <2>1. PICK c \in Components : \E b \in inFlight[c] : SubscriptionFilled(c, b)
    BY <1>7
  <2>2. sender' = sender /\ steady' = steady
    BY <2>1 DEF SubscriptionFilled, senderVars
  <2>3. /\ d = c => quiet'[d] = 0
        /\ d # c => quiet'[d] = quiet[d] /\ inFlight'[d] = inFlight[d]
    BY <2>1 DEF SubscriptionFilled, TypeInv, TypeOK
  <2>4. CASE d = c
    BY <1>a, <2>3, <2>4 DEF Covered
  <2>5. CASE d # c
    BY <1>0, <2>2, <2>3, <2>5 DEF Covered
  <2>. QED
    BY <2>4, <2>5
<1>8. CASE \E c \in Components : \E b \in inFlight[c] : RejectBeat(c, b)
  <2>1. PICK c \in Components : \E b \in inFlight[c] : RejectBeat(c, b)
    BY <1>8
  <2>2. d # c
    BY <1>d, <2>1 DEF RejectBeat, TypeInv, TypeOK
  <2>3. /\ sender' = sender /\ quiet' = quiet
        /\ inFlight'[d] = inFlight[d] /\ steady'[d] = steady[d]
    BY <2>1, <2>2 DEF RejectBeat, senderVars, TypeInv, TypeOK
  <2>. QED
    BY <1>0, <2>3 DEF Covered
<1>9. CASE \E c \in Components : RegisterHeartbeatListener(c)
  BY <1>0, <1>9 DEF RegisterHeartbeatListener, senderVars, linkVars, Covered
<1>10. CASE Tick
  <2>1. /\ sender[d][u].pc = "loop"
        /\ sender'[d][u].sleep = sender[d][u].sleep - 1
    BY <1>10, TickThread
  <2>2. steady'[d] <= steady[d] + 1
    <3>1. steady'[d] = IF Sending(d) THEN UpTo(steady[d] + 1) ELSE 0
      BY <1>10 DEF Tick
    <3>. QED
      BY <1>a, <3>1 DEF UpTo
  <2>3. sender[d][u].sleep \in Nat /\ sender[d][u].sleep <= Period[d]
    BY DEF TypeInv, TypeOK
  <2>4. /\ age - 1 \in 0..Long /\ age - 1 < steady[d]
        /\ Period[d] - sender[d][u].sleep <= age - 1
    BY <1>a, <2>1, <2>2, <2>3
  <2>5. Covered(d, age - 1)
    BY <1>0, <2>1, <2>4
  <2>6. CASE quiet[d] <= age - 1
    BY <1>10, <1>a, <2>6, TickQuiet DEF Covered
  <2>7. CASE \E b \in inFlight[d] : age - 1 - Period[d] < b.age /\ b.age <= age - 1
    <3>1. PICK b \in inFlight[d] : age - 1 - Period[d] < b.age /\ b.age <= age - 1
      BY <2>7
    <3> DEFINE b1 == [b EXCEPT !.age = @ + 1]
    <3>2. b \in BeatType /\ b1 \in inFlight'[d]
      BY <1>10, <1>a DEF Tick
    <3>3. b.age \in Nat /\ b1.age = b.age + 1
      BY <1>a, <3>2 DEF BeatType
    <3> HIDE DEF b1
    <3>4. age - Period[d] < b1.age /\ b1.age <= age
      BY <1>a, <3>1, <3>3
    <3>. QED
      BY <3>2, <3>4 DEF Covered
  <2>. QED
    BY <2>5, <2>6, <2>7 DEF Covered
<1>. QED
  BY <1>1, <1>2, <1>3, <1>4, <1>5, <1>6, <1>7, <1>8, <1>9, <1>10, SenderSteps

LEMMA AliveInvHolds == Spec => []AliveInv
<1>1. Init => AliveInv
  <2> SUFFICES ASSUME Init PROVE AliveInv
    OBVIOUS
  <2>1. MissedInv
    BY InitType DEF MissedInv, Init, QuietSince
  <2>2. \A c \in Components : steady[c] = 0
    BY DEF Init
  <2>3. \A c \in Components, t \in Threads : sender[c][t].pc = "none"
    BY DEF Init, NoThread
  <2>. QED
    BY <2>1, <2>2, <2>3 DEF AliveInv, SteadyIsSending, BeatsCover
<1>2. AliveInv /\ [Next]_vars => AliveInv'
  BY NextType, QuietSinceStep, SteadyStep, BeatsCoverStep DEF AliveInv, MissedInv
<1>. QED
  BY <1>1, <1>2, PTL DEF Spec

\* A component that has been sending for the whole time its listener asked for
\* last, with an interval that leaves room for the delay of a beat, is never
\* reported missed: whatever threads overlapped before, and whichever other
\* listeners are registered more than once.
THEOREM AliveIsNotMissedHolds == Spec => AliveIsNotMissed
<1>1. AliveInv =>
        \A c \in Components : \A interval \in Intervals[c] :
           Called("missed", c, interval) /\ Single(c) /\ Period[c] + Delay < interval
              => steady[c] < interval
  <2> SUFFICES ASSUME AliveInv, NEW c \in Components, NEW interval \in Intervals[c],
                      Called("missed", c, interval), Single(c),
                      Period[c] + Delay < interval, ~(steady[c] < interval)
               PROVE  FALSE
    OBVIOUS
  <2>1. /\ Period[c] \in Nat /\ Delay \in Nat /\ Lag \in Nat /\ MaxWait \in Nat
        /\ quiet[c] \in Nat /\ steady[c] \in Nat /\ Long = MaxWait + Lag + 1
        /\ \A b \in inFlight[c] : b.age \in 0..Delay
    BY HeartbeatAssumption, LongType DEF AliveInv, MissedInv, TypeInv, TypeOK
  <2>2. PICK e \in messageTimes :
           /\ e.id = c /\ e.interval = interval /\ interval \in Nat
           /\ interval <= MaxWait
           /\ e.expectedTime <= 0 /\ e.expectedTime \in Int
           /\ c \notin filledHeartbeats
    BY CalledMeans DEF AliveInv, MissedInv
  <2>3. quiet[c] + e.expectedTime >= interval
    BY <2>2 DEF AliveInv, MissedInv, QuietSince
  <2>4. quiet[c] >= interval
    BY <2>1, <2>2, <2>3
  <2>5. PICK t \in Threads : sender[c][t].pc = "loop"
    BY <2>1, <2>2 DEF AliveInv, SteadyIsSending, Sending, Alive, Publishing
  <2>6. sender[c][t].sleep \in Nat
    BY DEF AliveInv, MissedInv, TypeInv, TypeOK
  <2> DEFINE age == Period[c] + Delay
  <2>7. /\ age \in 0..Long /\ age < steady[c]
        /\ Period[c] - sender[c][t].sleep <= age
    BY <2>1, <2>2, <2>6
  <2>8. Covered(c, age)
    BY <2>5, <2>7 DEF AliveInv, BeatsCover, Covered
  <2>. QED
    BY <2>1, <2>2, <2>4, <2>8 DEF Covered
<1>. QED
  BY <1>1, AliveInvHolds, PTL DEF AliveIsNotMissed
=============================================================================
