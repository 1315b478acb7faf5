----------------------------- MODULE Heartbeats -----------------------------
(***************************************************************************)
(* Heartbeats: the sender thread and the listener thread of                *)
(* src/src/api/cpp/GravityHeartbeat.cpp, startHeartbeat, stopHeartbeat,    *)
(* registerHeartbeatListener and unregisterHeartbeatListener of            *)
(* src/src/api/cpp/GravityNode.cpp, and what the subscription manager      *)
(* (src/src/api/cpp/GravitySubscriptionManager.cpp) makes of a beat that   *)
(* does not carry the registration time of the publisher it looked up.     *)
(*                                                                         *)
(* Every component is a process with one node that may send heartbeats.    *)
(* One further node listens for all of them.  Times are kept as what is    *)
(* left of them, so that the model needs no horizon; Tick lets one unit of *)
(* time pass.  A beat is under way for at most Delay units, and the loops  *)
(* run at most Lag units late.                                             *)
(***************************************************************************)
EXTENDS Integers, FiniteSets

CONSTANTS
    Components,     \* processes whose heartbeats may be listened for
    Senders,        \* those of them whose application starts heartbeats
    Period,         \* component -> interval_in_microseconds of startHeartbeat
    Intervals,      \* component -> the waiting times its listener asks for
    MaxWait,        \* no listener asks for a longer one
    Delay,          \* units a beat may take from the sender to the callback
    Lag,            \* units the listener thread may be late
    MaxThreads,     \* sender threads a component may have at one time
    MaxElements,    \* elements the queue of expected times may have
    MaxTimes,       \* registration times of a component in use at one time
    Uses            \* orders of calls that the applications make use of:
                    \*  "earlyStop": stop before the new thread has run
                    \*  "overlap": start before the old thread has ended
                    \*  "again": register a listener that is registered

ASSUME HeartbeatAssumption ==
    /\ Senders \subseteq Components
    /\ Period \in [Components -> Nat \ {0}]
    /\ Intervals \in [Components -> SUBSET (1..MaxWait)] /\ MaxWait \in Nat
    /\ Delay \in Nat /\ Lag \in Nat
    /\ MaxThreads \in Nat \ {0} /\ MaxElements \in Nat \ {0}
    /\ MaxTimes \in Nat
    /\ Uses \subseteq {"earlyStop", "overlap", "again"}

VARIABLES
    heartbeatStarted,   \* component -> the flag of its node
    heartbeatRunning,   \* component -> the static flag of its process
    registered,         \* component -> registration time of its heartbeat
                        \* product, 0 while it is not published
    sender,             \* component -> thread -> where it is, and the
                        \* registration time it puts into its beats
    listed,             \* components whose registration the directory lists
    subscribed,         \* heartbeats the listening node is subscribed to
    socket,             \* component -> registration time of the publisher the
                        \* listening node is connected to, 0 for no socket
    inFlight,           \* component -> beats under way on that socket
    listener,           \* components that have a listener
    messageTimes,       \* the queue of expected times
    filledHeartbeats,   \* components a beat has been noted of
    command,            \* what the listening node has asked its thread for
    callback,           \* component -> the last call of its listener
    quiet,              \* component -> units since a beat of it was noted
    steady              \* component -> units it has been sending to the node

senderVars == <<heartbeatStarted, heartbeatRunning, registered, sender>>
listenerVars == <<listener, messageTimes, filledHeartbeats>>
linkVars == <<listed, socket, inFlight>>
vars == <<senderVars, linkVars, subscribed, listenerVars, command, callback,
          quiet, steady>>

-----------------------------------------------------------------------------
Threads == 1..MaxThreads
Elements == 1..MaxElements

Times == 1..MaxTimes

NoThread == [pc |-> "none", sleep |-> 0, time |-> 0]
NoCommand == [kind |-> "none"]

\* quiet and steady are counted up to a bound that tells all cases apart.
Long == MaxWait + Lag + 1
UpTo(n) == IF n > Long THEN Long ELSE n

\* An element of the queue of expected times, with the time to wait between
\* heartbeats; element is the list node.
Expected(c, element, interval, rest) ==
    [id |-> c, element |-> element, interval |-> interval, expectedTime |-> rest]

\* The registration time the directory gives to a subscriber, if it lists one.
Listing(c) == IF c \in listed THEN registered[c] ELSE 0

\* The registration times that somebody still knows.
InUse(c) ==
    {registered[c], socket[c]} \cup {sender[c][t].time : t \in Threads}
       \cup {beat.time : beat \in inFlight[c]}

\* The types, and that the queue has an element exactly while its component
\* has a listener: nobody is called, or waited for, after the answer to an
\* unregistration.
TypeOK ==
    /\ heartbeatStarted \in [Components -> BOOLEAN]
    /\ heartbeatRunning \in [Components -> BOOLEAN]
    /\ registered \in [Components -> {0} \cup Times]
    /\ sender \in [Components -> [Threads ->
         [pc : {"none", "start", "loop"}, sleep : Nat, time : {0} \cup Times]]]
    /\ \A c \in Components, t \in Threads : sender[c][t].sleep <= Period[c]
    /\ listed \subseteq {c \in Components : registered[c] # 0}
    /\ subscribed \subseteq Components
    /\ socket \in [Components -> {0} \cup Times]
    /\ inFlight \in
         [Components -> SUBSET [time : {0} \cup Times, age : 0..Delay]]
    /\ \A c \in Components : socket[c] = 0 => inFlight[c] = {}
    /\ listener \subseteq subscribed
    /\ filledHeartbeats \subseteq subscribed
    /\ messageTimes \subseteq
         [id : Components, element : Elements, interval : Nat, expectedTime : Int]
    /\ \A e \in messageTimes : /\ e.interval \in Intervals[e.id]
                               /\ e.expectedTime \in -Lag..e.interval
    /\ {e.id : e \in messageTimes} = listener
    /\ command \in {NoCommand} \cup
         [kind : {"register", "unregister"}, id : Components]
    /\ callback \in [Components -> {"none", "missed", "received"}]
    /\ quiet \in [Components -> Nat] /\ steady \in [Components -> Nat]
    /\ \A c \in Components : quiet[c] <= Long /\ steady[c] <= Long

Init ==
    /\ heartbeatStarted = [c \in Components |-> FALSE]
    /\ heartbeatRunning = [c \in Components |-> FALSE]
    /\ registered = [c \in Components |-> 0]
    /\ sender = [c \in Components |-> [t \in Threads |-> NoThread]]
    /\ listed = {}
    /\ subscribed = {}
    /\ socket = [c \in Components |-> 0]
    /\ inFlight = [c \in Components |-> {}]
    /\ listener = {}
    /\ messageTimes = {}
    /\ filledHeartbeats = {}
    /\ command = NoCommand
    /\ callback = [c \in Components |-> "none"]
    /\ quiet = [c \in Components |-> Long]
    /\ steady = [c \in Components |-> 0]

-----------------------------------------------------------------------------
(* The node that sends.                                                    *)

\* startHeartbeat: the product is registered, which may fail without the
\* call noticing, and a thread is created that keeps the registration time,
\* or 0.  The time is one that nobody knows: registrations of a component
\* are more than a second apart.
StartHeartbeat(c, t, time) ==
    /\ c \in Senders /\ ~heartbeatStarted[c]
    /\ sender[c][t] = NoThread /\ \A u \in 1..(t - 1) : sender[c][u] # NoThread
    /\ "overlap" \notin Uses => \A u \in Threads : sender[c][u] = NoThread
    /\ time # 0 => time \notin InUse(c) /\ 1..(time - 1) \subseteq InUse(c)
    /\ registered' = [registered EXCEPT ![c] = time]
    /\ listed' = IF time = 0 THEN listed ELSE listed \cup {c}
    /\ sender' = [sender EXCEPT ![c][t] =
         [pc |-> "start", sleep |-> 0, time |-> time]]
    /\ heartbeatStarted' = [heartbeatStarted EXCEPT ![c] = TRUE]
    /\ UNCHANGED <<heartbeatRunning, socket, inFlight, subscribed, listenerVars,
                   command, callback, quiet, steady>>

\* stopHeartbeat: the flag of the process is cleared, the product is gone.
StopHeartbeat(c) ==
    /\ heartbeatStarted[c]
    /\ "earlyStop" \notin Uses => \A t \in Threads : sender[c][t].pc # "start"
    /\ heartbeatStarted' = [heartbeatStarted EXCEPT ![c] = FALSE]
    /\ heartbeatRunning' = [heartbeatRunning EXCEPT ![c] = FALSE]
    /\ registered' = [registered EXCEPT ![c] = 0]
    /\ listed' = listed \ {c}
    /\ steady' = [steady EXCEPT ![c] = 0]
    /\ UNCHANGED <<sender, socket, inFlight, subscribed, listenerVars, command,
                   callback, quiet>>

\* The new thread connects and sets the flag itself.
ThreadBegins(c, t) ==
    /\ sender[c][t].pc = "start"
    /\ heartbeatRunning' = [heartbeatRunning EXCEPT ![c] = TRUE]
    /\ sender' = [sender EXCEPT ![c][t] =
         [pc |-> "loop", sleep |-> 0, time |-> sender[c][t].time]]
    /\ UNCHANGED <<heartbeatStarted, registered, linkVars, subscribed,
                   listenerVars, command, callback, quiet, steady>>

\* Does a beat that is sent now come to the listening node's socket?  The
\* publish manager drops what is not registered.  A socket of an earlier
\* registration is at the new port, or not.
Arrives(c) ==
    IF registered[c] = 0 \/ socket[c] = 0 THEN {FALSE}
    ELSE IF socket[c] = registered[c] THEN {TRUE} ELSE BOOLEAN

\* The sender's loop: a beat with the thread's registration time, and then
\* to sleep.
Send(c, t, arrives) ==
    /\ sender' = [sender EXCEPT ![c][t].sleep = Period[c]]
    /\ inFlight' = [inFlight EXCEPT ![c] =
         IF arrives THEN @ \cup {[time |-> sender[c][t].time, age |-> 0]} ELSE @]

ThreadEnds(c, t) ==
    /\ sender' = [sender EXCEPT ![c][t] = NoThread]
    /\ UNCHANGED inFlight

\* Mutant of Beat: the loop does not look at the flag.
BeatAlways(c, t) ==
    /\ sender[c][t].pc = "loop" /\ sender[c][t].sleep = 0
    /\ \E arrives \in Arrives(c) : Send(c, t, arrives)
    /\ UNCHANGED <<heartbeatStarted, heartbeatRunning, registered, listed, socket,
                   subscribed, listenerVars, command, callback, quiet, steady>>

\* One round of the sender's loop.
Beat(c, t) ==
    /\ sender[c][t].pc = "loop" /\ sender[c][t].sleep = 0
    /\ \/ heartbeatRunning[c] /\ \E arrives \in Arrives(c) : Send(c, t, arrives)
       \/ ~heartbeatRunning[c] /\ ThreadEnds(c, t)
    /\ UNCHANGED <<heartbeatStarted, heartbeatRunning, registered, listed, socket,
                   subscribed, listenerVars, command, callback, quiet, steady>>

-----------------------------------------------------------------------------
(* The node that listens.                                                  *)

\* Mutant of FollowDirectory: a socket of an earlier registration stays.
FollowDirectoryOnce(c) ==
    /\ c \in subscribed /\ socket[c] = 0 /\ c \in listed
    /\ socket' = [socket EXCEPT ![c] = Listing(c)]
    /\ inFlight' = [inFlight EXCEPT ![c] = {}]
    /\ steady' = [steady EXCEPT ![c] = 0]
    /\ UNCHANGED <<senderVars, listed, subscribed, listenerVars, command,
                   callback, quiet>>

\* The subscription manager follows the directory: a socket for the
\* registration it lists, and none for another.
FollowDirectory(c) ==
    /\ c \in subscribed /\ socket[c] # Listing(c)
    /\ socket' = [socket EXCEPT ![c] = Listing(c)]
    /\ inFlight' = [inFlight EXCEPT ![c] = {}]
    /\ steady' = [steady EXCEPT ![c] = 0]
    /\ UNCHANGED <<senderVars, listed, subscribed, listenerVars, command,
                   callback, quiet>>

\* A beat of another registration: the socket is deleted, and the directory
\* drops the registration the socket was opened for.
RejectBeat(c, beat) ==
    /\ beat.time # socket[c]
    /\ listed' = IF socket[c] = Listing(c) THEN listed \ {c} ELSE listed
    /\ socket' = [socket EXCEPT ![c] = 0]
    /\ inFlight' = [inFlight EXCEPT ![c] = {}]
    /\ steady' = [steady EXCEPT ![c] = 0]
    /\ UNCHANGED <<senderVars, subscribed, listenerVars, command, callback, quiet>>

\* Mutant of SubscriptionFilled: only the first beat is noted at once.
SubscriptionFilledOnce(c, beat) ==
    /\ beat.time = socket[c]
    /\ inFlight' = [inFlight EXCEPT ![c] = @ \ {beat}]
    /\ filledHeartbeats' =
         IF quiet[c] = Long THEN filledHeartbeats \cup {c} ELSE filledHeartbeats
    /\ quiet' = [quiet EXCEPT ![c] = 0]
    /\ UNCHANGED <<senderVars, listed, socket, subscribed, listener, messageTimes,
                   command, callback, steady>>

\* Heartbeat::subscriptionFilled, called for a beat of the registration that
\* the socket was opened for.
SubscriptionFilled(c, beat) ==
    /\ beat.time = socket[c]
    /\ inFlight' = [inFlight EXCEPT ![c] = @ \ {beat}]
    /\ filledHeartbeats' = filledHeartbeats \cup {c}
    /\ quiet' = [quiet EXCEPT ![c] = 0]
    /\ UNCHANGED <<senderVars, listed, socket, subscribed, listener, messageTimes,
                   command, callback, steady>>

BeatArrives(c) ==
    \E beat \in inFlight[c] : SubscriptionFilled(c, beat) \/ RejectBeat(c, beat)

\* registerHeartbeatListener: subscribe and send the command to the thread.
RegisterHeartbeatListener(c) ==
    /\ command = NoCommand
    /\ "again" \notin Uses => c \notin listener
    /\ subscribed' = subscribed \cup {c}
    /\ command' = [kind |-> "register", id |-> c]
    /\ UNCHANGED <<senderVars, linkVars, listenerVars, callback, quiet, steady>>

\* unregisterHeartbeatListener: its hbSub is another object than the one
\* that was subscribed, so the subscription stays.
UnregisterHeartbeatListener(c) ==
    /\ command = NoCommand
    /\ c \in listener
    /\ command' = [kind |-> "unregister", id |-> c]
    /\ UNCHANGED <<senderVars, linkVars, subscribed, listenerVars, callback,
                   quiet, steady>>

\* The thread adds the listener and an element, and acknowledges.
HandleRegister(element, interval) ==
    /\ command.kind = "register" /\ interval \in Intervals[command.id]
    /\ LET used == {e.element : e \in messageTimes}
       IN element \notin used /\ 1..(element - 1) \subseteq used
    /\ listener' = listener \cup {command.id}
    /\ messageTimes' =
         messageTimes \cup {Expected(command.id, element, interval, interval)}
    /\ command' = NoCommand
    /\ callback' = [callback EXCEPT ![command.id] = "none"]
    /\ UNCHANGED <<senderVars, linkVars, subscribed, filledHeartbeats, quiet,
                   steady>>

\* Mutant of HandleUnregister: the elements stay in the queue.
HandleUnregisterKeeps ==
    /\ command.kind = "unregister"
    /\ listener' = listener \ {command.id}
    /\ command' = NoCommand
    /\ UNCHANGED <<senderVars, linkVars, subscribed, messageTimes,
                   filledHeartbeats, callback, quiet, steady>>

\* The thread drops the listener and its elements, not the beat it noted.
HandleUnregister ==
    /\ command.kind = "unregister"
    /\ listener' = listener \ {command.id}
    /\ messageTimes' = {e \in messageTimes : e.id # command.id}
    /\ command' = NoCommand
    /\ UNCHANGED <<senderVars, linkVars, subscribed, filledHeartbeats,
                   callback, quiet, steady>>

\* An element that the priority queue may have on top.
Top(e) ==
    /\ e \in messageTimes
    /\ \A f \in messageTimes : e.expectedTime <= f.expectedTime

\* The time of the element on top has come: the listener is called, which
\* may change the time to wait, and the element is put back.
Report(e, filled, interval, rest) ==
    /\ Top(e) /\ e.expectedTime <= 0
    /\ filledHeartbeats' = filled
    /\ callback' = [callback EXCEPT ![e.id] =
         IF e.id \notin listener THEN @
         ELSE IF e.id \in filledHeartbeats THEN "received" ELSE "missed"]
    /\ messageTimes' =
         (messageTimes \ {e}) \cup {Expected(e.id, e.element, interval, rest)}
    /\ UNCHANGED <<senderVars, linkVars, subscribed, listener, command, quiet,
                   steady>>

\* Mutant of Expire: the beat that was noted is not taken away.
ExpireKeeps(e, interval) == Report(e, filledHeartbeats, interval, interval)

\* Mutant of Expire: the interval counts from when the report was due.
ExpireDrifts(e, interval) ==
    Report(e, filledHeartbeats \ {e.id}, interval, e.expectedTime + interval)

\* The beat that was noted is taken away; the next time is a whole interval
\* from now.
Expire(e, interval) ==
    Report(e, filledHeartbeats \ {e.id}, interval, interval)

-----------------------------------------------------------------------------
\* A component whose product is published by a thread in its loop.
Publishing(c) ==
    /\ registered[c] # 0 /\ heartbeatRunning[c] /\ c \in subscribed
    /\ \E t \in Threads : sender[c][t].pc = "loop"

\* ... and no thread of which is left over from another registration.
Alive(c) ==
    /\ Publishing(c)
    /\ \A t \in Threads : sender[c][t] = NoThread \/ sender[c][t].time = registered[c]

\* ... to which the listening node is connected.
Sending(c) == Alive(c) /\ socket[c] = registered[c]

\* Time passes: the clocks that clock_nanosleep and getCurrentTime read.
Tick ==
    /\ \A c \in Components, t \in Threads :
         sender[c][t].pc = "loop" => sender[c][t].sleep > 0
    /\ \A c \in Components : \A beat \in inFlight[c] : beat.age < Delay
    /\ \A e \in messageTimes : e.expectedTime > -Lag
    /\ sender' = [c \in Components |-> [t \in Threads |->
         IF sender[c][t].pc = "loop"
         THEN [sender[c][t] EXCEPT !.sleep = @ - 1] ELSE sender[c][t]]]
    /\ inFlight' = [c \in Components |->
         {[beat EXCEPT !.age = @ + 1] : beat \in inFlight[c]}]
    /\ messageTimes' =
         {[e EXCEPT !.expectedTime = @ - 1] : e \in messageTimes}
    /\ quiet' = [c \in Components |-> UpTo(quiet[c] + 1)]
    /\ steady' = [c \in Components |->
         IF Sending(c) THEN UpTo(steady[c] + 1) ELSE 0]
    /\ UNCHANGED <<heartbeatStarted, heartbeatRunning, registered, listed,
                   socket, subscribed, listener, filledHeartbeats, command,
                   callback>>

Next ==
    \/ \E c \in Components :
         \/ \E t \in Threads, time \in {0} \cup Times : StartHeartbeat(c, t, time)
         \/ StopHeartbeat(c)
         \/ \E t \in Threads : ThreadBegins(c, t) \/ Beat(c, t)
         \/ FollowDirectory(c)
         \/ \E beat \in inFlight[c] :
              SubscriptionFilled(c, beat) \/ RejectBeat(c, beat)
         \/ RegisterHeartbeatListener(c)
         \/ UnregisterHeartbeatListener(c)
    \/ \E element \in Elements, interval \in 1..MaxWait :
         HandleRegister(element, interval)
    \/ HandleUnregister
    \/ \E e \in messageTimes : \E interval \in Intervals[e.id] : Expire(e, interval)
    \/ Tick

\* Threads that can run do run, and time passes however many calls the
\* applications make.  The calls need not be made.
Spec ==
    /\ Init /\ [][Next]_vars
    /\ \A c \in Components, t \in Threads :
         WF_vars(ThreadBegins(c, t)) /\ WF_vars(Beat(c, t))
    /\ \A c \in Components :
         WF_vars(FollowDirectory(c)) /\ WF_vars(BeatArrives(c))
    /\ WF_vars(\E element \in Elements, interval \in 1..MaxWait :
                 HandleRegister(element, interval))
    /\ WF_vars(HandleUnregister)
    /\ WF_vars(\E e \in messageTimes : \E interval \in Intervals[e.id] :
                 Expire(e, interval))
    /\ []<><<Tick>>_vars

-----------------------------------------------------------------------------
\* The call of a listener that this step makes, if it makes one, after it
\* has waited for the given interval.
Called(kind, c, interval) ==
    /\ \E e \in messageTimes :
         /\ e.id = c /\ e.interval = interval /\ e.expectedTime <= 0
         /\ \E next \in Intervals[c] : Expire(e, next)
    /\ callback'[c] = kind

Reported(kind, c) == \E interval \in Intervals[c] : Called(kind, c, interval)

\* A listener that is registered once has one element in the queue.
Single(c) == \A e, f \in messageTimes : e.id = c /\ f.id = c => e = f

\* A component is reported missed only when no beat of it has been noted
\* for the whole time its listener asked for last: neither a late thread, nor
\* the listener of another component, nor a change of the interval shortens
\* that time, as long as its listener is registered once.
MissedIsSilent ==
    [][\A c \in Components : \A interval \in Intervals[c] :
         Called("missed", c, interval) /\ Single(c) => quiet[c] >= interval]_vars

\* A component that has been sending all that time, with an interval that
\* leaves room for the delay of a beat, is never reported missed, as long as
\* no thread is left over from an earlier registration: beats of such a thread
\* cut the component off.
AliveIsNotMissed ==
    [][\A c \in Components : \A interval \in Intervals[c] :
         Called("missed", c, interval) /\ Single(c) /\ Period[c] + Delay < interval
            => steady[c] < interval]_vars

\* A component is reported alive because of a beat since the last report;
\* only the first report after a registration may rest on an older one.
ReceivedIsRecent ==
    [][\A c \in Components : \A interval \in Intervals[c] :
         Called("received", c, interval) /\ callback[c] # "none"
            => quiet[c] <= interval + Lag]_vars

\* A listener that stays is told again and again: that its component is
\* missed when nothing is published any more, that it is alive when it goes on
\* publishing and no thread is left over from an earlier registration.
ReportsGoOn ==
    \A c \in Components :
      /\ <>[](c \in listener /\ ~Publishing(c))
            => []<><<Reported("missed", c)>>_vars
      /\ <>[](c \in listener /\ Alive(c))
            => []<><<Reported("received", c)>>_vars

\* When a heartbeat is stopped for good, every sender thread of the process
\* comes to an end, however starts and stops overlapped before.  An
\* application that stops before the new thread has run ("earlyStop") breaks it.
StoppedSenderEnds ==
    \A c \in Components :
      <>[]~heartbeatStarted[c]
         => <>[](\A t \in Threads : sender[c][t] = NoThread)

\* "Registers a callback to be called when we don't get a heartbeat": nobody
\* is reported missed who was heard of in the time the listener asked for.
MissedIsAlwaysSilent ==
    [][\A c \in Components : \A interval \in Intervals[c] :
         Called("missed", c, interval) => quiet[c] >= interval]_vars

\* "Called when another component's heartbeat is received": a beat was noted
\* in the time the listener asked for, before the first report too.
ReceivedIsAlwaysRecent ==
    [][\A c \in Components : \A interval \in Intervals[c] :
         Called("received", c, interval) => quiet[c] <= interval + Lag]_vars

\* "Starts a heart beat for this GravityNode": a component whose heartbeat
\* stays started and registered is reported alive again and again.
StartedIsReceived ==
    \A c \in Components :
      <>[](c \in listener /\ heartbeatStarted[c] /\ registered[c] # 0)
         => []<><<Reported("received", c)>>_vars
=============================================================================
