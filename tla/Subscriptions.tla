--------------------------- MODULE Subscriptions ---------------------------
(***************************************************************************)
(* Publish and subscribe: the subscribe(), unsubscribe(), publish() and    *)
(* subscription monitor calls of a GravityNode, the thread of its          *)
(* GravitySubscriptionManager and the GravityPublishManagers of the nodes  *)
(* that publish, composed with ServiceDirectory.                           *)
(*                                                                         *)
(* One node subscribes to one data product, with one filter that every     *)
(* message matches.  A publisher is named by the URL it is bound to; it    *)
(* may end at any time, and another may then bind the port: for the same   *)
(* or another product, with this directory or with that of another domain. *)
(* A ZeroMQ SUB socket reconnects by itself and then sends its             *)
(* subscription again; a message is lost only when there is no             *)
(* subscription at the publisher or the socket is closed.                  *)
(*                                                                         *)
(* An iteration of the manager's loop is split into one step per command,  *)
(* per message and per publisher update, each with the sockets it deletes. *)
(* Closing a socket twice, which one iteration can do, has no effect here. *)
(* Relays, and data products that are not cached, are left out.            *)
(***************************************************************************)
EXTENDS ServiceDirectory, Sequences, FiniteSets

CONSTANTS
    SubscribedID,   \* the data product that is subscribed to
    DirectoryUrl,   \* where the directory publishes RegisteredPublishers
    Subscribers,    \* GravitySubscriber objects of the node
    ReceiveCached,  \* those that subscribe with receiveLastCachedValue
    Monitors,       \* GravitySubscriptionMonitor objects of the node
    Uses,           \* which of the uses below the applications make
    MaxBinds,       \* bound on publishers that are started
    MaxPublished,   \* bound on messages published
    MaxQueue,       \* bound on messages waiting at a socket
    MaxCommands     \* bound on commands waiting for the manager

(***************************************************************************)
(* "monitorFirst": a monitor is set while the product is not subscribed to *)
(* "monitorKept":  the last subscriber leaves while a monitor is set       *)
(* "publishEarly": a thread publishes while another registers the product  *)
(* "bindLate":     a publisher binds a port with a registration time that  *)
(*                 is not later than that of one bound to it before        *)
(***************************************************************************)
ASSUME SubscriptionAssumption ==
    /\ SubscribedID \in ProductIDs \ {RegisteredPublishersID}
    /\ IsFiniteSet(Urls) /\ DirectoryUrl \in Urls
    /\ TicksPerSecond <= MaxTime
    /\ ReceiveCached \subseteq Subscribers
    /\ Uses \subseteq {"monitorFirst", "monitorKept", "publishEarly", "bindLate"}
    /\ {MaxBinds, MaxPublished, MaxQueue, MaxCommands} \subseteq Nat

VARIABLES
    \* Publishers
    bound,        \* URL -> publisher bound to it
    lastCached,   \* URL -> lastCachedValues of its GravityPublishManager
    published,    \* messages published: the timestamp of the last one
    unregistrations, \* requests on their way to the directory
    \* The subscribing node
    call,         \* the subscribe() call that holds subscriptionManagerSWL.lock
    subscriptionList, \* the node's subscribers, as its last calls left them
    monitorList,  \* the monitors its applications have set and not cleared
    commands,     \* commands on their way to the GravitySubscriptionManager
    subscription, \* SubscriptionDetails of the product, with their sockets
    \* History
    received,     \* subscriber -> messages since it was added
    binds,        \* publishers started
    latest,       \* URL -> timestamp of the publisher bound to it last
    overtaken,    \* URLs bound with a time not later than one before
    early         \* URLs whose publisher published before it was registered

timeVars == <<binds, latest, overtaken>>
publisherVars == <<timeVars, early, bound, lastCached, published>>
callVars == <<call, subscriptionList, monitorList>>
managerVars == <<subscription, received>>
systemVars == <<vars, publisherVars, unregistrations, callVars, commands,
                managerVars>>

-----------------------------------------------------------------------------
PublisherUrls == Urls \ {DirectoryUrl}
Nobody == [id |-> NoUrl, timestamp |-> 0, state |-> "none"]
NoCall == [subscriber |-> NoUrl, found |-> {}]
NoMessage ==
    [id |-> NoUrl, url |-> NoUrl, regTime |-> 0, value |-> 0, cached |-> FALSE]

RegTime(u) == Secs(bound[u].timestamp)

Registration(u) ==
    [type |-> "DATA", id |-> bound[u].id, url |-> u, domain |-> OwnDomain,
     timestamp |-> bound[u].timestamp]

Unregistration(id, url, time) ==
    [type |-> "DATA", id |-> id, url |-> url, domain |-> OwnDomain,
     registration_time |-> time]

(***************************************************************************)
(* A data socket: socketVerificationMap[socket], whether it is open,       *)
(* whether the publisher bound to the URL has its subscription, the        *)
(* message lastCachedValueMap has for it, and the messages waiting at it.  *)
(***************************************************************************)
NewSocket(time) ==
    [regTime |-> time, open |-> TRUE, joined |-> FALSE, last |-> NoMessage,
     waiting |-> <<>>]

\* A URL pollItemMap has no entry for.
NoSocket ==
    [regTime |-> -1, open |-> FALSE, joined |-> FALSE, last |-> NoMessage,
     waiting |-> <<>>]

\* An entry of pollItemMap whose socket has been closed: operator[] finds 0
\* in socketVerificationMap, and no message in lastCachedValueMap.
ClosedSocket == [NoSocket EXCEPT !.regTime = 0]

\* The socket that receives RegisteredPublishers updates.
UpdateSocket == [open |-> TRUE, joined |-> FALSE, waiting |-> <<>>]
NoUpdateSocket == [UpdateSocket EXCEPT !.open = FALSE]

\* subscriptionMap has no entry for the product: no details have neither
\* subscribers nor monitors.
NoDetails ==
    [receiveCached |-> FALSE, subscribers |-> {}, monitors |-> {},
     updates |-> NoUpdateSocket, pollItemMap |-> [u \in Urls |-> NoSocket]]

\* What every other field of the details says when the sockets are items.
WithItems(items) == [subscription EXCEPT !.pollItemMap = items]

\* The messages lastCachedValueMap has for sockets in items, oldest first.
LastValues(items) ==
    LET last == {items[u].last : u \in Urls} \ {NoMessage}
    IN  CHOOSE s \in [1 .. Cardinality(last) -> last] :
            \A i, j \in DOMAIN s : i < j => s[i].value < s[j].value

-----------------------------------------------------------------------------
\* The directory is up; nobody has registered anything else.
SystemInit ==
    LET directory == [url |-> DirectoryUrl, registration_time |-> 1]
        listed == [d \in Domains |-> [i \in ProductIDs |->
                      IF d = OwnDomain /\ i = RegisteredPublishersID
                      THEN {directory} ELSE {}]]
    IN  /\ dataProductMap = listed
        /\ serviceMap = [d \in Domains |-> [s \in ServiceIDs |-> NoUrl]]
        /\ registrationInstanceMap =
              [u \in Urls |-> IF u = DirectoryUrl THEN TicksPerSecond
                                                  ELSE NoInstance]
        /\ registeredPublishersBound = TRUE
        /\ registeredPublishersReady = TRUE
        /\ registeredPublishersProcessed = TRUE
        /\ registerUpdatesToSend = {}
        /\ publishedUpdates = listed
        /\ cachedUpdates = [i \in ProductIDs |->
              IF i = RegisteredPublishersID THEN {OwnDomain} ELSE {}]
        /\ details = {}
        /\ bound = [u \in PublisherUrls |-> Nobody]
        /\ lastCached = [u \in PublisherUrls |-> NoMessage]
        /\ published = 0
        /\ unregistrations = {}
        /\ call = NoCall
        /\ subscriptionList = {} /\ monitorList = {}
        /\ commands = <<>>
        /\ subscription = NoDetails
        /\ received = [s \in Subscribers |-> <<>>]
        /\ latest = [u \in PublisherUrls |-> 0]
        /\ binds = 0 /\ overtaken = {} /\ early = {}

-----------------------------------------------------------------------------
(* Publishers *)

\* registerDataProduct: the time is read, then the GravityPublishManager
\* binds a port.  Nothing keeps the two together: t may have been read before
\* that of a publisher bound to the port and gone since.  The registration
\* goes to this directory, or to that of another domain.
BindPublisher(u, id, state, t) ==
    /\ bound[u] = Nobody
    /\ Secs(t) > 0 /\ (t > latest[u] \/ "bindLate" \in Uses)
    /\ binds < MaxBinds /\ binds' = binds + 1
    /\ bound' = [bound EXCEPT ![u] =
          [id |-> id, timestamp |-> t, state |-> state]]
    /\ latest' = [latest EXCEPT ![u] = t]
    /\ overtaken' =
          IF Secs(t) <= Secs(latest[u]) THEN overtaken \cup {u} ELSE overtaken
    /\ UNCHANGED <<vars, early, lastCached, published, unregistrations,
                   callVars, commands, managerVars>>

\* A RegisteredPublishers update that the directory sends for the product
\* reaches the update socket, if the subscription of the socket is there.
UpdatesAfter ==
    IF /\ subscription.updates.joined
       /\ publishedUpdates'[OwnDomain][SubscribedID]
             # publishedUpdates[OwnDomain][SubscribedID]
    THEN [subscription EXCEPT !.updates.waiting =
             Append(@, publishedUpdates'[OwnDomain][SubscribedID])]
    ELSE subscription

\* The directory registers the publisher, and registerDataProduct returns.
\* The directory answers SUCCESS also if it ignores the registration because
\* it has a later one of the URL.
RegisterAtDirectory(u) ==
    /\ bound[u].state = "bound"
    /\ IF ~Accepted(Registration(u)) THEN UNCHANGED vars
       ELSE IF Listed(Registration(u)) THEN RegisterDuplicate(Registration(u))
                                       ELSE RegisterPublisher(Registration(u))
    /\ bound' = [bound EXCEPT ![u].state = "registered"]
    /\ subscription' = UpdatesAfter
    /\ UNCHANGED <<timeVars, early, lastCached, published, unregistrations,
                   callVars, commands, received>>

\* The publisher's socket is closed; subscriptions and cached value are gone.
Unbound(u) ==
    /\ bound' = [bound EXCEPT ![u] = Nobody]
    /\ lastCached' = [lastCached EXCEPT ![u] = NoMessage]
    /\ early' = early \ {u}
    /\ subscription' = [subscription EXCEPT !.pollItemMap[u].joined = FALSE]

\* unregisterDataProduct: the GravityPublishManager unbinds the port, then
\* the directory is asked to remove the publisher.
UnregisterDataProduct(u) ==
    /\ bound[u].state = "registered"
    /\ Unbound(u)
    /\ unregistrations' = unregistrations \cup
          {Unregistration(bound[u].id, u, RegTime(u))}
    /\ UNCHANGED <<vars, timeVars, published, callVars, commands, received>>

\* A publisher's process ends.
Crash(u) ==
    /\ bound[u] # Nobody
    /\ Unbound(u)
    /\ UNCHANGED <<vars, timeVars, published, unregistrations, callVars,
                   commands, received>>

\* The directory takes an unregistration request.
TakeUnregistration(unreg) ==
    /\ IF RegisteredPublisher(unreg) THEN UnregisterPublisher(unreg)
                                     ELSE UNCHANGED vars
    /\ unregistrations' = unregistrations \ {unreg}
    /\ subscription' = UpdatesAfter
    /\ UNCHANGED <<publisherVars, callVars, commands, received>>

\* The message arrives at the data socket connected to u.
Arrived(u, m) ==
    IF subscription.pollItemMap[u].joined
    THEN [subscription EXCEPT !.pollItemMap[u].waiting = Append(@, m)]
    ELSE subscription

\* publish(), and GravityPublishManager::publish: the message is cached and
\* sent.  dataRegistrationTimeMap has no entry before the product is
\* registered, and operator[] yields 0.  The url says where it comes from;
\* the code's message has none.
Publish(u) ==
    LET m == [id |-> bound[u].id, url |-> u, value |-> published',
              cached |-> FALSE,
              regTime |-> IF bound[u].state = "bound" THEN 0 ELSE RegTime(u)]
    IN  /\ bound[u] # Nobody
        /\ bound[u].state = "bound" => "publishEarly" \in Uses
        /\ published < MaxPublished
        /\ Len(subscription.pollItemMap[u].waiting) < MaxQueue
        /\ published' = published + 1
        /\ lastCached' = [lastCached EXCEPT ![u] = m]
        /\ early' = IF bound[u].state = "bound" THEN early \cup {u} ELSE early
        /\ subscription' = Arrived(u, m)
        /\ UNCHANGED <<vars, timeVars, bound, unregistrations, callVars,
                       commands, received>>

\* GravityPublishManager: a subscription has arrived at the XPUB socket, and
\* the cached value is sent, marked as cached, to all who are subscribed.
Resent(u, sub) ==
    LET m == [lastCached[u] EXCEPT !.cached = TRUE]
        item == sub.pollItemMap[u]
    IN  IF lastCached[u] # NoMessage /\ item.joined
        THEN [sub EXCEPT !.pollItemMap[u].waiting = Append(@, m)]
        ELSE sub

\* The subscription that arrives is that of the node's data socket.
JoinPublisher(u) ==
    LET item == subscription.pollItemMap[u]
    IN  /\ bound[u] # Nobody
        /\ item.open /\ ~item.joined /\ Len(item.waiting) < MaxQueue
        /\ subscription' =
              Resent(u, [subscription EXCEPT !.pollItemMap[u].joined = TRUE])
        /\ UNCHANGED <<vars, publisherVars, unregistrations, callVars, commands,
                       received>>

\* The subscription that arrives is that of another node.
OtherNodeJoins(u) ==
    /\ lastCached[u] # NoMessage
    /\ subscription.pollItemMap[u].joined
    /\ Len(subscription.pollItemMap[u].waiting) < MaxQueue
    /\ subscription' = Resent(u, subscription)
    /\ UNCHANGED <<vars, publisherVars, unregistrations, callVars, commands,
                   received>>

\* The same at the directory's own GravityPublishManager: the subscription of
\* the update socket arrives, and the cached update of the product is sent.
JoinUpdates ==
    /\ subscription.updates.open /\ ~subscription.updates.joined
    /\ subscription' = [subscription EXCEPT
          !.updates.joined = TRUE,
          !.updates.waiting =
              IF cachedUpdates[SubscribedID] = {} THEN @
              ELSE Append(@, publishedUpdates[OwnDomain][SubscribedID])]
    /\ UNCHANGED <<vars, publisherVars, unregistrations, callVars, commands,
                   received>>

-----------------------------------------------------------------------------
(* The subscribing node: calls of the application *)

Send(command) ==
    /\ Len(commands) < MaxCommands
    /\ commands' = Append(commands, command)

\* subscribe(): under the lock, the directory is asked for the publishers.
SubscribeLookup(s) ==
    /\ call = NoCall
    /\ call' = [subscriber |-> s,
                found |-> dataProductMap[OwnDomain][SubscribedID]]
    /\ UNCHANGED <<vars, publisherVars, unregistrations, subscriptionList,
                   monitorList, commands, managerVars>>

\* subscribe() goes on: the manager is sent what was found, and the lock is
\* released.
SubscribeSend ==
    /\ call # NoCall
    /\ Send([op |-> "subscribe", who |-> call.subscriber, found |-> call.found])
    /\ call' = NoCall
    /\ subscriptionList' = subscriptionList \cup {call.subscriber}
    /\ UNCHANGED <<vars, publisherVars, unregistrations, monitorList,
                   managerVars>>

\* unsubscribe()
Unsubscribe(s) ==
    LET left == subscriptionList \ {s}
    IN  /\ call = NoCall
        /\ left = {} => monitorList = {} \/ "monitorKept" \in Uses
        /\ Send([op |-> "unsubscribe", who |-> s, found |-> {}])
        /\ subscriptionList' = left
        /\ UNCHANGED <<vars, publisherVars, unregistrations, call, monitorList,
                       managerVars>>

\* setSubscriptionTimeoutMonitor()
SetMonitor(m) ==
    /\ call = NoCall
    /\ subscriptionList # {} \/ "monitorFirst" \in Uses
    /\ Send([op |-> "set_monitor", who |-> m, found |-> {}])
    /\ monitorList' = monitorList \cup {m}
    /\ UNCHANGED <<vars, publisherVars, unregistrations, call, subscriptionList,
                   managerVars>>

\* clearSubscriptionTimeoutMonitor()
ClearMonitor(m) ==
    /\ call = NoCall
    /\ Send([op |-> "clear_monitor", who |-> m, found |-> {}])
    /\ monitorList' = monitorList \ {m}
    /\ UNCHANGED <<vars, publisherVars, unregistrations, call, subscriptionList,
                   managerVars>>

-----------------------------------------------------------------------------
(* GravitySubscriptionManager: one command *)

\* The command that is taken; all that follows runs to the end.
Command(op) ==
    /\ commands # <<>> /\ Head(commands).op = op
    /\ commands' = Tail(commands)
    /\ UNCHANGED <<vars, publisherVars, unregistrations, callVars>>

\* Mutant of LateValues: a late subscriber waits for the next message.
LateValuesNone(s, items) == <<>>

\* A subscriber that was not subscribed yet gets the last value received
\* from each publisher, if it wants cached values.
LateValues(s, items) ==
    IF s \in subscription.subscribers \/ s \notin ReceiveCached
    THEN <<>> ELSE LastValues(items)

\* addSubscription: sockets are opened for URLs without one.
AddSubscription ==
    LET s == Head(commands).who
        found == Head(commands).found
        old == subscription.pollItemMap
        items == [u \in Urls |->
            IF old[u] = NoSocket /\ \E p \in found : p.url = u
            THEN NewSocket((CHOOSE p \in found : p.url = u).registration_time)
            ELSE old[u]]
        created == [NoDetails EXCEPT !.receiveCached = s \in ReceiveCached,
                                     !.updates = UpdateSocket]
        sub == IF subscription = NoDetails THEN created ELSE subscription
    IN  /\ Command("subscribe")
        /\ subscription' = [sub EXCEPT !.pollItemMap = items,
                                       !.subscribers = @ \cup {s}]
        /\ received' = [received EXCEPT ![s] = @ \o LateValues(s, items)]

\* removeSubscription: with the last subscriber the data sockets are closed;
\* the details go too, unless a monitor refers to them.  pollItemMap is not
\* cleared.
RemoveSubscription ==
    LET s == Head(commands).who
        left == subscription.subscribers \ {s}
        closed == [u \in Urls |->
            IF subscription.pollItemMap[u] = NoSocket THEN NoSocket
                                                      ELSE ClosedSocket]
    IN  /\ Command("unsubscribe")
        /\ subscription' =
              IF left # {} THEN [subscription EXCEPT !.subscribers = left]
              ELSE IF subscription.monitors = {} THEN NoDetails
              ELSE [WithItems(closed) EXCEPT !.subscribers = {}]
        /\ received' = [received EXCEPT ![s] = <<>>]

\* setTimeoutMonitor: details made here have no update socket.
SetTimeoutMonitor ==
    /\ Command("set_monitor")
    /\ subscription' = [subscription EXCEPT
          !.monitors = @ \cup {Head(commands).who}]
    /\ UNCHANGED received

\* clearTimeoutMonitor: details without subscribers and monitors go.
ClearTimeoutMonitor ==
    LET left == subscription.monitors \ {Head(commands).who}
    IN  /\ Command("clear_monitor")
        /\ subscription' =
              IF left = {} /\ subscription.subscribers = {} THEN NoDetails
              ELSE [subscription EXCEPT !.monitors = left]
        /\ UNCHANGED received

-----------------------------------------------------------------------------
(* GravitySubscriptionManager: one message *)

\* The first message that waits at the socket.
FirstOf(item) == Head(item.waiting)

\* Mutant of Verified: the publisher is not verified.
VerifiedAlways(item) == TRUE

\* The message comes from the publisher the directory named.
Verified(item) == item.regTime = FirstOf(item).regTime

\* Mutant of IsNew: a message that is sent again is new.
IsNewAlways(item) == TRUE

\* It is not a message that was sent again because somebody subscribed.  The
\* code also takes a message with the time of the last one and other data;
\* here no two messages have the same time.
IsNew(item) == item.last.value < FirstOf(item).value

\* Mutant of StaleEntry: the directory is told of the publisher that answered.
StaleEntryOfMessage(u, item) ==
    Unregistration(SubscribedID, u, FirstOf(item).regTime)

\* notifyServiceDirectoryOfStaleEntry
StaleEntry(u, item) == Unregistration(SubscribedID, u, item.regTime)

\* A message of another publisher: the socket is deleted, and the directory
\* is told.
RejectMessage(u) ==
    LET item == subscription.pollItemMap[u]
    IN  /\ item.waiting # <<>> /\ ~Verified(item)
        /\ subscription' = [subscription EXCEPT !.pollItemMap[u] = NoSocket]
        /\ unregistrations' = unregistrations \cup {StaleEntry(u, item)}
        /\ UNCHANGED <<vars, publisherVars, callVars, commands, received>>

\* A message is delivered to the subscribers, unless it was received before,
\* or it is a cached one and these are not wanted.
TakeMessage(u) ==
    LET item == subscription.pollItemMap[u]
        m == FirstOf(item)
        wanted == IsNew(item) /\ (m.cached => subscription.receiveCached)
    IN  /\ item.waiting # <<>> /\ Verified(item)
        /\ subscription' = [subscription EXCEPT !.pollItemMap[u] =
              [item EXCEPT !.waiting = Tail(item.waiting),
                           !.last = IF IsNew(item) THEN m ELSE item.last]]
        /\ received' = [s \in Subscribers |->
              IF wanted /\ s \in subscription.subscribers
              THEN Append(received[s], m) ELSE received[s]]
        /\ UNCHANGED <<vars, publisherVars, unregistrations, callVars, commands>>

\* Mutant of Reconciled: a URL that is known keeps its socket.
ReconciledUrls(items, listed) ==
    [u \in Urls |->
        IF \A p \in listed : p.url # u THEN NoSocket
        ELSE IF items[u] # NoSocket THEN items[u]
        ELSE NewSocket((CHOOSE p \in listed : p.url = u).registration_time)]

\* Sockets after an update: one for each publisher listed, a new one if the
\* registration time has changed, and none for a URL that is gone.
Reconciled(items, listed) ==
    [u \in Urls |->
        IF \A p \in listed : p.url # u THEN NoSocket
        ELSE LET p == CHOOSE q \in listed : q.url = u
             IN  IF items[u].regTime = p.registration_time
                 THEN items[u] ELSE NewSocket(p.registration_time)]

\* A RegisteredPublishers update.
TakeUpdate ==
    LET waiting == subscription.updates.waiting
        items == Reconciled(subscription.pollItemMap, Head(waiting))
    IN  /\ waiting # <<>>
        /\ subscription' = [WithItems(items) EXCEPT
              !.updates.waiting = Tail(waiting)]
        /\ UNCHANGED <<vars, publisherVars, unregistrations, callVars, commands,
                       received>>

-----------------------------------------------------------------------------
SystemNext ==
    \/ \E u \in PublisherUrls :
          \/ \E id \in ProductIDs \ {RegisteredPublishersID},
                state \in {"bound", "elsewhere"}, t \in Timestamps :
                BindPublisher(u, id, state, t)
          \/ RegisterAtDirectory(u)
          \/ UnregisterDataProduct(u)
          \/ Crash(u)
          \/ Publish(u)
          \/ JoinPublisher(u)
          \/ OtherNodeJoins(u)
          \/ RejectMessage(u)
          \/ TakeMessage(u)
    \/ \E unreg \in unregistrations : TakeUnregistration(unreg)
    \/ JoinUpdates
    \/ TakeUpdate
    \/ \E s \in Subscribers : SubscribeLookup(s) \/ Unsubscribe(s)
    \/ \E m \in Monitors : SetMonitor(m) \/ ClearMonitor(m)
    \/ SubscribeSend
    \/ AddSubscription
    \/ RemoveSubscription
    \/ SetTimeoutMonitor
    \/ ClearTimeoutMonitor

SystemSpec == SystemInit /\ [][SystemNext]_systemVars

-----------------------------------------------------------------------------
(* Properties *)

\* The manager has every update the directory has sent, and the directory
\* every unregistration request.
Settled ==
    /\ subscription.updates.waiting = <<>>
    /\ subscription.updates.open => subscription.updates.joined
    /\ unregistrations = {}

\* The publisher bound to u is the one that p, an entry of the directory, is
\* for.
IsEntryOf(p, u) ==
    /\ bound[u].state = "registered" /\ bound[u].id = SubscribedID
    /\ p = [url |-> u, registration_time |-> RegTime(u)]

\* A subscription covers the publishers the directory lists, whatever was
\* registered between the lookup of subscribe() and the subscription to
\* RegisteredPublishers, and whatever the publishers did since: once the
\* updates are applied, each has an open socket that expects its
\* registration time.
SubscriptionFollowsDirectory ==
    subscription.subscribers # {} /\ Settled =>
        \A p \in dataProductMap[OwnDomain][SubscribedID] :
            /\ subscription.pollItemMap[p.url].open
            /\ subscription.pollItemMap[p.url].regTime = p.registration_time

\* A subscriber has the last value of every publisher, whenever it came: it
\* got it when it was published, from the publisher's cache or from that of
\* its own GravitySubscriptionManager.
SubscribersUpToDate ==
    Settled /\ subscription.receiveCached =>
        \A s \in subscription.subscribers \cap ReceiveCached,
           u \in PublisherUrls :
            LET item == subscription.pollItemMap[u]
            IN  /\ \E p \in dataProductMap[OwnDomain][SubscribedID] :
                      IsEntryOf(p, u)
                /\ lastCached[u] # NoMessage
                /\ item.joined /\ item.waiting = <<>>
                => \E i \in DOMAIN received[s] :
                      received[s][i].value = lastCached[u].value

\* A subscriber only gets data of the product it subscribed to, although the
\* socket reconnects to whoever binds the port next: unless that port was
\* bound with a registration time that is not later than that of a publisher
\* bound to it before.
DeliversSubscribedProduct ==
    \A s \in Subscribers : \A i \in DOMAIN received[s] :
        \/ received[s][i].id = SubscribedID
        \/ received[s][i].url \in overtaken

\* The same without the exception: what the comment in
\* registerDataProductInternal promises, that the registration time is a
\* unique identifier of a publication.  It is not an invariant: the time is
\* in seconds.
RegistrationTimeIdentifies ==
    \A s \in Subscribers : \A i \in DOMAIN received[s] :
        received[s][i].id = SubscribedID

\* What one registration publishes reaches a subscriber in order and without
\* repetition.  It is what the comment in start() wants to make sure of:
\* that only new data is delivered, although a cached value is sent again
\* whenever anybody subscribes.  It is not an invariant: an update older than
\* the lookup of a second subscribe() replaces a socket that is up to date,
\* the next update replaces it again, and the publisher sends its cached value
\* to the new socket.  What holds is SocketsDeliverOnce.
DeliversInOrder ==
    \A s \in Subscribers : \A i, j \in DOMAIN received[s] :
        LET old == received[s][i]
            new == received[s][j]
        IN  i < j /\ old.url = new.url /\ old.regTime = new.regTime
                => old.value < new.value

\* A subscriber never gets old data of a registration, and gets data again
\* only as the first message of a new socket; a port bound with a registration
\* time not later than one before is excepted, as its socket may serve both.
StepDeliversNew ==
    \A s \in Subscribers : \A j \in DOMAIN received'[s] \ DOMAIN received[s] :
        \A i \in 1 .. j - 1 :
            LET old == received'[s][i]
                new == received'[s][j]
            IN  old.url = new.url /\ old.regTime = new.regTime =>
                  \/ old.value < new.value
                  \/ /\ old.value = new.value
                     /\ subscription.pollItemMap[new.url].last = NoMessage
                     /\ subscription'.pollItemMap[new.url].last = new
                  \/ new.url \in overtaken

SocketsDeliverOnce == [][StepDeliversNew]_systemVars

\* Verifying publishers never harms one: a publisher that is registered and
\* running stays listed, whatever stale entries subscribers report.  Excepted
\* are one that published before it was registered, and one at a port bound
\* with a registration time not later than one before.
RegisteredStaysListed ==
    \A u \in PublisherUrls \ (early \cup overtaken) :
        bound[u].state = "registered" =>
            [url |-> u, registration_time |-> RegTime(u)]
                \in dataProductMap[OwnDomain][bound[u].id]
=============================================================================
