----------------------------- MODULE Reregister -----------------------------
(***************************************************************************)
(* How the nodes of a domain survive a restart of their service directory. *)
(* The directory broadcasts its start time and its URL.  The domain        *)
(* listener, a thread of every node, hears a start time later than the one *)
(* it knows and calls ServiceDirectoryReregister: it registers the data    *)
(* products, then the services, then subscribes again, one request after   *)
(* the other, under the locks the application's own calls take.  The       *)
(* directory may crash at any of these points and start again, at the same *)
(* or another URL, knowing nothing.                                        *)
(***************************************************************************)
EXTENDS Integers, FiniteSets

CONSTANTS
    Nodes,          \* components, each with one application thread
    OffersOf,       \* the [type, id] each node may register
    Subscribers,    \* nodes whose application may subscribe to Topic
    Topic,          \* the data product that is subscribed to
    DirectoryUrls,  \* URLs the directory can start at
    UpdatesUrls,    \* URLs of its RegisteredPublishers product
    NoUrl,
    NoUpdate,       \* no RegisteredPublishers message
    Fresh,          \* nodes that have not called init() yet at the beginning
    StartSteps,     \* how far the start time moves from start to start
    Slow,           \* a directory that is up may leave requests unanswered
    MaxStarts,      \* bound on the starts of the directory
    MaxOperations   \* bound on the operations of the applications

ASSUME ReregisterAssumption ==
    /\ Subscribers \subseteq Nodes /\ Fresh \subseteq Nodes
    /\ \A n \in Nodes : \A o \in OffersOf[n] :
          o.type \in {"DATA", "SERVICE"} /\ o = [type |-> o.type, id |-> o.id]
    /\ NoUrl \notin DirectoryUrls \cup UpdatesUrls
    /\ StartSteps \subseteq Int /\ Slow \in BOOLEAN
    /\ MaxStarts \in Nat \ {0} /\ MaxOperations \in Nat

\* No set of publishers is taken for no message.
ASSUME NoUpdateAssumption ==
    \A publishers \in SUBSET [node : Nodes, time : 0..MaxOperations] :
        publishers # NoUpdate

VARIABLES
    directory,      \* the service directory and what it lists
    starts,         \* its starts so far
    clock,          \* operations so far: the source of timestamps
    datagrams,      \* broadcasts in the socket of each domain listener
    heard,          \* URLs the listener has passed on to init()
    initSucceeded,  \* init() has returned SUCCESS
    serviceDirectoryNode,   \* URL each node sends its requests to
    offers,         \* publishMap, serviceMap and urlInstanceMap of each node
    subscriptionList,       \* how many entries the list of each node has
    manager,        \* SubscriptionDetails of Topic in each node
    listener,       \* the domain listener thread of each node
    app             \* the application thread of each node

nodeVars == <<heard, initSucceeded, serviceDirectoryNode, offers, subscriptionList>>
vars == <<directory, starts, clock, datagrams, nodeVars, manager, listener, app>>

Offer == UNION {OffersOf[n] : n \in Nodes}

\* A registration of a node: what is offered, since when.
Registration(offer, time) == [type |-> offer.type, id |-> offer.id, time |-> time]

OfferOf(reg) == [type |-> reg.type, id |-> reg.id]

\* ServiceDirectoryBroadcastPB
Broadcasted(d) == [start |-> d.start, url |-> d.url]

\* The sockets of a subscription: the one for updates, the publishers it is
\* connected to, and the update that waits to be read.
NoDetails == [update |-> NoUrl, known |-> {}, joined |-> FALSE, waiting |-> NoUpdate]

-----------------------------------------------------------------------------
(***************************************************************************)
(* The service directory.                                                  *)
(***************************************************************************)

Started(start, url, updates) ==
    [up |-> TRUE, start |-> start, url |-> url, updates |-> updates,
     listed |-> {}, cache |-> NoUpdate]

\* A publisher of Topic as PublisherInfoPB describes it.
Publishers(listed) ==
    {[node |-> e.node, time |-> e.reg.time] :
        e \in {f \in listed : f.reg.type = "DATA" /\ f.reg.id = Topic}}

\* Every subscription that has joined is sent the new publishers of Topic,
\* and the PublishManager of the directory keeps them for those that join.
PublishUpdate(listed) ==
    /\ directory' = [directory EXCEPT !.listed = listed, !.cache = Publishers(listed)]
    /\ manager' = [n \in Nodes |->
          IF manager[n].joined
          THEN [manager[n] EXCEPT !.waiting = Publishers(listed)]
          ELSE manager[n]]

\* The maps change; RegisteredPublishers is published if Topic is concerned.
Relist(listed) ==
    IF Publishers(listed) = Publishers(directory.listed)
    THEN directory' = [directory EXCEPT !.listed = listed] /\ UNCHANGED manager
    ELSE PublishUpdate(listed)

\* handleRegister: an older registration at the URL is ignored, a newer one
\* replaces it.  Every offer of a node has a URL of its own here.
HandleRegister(n, reg) ==
    LET same == {e \in directory.listed : /\ e.node = n
                                          /\ e.reg.type = reg.type /\ e.reg.id = reg.id}
    IN  IF \E e \in same : e.reg.time > reg.time
        THEN UNCHANGED <<directory, manager>>
        ELSE Relist((directory.listed \ same) \cup {[node |-> n, reg |-> reg]})

\* handleUnregister: the entry with the same registration time is removed.
HandleUnregister(n, reg) == Relist(directory.listed \ {[node |-> n, reg |-> reg]})

\* A request of node n is answered; otherwise all its retries time out.
Reachable(n) == directory.up /\ directory.url = serviceDirectoryNode[n]
MayTimeOut(n) == Slow \/ ~Reachable(n)

Crash ==
    /\ directory.up /\ starts < MaxStarts
    /\ directory' = [directory EXCEPT !.up = FALSE, !.listed = {}, !.cache = NoUpdate]
    /\ manager' = [n \in Nodes |-> [manager[n] EXCEPT !.joined = FALSE]]
    /\ UNCHANGED <<starts, clock, datagrams, nodeVars, listener, app>>

Restart ==
    /\ ~directory.up
    /\ starts' = starts + 1
    /\ \E step \in StartSteps, url \in DirectoryUrls, updates \in UpdatesUrls :
          directory' = Started(directory.start + step, url, updates)
    /\ UNCHANGED <<clock, datagrams, nodeVars, manager, listener, app>>

\* A broadcast reaches the socket of a listener.  One that is lost is one
\* that is not sent, and so is one that the listener would read and ignore.
Broadcast(n) ==
    /\ directory.up
    /\ \/ heard[n] = {} /\ ~initSucceeded[n]
       \/ directory.start \notin {listener[n].seen, listener[n].message.start}
    /\ datagrams' = [datagrams EXCEPT ![n] = @ \cup {Broadcasted(directory)}]
    /\ UNCHANGED <<directory, starts, clock, nodeVars, manager, listener, app>>

-----------------------------------------------------------------------------
(***************************************************************************)
(* The subscription manager.                                               *)
(***************************************************************************)

\* addSubscription: details that exist keep their update socket, and
\* publishers whose URL is new are connected to.
AddedSubscription(details, found) ==
    [details EXCEPT
        !.update = IF @ = NoUrl THEN found.updates ELSE @,
        !.known = @ \cup {p \in found.publishers : \A k \in @ : k.node # p.node}]

\* Mutant of JoinUpdates: what was published before is not sent.
JoinUpdatesUncached(n) ==
    /\ directory.up /\ ~manager[n].joined
    /\ manager[n].update = directory.updates
    /\ manager' = [manager EXCEPT ![n].joined = TRUE]
    /\ UNCHANGED <<directory, starts, clock, datagrams, nodeVars, listener, app>>

\* The update socket of a subscription connects, or connects again, to the
\* directory, which sends it the cached update.
JoinUpdates(n) ==
    /\ directory.up /\ ~manager[n].joined
    /\ manager[n].update = directory.updates
    /\ manager' = [manager EXCEPT
          ![n].joined = TRUE,
          ![n].waiting = IF directory.cache = NoUpdate THEN @ ELSE directory.cache]
    /\ UNCHANGED <<directory, starts, clock, datagrams, nodeVars, listener, app>>

\* The manager reads the updates that wait: sockets are opened and closed
\* until they match the last one.
TakeUpdate(n) ==
    /\ manager[n].waiting # NoUpdate
    /\ manager' = [manager EXCEPT ![n].known = manager[n].waiting,
                                  ![n].waiting = NoUpdate]
    /\ UNCHANGED <<directory, starts, clock, datagrams, nodeVars, listener, app>>

-----------------------------------------------------------------------------
(***************************************************************************)
(* The locks of a node.  The application holds one from the first step of  *)
(* an operation to its end, and serviceDirectoryLock while a request is    *)
(* out; the listener holds the one of the stage it is in.                  *)
(***************************************************************************)

LockOf(type) == IF type = "DATA" THEN "publish" ELSE "service"

Idle == [pc |-> "idle"]

AppHolds(n, lock) == app[n].pc \in {"send", "done"} /\ app[n].lock = lock
RequestOut(n) == app[n].pc = "send"

\* Mutant of ListenerHolds: the application does not take the locks.
ListenerHoldsNever(n, lock) == FALSE

ListenerHolds(n, lock) == listener[n].pc = lock

-----------------------------------------------------------------------------
(***************************************************************************)
(* The application thread.                                                 *)
(***************************************************************************)

\* getDomainUrl: the oldest URL that was not read yet, which may be any the
\* listener has passed on, also one of a directory that is gone.
DomainUrls(n) == heard[n]

\* init(): the listener's thread has been started.  GetDomain tells whether
\* the directory is there; if it is not, init() fails and the application
\* calls it again before anything else.  (The code's flag initialized is set
\* by the first call, whatever becomes of the request.)
InitNode(n) ==
    /\ ~initSucceeded[n] /\ ~ListenerHolds(n, "subscribe")
    /\ \E url \in DomainUrls(n) :
          /\ serviceDirectoryNode' = [serviceDirectoryNode EXCEPT ![n] = url]
          /\ initSucceeded' = [initSucceeded EXCEPT ![n] =
                                directory.up /\ directory.url = url]
    /\ heard' = [heard EXCEPT ![n] = IF initSucceeded'[n] THEN {} ELSE @]
    /\ UNCHANGED <<directory, starts, clock, datagrams, offers, subscriptionList,
                   manager, listener, app>>

\* The operations of the API, as the application of n may call them now.
Operations(n) ==
    {[op |-> "register", lock |-> LockOf(o.type), offer |-> o] : o \in OffersOf[n]}
    \cup {[op |-> "unregister", lock |-> LockOf(r.type), offer |-> OfferOf(r)]
            : r \in offers[n]}
    \cup (IF n \in Subscribers THEN {[op |-> "subscribe", lock |-> "subscribe"]} ELSE {})
    \cup (IF subscriptionList[n] > 0
          THEN {[op |-> "unsubscribe", lock |-> "subscribe"]} ELSE {})

\* An operation is called while the listener holds the lock it needs.
Wait(n, call) ==
    /\ initSucceeded[n] /\ app[n] = Idle /\ clock < MaxOperations
    /\ ListenerHolds(n, call.lock)
    /\ clock' = clock + 1
    /\ app' = [app EXCEPT ![n] = [pc |-> "wait", call |-> call, lock |-> call.lock]]
    /\ UNCHANGED <<directory, starts, datagrams, nodeVars, manager, listener>>

\* An operation gets its lock.
TakesLock(n, call) ==
    /\ \/ initSucceeded[n] /\ app[n] = Idle /\ clock < MaxOperations /\ clock' = clock + 1
       \/ app[n].pc = "wait" /\ app[n].call = call /\ UNCHANGED clock
    /\ ~ListenerHolds(n, call.lock)
    /\ UNCHANGED <<directory, starts, datagrams, heard, initSucceeded,
                   serviceDirectoryNode, listener>>

Sends(n, call, reg) ==
    app' = [app EXCEPT ![n] = [pc |-> "send", op |-> call.op, lock |-> call.lock,
                               reg |-> reg]]

\* registerDataProduct, registerService: what is registered already is turned
\* down; the time is read under the lock.
Register(n, call) ==
    /\ call.op = "register" /\ TakesLock(n, call)
    /\ IF \E r \in offers[n] : OfferOf(r) = call.offer
       THEN app' = [app EXCEPT ![n] = Idle]
       ELSE Sends(n, call, Registration(call.offer, clock'))
    /\ UNCHANGED <<offers, subscriptionList, manager>>

\* unregisterDataProduct, unregisterService: the maps are cleared before the
\* directory is told.
Unregister(n, call) ==
    /\ call.op = "unregister" /\ TakesLock(n, call)
    /\ \E r \in offers[n] :
          /\ OfferOf(r) = call.offer
          /\ offers' = [offers EXCEPT ![n] = @ \ {r}]
          /\ Sends(n, call, r)
    /\ UNCHANGED <<subscriptionList, manager>>

Subscribe(n, call) ==
    /\ call.op = "subscribe" /\ TakesLock(n, call)
    /\ Sends(n, call, {})
    /\ UNCHANGED <<offers, subscriptionList, manager>>

\* unsubscribe: every entry of the list is erased, and the manager, which has
\* the subscriber once, removes it.  No request is made.
Unsubscribe(n, call) ==
    /\ call.op = "unsubscribe" /\ TakesLock(n, call)
    /\ app' = [app EXCEPT ![n] = Idle]
    /\ subscriptionList' = [subscriptionList EXCEPT ![n] = 0]
    /\ manager' = [manager EXCEPT ![n] = NoDetails]
    /\ UNCHANGED offers

\* What subscribeInternal looks up: the publishers, and where the directory
\* publishes RegisteredPublishers.
Found == [publishers |-> Publishers(directory.listed), updates |-> directory.updates]

\* The directory handles the request and the answer arrives.
RequestAnswered(n) ==
    LET a == app[n]
    IN  /\ a.pc = "send" /\ Reachable(n)
        /\ CASE a.op = "register" -> /\ HandleRegister(n, a.reg)
                                     /\ app' = [app EXCEPT ![n] =
                                          [pc |-> "done", op |-> a.op, lock |-> a.lock,
                                           reg |-> a.reg]]
             [] a.op = "unregister" -> /\ HandleUnregister(n, a.reg)
                                       /\ app' = [app EXCEPT ![n] = Idle]
             [] a.op = "subscribe" -> /\ app' = [app EXCEPT ![n] =
                                          [pc |-> "done", op |-> a.op, lock |-> a.lock,
                                           found |-> Found]]
                                      /\ UNCHANGED <<directory, manager>>
        /\ UNCHANGED <<starts, clock, datagrams, nodeVars, listener>>

\* Every retry has timed out: the operation fails.  What was unregistered is
\* gone from the maps of the node all the same.
RequestFailed(n) ==
    /\ app[n].pc = "send" /\ MayTimeOut(n)
    /\ app' = [app EXCEPT ![n] = Idle]
    /\ UNCHANGED <<directory, starts, clock, datagrams, nodeVars, manager, listener>>

\* The maps, or the list and the manager, learn of the success.
Complete(n) ==
    LET a == app[n]
    IN  /\ a.pc = "done"
        /\ app' = [app EXCEPT ![n] = Idle]
        /\ IF a.op = "register"
           THEN /\ offers' = [offers EXCEPT ![n] = @ \cup {a.reg}]
                /\ UNCHANGED <<subscriptionList, manager>>
           ELSE /\ subscriptionList' = [subscriptionList EXCEPT ![n] = @ + 1]
                /\ manager' = [manager EXCEPT ![n] = AddedSubscription(@, a.found)]
                /\ UNCHANGED offers
        /\ UNCHANGED <<directory, starts, clock, datagrams, heard, initSucceeded,
                       serviceDirectoryNode, listener>>

-----------------------------------------------------------------------------
(***************************************************************************)
(* The domain listener thread.  pc is "listen", "update" (it is about to   *)
(* store the new URL), the name of a lock it holds, or of one it waits     *)
(* for; message is the broadcast it acts on, todo what is left of the      *)
(* stage it is in.                                                         *)
(***************************************************************************)

Waiting == [publish |-> "waitPublish", service |-> "waitService",
            subscribe |-> "waitSubscribe"]
After == [publish |-> "service", service |-> "subscribe"]
Locks == DOMAIN Waiting

\* Mutant of Restarted: off by one.
RestartedLate(l, m) == l.seen + 1 < m.start

\* "if it's a new start time..."
Restarted(l, m) == l.seen < m.start

\* A broadcast of the domain is read from the socket and passed on to init().
\* The first start time is only remembered.
Hear(n, m) ==
    LET l == listener[n]
    IN  /\ l.pc = "listen" /\ m \in datagrams[n]
        /\ datagrams' = [datagrams EXCEPT ![n] = @ \ {m}]
        /\ heard' = [heard EXCEPT ![n] = IF initSucceeded[n] THEN {} ELSE @ \cup {m.url}]
        /\ listener' = [listener EXCEPT ![n] =
              IF ~Restarted(l, m) THEN l
              ELSE IF l.seen = 0 THEN [l EXCEPT !.seen = m.start]
              ELSE [l EXCEPT !.pc = "update", !.message = m]]
        /\ UNCHANGED <<directory, starts, clock, initSucceeded, serviceDirectoryNode,
                       offers, subscriptionList, manager, app>>

\* What a stage goes through: a map, which does not change while the lock is
\* held, or the entries of a copy of the list.
StageItems(n, lock) ==
    IF lock = "subscribe" THEN 1..subscriptionList[n]
    ELSE {r \in offers[n] : LockOf(r.type) = lock}

\* Mutant of MustWait: the locks are not taken.
MustWaitNever(n, lock) == FALSE

MustWait(n, lock) == AppHolds(n, lock)

\* The listener l with the lock of the next stage, or waiting for it.
EnterStage(n, l, lock) ==
    IF MustWait(n, lock)
    THEN [l EXCEPT !.pc = Waiting[lock], !.todo = {}]
    ELSE [l EXCEPT !.pc = lock, !.todo = StageItems(n, lock)]

\* The application releases the lock the listener waits for.
LockReleased(n, lock) ==
    /\ listener[n].pc = Waiting[lock] /\ ~MustWait(n, lock)
    /\ listener' = [listener EXCEPT ![n] = EnterStage(n, @, lock)]
    /\ UNCHANGED <<directory, starts, clock, datagrams, nodeVars, manager, app>>

\* updateServiceDirectoryUrl: the URL is stored when no request is out, and
\* the managers are told under the lock of the subscription manager.
UpdateServiceDirectoryUrl(n) ==
    LET l == listener[n]
    IN  /\ l.pc = "update" /\ ~RequestOut(n) /\ ~AppHolds(n, "subscribe")
        /\ serviceDirectoryNode' = [serviceDirectoryNode EXCEPT ![n] = l.message.url]
        /\ listener' = [listener EXCEPT ![n] = EnterStage(n, l, "publish")]
        /\ UNCHANGED <<directory, starts, clock, datagrams, heard, initSucceeded, offers,
                       subscriptionList, manager, app>>

\* A request of the stage is answered.  A registration carries the timestamp
\* of the first one.  To subscribe again is to look up and
\* add the subscription once more, and to push another entry on the list.
ItemAnswered(n, item) ==
    LET l == listener[n]
    IN  /\ l.pc \in Locks /\ item \in l.todo
        /\ Reachable(n) /\ ~RequestOut(n)
        /\ listener' = [listener EXCEPT ![n].todo = @ \ {item}]
        /\ IF l.pc = "subscribe"
           THEN /\ subscriptionList' = [subscriptionList EXCEPT ![n] = @ + 1]
                /\ manager' = [manager EXCEPT ![n] = AddedSubscription(@, Found)]
                /\ UNCHANGED directory
           ELSE HandleRegister(n, item) /\ UNCHANGED subscriptionList
        /\ UNCHANGED <<starts, clock, datagrams, heard, initSucceeded,
                       serviceDirectoryNode, offers, app>>

\* Mutant of ItemGivenUp: the request is repeated until it is answered.
ItemGivenUpNever(n, item) == FALSE /\ UNCHANGED vars

\* A request and its three repetitions have failed: the item is left out.
ItemGivenUp(n, item) ==
    /\ listener[n].pc \in Locks /\ item \in listener[n].todo
    /\ MayTimeOut(n) /\ ~RequestOut(n)
    /\ listener' = [listener EXCEPT ![n].todo = @ \ {item}]
    /\ UNCHANGED <<directory, starts, clock, datagrams, nodeVars, manager, app>>

\* The stage is over and its lock released.  After the last one the start
\* time of the broadcast is remembered, whatever the requests returned.
LeaveStage(n) ==
    LET l == listener[n]
    IN  /\ l.pc \in Locks /\ l.todo = {}
        /\ listener' = [listener EXCEPT ![n] =
              IF l.pc = "subscribe"
              THEN [l EXCEPT !.pc = "listen", !.seen = l.message.start]
              ELSE EnterStage(n, l, After[l.pc])]
        /\ UNCHANGED <<directory, starts, clock, datagrams, nodeVars, manager, app>>

-----------------------------------------------------------------------------
\* The directory has just started.  Nodes that are not Fresh have called
\* init(): their listeners know its start time.
Init ==
    /\ \E url \in DirectoryUrls, updates \in UpdatesUrls :
          directory = Started(1, url, updates)
    /\ starts = 1
    /\ clock = 0
    /\ datagrams = [n \in Nodes |-> {}]
    /\ heard = [n \in Nodes |-> {}]
    /\ initSucceeded = [n \in Nodes |-> n \notin Fresh]
    /\ serviceDirectoryNode =
          [n \in Nodes |-> IF n \in Fresh THEN NoUrl ELSE directory.url]
    /\ offers = [n \in Nodes |-> {}]
    /\ subscriptionList = [n \in Nodes |-> 0]
    /\ manager = [n \in Nodes |-> NoDetails]
    /\ listener = [n \in Nodes |->
          [pc |-> "listen", seen |-> IF n \in Fresh THEN 0 ELSE 1, todo |-> {},
           message |-> [start |-> 0, url |-> NoUrl]]]
    /\ app = [n \in Nodes |-> Idle]

ListenerStep(n) ==
    \/ \E m \in datagrams[n] : Hear(n, m)
    \/ UpdateServiceDirectoryUrl(n)
    \/ \E lock \in Locks : LockReleased(n, lock)
    \/ \E item \in listener[n].todo : ItemAnswered(n, item) \/ ItemGivenUp(n, item)
    \/ LeaveStage(n)

Operation(n, call) ==
    Register(n, call) \/ Unregister(n, call) \/ Subscribe(n, call) \/ Unsubscribe(n, call)

\* What a call that has begun goes through.
OperationStep(n) ==
    \/ app[n].pc = "wait" /\ Operation(n, app[n].call)
    \/ RequestAnswered(n) \/ RequestFailed(n) \/ Complete(n)

ManagerStep(n) == JoinUpdates(n) \/ TakeUpdate(n)

Next ==
    \/ Crash \/ Restart
    \/ \E n \in Nodes :
          \/ Broadcast(n)
          \/ InitNode(n)
          \/ \E call \in Operations(n) : Wait(n, call) \/ Operation(n, call)
          \/ OperationStep(n)
          \/ ListenerStep(n)
          \/ ManagerStep(n)

\* Threads run, polls end with an answer or a timeout, ZeroMQ connects to a
\* publisher that is there, and not every broadcast is lost.
Fairness ==
    \A n \in Nodes : /\ WF_vars(OperationStep(n))
                     /\ WF_vars(ListenerStep(n))
                     /\ WF_vars(ManagerStep(n))
                     /\ WF_vars(Broadcast(n))

Spec == Init /\ [][Next]_vars /\ Fairness

-----------------------------------------------------------------------------
(* Properties *)

TypeOK ==
    LET times == 0..MaxOperations
        regs == [type : {"DATA", "SERVICE"}, id : {o.id : o \in Offer}, time : times]
        publishers == [node : Nodes, time : times]
        urls == DirectoryUrls \cup {NoUrl}
        messages == [start : Int, url : urls]
    IN  /\ directory.up \in BOOLEAN /\ directory.start \in Int
        /\ directory.url \in DirectoryUrls /\ directory.updates \in UpdatesUrls
        /\ directory.listed \subseteq [node : Nodes, reg : regs]
        /\ directory.cache = NoUpdate \/ directory.cache \subseteq publishers
        /\ starts \in 1..MaxStarts /\ clock \in times
        /\ initSucceeded \in [Nodes -> BOOLEAN]
        /\ serviceDirectoryNode \in [Nodes -> urls]
        /\ subscriptionList \in [Nodes -> Nat]
        /\ \A n \in Nodes :
              /\ datagrams[n] \subseteq [start : Int, url : DirectoryUrls]
              /\ heard[n] \subseteq DirectoryUrls
              /\ offers[n] \subseteq regs
              /\ manager[n].update \in UpdatesUrls \cup {NoUrl}
              /\ manager[n].known \subseteq publishers /\ manager[n].joined \in BOOLEAN
              /\ manager[n].waiting = NoUpdate \/ manager[n].waiting \subseteq publishers
              /\ listener[n].pc \in {"listen", "update"} \cup Locks
                                       \cup {Waiting[l] : l \in Locks}
              /\ listener[n].seen \in Int /\ listener[n].message \in messages
              /\ IF listener[n].pc = "subscribe" THEN listener[n].todo \subseteq Nat
                 ELSE listener[n].todo \subseteq regs
              /\ app[n].pc \in {"idle", "wait", "send", "done"}
              /\ app[n].pc # "idle" => app[n].lock \in Locks

\* The node has caught up with the directory that is up now: its listener has
\* acted on the start time and its application is between two operations.
Settled(n) ==
    /\ directory.up /\ initSucceeded[n]
    /\ listener[n].pc = "listen" /\ listener[n].seen = directory.start
    /\ app[n] = Idle

\* What the directory lists of a node that has caught up with it is exactly
\* what the node has registered, with the registration times of the first
\* registration: ServiceDirectoryReregister loses nothing that the
\* application registered while it ran or while the directory was away, and
\* brings back nothing that was unregistered.  Every state has its type.
SettledIsListed ==
    /\ TypeOK
    /\ \A n \in Nodes : Settled(n) =>
        {e.reg : e \in {f \in directory.listed : f.node = n}} = offers[n]

\* A subscription of a node that has caught up, and whose updates are read,
\* is connected to every publisher the directory lists: subscribing again and
\* the update socket, which outlives the directory it was opened for, miss
\* none that registers before, between or after.
SubscriptionRestored ==
    \A n \in Nodes :
        /\ Settled(n) /\ subscriptionList[n] > 0
        /\ manager[n].waiting = NoUpdate
        /\ manager[n].update = directory.updates => manager[n].joined
        => Publishers(directory.listed) \subseteq manager[n].known

\* A subscription that the application has ended is not renewed by a
\* re-registration that is under way: only a call of subscribe() makes the
\* list of a node non-empty.
EndedStaysEnded ==
    [][\A n \in Nodes :
          subscriptionList[n] = 0 /\ subscriptionList'[n] > 0
             => app[n].pc = "done" /\ app[n].op = "subscribe"]_vars

\* Once a directory stays up, it comes to list all that the nodes have
\* registered, though each of them hears of it through datagrams alone.
RelistedInTheEnd ==
    <>[]directory.up =>
        <>[](\A n \in Nodes : \A reg \in offers[n] :
                [node |-> n, reg |-> reg] \in directory.listed)

\* No operation of the application waits for ever for a lock of the listener
\* or for a directory that is gone.
OperationEnds == \A n \in Nodes : app[n].pc # "idle" ~> app[n].pc = "idle"

=============================================================================
