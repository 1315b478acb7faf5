# Gravity: verification project

Gravity is a publish/subscribe and request/response middleware on top of ZeroMQ. Applications
link the GravityNode library; a Service Directory process tells them where data products are
published and services are provided. This directory holds TLA+ specifications of the core of
it, configurations that check them with TLC, and proofs that TLAPS checks.

All paths below are relative to the repository; `GravityNode.cpp` and the managers are in
`src/api/cpp`, the Service Directory in `src/components/cpp/ServiceDirectory`.

## 1. The system

### Components, their state and their operations

| Component | State | Operations |
|---|---|---|
| **Service Directory**, registry (`ServiceDirectory.cpp`) | `dataProductMap`, `serviceMap`, `registrationInstanceMap`; `registeredPublishersReady`, `registeredPublishersProcessed`, `registerUpdatesToSend` | register, unregister, lookup, GetProviders; publishes `RegisteredPublishers` (who publishes a product) and `DomainDetails` (what changed) |
| **GravityNode**, registration | `publishMap`, `serviceMap`, `urlInstanceMap`, `dataRegistrationTimeMap`, three locks | `registerDataProduct`, `unregisterDataProduct`, `registerService`, `unregisterService`, each a conversation with a manager thread and with the directory, with retries |
| **GravityPublishManager** thread | a socket per product, `lastCachedValues`, `hasSubscribers` | bind, unbind, publish; resends the cached value when a subscription arrives |
| **GravitySubscriptionManager** thread | `subscriptionMap` with `SubscriptionDetails`, `socketVerificationMap`, `lastCachedValueMap`, monitors | subscribe, unsubscribe, monitors; delivers data, verifies publishers, follows RegisteredPublishers, reports stale entries |
| **GravityRequestManager** thread | `requestMap`, `pollItems`, `futureResponseUrlToSocketMap` | asynchronous requests with deadlines, future responses on both sides |
| **GravityServiceManager** thread | a socket and a registration time per service | binds services, rejects requests meant for another registration, calls the provider |
| **Heartbeats** (`GravityHeartbeat.cpp`) | static running flag; queue of expected times, `filledHeartbeats`, `listener` | start/stop, register/unregister listener |
| **Domain discovery** (`ServiceDirectoryUDPReceiver.cpp`, `ServiceDirectoryUDPBroadcaster.cpp`, main loop) | `receivedCountMap`, `expectedMsgTimeMap`, `connectedDomainMap`, `domainMap` | broadcasts; Add, Update and Remove commands for the main loop and the synchronizer |
| **Domain synchronization** (`ServiceDirectorySynchronizer.cpp`) | `syncMap` with `SyncDomainDetails`, `registrationUpdates`, `pendingResponse` | Add, Update, Remove of a domain; copies the providers of another directory |
| **Domain listener, re-registration** (`GravityNode.cpp`) | start time of the directory, `subscriptionList` | notices a restarted directory, registers and subscribes again |
| **Relay** | `is_relay`, address of a publisher | publishes again what it receives; subscribers choose among publishers (`trimPublishers`) |
| **Archiver and playback** (`src/components/cpp/Archiver`, `Playback`) | `suspend`, the archive file, the queue `dataProducts` | write what is received; two threads read the file and publish it again |
| Metrics, logging, configuration, bindings | local | not part of the core; see section 8 |

### How they interact

A node talks to its manager threads over inproc ZeroMQ sockets and to the directory over
REQ/REP; each attempt uses a socket of its own, so a request that was given up may still be
handled. The directory handles one request at a time, under a lock that its own registration
thread shares. Publishers and subscribers are connected by PUB/SUB sockets that reconnect by
themselves: to whoever has the port. What ties everything together is the *registration time*.
Every registration has a timestamp; the directory keeps the newest per URL, gives it to
subscribers and requestors in seconds, and both compare it with what messages carry. Whoever
meets a message with another time reports the directory's entry as stale.

### What is hard

- **Ports change hands.** A port that a publisher left is taken by another one, for another
  product or another domain, while sockets, requests, cached entries and registrations that
  name it are still around.
- **Late and repeated requests.** Registrations and unregistrations are retried after a timeout
  while the first is still queued; stale-entry reports race with new registrations.
- **Deferred and cached updates.** Changes before RegisteredPublishers exists are collected and
  flushed later; late subscribers depend on the cached update.
- **Lookup, then subscribe.** What a lookup returned may be old when sockets are opened.
- **Deadlines** race with answers and with the future responses that take a request's place.
- **Early returns** keep locks or leave state behind.
- **Time in seconds** is the only identity of a registration.
- **Restarts** of the directory or of a neighbouring domain.

`PROJECT.json` lists these at the lines where they bite ("hazards"), with the properties that
cover them.

### What makes each part correct

- Directory: a URL is listed for one product; every change reaches the subscribers of
  RegisteredPublishers and the directories of other domains; the cache is never stale.
- Registration: what is registered is listed, what is unregistered is not, operations end.
- Requests: one outcome; executed and answered by the registration the caller was told of;
  a stale-entry report never harms a live provider; requests with a deadline end.
- Subscriptions: they follow the directory; subscribers have the last value, once per socket,
  and only data of their product; verifying publishers never removes a live one.
- Heartbeats: no false "missed", no stale "received", reports go on, a stopped sender ends, and what an
  old sender thread leaves behind does no lasting harm.
- Domains: all threads know the same domains, dead ones go and live ones come; a follower lists
  what the other directory lists, whatever restarts in between.
- Re-registration: a node that has caught up with a restarted directory is listed with exactly
  what it offers, its subscriptions reach every publisher, and the application is not held up.
- Playback: everything archived is published once, in order, with bounded memory.

## 2. Modules

`ServiceDirectory` is the core. `NodeRegistration`, `ServiceRequests` and `Subscriptions` EXTEND it and
use its actions as the directory's side of their own; they model the processes around it. The
other modules need less of the directory, or two of them, and have their own short account of it.
`Playback` implements `Replay`.

| Module | Models | Composes |
|---|---|---|
| `ServiceDirectory` | the registry | |
| `ServiceDirectoryProofs` | theorems about it | ServiceDirectory |
| `NodeRegistration` | nodes that register and unregister, retries, crashes | ServiceDirectory |
| `NodeRegistrationProofs` | theorems about it | NodeRegistration, ServiceDirectoryProofs |
| `ServiceRequests` | requests, request manager, service managers, future responses | ServiceDirectory |
| `ServiceRequestsProofs` | theorems about it | ServiceRequests, ServiceDirectoryProofs |
| `Subscriptions` | publish managers, subscription manager, subscribe and publish calls | ServiceDirectory |
| `SubscriptionsProofs` | theorems about them | Subscriptions, ServiceDirectoryProofs |
| `Heartbeats` | sender and listener threads of heartbeats | |
| `HeartbeatsProofs` | theorems about them | Heartbeats |
| `DomainDiscovery` | broadcaster, receiver, main loop: which domains are known | |
| `DomainSync` | the synchronizer, between the directory it follows and its own | commands as in DomainDiscovery, maps as in ServiceDirectory |
| `DomainProofs` | theorems about the two | DomainDiscovery, DomainSync |
| `Reregister` | domain listeners and applications while the directory restarts | |
| `ReregisterProofs` | theorems about it | Reregister |
| `Replay` | what recording and replaying promise | |
| `Playback` | archiver, reader thread and replaying thread | implements Replay |
| `PlaybackProofs` | theorems about it, the refinement included | Playback |
| `MC...` | model values for TLC | each of them but Replay |

### ServiceDirectory

A step is one iteration of the main loop: a request is handled to the end under the lock, then
pending RegisteredPublishers updates are flushed. Variables have the names of the code;
`publishedUpdates` and `cachedUpdates` stand for what the directory's own PublishManager has
sent and cached, and `details` for the DomainDetails changes of the last request. Requests are
arbitrary: who sends them and how late is left to the composing modules, so what holds here
holds whatever clients do.

- `RegisterPublisher`, `RegisterDuplicate`, `RegisterService`: `handleRegister`. The instance of a
  URL is recorded before obsolete publishers are purged for data and after it for services, as in
  the code; a purge erases the instance.
- `UnregisterPublisher`, `UnregisterService`: `handleUnregister`. A service is removed by its ID and
  the registration time of the URL in the request; the URL it is registered at is not compared.
- `LookupService`, `GetProviders`: reading `registrationInstanceMap` with `operator[]` inserts 0.
- `BindRegisteredPublishers`: the registration thread.
- Requests that the code ignores or answers with NOT_REGISTERED, and lookups of data products,
  change nothing and have no action.

Abstractions: publisher lists are sets (a list has one entry per URL and its order is never
used), and an absent list is an empty one; component names and addresses are left out; a
DomainDetails change counts as sent when it is handed to `gn.publish`. A registration without a
timestamp has timestamp 0. `SyncBeforeReady` says whether the synchronizer may register foreign
entries before the own RegisteredPublishers product is ready.

### NodeRegistration

`Stamp` takes the lock and the timestamp, `Bind` or `NoPortsAvailable` is the answer of the manager
thread, `Retry`, `GiveUp` and `Answered` are the ends of a poll, `Unregister` clears the maps before the
directory is told, `UnregisterConflict` is the early return of `unregisterService` that keeps the
lock, and `Block` the next call that needs it. Requests wait in a set, so they may be handled in any
order: each came on its own socket. Two readings of the clock differ. A node's application uses one
thread; the data and the service locks are separate, so this leaves out an interleaving of a data
and a service operation within a node.

Three variables are history, for the properties: `latest` (the timestamp bound to a port last), `homes`
(where a service has been registered) and `disputed`. A port becomes disputed when it is bound with a
timestamp that is not of a later second than the one before (two nodes read their times in one order and
bind in the other, or both within a second), and when it is bound while a registration of it is still
under way and another data product is, or will be, listed there (a purge then erases the instance by
which the two are told apart). These are the cases in which the registration time fails to identify a
registration; section 4 has the configurations that show it.

### ServiceRequests

One node requests; a provider process is named by its port. `Lookup`, `ProcessRequest`, `Expire`,
`ReceiveFuture`, `ReceiveResponse` are `GravityNode::request` and the request manager's loop, with
`pollItems` in poll order because the search for an expired socket depends on it; `Sync...` the
synchronous request; `Reject`, `Answer`, `Promise...` the service manager; `SendFuture`,
`FutureNotWanted` the application's `sendFutureResponse`. Deadlines pass at some point: how late a
timeout is reported is not modelled. The application answers each promise once. Binding a
service and taking its timestamp are one step (their race is in NodeRegistration). A message to a
port that is closed before it was taken is sent again to the next owner of the port if its sender
still waits (`Kept`), and is lost otherwise. `Offers` says which services a process at a port may
provide: nothing in the code keeps two services from using one port one after the other, but some
properties need it. The clock starts after the first second of the epoch, so no registration time
is 0, the value that stands for none. Ports of future responses are numbers, and different from the
URLs of services, as they are on a host. A socket is erased from `pollItems` at its index
(`Without`), as the code does.

### Subscriptions

One node subscribes to one product, with one filter that everything matches; every product is
cached. `BindPublisher`, `RegisterAtDirectory`, `UnregisterDataProduct`, `Crash` and `Publish` are a
publisher's life; `JoinPublisher`, `OtherNodeJoins` and `JoinUpdates` are subscriptions that arrive at
an XPUB socket, which resends the cached value to all. `SubscribeLookup` and `SubscribeSend` are the
halves of `subscribe()`, `AddSubscription`, `RemoveSubscription`, `SetTimeoutMonitor` and
`ClearTimeoutMonitor` the manager's commands, `TakeMessage` and `RejectMessage` a message, `TakeUpdate` an
update. `state = "elsewhere"` is a publisher registered with another domain's directory. The timestamp is read
before the port is bound: `BindPublisher` takes any timestamp, with `"bindLate"` in `Uses` also one that is
not later than that of the publisher bound before, which is what two nodes racing for a port amount to;
`MaxBinds` bounds how often a port is bound. `overtaken` (ports bound so) and `early` (publishers that
published before they were registered) are history. A message carries its port for the properties; the
code reads no such field. `IsNew` compares messages by their numbers: the code's second test, the same
timestamp with other data, is for two messages published within a microsecond, which numbers tell apart. The
manager's loop is split into one step per command, message and update; closing a socket twice in
one iteration, which the code can do, has no effect here. Not modelled: when monitors fire
(`calculateTimeout`), relays, several filters, products that are not cached, `hasSubscribers`.

`Uses` names what applications may do beyond that: set a monitor first or keep it (`"monitorFirst"`,
`"monitorKept"`), publish from one thread while another registers (`"publishEarly"`), bind late
(`"bindLate"`). The run leaves them out; `SubscriptionsTakeover.cfg` has the last two (section 3), section 7
says what the first two do.

### Heartbeats

Every component is a process with a sender; one node listens for all. `StartHeartbeat` and
`StopHeartbeat` are the calls, `ThreadBegins` and `Beat` the sender thread: the flag `heartbeatRunning` is
static, cleared by the call and set by the thread, so threads overlap and stops come too early
(`Uses`). A thread keeps the registration time it was created with and puts it into every beat (`Send`). What
the listening node makes of it is the subscription manager's work: `FollowDirectory` connects the socket to
the registration the directory lists, `SubscriptionFilled` is the callback for a beat of that registration,
and `RejectBeat` is what happens to any other beat: the socket is deleted and the registration it was opened
for is unregistered as stale. `RegisterHeartbeatListener` and `UnregisterHeartbeatListener` subscribe and
send a command, `HandleRegister`, `HandleUnregister` and `Expire` are rounds of the listener thread; the
listener's callback may change the interval, so `Expire` takes any of `Intervals`. Times are kept as what is
left of them, so the instance needs no horizon: `Tick` lets a unit pass, a beat takes at most `Delay`, and
the listener thread is at most `Lag` late. `quiet` and `steady` are history: how long no beat was noted, and
how long the component has been sending to the node with no thread of another registration.

Abstractions: registration times of one component are reused once nobody knows them, and a new one differs
from all that are known, that is, a heartbeat is not registered twice within a second. The publisher
lookup, the update of RegisteredPublishers and the connection of the socket are one step
(`FollowDirectory`; Subscriptions has them apart), and so are the rejection of a beat and the removal of the
entry. A socket of an earlier registration may or may not be connected to the new port (`Arrives`).

### DomainDiscovery

`Start`, `Stop` and `Broadcast` are the directories of all domains, the own one included: its
broadcasts come back and wake the receiver. `Receive` and `ReceiveTimeout` are rounds of the
receiver's loop, both with the second half that counts missed messages (`CheckExpected`). `timer` is the
socket's timeout, where 0 means to wait for ever, as in the code. `MainLoop` and `Synchronize` carry
out commands. A datagram is lost when the socket is full or by choice.

### DomainSync

The leader is the directory of another domain, with the maps and the rules of ServiceDirectory for
its own domain: `StartLeader`, `RegisterDetails`, `RecordTime` and `RegisterDirectory` are the steps of its start that a
follower can tell apart, `AppRegister`, `AppEnd` and `AppReregister` its components, `Crash` its end. Every
change is published with the whole map and cached (`Message`, `Publish`). The follower's synchronizer
has one action for each branch of its loop: `AddDomain`, `UpdateDomain`, `RemoveDomain`, `EmptyReply` and
`Reply` (the lookup of DomainDetails), `IgnoreMessage` and `TakeMessage` (the check of the registration
time), `Response`. `EndTurn`, the tail of the loop that sends the next queued request, is part of each
of them. The ports of the leader stay the same over a restart, so a SUB socket reconnects to the next
incarnation by itself. `Hear` and `Miss` issue the commands as DomainDiscovery shows them: an Update
only for a domain that was added.

### Reregister

A directory that `Crash`es and `Restart`s knowing nothing; nodes whose listener thread hears start times
in `datagrams`. The thread goes through three stages, each under the lock that the application's
calls take: data products, services, subscriptions (`LockReleased`, `ItemAnswered`, `ItemGivenUp`,
`LeaveStage`). A call of the application waits for the lock, sends its request, which is answered or
fails after its retries, and completes. `JoinUpdates` and `TakeUpdate` are the subscription manager as
far as it follows the directory, and `InitNode` is the part of `init()` that finds the directory: the application makes its
calls once it has succeeded (`initSucceeded`); the code's `initialized`, which is set before the directory has
answered, decides nothing here.
Ports do not change hands here.

### Replay and Playback

`Replay` is the promise: archived products of interest are published in the order of the archive,
each once, up to the end the archive had at one moment, and the replay ends. `Playback` has the
archiver (`Control`, `SubscriptionFilled`, `Write`, `Crash`), the reader thread (`ReaderReads`,
`ReaderContinues`) and the replaying thread (`HasData`, `ReplayReads`, `PopGravityDataProduct`, `Publish`), one
step for each time the mutex is taken. The refinement mapping is `Abstract` in `Playback`: the archive
is the file without the products that are not of interest, its end is found when a read fails, and
counts what is published, held and queued then.

## 3. Runs

Passing runs:

| Run | Shows | Bounds | Distinct states |
|---|---|---|---|
| `ServiceDirectory` | TypeOK, OneProductPerUrl, DetailsTrackDirectory | own domain, RegisteredPublishers and two products, one service, two URLs, three timestamps in two seconds | 27 204 |
| `ServiceDirectoryDomains` | NoLostUpdate, CachedUpdateCurrent | two domains, RegisteredPublishers and one product, two URLs, two timestamps | 137 236 |
| `NodeRegistration` | UndisputedIsListed, UndisputedServiceIsFound | a publisher and a provider that compete for one port, two attempts, timeouts and crashes, three timestamps in two seconds | 1 528 544 |
| `NodeRegistrationOrderly` | ListedIsRegistered, OperationEnds | a publisher, and a node with three offers and one port, no faults, four timestamps | 65 385 |
| `ServiceRequests` | OneOutcome, ExecutedByNamed, FilledByNamed, ProviderStaysListed, RequestEnds | two asynchronous and one synchronous request, one port for two successive providers, one future port, crashes, ports taken by others | 401 124 |
| `Subscriptions` | SubscriptionFollowsDirectory, SubscribersUpToDate, DeliversSubscribedProduct, SocketsDeliverOnce, RegisteredStaysListed | two interchangeable subscribers, one port for successive publishers of two products and two domains, two messages, one monitor | 1 790 032 (up to symmetry) |
| `Heartbeats` | TypeOK, MissedIsSilent, ReceivedIsRecent, AliveIsNotMissed, ReportsGoOn, StoppedSenderEnds | a component whose sender threads overlap, with two registration times, a listener that may be registered twice, for an interval of 2 with beats every 1, and late by 1 | 586 393 |
| `Playback` | PopsWhatIsThere, QueueIsBounded, ReplaysArchive (the refinement), ReaderEnds | five products in calls of one or two, one of two kinds of interest, a reader that waits above 1 | 189 352 |
| `DomainDiscovery` | ThreadsAgree, DeadDomainIsRemoved, LiveDomainIsAdded | the own and another domain, two starts, a receiver late by 1 of an interval of 2, two datagrams | 78 725 |
| `DomainSync` | SettledFollowerHasAll, SettledFollowerIsExact, FollowerCatchesUp | one product at one URL besides the two of the directory itself, two starts of the leader, one removal, two timestamps per second | 915 434 |
| `Reregister` | SettledIsListed, SubscriptionRestored, EndedStaysEnded, RelistedInTheEnd, OperationEnds | a node with a product and a service, a fresh node that subscribes, three starts of the directory, two operations | 456 990 |

Why the bounds are enough for the cases to happen:

- *ServiceDirectory.* A URL changes hands between two products and a service, a registration comes
  late (an older timestamp) and two registrations fall in one second.
- *ServiceDirectoryDomains.* Updates are deferred, flushed and sent, for both domains, whose
  updates share the cache entry of a product.
- *NodeRegistration.* Three timestamps give register, fail or crash, and register again, while a
  request of the first registration is still queued; two attempts give the duplicate. One port lets each
  node take over what the other has left, and two ticks per second let two registrations fall in the same
  second or not; the port is disputed in some of these behaviours and not in others. Checked apart, with
  the same properties: two publishers of different products, which purge each other
  (`NodeRegistrationShared.cfg`, 843 678 states, no error), and, without any exception for ports,
  RegisteredIsListed and RegisteredServiceIsFound for nodes with a port of their own
  (`NodeRegistrationOwnPorts.cfg`, 403 936 states, no error).
- *NodeRegistrationOrderly.* The second node has more offers than ports: NO_PORTS_AVAILABLE, services at
  the empty URL and the conflict between two of them all happen. MaxTime 4 lets it get there.
- *ServiceRequests.* The provider is replaced while a request is on its way; a deadline passes in
  each phase of a request; with one port for futures, two requests compete for it. One of the
  asynchronous requests has no deadline and none of its answers is a promise, the other has both.
  Seconds of two ticks, where a provider may be replaced within a second, were checked apart for
  ProviderStaysListed (`ServiceRequestsSeconds.cfg`, 138 377 states, no error).
- *Subscriptions.* Three registration times in successive seconds (`TicksPerSecond` 1) give a publisher,
  one of another product or domain at the same port, and a third; the subscriber can leave and
  come back. `MaxQueue` 1 and `MaxCommands` 1 bound the waiting messages and commands; the update
  queue is not bounded. One publisher URL besides the directory's is enough to see every race
  about a port; two URLs with one product and one subscriber were checked apart (1.3 million
  states, no error). So were seconds of two ticks with `"bindLate"` and `"publishEarly"` for
  DeliversSubscribedProduct, SocketsDeliverOnce and RegisteredStaysListed (`SubscriptionsTakeover.cfg`,
  1 009 177 states, no error).
- *Heartbeats.* A thread that is stopped and started again overlaps with the new one, with another
  registration time, which is all that more threads could add; two elements of a listener registered twice
  compete for the top of the queue. The instance is closed under time: no clock runs out. Checked apart:
  two components, one of which is never heard, with listeners that change their intervals
  (`HeartbeatListeners.cfg` for MissedIsSilent and ReceivedIsRecent, 942 766 states; `HeartbeatReports.cfg` for
  ReportsGoOn, 279 391 states; no error).
- *Playback.* Five products fill a queue of 1 more than twice, with skipped ones between; the archive
  grows before and after the replay found its end, or ends within a record.
- *DomainDiscovery.* The other directory comes, goes and comes back in the same second or a later
  one; three broadcasts make a domain known and three missed ones make it forgotten; the receiver is
  so late that the time to wait is zero or below, which the code takes for no timeout.
- *DomainSync.* The second incarnation starts while messages, lookups and commands of the first are
  on their way; the product is registered in the same second as DomainDetails and in a later one.
  Two URLs, or a service, with one incarnation were checked apart (70 533 and 29 651 states).
- *Reregister.* The third start falls into the re-registration after the second; both operations may
  come before, between and after. Two URLs for the directory, two starts and three operations were
  checked apart (326 832 states, no error); with two URLs and three starts SettledIsListed fails
  (section 7).

CHECK_DEADLOCK is off except in `Heartbeats`, where time always goes on: applications may stop
calling, and the bounds on timestamps and messages end every behaviour.

`TicksPerSecond` is 10^6 in the code. Values of 1 and 2 separate the two cases that matter: every
registration in a second of its own, or two in the same second.

### Fairness

- *NodeRegistration*: manager threads answer, a poll ends with an answer or a timeout, and the
  directory's loop takes every queued request. The first two are the code's own blocking reads and
  timeouts, the third is an endless loop without other work. Applications and crashes have no
  fairness. `OperationEnds` needs all three.
- *ServiceRequests*: deadlines pass, and the threads of the requesting node run. Nothing is
  assumed of providers or of the network: `RequestEnds` is about requests with a timeout, which end
  whatever the provider does.
- *Heartbeats*, *DomainDiscovery*: every thread that can take a step does, and time passes
  (`[]<><<Tick>>_vars`): a sleep or a poll with a timeout ends. `Tick` waits for a thread that would be
  later than its bound, so lateness is bounded, by `Lag` and `MaxLate`. Calls, starts and stops have no
  fairness.
- *DomainSync*: the leader's start goes on, its components register again after a restart (that is
  Reregister's result), a broadcast arrives in the end, the synchronizer's loop runs, the leader
  answers a lookup, and ZeroMQ carries a subscription to a publisher that is there.
- *Reregister*: the threads of each node run, a poll ends with an answer or a timeout, and of the
  endless broadcasts not all are lost.
- *Playback*: both threads of the replay run. The archiver need not.
- *ServiceDirectory* and *Subscriptions* have safety properties only.

## 4. Where the code and its documentation disagree

The run `DomainSyncRemove` checks *RemovedIsCleared*, which a comment states: "Clear all domain data
from Service Directory" (`ServiceDirectorySynchronizer.cpp:266`). TLC finds it violated. Remove
unregisters every entry with the registration type of the last change and the registration time of
the DomainDetails product; `handleUnregister` compares both, so entries that were registered in
another second, or are of the other type, stay in the own directory after the domain is gone.

More disagreements are kept as configurations that are not part of the regular runs; TLC finds the
one property of each violated. Each states what a comment of the code says, without the exceptions that the
properties of the runs make:

| Configuration | Module | Property, what the code says, and what happens |
|---|---|---|
| `ServiceDirectoryEarlySync.cfg` | `MCServiceDirectory` | *OwnUpdatesNotLost* ("it's safe to start publishing to it", `ServiceDirectory.cpp:710`): a RegisteredPublishers registration of a foreign domain that arrives before the own one sets `registeredPublishersReady`; updates are then published to a product that does not exist yet, and are lost. |
| `NodeRegistrationRace.cfg` | `MCNodeRegistration` | *RegisteredIsListed* ("making it available to the rest of the Gravity-enabled system", `GravityNode.h:446`): the timestamp is read before the port is bound. Node *a* reads its timestamp; *b* reads a later one, binds, registers and leaves the port while its unregistration is still queued; *a* binds the port, its registration is older than the recorded one, and the directory ignores it and answers SUCCESS. |
| `NodeRegistrationService.cfg` | `MCNodeRegistration` | *RegisteredServiceIsFound* ("Register as a service provider with Gravity, and optionally, the Service Directory", `GravityNode.h:472`): two nodes provide one service; the one that was replaced unregisters, with its own URL and time, and the entry of the other is removed. |
| `ServiceRequestsFuture.cfg` | `MCServiceRequests` | *ResponseIsDelivered* ("Called when a response to a request is received", `GravityRequestor.h:46`): the answer to a future response has no registration time, so the request manager takes it for a stale provider's and aborts an asynchronous request. |
| `ServiceRequestsTimeout.cfg` | `MCServiceRequests` | *TimeoutIsReported* ("Called when the response to a request has timed out", `GravityRequestor.h:55`): the search for the socket of an expired request never advances; if it is not the first one the thread is lost. `RequestEnds` excepts this case (`stuck`). |
| `SubscriptionsSameSecond.cfg` | `MCSubscriptions` | *RegistrationTimeIdentifies* ("will serve as a unique identifier for this registered publication", `GravityNode.cpp:1450`): two publishers at one port within a second have the same identifier, and the data of one reaches the subscribers of the other's product. |
| `SubscriptionsResent.cfg` | `MCSubscriptions` | *DeliversInOrder* ("make sure this is new data", `GravitySubscriptionManager.cpp:332`): an update that was delayed in transit past the lookup of a second subscribe() replaces a socket that was up to date, the next update replaces it again, and a cached value is delivered twice. |
| `HeartbeatsTwice.cfg` | `MCHeartbeats` | *MissedIsAlwaysSilent* ("to be called when we don't get a heartbeat", `GravityNode.h:489`): a listener that is registered twice has two elements in the queue; the first to expire takes the beat away and the other reports a miss. |
| `HeartbeatsLateReport.cfg` | `MCHeartbeats` | *ReceivedIsAlwaysRecent* ("Called when another component's heartbeat is received", `GravityHeartbeatListener.h:55`): a beat noted before the listener was registered is told to it an interval later. `unregisterHeartbeatListener` unsubscribes a static object that was never subscribed, so beats are noted while nobody listens. |
| `HeartbeatsLostStop.cfg` | `MCHeartbeats` | *StoppedSenderEnds* ("Send signal to heartbeat thread to stop", `GravityNode.cpp:2459`), with `"earlyStop"` in `Uses`: a stop before the new thread has run is lost, since the thread sets the flag itself, and goes on for a product that is no longer registered. |
| `HeartbeatsOverlap.cfg` | `MCHeartbeats` | *StartedIsReceived* ("Starts a heart beat for this GravityNode", `GravityNode.h:407`): after a stop and a start within an interval the old thread goes on with the old registration time; the subscriber rejects its beats, deletes the socket and has the new registration removed from the directory, and the component is reported missed for ever. |

## 5. Proofs

`ServiceDirectoryProofs` proves, for every set of domains, products, services and URLs, every
`MaxTime` and every `TicksPerSecond`:

- **TypeCorrect**: `Spec => []TypeOK`. One lemma per action, resting on lemmas about the helpers
  (`Purged`, `Touched`, `PurgedInstances`, `PurgeChanges`, `PublishUpdates`).
- **OneProductPerUrlInvariant**: `Spec => []OneProductPerUrl`. Inductive with TypeOK: `Entered` replaces
  the entry of the URL and `Purged` removes the URL from every other product.
- **NoLostUpdateInvariant**, assuming `SyncBeforeReady = FALSE`. NoLostUpdate is not inductive: nothing in
  it says that ready means bound, or that there is nothing published for foreign domains before the
  product is ready. `ReadyInv` adds this (processed and ready agree, ready implies bound, foreign
  maps are empty before). `PublishKeepsUpdates` is the heart: if a request changes at most the pairs
  it names, `PublishUpdates` keeps the invariant; `ChangesCovered` shows that every action names the
  pairs it changes.
- **CachedUpdateCurrentInvariant**, under the same assumption. `CacheInv` adds that nothing is cached
  before the product is ready and that the cached update is of one domain; a request sends updates
  of one product for one domain only.
- **DetailsTrackDirectoryHolds**: `Spec => DetailsTrackDirectory`, an action property. It needs
  OneProductPerUrl: only then does the REMOVE of a purged or unregistered publisher leave no other
  entry at the URL.

The assumption `SyncBeforeReady = FALSE` is necessary: `ServiceDirectoryEarlySync` is the counterexample
without it. The constants' assumptions (`DomainAssumption`, `ProductAssumption`, `UrlAssumption`,
`SyncAssumption`, `TimeAssumption`) say that the own domain, the RegisteredPublishers product and the
"no URL" value are what their names say, and that times are natural numbers.

`ServiceRequestsProofs` proves of the composed requests, for any requests, ports, faults and
providers:

- **OneOutcomeHolds**: `SystemSpec => []OneOutcome`. `RequestInv` relates what the code keeps apart: the
  request manager polls only sockets of requests under way, each once (`Polled`); a message or
  a response belongs to a request in the phase of its socket (`Exchanged`), and there is one of them
  per socket (`OneMessage`); only an ended request, or the one the thread is stuck at, has an outcome.
- **DirectoryImplemented**: `SystemSpec => Spec` of ServiceDirectory. Every request that reaches the
  directory is one of the requests ServiceDirectory allows, which needs the types of everything it is
  made from (`SystemType`). The theorems above carry over.
- **ExecutedByNamedHolds** and **FilledByNamedHolds**, assuming `OneServicePerUrl` (a port has one service;
  providers of a service may have several ports). `NamedInv` says that the directory lists a service
  at one of its ports with a real registration time, that callers, notices and messages name such a
  port, and that a response carries the registration time of who made it.
- **ProviderStaysListedHolds**, assuming also `OneUrlPerService` (a service has one port), for any length of a
  second. The property itself excepts a provider that shares its registration time with another one at
  the port (`SharedTime`), which a notice cannot tell apart. `TimesInv` follows the registrations ever started
  at a port (`started`, history): what the directory has, what callers were told and what has answered
  are times of such registrations, and a notice is about one that is over or shares its second with another
  (`Over`). A stale answer proves that the registration looked up is not the one that answered, which is why
  reporting the looked-up one is safe.

The two assumptions are needed. With two services at a port TLC finds ExecutedByNamed violated. And of two
providers of one service the directory lists the last, so ProviderStaysListed cannot hold of both.

`NodeRegistrationProofs` proves of nodes and directory, for any nodes, offers, ports, faults and numbers of
attempts:

- **DirectoryImplemented**: `SystemSpec => Spec` of ServiceDirectory, as above.
- **UndisputedIsListedHolds** and **UndisputedServiceIsFoundHolds**, without any assumption: nodes share ports, have
  any offers, any number of ticks make a second, and both faults happen. Neither property says anything of
  the requests that are still queued, any of which could undo a registration. `UndisputedInv` does:
  - a port is bound once (`BoundOnce`), and an answer is to the attempt being waited for (`RepliesInv`);
  - at a port that is not disputed, everything under way and everything the directory has recorded is of an
    earlier second than what is bound, except requests to register just that; when nothing is bound, than
    what was bound last (`ClearTimes`, with `NoneNewer` and `Latest`);
  - where something is bound, either no registration of anything else is under way there or no publisher is
    there to be purged (`CalmInv`), so that no purge erases the instance;
  - a service has a request or an entry only at its `homes` (`HomesInv`);
  - the directory goes by the time of what was answered, or by none while nobody else will come (`Held`), and
    then lists it (`KeptInv`): a request that is handled later is older, and is turned down or does not match,
    or is the same once more.
- **ListedPublishersAreOwned**, assuming `Faults = {}` (requests are answered before the timeout and no process
  dies) and nothing of ports, products and seconds: whatever publisher the directory lists, and with
  whatever registration time, is one that a node has registered or has a request to unregister queued
  for (`ListedOwned`). Without faults each request in the queue is the one its node is waiting for (`Orderly`)
  and a node knows the time of what it has at a port (`UrlTimes`), so the entry and the unregistration
  that is to remove it always agree.
- **ListedIsRegisteredHolds**, assuming `OwnPorts`, `Faults = {}` and `OneCrowded` (at most one node may run out
  of ports for its services, which are then registered with the empty URL, all at one instance). An
  unregistration of a service is found by the time of the URL, not of the service, so the invariant
  follows that time: `TimesNamed` says that the time a node would name for the URL of a service it has,
  if it would name one, is the one the directory has recorded. It rests on the order of times at a port
  that one node alone can bind (`TimesInv`: nothing under way there is newer than what is bound) and at the
  empty URL (`EmptyTimes`).

The last two need their assumptions: section 7 has the counterexamples. That the first two need their
exceptions is shown by `NodeRegistrationRace` and `NodeRegistrationService` of section 4.

`SubscriptionsProofs` proves of subscribers, publishers and directory, for any products, ports, publishers,
subscribers, monitors and numbers of messages, and for queues of any length:

- **SubscribersUpToDateHolds**, without further assumptions. Every step is first put into one of a few
  shapes that say what it does to the sockets, the queues and the caches (`AnyStep`, lemma `StepEffects`); the
  rest of the proofs is about the shapes. The invariant `DeliveryInv` says that messages are numbered as
  they are published and kept at the URL of their publisher only (`ValuesInv`), that queues are in order
  and nothing in them or taken from them is newer than the cache (`OrderInv`), that the newest message of a
  socket that joined is the one that is cached (`NewestInv`), and that subscribers have every message their
  manager took last (`GotInv`). What a subscriber that comes late is given is all of them, in order
  (`LastValuesInOrder`, by a least counterexample).
- **SubscriptionFollowsDirectoryHolds**, assuming `MonitorsSubscribed` (no monitor is set before the first
  subscribe or left by the last subscriber). The last update that waits is the listing (`UpdatesInv`); a
  publisher that the directory lists has a socket, or a request to remove it is on its way (`FollowInv`).
  That a subscription has an update socket while there are commands on their way is `TraceInv`: they lead
  from the members the manager has to those the applications want, one step at a time.
- **DeliversSubscribedProductHolds** and **SocketsDeliverOnceHolds** (an action property), for every length of a second
  and all `Uses`. Away from ports that were overtaken, `TimesInv` makes the registration time the name of one
  publisher wherever it is remembered: in the directory, in updates and lookups on their way, in sockets
  (`ToldInv`) and in messages (`MessagesInv`); what was received is older than all that waits with its time
  (`ReceivedInv`).
- **RegisteredStaysListedHolds**, likewise; besides overtaken ports the property excepts publishers that published
  before they were registered. `StaleInv`: a socket that is for a publisher that runs has only messages of it
  waiting, so no request to unregister it is ever made; `InstancesInv`: the directory's instance of its port
  is its own.

TLC has counterexamples without the assumption `MonitorsSubscribed` (section 7) and without the exception for
overtaken ports (`SubscriptionsSameSecond` of section 4).
`SubscriptionAssumption` asks for a finite set of URLs (a manager has finitely many sockets, which it goes
through) and for clocks that reach the first second.

`HeartbeatsProofs` proves, for any components, intervals, delays, lags and numbers of threads, and for every use
of the API, overlapping threads, lost stops and listeners registered twice included:

- **TypeCorrect** and **ReceivedIsRecentHolds**. The latter rests on `NotedSince`: a beat that is noted was noted
  after the element was put into the queue.
- **MissedIsSilentHolds**, of listeners that are registered once, by `QuietSince`: the silence is at least as long as
  the only element of the component has waited.
- **AliveIsNotMissedHolds**, by `SteadyIsSending` and `BeatsCover` as well: looking back any time within which the
  component has been sending with no thread left over from another registration, a beat sent by then is
  still under way, at the socket and with its time, or one has been noted since.

`PlaybackProofs` proves, for any archive, capacity and list of products:

- **PopsWhatIsThereHolds** and **QueueIsBoundedHolds**. The bound is inductive with `QueueRoom`: the queue exceeds
  `Capacity + 1` only while the replaying thread is about to take from it.
- **ReplaysArchiveSafelyHolds**: `Spec => Abstract!Init /\ [][Abstract!Next]_...`, the safety part of the property
  ReplaysArchive. The invariant is `ReadInv`: what is published, held and queued is what the part of the
  file that was read has of interest, in order.

`DomainProofs` proves **ThreadsAgreeHolds**, of DomainDiscovery, for any finite set of domains (the receiver's maps are
finite), any counts and rates and any lateness. The invariant is about command sequences: each command
fits the map it will meet when those before it have been carried out. What a sequence of
commands does is defined without recursion (`Applied`); where an argument needs induction along a
sequence, the proof takes a least counterexample (`WFMin`).

Of DomainSync it proves, for any products, services and URLs (none or infinitely many), any numbers of
starts, removals and commands and any resolution of the timestamps:

- **SettledFollowerHasAllHolds**: a follower that has handled everything lists what the leader lists, also
  after restarts and removals. The property speaks of one kind of state, the invariant of all:
  - `LeaderInv` is about the leader's side alone: its maps agree with one another (`Faithful`), and no two
    registrations share a URL or a service. Every action of that side is one of five kinds of steps (start, add
    one, drop one, rest, crash), which is all that the other parts look at.
  - `BaseInv` adds the types, the cached message (it has the present map), the order of commands and what the
    socket is used for: a follower that knows of the present incarnation and has carried out its commands
    (`CaughtUp`) waits for messages of the present registration time.
  - `Latest`: no timestamp in the follower's maps, the queue, on the wire or in the cache is later than that of
    the registration that is at the URL now, so the follower's directory never ignores it.
  - `Follows`: for each entry of the leader, the follower will list it (`Will`): it is listed, or a queued
    request or a message on the wire brings it, and nothing behind that touches it.
- **SettledFollowerIsExactHolds**: it lists nothing else, as long as the leader has not restarted and no domain
  was removed. `AloneOK` is the other direction: every entry that the follower has or will get is one of the
  leader's, or meets the unregistration that removes it before anything else touches it (`Fate`,
  `WireFate`); `Stamped` says that nothing on its way has timestamp 0, which stands for no instance.

Both assume `Orderly` (components unregister before they end), as the run does; section 7 has the counterexample
without it.

`ReregisterProofs` proves, for any nodes, offers, subscribers and numbers of restarts and operations:

- **EndedStaysEndedHolds**, an action property, from the mutual exclusion of listener and application.
- **NothingLostHolds**: what a node that has caught up has registered is listed. For every stage of the
  re-registration, `Relists` says that what the stage has gone through is listed, and that what is listed
  for a node is never newer than what the node holds (or the directory would ignore it).
- **SettledIsListedHolds**: the other inclusion too, with `NothingElse`: whatever is listed of a node is what
  it holds, or what a call of its application is registering or unregistering.

- **SubscriptionRestoredHolds**, assuming that RegisteredPublishers has one URL over all restarts, and nothing
  else: requests may be given up and start times go back. `AllInformed` says that a subscription has an
  update socket, and that once it has joined, what it is connected to or will be after reading its
  update contains what is listed; the cache of the directory, which it gets when it joins, is the
  list (`CacheInv`).

NothingLost and SettledIsListed assume `Slow = FALSE` (a directory that is up answers before a node gives
up) and `StartSteps \subseteq Nat \ {0}` (each start is later than the one before, in the resolution of
the broadcast); SettledIsListed also that the directory starts again at its URL. Section 7 has the
counterexample to each.

All these theorems were model-checked first: the property in the run, the inductive invariant in a
configuration made for it. Definitions that a proof is about are written without recursion; the MC
modules have assumptions that TLC evaluates and that compare them with the loops of the code on small
inputs (`InterestingIsSelectSeq`, `TimeoutIsLoop`, `AppliedIsCarriedOut`).

Every invariant and every action property that a passing run checks is the statement of a theorem. Only
model-checked is liveness, which is beyond the prover: OperationEnds, RequestEnds, ReportsGoOn,
StoppedSenderEnds, ReaderEnds, the fairness of Replay (the rest of ReplaysArchive), DeadDomainIsRemoved,
LiveDomainIsAdded, FollowerCatchesUp and RelistedInTheEnd.

## 6. Mutants

Every property of a passing run has a mutant in `PROJECT.json`: a definition named "Mutant of X" in the
module, which changes X as a plausible bug would (a comparison dropped, an entry not replaced, an
update forgotten, the wrong registration reported as stale). With it TLC finds the property
violated under the run's own configuration.

## 7. Known behaviours without a run

These were met while modelling; the models contain all groups but the last, and the runs' constants
avoid them or their properties allow for them.

- *Subscriptions.* With `Uses = {"monitorFirst"}` (a monitor set before the first subscribe) or
  `{"monitorKept"}` (the last subscriber leaves while a monitor is set) SubscriptionFollowsDirectory fails:
  details made by `setTimeoutMonitor` have no update socket, and closed sockets stay in `pollItemMap`.
  With `{"publishEarly"}` (one thread publishes while another registers) a registered publisher may be removed:
  the message carries registration time 0, stays cached, and makes subscribers report the new publisher
  (RegisteredStaysListed excepts it: `early`).
- *ServiceRequests.* `ReturnedIsResponse` fails with `Faults = {"crash", "slow"}`, one asynchronous and one
  synchronous request, both timed and answered with promises: the port of a future response that was
  given up is used by the next one, and its answer goes to the wrong caller. With several services
  at one port a synchronous request, which carries no registration time, may be executed by
  another service than the one it is for, and an asynchronous one too: the directory looks the
  registration time up by the URL, so a caller who asks for the old service is told the time of the
  new one. With `TicksPerSecond` 2 the notice about a provider that has left removes the entry of the next one,
  if that registered at the port in the same second (ProviderStaysListed excepts it).
- *NodeRegistration.* What happens at disputed ports: with two products at one port a purge erases the
  instance the new registration had just recorded, after which a delayed duplicate of an old
  registration is accepted; a late unregistration removes a registration made in the same second; and a
  registration with an older stamp is ignored (`NodeRegistrationRace`).
  With two ports a provider that crashed and registered again at the other port is replaced by its own
  late registration at the first one (RegisteredServiceIsFound).
  ListedIsRegistered fails with timeouts or crashes (what a node that died had registered stays listed, and
  so does what a node gave up on), when a publisher binds the port a provider has left and its
  registration is handled before the unregistration of the service, which then names a time that is no
  longer that of the URL, and when two nodes register services with the empty URL: each unregisters
  with the time of its own registration, and the directory has one time for that URL.
  A service registered with no port left is listed at the empty URL and SUCCESS is returned; a
  second one makes `unregisterService` return with its lock held, and every later service call of the
  node waits for ever (`blocked`).
- *Heartbeats.* Section 4 has them: a second registration, a beat from before the registration, a lost
  stop and the thread of an earlier registration. With beats of a leftover thread still coming, a component
  that sends may be reported missed; AliveIsNotMissed and ReportsGoOn speak of components without one.
- *DomainDiscovery.* With `BroadcastEnabled = FALSE` DeadDomainIsRemoved fails: a time to wait of 0 is
  taken for a timeout that is not set, and nothing wakes the receiver again. `subtractTime` does not
  borrow a second. While broadcasts keep coming late, a domain stays below the count that connects it.
- *DomainSync.* With `Orderly = FALSE` and two products (a component ends without unregistering and
  another one takes its URL) SettledFollowerHasAll fails: the purge erases the registration time that
  was just recorded for the URL, and a follower that takes the whole map afterwards lists the product
  with time 0. After a restart of the leader the follower may list more than it does: what the first
  incarnation listed and the second does not is never removed. A connection that is
  lost and restored within one incarnation would not reset `initialized`, so a change missed in
  between is lost; the model has no such loss. The first DomainDetails message has registration
  time 0 and is ignored.
- *Reregister.* With two `UpdatesUrls` SubscriptionRestored fails: the update socket is opened once. With
  0 in `StartSteps` (restarted in the same second, or with a clock that went back) or `Slow = TRUE` (the
  directory is up and does not answer in time) SettledIsListed fails: the start time is remembered
  whatever the requests returned, and nothing tries again. With two `DirectoryUrls` and three starts
  SettledIsListed fails as well: a listener that acts on an older broadcast sends requests to the old
  URL, an unregistration times out there, and the entry stays listed. Every restart doubles `subscriptionList`.
  While nodes register again, an update that names a part of the publishers closes the sockets of the
  others until they are listed. An unregistration during an outage is not told to subscribers. A
  registration after a restart leaves out `is_relay` and `ip_address`. A second `init()` reads the oldest
  URL that is queued.
- *Not in the models.* `nextTimeout` mixes a remaining with an absolute time; `sendFutureResponse`
  for a URL that is no longer known sends no answer, and its caller waits; `setTimeoutMonitor` for a new
  filter discards the details of the others; `hasSubscribers` is cleared by any unsubscription; the
  first subscriber decides for all whether cached values are taken (SubscribersUpToDate is stated for
  the case that it wants them); callbacks may come after `unsubscribe()` has returned; an update that
  replaces a socket, and a message of the new publisher at the old one, may be handled in one
  iteration of the subscription manager.

## 8. Not modelled

- Relay and `trimPublishers` (which of several publishers a subscriber connects to, by component and
  address), several filters of a product, `hasSubscribers` and the times at which monitors fire: planned
  extensions of Subscriptions.
- The start of the manager threads and the destructor: they run before and after everything else.
- Metrics: counters sampled by a thread, which influence no other state.
- Logging and the log recorder: output. Configuration: parsing at the start.
- Serialization and socket helpers (their effect is part of the actions that call them) and protocol
  buffer definitions (the records of the modules).
- The Java, Python, Rust, .NET and MATLAB bindings: wrappers of the C++ calls.

## 9. Plan

Done: all modules of section 2, and the proofs of section 5. Left, in order:

1. Subscriptions extended: two filters, `hasSubscribers`, relays and `trimPublishers`, the times at
   which monitors fire.
