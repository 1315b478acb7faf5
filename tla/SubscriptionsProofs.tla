------------------------ MODULE SubscriptionsProofs ------------------------
(***************************************************************************)
(* Proofs about publish and subscribe, for any URLs, products, subscribers *)
(* and monitors, and any publishers that come and go at a port.            *)
(***************************************************************************)
EXTENDS Subscriptions, ServiceDirectoryProofs, SequenceTheorems,
        FiniteSetTheorems, WellFoundedInduction

(***************************************************************************)
(* Types.                                                                  *)
(***************************************************************************)

\* What the directory lists of the product, the socket for a URL, the
\* messages that wait at it, and the updates that wait.
Listing == dataProductMap[OwnDomain][SubscribedID]
Socket(u) == subscription.pollItemMap[u]
Queue(u) == subscription.pollItemMap[u].waiting
Pending == subscription.updates.waiting

\* Registration times of publishers, and publishers of the product.
Times == 1 .. Secs(MaxTime)
Infos == [url : PublisherUrls, registration_time : Times]

Message == [id : ProductIDs, url : PublisherUrls, regTime : Times \cup {0},
            value : Nat \ {0}, cached : BOOLEAN]
MaybeMessage == Message \cup {NoMessage}

SocketType ==
    [regTime : Times \cup {0, -1}, open : BOOLEAN, joined : BOOLEAN,
     last : MaybeMessage, waiting : Seq(Message)]

UpdatesType == [open : BOOLEAN, joined : BOOLEAN, waiting : Seq(SUBSET Infos)]

DetailsType ==
    [receiveCached : BOOLEAN, subscribers : SUBSET Subscribers,
     monitors : SUBSET Monitors, updates : UpdatesType,
     pollItemMap : [Urls -> SocketType]]

PublisherType ==
    [id : ProductIDs \ {RegisteredPublishersID}, timestamp : Timestamps,
     state : {"bound", "elsewhere", "registered"}]

CallType == [subscriber : Subscribers, found : SUBSET Infos]

SubscriberCommands ==
    [op : {"subscribe", "unsubscribe"}, who : Subscribers, found : SUBSET Infos]
MonitorCommands ==
    [op : {"set_monitor", "clear_monitor"}, who : Monitors, found : {{}}]
CommandType == SubscriberCommands \cup MonitorCommands

PublishersType ==
    /\ latest \in [PublisherUrls -> Timestamps \cup {0}]
    /\ overtaken \in SUBSET PublisherUrls
    /\ bound \in [PublisherUrls -> PublisherType \cup {Nobody}]
    /\ \A u \in PublisherUrls : bound[u] # Nobody =>
          bound[u].timestamp = latest[u] /\ Secs(latest[u]) > 0
    /\ lastCached \in [PublisherUrls -> MaybeMessage]
    /\ published \in Nat

RequestsType ==
    \A unreg \in unregistrations :
        /\ unreg \in DataUnregistration
        /\ unreg.url \in PublisherUrls /\ unreg.domain = OwnDomain

NodeType ==
    /\ call \in CallType \cup {NoCall}
    /\ subscriptionList \in SUBSET Subscribers
    /\ monitorList \in SUBSET Monitors
    /\ commands \in Seq(CommandType)
    /\ subscription \in DetailsType
    /\ received \in [Subscribers -> Seq(Message)]

\* The directory is ready, and nothing it lists is withheld.
DirectoryInv ==
    /\ TypeOK /\ OneProductPerUrl
    /\ registeredPublishersBound /\ registeredPublishersReady
    /\ registeredPublishersProcessed
    /\ Listing \subseteq Infos
    /\ publishedUpdates[OwnDomain][SubscribedID] = Listing
    /\ cachedUpdates[SubscribedID] = {} => Listing = {}

\* Only an open socket has messages, and none is connected to the directory.
SocketsInv ==
    /\ \A u \in Urls : Socket(u).open => Socket(u).regTime \in Times
    /\ \A u \in Urls :
          ~Socket(u).open => Socket(u) \in {NoSocket, ClosedSocket}
    /\ Socket(DirectoryUrl) \in {NoSocket, ClosedSocket}

SystemType ==
    PublishersType /\ RequestsType /\ NodeType /\ DirectoryInv /\ SocketsInv

-----------------------------------------------------------------------------
(***************************************************************************)
(* The directory.                                                          *)
(***************************************************************************)

\* The entry the directory has for the publisher at u.
EntryOf(u) == [url |-> u, registration_time |-> RegTime(u)]

\* What a publisher registers is a request the directory knows.
LEMMA RegistrationType ==
    ASSUME PublishersType, NEW u \in PublisherUrls, bound[u] # Nobody
    PROVE  /\ Registration(u) \in DataRegistration
           /\ Registration(u).id = bound[u].id
           /\ Registration(u).url = u /\ Registration(u).domain = OwnDomain
           /\ Registration(u).timestamp = bound[u].timestamp
           /\ bound[u].id \in ProductIDs \ {RegisteredPublishersID}
           /\ RegTime(u) \in Times
           /\ EntryOf(u) \in Infos
<1>1. bound[u] \in PublisherType /\ u \in Urls
  BY DEF PublishersType, PublisherUrls
<1>2. /\ bound[u].timestamp \in Nat /\ MaxTime \in Nat
      /\ Secs(bound[u].timestamp) > 0 /\ bound[u].timestamp <= MaxTime
  BY <1>1, TimeAssumption DEF PublishersType, PublisherType, Timestamps
<1>3. RegTime(u) \in Times
  <2>1. Secs(bound[u].timestamp) \in Nat
    BY <1>2, SecsMonotone
  <2>2. Secs(MaxTime) \in Nat /\ Secs(bound[u].timestamp) <= Secs(MaxTime)
    BY <1>2, SecsMonotone
  <2>3. QED BY <1>2, <2>1, <2>2 DEF RegTime, Times
<1>4. QED
  BY <1>1, <1>3, DomainAssumption
  DEF Registration, DataRegistration, PublisherType, EntryOf, Infos

\* Once RegisteredPublishers is ready, an update goes out for every list that
\* changes, and at once.
LEMMA PublishedAtOnce ==
    ASSUME DirectoryInv, NEW changed \in SUBSET (Domains \X ProductIDs),
           PublishUpdates(changed, TRUE), Changes(changed),
           UNCHANGED registeredPublishersBound
    PROVE  /\ registeredPublishersReady' /\ registeredPublishersProcessed'
           /\ publishedUpdates'[OwnDomain][SubscribedID]
                 = dataProductMap'[OwnDomain][SubscribedID]
           /\ cachedUpdates'[SubscribedID] = {} =>
                 dataProductMap'[OwnDomain][SubscribedID] = {}
<1> DEFINE pair == <<OwnDomain, SubscribedID>>
           sent == SentFor(SubscribedID, changed, TRUE)
<1>1. OwnDomain \in Domains /\ SubscribedID \in ProductIDs
  BY DomainAssumption, SubscriptionAssumption
<1>2. registeredPublishersReady' /\ registeredPublishersProcessed'
  BY DEF PublishUpdates
<1>3. OwnDomain \in sent <=> pair \in changed
  BY <1>1 DEF SentFor, Sent, Flushed, DirectoryInv
<1>4. publishedUpdates'[OwnDomain][SubscribedID] =
         IF OwnDomain \in sent THEN dataProductMap'[OwnDomain][SubscribedID]
         ELSE publishedUpdates[OwnDomain][SubscribedID]
  BY <1>1 DEF PublishUpdates
<1>5. cachedUpdates'[SubscribedID] =
         IF sent = {} THEN cachedUpdates[SubscribedID] ELSE sent
  BY <1>1 DEF PublishUpdates
<1>6. pair \notin changed => dataProductMap'[OwnDomain][SubscribedID] = Listing
  BY <1>1 DEF Changes, Listing
<1> HIDE DEF sent, pair
<1>7. QED
  BY <1>2, <1>3, <1>4, <1>5, <1>6 DEF DirectoryInv

\* A step that leaves the directory alone.
LEMMA DirectoryKept ==
    ASSUME SystemType, UNCHANGED vars
    PROVE  DirectoryInv' /\ UNCHANGED <<dataProductMap, Listing>>
<1>1. UNCHANGED <<dataProductMap, publishedUpdates, cachedUpdates,
                  registeredPublishersBound, registeredPublishersReady,
                  registeredPublishersProcessed>>
  BY DEF vars, mapVars, updateVars
<1>2. TypeOK' /\ OneProductPerUrl'
  BY TypeStep, OneProductStep DEF DirectoryInv, SystemType
<1>3. QED
  BY <1>1, <1>2 DEF DirectoryInv, SystemType, Listing

\* The directory takes the registration of a publisher: the publisher is
\* listed, if the directory has no later registration of the URL, and so is
\* everybody at another URL.
LEMMA RegisterStep ==
    ASSUME SystemType, NEW u \in PublisherUrls, RegisterAtDirectory(u)
    PROVE  /\ DirectoryInv'
           /\ \A p \in Listing' : \/ p \in Listing
                                  \/ /\ p = EntryOf(u)
                                     /\ bound[u].id = SubscribedID
           /\ Accepted(Registration(u)) =>
                 EntryOf(u) \in dataProductMap'[OwnDomain][bound[u].id]
           /\ \A i \in ProductIDs : \A p \in dataProductMap[OwnDomain][i] :
                 p.url # u => p \in dataProductMap'[OwnDomain][i]
<1> DEFINE reg == Registration(u)
<1> USE DEF Listing
<1>1. bound[u] # Nobody
  BY DEF RegisterAtDirectory, Nobody
<1>2. /\ reg \in DataRegistration /\ reg.id = bound[u].id /\ reg.url = u
      /\ reg.domain = OwnDomain /\ reg.timestamp = bound[u].timestamp
      /\ reg.id \in ProductIDs /\ EntryOf(u) \in Infos
  BY <1>1, RegistrationType DEF SystemType
<1>3. EntryOf(u) = [url |-> reg.url, registration_time |-> Secs(reg.timestamp)]
  BY <1>2 DEF EntryOf, RegTime
<1>4. OwnDomain \in Domains /\ SubscribedID \in ProductIDs
  BY DomainAssumption, SubscriptionAssumption
<1>5. TypeOK /\ DirectoryInv
  BY DEF SystemType, DirectoryInv
<1>6. RegisterDuplicate(reg) \/ RegisterPublisher(reg)
      \/ (~Accepted(reg) /\ UNCHANGED vars)
  BY DEF RegisterAtDirectory
<1>7. RegisterDuplicate(reg) \/ RegisterPublisher(reg)
         => TypeOK' /\ OneProductPerUrl'
  <2>1. RegisterDuplicate(reg) \/ RegisterPublisher(reg) => Next
    BY <1>2 DEF Next
  <2>2. QED BY <1>5, <2>1, TypeStep, OneProductStep DEF DirectoryInv
<1>8. ReadyAfter(reg) = TRUE
  BY <1>5 DEF ReadyAfter, DirectoryInv
<1> HIDE DEF reg
<1>9. CASE RegisterDuplicate(reg)
  <2>1. /\ UNCHANGED <<dataProductMap, registeredPublishersBound>>
        /\ PublishUpdates({}, TRUE)
        /\ EntryOf(u) \in dataProductMap[OwnDomain][bound[u].id]
    BY <1>2, <1>3, <1>8, <1>9 DEF RegisterDuplicate, Listed
  <2>2. Changes({})
    BY <2>1 DEF Changes
  <2>3. DirectoryInv'
    BY <1>5, <1>7, <1>9, <2>1, <2>2, PublishedAtOnce DEF DirectoryInv
  <2>4. QED BY <2>1, <2>3
<1>10. CASE RegisterPublisher(reg)
  <2>1. /\ dataProductMap' = Purged(Entered(reg), reg.id, reg.url)
        /\ UNCHANGED registeredPublishersBound
        /\ PublishUpdates(PublisherChanges(reg), TRUE)
    BY <1>8, <1>10 DEF RegisterPublisher, PublisherChanges
  <2>2. Changes(PublisherChanges(reg))
        /\ PublisherChanges(reg) \in SUBSET (Domains \X ProductIDs)
    BY <1>2, <1>5, <1>10, ChangesCovered
  <2>3. \A i \in ProductIDs : dataProductMap'[OwnDomain][i] =
           {p \in dataProductMap[OwnDomain][i] : p.url # u} \cup
           (IF i = reg.id THEN {EntryOf(u)} ELSE {})
    BY <1>2, <1>3, <1>4, <1>5, <2>1 DEF Purged, Entered, TypeOK
  <2>4. Listing' \subseteq Infos
    BY <1>2, <1>4, <1>5, <2>3 DEF DirectoryInv
  <2>5. DirectoryInv'
    BY <1>5, <1>7, <1>10, <2>1, <2>2, <2>4, PublishedAtOnce DEF DirectoryInv
  <2>6. QED BY <1>2, <1>4, <2>3, <2>5
<1>11. CASE ~Accepted(reg) /\ UNCHANGED vars
  <2>1. DirectoryInv' /\ UNCHANGED dataProductMap
    BY <1>11, DirectoryKept
  <2>2. QED BY <1>11, <2>1 DEF reg
<1>12. QED BY <1>6, <1>9, <1>10, <1>11

\* The directory takes an unregistration request: what it names is listed no
\* more, and all the rest is.
LEMMA UnregisterStep ==
    ASSUME SystemType, NEW unreg \in unregistrations, TakeUnregistration(unreg)
    PROVE  /\ DirectoryInv'
           /\ Listing' \subseteq Listing
           /\ \A p \in Listing' :
                 Unregistration(SubscribedID, p.url, p.registration_time) # unreg
           /\ \A i \in ProductIDs : \A p \in dataProductMap[OwnDomain][i] :
                 \/ p \in dataProductMap'[OwnDomain][i]
                 \/ /\ i = unreg.id /\ p.url = unreg.url
                    /\ p.registration_time = unreg.registration_time
<1> DEFINE entry == [url |-> unreg.url,
                     registration_time |-> unreg.registration_time]
<1> USE DEF Listing
<1>1. /\ unreg \in DataUnregistration /\ unreg.id \in ProductIDs
      /\ unreg.domain = OwnDomain
  BY DEF SystemType, RequestsType, DataUnregistration
<1>2. OwnDomain \in Domains /\ SubscribedID \in ProductIDs
  BY DomainAssumption, SubscriptionAssumption
<1>3. TypeOK /\ DirectoryInv
  BY DEF SystemType, DirectoryInv
<1>4. \A p \in Listing :
         /\ p = [url |-> p.url, registration_time |-> p.registration_time]
         /\ Unregistration(SubscribedID, p.url, p.registration_time) = unreg =>
               unreg.id = SubscribedID /\ p = entry
  BY <1>3 DEF Unregistration, DirectoryInv, Infos
<1>5. CASE RegisteredPublisher(unreg)
  <2>1. UnregisterPublisher(unreg)
    BY <1>5 DEF TakeUnregistration
  <2>2. TypeOK' /\ OneProductPerUrl'
    <3>1. Next
      BY <1>1, <2>1 DEF Next
    <3>2. QED BY <1>3, <3>1, TypeStep, OneProductStep DEF DirectoryInv
  <2>3. /\ dataProductMap' =
              [dataProductMap EXCEPT ![OwnDomain][unreg.id] = @ \ {entry}]
        /\ UNCHANGED registeredPublishersBound
        /\ PublishUpdates({<<OwnDomain, unreg.id>>}, TRUE)
    BY <1>1, <1>3, <2>1 DEF UnregisterPublisher, DirectoryInv
  <2>4. Changes({<<OwnDomain, unreg.id>>})
        /\ {<<OwnDomain, unreg.id>>} \in SUBSET (Domains \X ProductIDs)
    BY <1>1, <1>2, <1>3, <2>1, ChangesCovered
  <2>5. \A i \in ProductIDs : dataProductMap'[OwnDomain][i] =
           dataProductMap[OwnDomain][i] \ (IF i = unreg.id THEN {entry} ELSE {})
    BY <1>1, <1>2, <1>3, <2>3 DEF TypeOK
  <2>6. Listing' \subseteq Listing
    BY <1>2, <2>5
  <2>7. DirectoryInv'
    BY <1>3, <2>2, <2>3, <2>4, <2>6, PublishedAtOnce DEF DirectoryInv
  <2>8. QED BY <1>1, <1>2, <1>4, <2>5, <2>6, <2>7
<1>6. CASE ~RegisteredPublisher(unreg)
  <2>1. UNCHANGED vars
    BY <1>6 DEF TakeUnregistration
  <2>2. UNCHANGED <<dataProductMap, publishedUpdates, cachedUpdates,
                    registeredPublishersBound, registeredPublishersReady,
                    registeredPublishersProcessed>>
    BY <2>1 DEF vars, mapVars, updateVars
  <2>3. TypeOK' /\ OneProductPerUrl'
    BY <1>3, <2>1, TypeStep, OneProductStep DEF DirectoryInv
  <2>4. DirectoryInv'
    BY <1>3, <2>2, <2>3 DEF DirectoryInv
  <2>5. unreg.id = SubscribedID => entry \notin Listing
    BY <1>1, <1>6 DEF RegisteredPublisher
  <2>6. QED BY <1>4, <2>2, <2>4, <2>5
<1>7. QED BY <1>5, <1>6

-----------------------------------------------------------------------------
(***************************************************************************)
(* What a step does to the details of the subscription.                    *)
(***************************************************************************)

SameMembers ==
    UNCHANGED <<subscription.receiveCached, subscription.subscribers,
                subscription.monitors>>

\* The socket for u becomes x, and nothing else changes.
ChangesSocket(u, x) ==
    /\ Socket(u)' = x
    /\ \A v \in Urls \ {u} : Socket(v)' = Socket(v)
    /\ UNCHANGED subscription.updates /\ SameMembers

\* The update socket becomes x, and nothing else changes.
ChangesUpdates(x) ==
    /\ subscription.updates' = x
    /\ \A u \in Urls : Socket(u)' = Socket(u)
    /\ SameMembers

SubscriptionKept ==
    /\ \A u \in Urls : Socket(u)' = Socket(u)
    /\ UNCHANGED subscription.updates /\ SameMembers

\* The parts of the details have their types.
LEMMA DetailsParts ==
    ASSUME subscription \in DetailsType
    PROVE  /\ subscription.receiveCached \in BOOLEAN
           /\ subscription.subscribers \in SUBSET Subscribers
           /\ subscription.monitors \in SUBSET Monitors
           /\ subscription.updates \in UpdatesType
           /\ subscription.updates.open \in BOOLEAN
           /\ subscription.updates.joined \in BOOLEAN
           /\ Pending \in Seq(SUBSET Infos)
           /\ subscription.pollItemMap \in [Urls -> SocketType]
           /\ \A u \in Urls : Socket(u) \in SocketType
           /\ \A u \in Urls : Queue(u) \in Seq(Message)
  BY DEF DetailsType, UpdatesType, SocketType, Pending, Socket, Queue

\* A step that writes one socket.
LEMMA OneSocket ==
    ASSUME subscription \in DetailsType, NEW u \in Urls, NEW x \in SocketType,
           subscription' = [subscription EXCEPT !.pollItemMap[u] = x]
    PROVE  subscription' \in DetailsType /\ ChangesSocket(u, x)
<1>1. subscription.pollItemMap \in [Urls -> SocketType]
  BY DetailsParts
<1>2. subscription' = [receiveCached |-> subscription.receiveCached,
                       subscribers |-> subscription.subscribers,
                       monitors |-> subscription.monitors,
                       updates |-> subscription.updates,
                       pollItemMap |-> [subscription.pollItemMap EXCEPT ![u] = x]]
  BY DEF DetailsType
<1>3. [subscription.pollItemMap EXCEPT ![u] = x] \in [Urls -> SocketType]
  BY <1>1
<1>4. subscription' \in DetailsType
  BY <1>2, <1>3, DetailsParts DEF DetailsType
<1>5. QED
  BY <1>1, <1>2, <1>4 DEF ChangesSocket, SameMembers, Socket

\* A step that writes the update socket.
LEMMA OneUpdateSocket ==
    ASSUME subscription \in DetailsType, NEW x \in UpdatesType,
           subscription' = [subscription EXCEPT !.updates = x]
    PROVE  subscription' \in DetailsType /\ ChangesUpdates(x)
<1>1. subscription' = [receiveCached |-> subscription.receiveCached,
                       subscribers |-> subscription.subscribers,
                       monitors |-> subscription.monitors,
                       updates |-> x,
                       pollItemMap |-> subscription.pollItemMap]
  BY DEF DetailsType
<1>2. subscription' \in DetailsType
  BY <1>1, DetailsParts DEF DetailsType
<1>3. QED
  BY <1>1, <1>2 DEF ChangesUpdates, SameMembers, Socket

\* The sockets without messages.
LEMMA EmptySockets ==
    /\ NoSocket \in SocketType /\ ClosedSocket \in SocketType
    /\ NoSocket.regTime = -1 /\ ~NoSocket.open /\ ~NoSocket.joined
    /\ NoSocket.last = NoMessage /\ NoSocket.waiting = <<>>
    /\ ClosedSocket.regTime = 0 /\ ~ClosedSocket.open /\ ~ClosedSocket.joined
    /\ ClosedSocket.last = NoMessage /\ ClosedSocket.waiting = <<>>
    /\ \A t \in Times :
          /\ NewSocket(t) \in SocketType
          /\ NewSocket(t).regTime = t /\ NewSocket(t).open
          /\ ~NewSocket(t).joined /\ NewSocket(t).last = NoMessage
          /\ NewSocket(t).waiting = <<>>
<1>1. <<>> \in Seq(Message) /\ NoMessage \in MaybeMessage
  BY DEF MaybeMessage
<1>2. NoSocket \in SocketType
  BY <1>1 DEF NoSocket, SocketType
<1>3. ClosedSocket \in SocketType
  BY <1>1 DEF NoSocket, ClosedSocket, SocketType
<1>4. \A t \in Times : NewSocket(t) \in SocketType
  BY <1>1 DEF NewSocket, SocketType
<1>5. /\ NoSocket.regTime = -1 /\ ~NoSocket.open /\ ~NoSocket.joined
      /\ NoSocket.last = NoMessage /\ NoSocket.waiting = <<>>
  BY DEF NoSocket
<1>6. /\ ClosedSocket.regTime = 0 /\ ~ClosedSocket.open
      /\ ~ClosedSocket.joined /\ ClosedSocket.last = NoMessage
      /\ ClosedSocket.waiting = <<>>
  BY DEF NoSocket, ClosedSocket
<1>7. \A t \in Times :
         /\ NewSocket(t).regTime = t /\ NewSocket(t).open
         /\ ~NewSocket(t).joined /\ NewSocket(t).last = NoMessage
         /\ NewSocket(t).waiting = <<>>
  BY DEF NewSocket
<1>8. QED BY <1>2, <1>3, <1>4, <1>5, <1>6, <1>7

\* No details at all.
LEMMA EmptyDetails ==
    /\ NoDetails \in DetailsType
    /\ \A u \in Urls : NoDetails.pollItemMap[u] = NoSocket
    /\ NoDetails.subscribers = {} /\ NoDetails.monitors = {}
    /\ ~NoDetails.receiveCached
    /\ NoDetails.updates = NoUpdateSocket
    /\ UpdateSocket \in UpdatesType /\ NoUpdateSocket \in UpdatesType
    /\ UpdateSocket.open /\ ~UpdateSocket.joined /\ UpdateSocket.waiting = <<>>
    /\ ~NoUpdateSocket.open /\ ~NoUpdateSocket.joined
    /\ NoUpdateSocket.waiting = <<>>
<1>1. <<>> \in Seq(SUBSET Infos)
  OBVIOUS
<1>2. UpdateSocket \in UpdatesType /\ NoUpdateSocket \in UpdatesType
  BY <1>1 DEF UpdateSocket, NoUpdateSocket, UpdatesType
<1>3. /\ UpdateSocket.open /\ ~UpdateSocket.joined
      /\ UpdateSocket.waiting = <<>>
      /\ ~NoUpdateSocket.open /\ ~NoUpdateSocket.joined
      /\ NoUpdateSocket.waiting = <<>>
  BY DEF UpdateSocket, NoUpdateSocket
<1>4. [u \in Urls |-> NoSocket] \in [Urls -> SocketType]
  BY EmptySockets
<1>5. NoDetails \in DetailsType
  BY <1>2, <1>4 DEF NoDetails, DetailsType
<1>6. /\ \A u \in Urls : NoDetails.pollItemMap[u] = NoSocket
      /\ NoDetails.subscribers = {} /\ NoDetails.monitors = {}
      /\ ~NoDetails.receiveCached
      /\ NoDetails.updates = NoUpdateSocket
  BY DEF NoDetails
<1>7. QED BY <1>2, <1>3, <1>5, <1>6

\* Messages are appended and taken from sequences.
LEMMA SeqFacts ==
    ASSUME NEW S, NEW q \in Seq(S)
    PROVE  /\ Len(q) \in Nat /\ DOMAIN q = 1 .. Len(q)
           /\ \A k \in 1 .. Len(q) : q[k] \in S
           /\ q = <<>> <=> Len(q) = 0
           /\ \A x \in S : /\ Append(q, x) \in Seq(S)
                           /\ Len(Append(q, x)) = Len(q) + 1
                           /\ Append(q, x)[Len(q) + 1] = x
                           /\ \A k \in 1 .. Len(q) : Append(q, x)[k] = q[k]
           /\ q # <<>> => /\ Tail(q) \in Seq(S) /\ Len(Tail(q)) = Len(q) - 1
                          /\ Head(q) = q[1] /\ Head(q) \in S
                          /\ \A k \in 1 .. Len(q) - 1 : Tail(q)[k] = q[k + 1]
<1>1. Len(q) \in Nat /\ DOMAIN q = 1 .. Len(q)
  OBVIOUS
<1>2. \A k \in 1 .. Len(q) : q[k] \in S
  BY <1>1, ElementOfSeq
<1>3. q = <<>> <=> Len(q) = 0
  BY EmptySeq
<1>4. \A x \in S : /\ Append(q, x) \in Seq(S)
                   /\ Len(Append(q, x)) = Len(q) + 1
                   /\ Append(q, x)[Len(q) + 1] = x
                   /\ \A k \in 1 .. Len(q) : Append(q, x)[k] = q[k]
  BY <1>1, AppendProperties
<1>5. q # <<>> => /\ Tail(q) \in Seq(S) /\ Len(Tail(q)) = Len(q) - 1
                  /\ Head(q) = q[1] /\ Head(q) \in S
                  /\ \A k \in 1 .. Len(q) - 1 : Tail(q)[k] = q[k + 1]
  BY <1>1, <1>3, HeadTailProperties
<1>6. QED BY <1>1, <1>2, <1>3, <1>4, <1>5

\* One sequence after another.
LEMMA ConcatFacts ==
    ASSUME NEW S, NEW q \in Seq(S), NEW t \in Seq(S), NEW r, r = q \o t
    PROVE  /\ r \in Seq(S) /\ Len(r) = Len(q) + Len(t)
           /\ \A i \in 1 .. Len(q) : i \in 1 .. Len(r) /\ r[i] = q[i]
           /\ \A k \in 1 .. Len(t) : /\ Len(q) + k \in 1 .. Len(r)
                                     /\ r[Len(q) + k] = t[k]
           /\ \A j \in 1 .. Len(r) :
                 j \in 1 .. Len(q) \/ \E k \in 1 .. Len(t) : j = Len(q) + k
<1>1. Len(q) \in Nat /\ Len(t) \in Nat
  OBVIOUS
<1>2. /\ q \o t \in Seq(S) /\ Len(q \o t) = Len(q) + Len(t)
      /\ \A i \in 1 .. Len(q) + Len(t) : (q \o t)[i] =
            IF i <= Len(q) THEN q[i] ELSE t[i - Len(q)]
  BY ConcatProperties
<1>3. /\ r \in Seq(S) /\ Len(r) = Len(q) + Len(t)
      /\ \A i \in 1 .. Len(q) + Len(t) : r[i] =
            IF i <= Len(q) THEN q[i] ELSE t[i - Len(q)]
  BY <1>2
<1>4. ASSUME NEW k \in 1 .. Len(t)
      PROVE  Len(q) + k \in 1 .. Len(r) /\ r[Len(q) + k] = t[k]
  <2>1. /\ Len(q) + k \in 1 .. Len(q) + Len(t) /\ ~(Len(q) + k <= Len(q))
        /\ (Len(q) + k) - Len(q) = k
    BY <1>1
  <2>2. QED BY <1>3, <2>1
<1>5. ASSUME NEW j \in 1 .. Len(r), j \notin 1 .. Len(q)
      PROVE  \E k \in 1 .. Len(t) : j = Len(q) + k
  <2>1. j - Len(q) \in 1 .. Len(t) /\ j = Len(q) + (j - Len(q))
    BY <1>1, <1>3, <1>5
  <2>2. QED BY <2>1
<1>6. \A i \in 1 .. Len(q) : i \in 1 .. Len(r) /\ r[i] = q[i]
  BY <1>1, <1>3
<1>7. QED BY <1>3, <1>4, <1>5, <1>6

\* Where an element of both comes from.
LEMMA ConcatParts ==
    ASSUME NEW S, NEW q \in Seq(S), NEW t \in Seq(S), NEW r, r = q \o t,
           NEW j \in 1 .. Len(r)
    PROVE  \/ \E k \in 1 .. Len(q) : j = k /\ r[j] = q[k]
           \/ \E k \in 1 .. Len(t) : j = Len(q) + k /\ r[j] = t[k]
<1>1. \A i \in 1 .. Len(q) : i \in 1 .. Len(r) /\ r[i] = q[i]
  BY ConcatFacts
<1>2. \A k \in 1 .. Len(t) : Len(q) + k \in 1 .. Len(r) /\ r[Len(q) + k] = t[k]
  BY ConcatFacts
<1>3. j \in 1 .. Len(q) \/ \E k \in 1 .. Len(t) : j = Len(q) + k
  BY ConcatFacts
<1>4. QED BY <1>1, <1>2, <1>3

-----------------------------------------------------------------------------
(***************************************************************************)
(* Each step keeps the types, and this is what it does.                    *)
(***************************************************************************)

\* A socket that is open stays so, or is one without messages.
LEMMA SocketsKept ==
    ASSUME SocketsInv, NEW u \in PublisherUrls, NEW x, ChangesSocket(u, x),
           \/ Socket(u).open /\ x.open /\ x.regTime = Socket(u).regTime
           \/ x \in {NoSocket, ClosedSocket}
    PROVE  SocketsInv'
<1>1. u \in Urls /\ u # DirectoryUrl /\ DirectoryUrl \in Urls
  BY SubscriptionAssumption DEF PublisherUrls
<1>2. /\ \A v \in Urls \ {u} : Socket(v)' = Socket(v)
      /\ Socket(u)' = x
  BY DEF ChangesSocket
<1>3. ~NoSocket.open /\ ~ClosedSocket.open
  BY EmptySockets
<1> USE DEF Socket
<1>4. QED BY <1>1, <1>2, <1>3 DEF SocketsInv

\* What holds of the sockets holds of them while they stay.
LEMMA SocketsSame ==
    ASSUME SocketsInv, \A u \in Urls : Socket(u)' = Socket(u)
    PROVE  SocketsInv'
  BY SubscriptionAssumption DEF SocketsInv, Socket

\* A publisher starts and binds its port.  If the port is not overtaken, its
\* registration time is later than all before.
LEMMA BindStep ==
    ASSUME SystemType, NEW u \in PublisherUrls,
           NEW id \in ProductIDs \ {RegisteredPublishersID},
           NEW state \in {"bound", "elsewhere"}, NEW t \in Timestamps,
           BindPublisher(u, id, state, t)
    PROVE  /\ SystemType' /\ UNCHANGED <<subscription, dataProductMap>>
           /\ overtaken \subseteq overtaken'
           /\ u \notin overtaken' => Secs(latest[u]) < Secs(latest'[u])
           /\ bound[u] = Nobody
           /\ bound'[u] # Nobody /\ bound'[u].state # "registered"
           /\ \A v \in PublisherUrls \ {u} :
                 bound'[v] = bound[v] /\ latest'[v] = latest[v]
<1> DEFINE new == [id |-> id, timestamp |-> t, state |-> state]
<1>1. /\ UNCHANGED <<subscription, vars, lastCached, published, unregistrations,
                     call, subscriptionList, monitorList, commands, received>>
      /\ Secs(t) > 0 /\ latest' = [latest EXCEPT ![u] = t]
      /\ overtaken' = IF Secs(t) <= Secs(latest[u]) THEN overtaken \cup {u}
                                                    ELSE overtaken
      /\ bound' = [bound EXCEPT ![u] = new] /\ bound[u] = Nobody
  BY DEF BindPublisher, timeVars, callVars, managerVars
<1>2. DirectoryInv' /\ UNCHANGED dataProductMap
  BY <1>1, DirectoryKept
<1>3. SocketsInv'
  BY <1>1, SocketsSame DEF SystemType, Socket
<1>4. /\ latest \in [PublisherUrls -> Timestamps \cup {0}]
      /\ overtaken \in SUBSET PublisherUrls
  BY DEF SystemType, PublishersType
<1>5. /\ latest' \in [PublisherUrls -> Timestamps \cup {0}] /\ latest'[u] = t
      /\ \A v \in PublisherUrls \ {u} : latest'[v] = latest[v]
      /\ overtaken' \in SUBSET PublisherUrls /\ overtaken \subseteq overtaken'
  BY <1>1, <1>4
<1>6. new \in PublisherType /\ new # Nobody /\ new.timestamp = t
      /\ new.state # "registered"
  BY DEF PublisherType, Nobody
<1>7. bound \in [PublisherUrls -> PublisherType \cup {Nobody}]
  BY DEF SystemType, PublishersType
<1> HIDE DEF new
<1>8. /\ bound' \in [PublisherUrls -> PublisherType \cup {Nobody}]
      /\ bound'[u] = new
      /\ \A v \in PublisherUrls \ {u} : bound'[v] = bound[v]
  BY <1>1, <1>6, <1>7
<1>9. \A v \in PublisherUrls : bound'[v] # Nobody =>
         bound'[v].timestamp = latest'[v] /\ Secs(latest'[v]) > 0
  BY <1>1, <1>5, <1>6, <1>8 DEF SystemType, PublishersType
<1>10. PublishersType'
  BY <1>1, <1>5, <1>8, <1>9 DEF SystemType, PublishersType
<1>11. RequestsType' /\ NodeType'
  BY <1>1 DEF SystemType, RequestsType, NodeType
<1>12. u \notin overtaken' => Secs(latest[u]) < Secs(latest'[u])
  <2>1. Secs(t) \in Nat /\ Secs(latest[u]) \in Nat
    BY <1>4, TimeAssumption, SecsMonotone DEF Timestamps
  <2>2. QED BY <1>1, <1>5, <2>1
<1>13. QED
  BY <1>1, <1>2, <1>3, <1>5, <1>6, <1>8, <1>10, <1>11, <1>12 DEF SystemType

\* What the update socket has after the directory has handled a request.
UpdatesNext ==
    IF subscription.updates.joined /\ Listing' # Listing
    THEN [subscription.updates EXCEPT !.waiting = Append(@, Listing')]
    ELSE subscription.updates

\* The directory's updates reach the update socket that has joined.
LEMMA UpdatesStep ==
    ASSUME SystemType, DirectoryInv', subscription' = UpdatesAfter
    PROVE  /\ subscription' \in DetailsType /\ SocketsInv'
           /\ ChangesUpdates(UpdatesNext)
<1>1. /\ publishedUpdates'[OwnDomain][SubscribedID] = Listing'
      /\ publishedUpdates[OwnDomain][SubscribedID] = Listing
      /\ Listing' \in SUBSET Infos
  BY DEF SystemType, DirectoryInv, Listing
<1>2. subscription \in DetailsType
  BY DEF SystemType, NodeType
<1>3. subscription' = [subscription EXCEPT !.updates = UpdatesNext]
  BY <1>1, <1>2 DEF UpdatesAfter, UpdatesNext, DetailsType
<1>4. Append(Pending, Listing') \in Seq(SUBSET Infos)
  BY <1>1, <1>2, DetailsParts, SeqFacts
<1>5. UpdatesNext \in UpdatesType
  BY <1>2, <1>4, DetailsParts DEF UpdatesNext, UpdatesType, Pending
<1>6. subscription' \in DetailsType /\ ChangesUpdates(UpdatesNext)
  BY <1>2, <1>3, <1>5, OneUpdateSocket
<1>7. QED
  BY <1>6, SocketsSame DEF SystemType, ChangesUpdates

\* A publisher is registered: what is published is what is listed then.
LEMMA RegisterTypes ==
    ASSUME SystemType, NEW u \in PublisherUrls, RegisterAtDirectory(u)
    PROVE  /\ SystemType' /\ ChangesUpdates(UpdatesNext)
           /\ UNCHANGED <<latest, overtaken, early, lastCached, published,
                          unregistrations, call,
                          subscriptionList, monitorList, commands, received>>
           /\ bound[u] # Nobody /\ bound[u].state = "bound"
           /\ bound' = [bound EXCEPT ![u] = [@ EXCEPT !.state = "registered"]]
           /\ bound'[u].state = "registered" /\ bound'[u].id = bound[u].id
           /\ bound'[u].timestamp = bound[u].timestamp /\ bound'[u] # Nobody
           /\ \A v \in PublisherUrls \ {u} : bound'[v] = bound[v]
<1>1. /\ UNCHANGED <<latest, overtaken, early, lastCached, published,
                     unregistrations, call,
                     subscriptionList, monitorList, commands, received>>
      /\ bound' = [bound EXCEPT ![u] = [@ EXCEPT !.state = "registered"]]
      /\ subscription' = UpdatesAfter
      /\ bound[u].state = "bound"
  BY DEF RegisterAtDirectory, timeVars, callVars
<1>2. DirectoryInv'
  BY RegisterStep
<1>3. subscription' \in DetailsType /\ ChangesUpdates(UpdatesNext) /\ SocketsInv'
  BY <1>1, <1>2, UpdatesStep
<1>4. bound \in [PublisherUrls -> PublisherType \cup {Nobody}]
  BY DEF SystemType, PublishersType
<1>5. bound[u] # Nobody /\ bound[u] \in PublisherType
  BY <1>1, <1>4 DEF Nobody
<1> DEFINE new == [bound[u] EXCEPT !.state = "registered"]
<1>6. /\ new \in PublisherType /\ new # Nobody /\ new.state = "registered"
      /\ new.id = bound[u].id /\ new.timestamp = bound[u].timestamp
  BY <1>5 DEF PublisherType, Nobody
<1> HIDE DEF new
<1>7. bound' = [bound EXCEPT ![u] = new]
  BY <1>1 DEF new
<1>8. /\ bound' \in [PublisherUrls -> PublisherType \cup {Nobody}]
      /\ bound'[u] = new
      /\ \A v \in PublisherUrls \ {u} : bound'[v] = bound[v]
  BY <1>4, <1>6, <1>7
<1>9. PublishersType'
  BY <1>1, <1>5, <1>6, <1>8 DEF SystemType, PublishersType
<1>10. RequestsType' /\ NodeType'
  BY <1>1, <1>3 DEF SystemType, RequestsType, NodeType
<1>11. QED
  BY <1>1, <1>2, <1>3, <1>5, <1>6, <1>8, <1>9, <1>10 DEF SystemType

\* Everything but the subscription is as it was at the node.
NodeKept ==
    UNCHANGED <<call, subscriptionList, monitorList, commands>>

\* A step of a publisher, or of the manager, that writes one data socket.
LEMMA SocketStep ==
    ASSUME SystemType, NEW u \in PublisherUrls, NEW x \in SocketType,
           \/ Socket(u).open /\ x.open /\ x.regTime = Socket(u).regTime
           \/ x \in {NoSocket, ClosedSocket},
           subscription' = [subscription EXCEPT !.pollItemMap[u] = x],
           UNCHANGED vars, NodeKept, PublishersType', RequestsType',
           received' \in [Subscribers -> Seq(Message)]
    PROVE  SystemType' /\ ChangesSocket(u, x) /\ UNCHANGED <<dataProductMap, Listing>>
<1>1. u \in Urls /\ subscription \in DetailsType
  BY DEF PublisherUrls, SystemType, NodeType
<1>2. subscription' \in DetailsType /\ ChangesSocket(u, x)
  BY <1>1, OneSocket
<1>3. SocketsInv'
  BY <1>2, SocketsKept DEF SystemType
<1>4. NodeType'
  BY <1>2 DEF NodeType, SystemType, NodeKept
<1>5. QED BY <1>2, <1>3, <1>4, DirectoryKept DEF SystemType

\* A publisher's socket is closed.
LEMMA UnboundStep ==
    ASSUME SystemType, NEW u \in PublisherUrls, Unbound(u),
           UNCHANGED <<vars, latest, overtaken, published, received>>, NodeKept,
           RequestsType'
    PROVE  /\ SystemType'
           /\ ChangesSocket(u, [Socket(u) EXCEPT !.joined = FALSE])
           /\ UNCHANGED <<dataProductMap, Listing>>
           /\ bound'[u] = Nobody /\ lastCached'[u] = NoMessage
           /\ \A v \in PublisherUrls \ {u} :
                 bound'[v] = bound[v] /\ lastCached'[v] = lastCached[v]
<1> DEFINE x == [Socket(u) EXCEPT !.joined = FALSE]
<1>1. u \in Urls /\ subscription \in DetailsType
  BY DEF PublisherUrls, SystemType, NodeType
<1>2. Socket(u) \in SocketType
  BY <1>1, DetailsParts
<1>3. x \in SocketType /\ x.open = Socket(u).open
      /\ x.regTime = Socket(u).regTime
  BY <1>2 DEF SocketType
<1>4. ~Socket(u).open => x \in {NoSocket, ClosedSocket}
  <2>1. ~Socket(u).open => Socket(u) \in {NoSocket, ClosedSocket}
    BY <1>1 DEF SystemType, SocketsInv
  <2>2. \A y \in SocketType :
           ~y.joined => [y EXCEPT !.joined = FALSE] = y
    BY DEF SocketType
  <2>3. QED BY <2>1, <2>2, EmptySockets
<1>5. subscription' = [subscription EXCEPT !.pollItemMap[u] = x]
  BY <1>1 DEF Unbound, Socket, DetailsType
<1>6. /\ bound \in [PublisherUrls -> PublisherType \cup {Nobody}]
      /\ lastCached \in [PublisherUrls -> MaybeMessage]
      /\ NoMessage \in MaybeMessage
  BY DEF SystemType, PublishersType, MaybeMessage
<1>7. /\ bound' = [bound EXCEPT ![u] = Nobody]
      /\ lastCached' = [lastCached EXCEPT ![u] = NoMessage]
  BY DEF Unbound
<1>8. /\ bound' \in [PublisherUrls -> PublisherType \cup {Nobody}]
      /\ lastCached' \in [PublisherUrls -> MaybeMessage]
      /\ bound'[u] = Nobody /\ lastCached'[u] = NoMessage
      /\ \A v \in PublisherUrls \ {u} :
            bound'[v] = bound[v] /\ lastCached'[v] = lastCached[v]
  BY <1>6, <1>7
<1>9. PublishersType'
  BY <1>8 DEF PublishersType, SystemType
<1>10. received' \in [Subscribers -> Seq(Message)]
  BY DEF SystemType, NodeType
<1> HIDE DEF x
<1>11. SystemType' /\ ChangesSocket(u, x) /\ UNCHANGED <<dataProductMap, Listing>>
  BY <1>3, <1>4, <1>5, <1>9, <1>10, SocketStep
<1>12. QED BY <1>8, <1>11 DEF x

\* A publisher ends, with or without a request to remove it.
Ended(u) ==
    /\ ChangesSocket(u, [Socket(u) EXCEPT !.joined = FALSE])
    /\ UNCHANGED <<dataProductMap, Listing, latest, overtaken, published,
                   received>>
    /\ NodeKept
    /\ bound'[u] = Nobody /\ lastCached'[u] = NoMessage
    /\ early' = early \ {u}
    /\ \A v \in PublisherUrls \ {u} :
          bound'[v] = bound[v] /\ lastCached'[v] = lastCached[v]

\* A publisher unregisters and ends; the request is on its way.
LEMMA UnregisterTypes ==
    ASSUME SystemType, NEW u \in PublisherUrls, UnregisterDataProduct(u)
    PROVE  /\ SystemType' /\ Ended(u)
           /\ bound[u].state = "registered" /\ bound[u] # Nobody
           /\ unregistrations' = unregistrations \cup
                 {Unregistration(bound[u].id, u, RegTime(u))}
<1>1. /\ Unbound(u) /\ bound[u].state = "registered" /\ NodeKept
      /\ UNCHANGED <<vars, latest, overtaken, published, received>>
      /\ unregistrations' = unregistrations \cup
            {Unregistration(bound[u].id, u, RegTime(u))}
  BY DEF UnregisterDataProduct, timeVars, callVars, NodeKept
<1>2. bound[u] # Nobody
  BY <1>1 DEF Nobody
<1>3. /\ bound[u].id \in ProductIDs /\ RegTime(u) \in Times /\ u \in Urls
  BY <1>2, RegistrationType DEF SystemType, PublisherUrls
<1>4. Secs(MaxTime) \in Nat
  BY TimeAssumption, SecsMonotone
<1>5. RegTime(u) \in 0 .. Secs(MaxTime)
  BY <1>3, <1>4 DEF Times
<1>6. Unregistration(bound[u].id, u, RegTime(u)) \in DataUnregistration
  BY <1>3, <1>5, DomainAssumption DEF Unregistration, DataUnregistration
<1>7. RequestsType'
  BY <1>1, <1>6 DEF RequestsType, SystemType, Unregistration
<1>8. QED BY <1>1, <1>2, <1>7, UnboundStep DEF Ended, Unbound

\* A publisher ends without a word.
LEMMA CrashTypes ==
    ASSUME SystemType, NEW u \in PublisherUrls, Crash(u)
    PROVE  SystemType' /\ Ended(u) /\ UNCHANGED unregistrations
<1>1. /\ Unbound(u) /\ NodeKept
      /\ UNCHANGED <<vars, latest, overtaken, published, received,
                     unregistrations>>
  BY DEF Crash, timeVars, callVars, NodeKept
<1>2. RequestsType'
  BY <1>1 DEF RequestsType, SystemType
<1>3. QED BY <1>1, <1>2, UnboundStep DEF Ended, Unbound

\* The directory handles an unregistration.
LEMMA TakeUnregistrationTypes ==
    ASSUME SystemType, NEW unreg \in unregistrations, TakeUnregistration(unreg)
    PROVE  /\ SystemType' /\ ChangesUpdates(UpdatesNext)
           /\ unregistrations' = unregistrations \ {unreg}
           /\ NodeKept
           /\ UNCHANGED <<latest, overtaken, early, bound, lastCached,
                          published, received>>
<1>1. /\ unregistrations' = unregistrations \ {unreg}
      /\ NodeKept /\ subscription' = UpdatesAfter
      /\ UNCHANGED <<latest, overtaken, early, bound, lastCached, published,
                     received>>
  BY DEF TakeUnregistration, publisherVars, timeVars, callVars, NodeKept
<1>2. DirectoryInv'
  BY UnregisterStep
<1>3. subscription' \in DetailsType /\ ChangesUpdates(UpdatesNext) /\ SocketsInv'
  BY <1>1, <1>2, UpdatesStep
<1>4. PublishersType' /\ RequestsType' /\ NodeType'
  BY <1>1, <1>3 DEF SystemType, PublishersType, RequestsType, NodeType, NodeKept
<1>5. QED BY <1>1, <1>2, <1>3, <1>4 DEF SystemType

\* A socket that has anything is open.
LEMMA OpenSockets ==
    ASSUME SystemType, NEW u \in Urls
    PROVE  /\ Socket(u) \in SocketType /\ subscription \in DetailsType
           /\ Socket(u).joined => Socket(u).open
           /\ Queue(u) # <<>> => Socket(u).open
           /\ Socket(u).last # NoMessage => Socket(u).open
<1>1. subscription \in DetailsType
  BY DEF SystemType, NodeType
<1>2. ~Socket(u).open => Socket(u) \in {NoSocket, ClosedSocket}
  BY DEF SystemType, SocketsInv
<1>3. QED BY <1>1, <1>2, DetailsParts, EmptySockets DEF Queue, Socket

\* The message that the publisher at u publishes next.
NewMessage(u) ==
    [id |-> bound[u].id, url |-> u, value |-> published + 1, cached |-> FALSE,
     regTime |-> IF bound[u].state = "bound" THEN 0 ELSE RegTime(u)]

\* A socket at which m arrives, if the publisher has its subscription.
Queued(item, m) ==
    IF item.joined THEN [item EXCEPT !.waiting = Append(@, m)] ELSE item

\* A message reaches the socket if it has joined.
LEMMA QueuedType ==
    ASSUME NEW x \in SocketType, NEW m \in Message
    PROVE  /\ Queued(x, m) \in SocketType
           /\ Queued(x, m).open = x.open /\ Queued(x, m).regTime = x.regTime
           /\ Queued(x, m).last = x.last /\ Queued(x, m).joined = x.joined
           /\ Queued(x, m).waiting =
                 IF x.joined THEN Append(x.waiting, m) ELSE x.waiting
<1>1. x.waiting \in Seq(Message)
  BY DEF SocketType
<1>2. Append(x.waiting, m) \in Seq(Message)
  BY <1>1, SeqFacts
<1>3. QED BY <1>1, <1>2 DEF Queued, SocketType

\* A publisher publishes.
Publishes(u) ==
    /\ ChangesSocket(u, Queued(Socket(u), NewMessage(u)))
    /\ UNCHANGED <<dataProductMap, Listing, latest, overtaken, bound,
                   unregistrations,
                   received>>
    /\ NodeKept
    /\ bound[u] # Nobody
    /\ bound[u].state = "bound" => "publishEarly" \in Uses
    /\ early' = IF bound[u].state = "bound" THEN early \cup {u} ELSE early
    /\ published' = published + 1
    /\ NewMessage(u) \in Message
    /\ lastCached'[u] = NewMessage(u)
    /\ \A v \in PublisherUrls \ {u} : lastCached'[v] = lastCached[v]

\* A message is cached, numbered and sent to the socket that has joined.
LEMMA PublishTypes ==
    ASSUME SystemType, NEW u \in PublisherUrls, Publish(u)
    PROVE  SystemType' /\ Publishes(u)
<1> DEFINE m == NewMessage(u)
           x == Queued(Socket(u), m)
<1>1. u \in Urls
  BY DEF PublisherUrls
<1>2. /\ bound[u] # Nobody /\ (bound[u].state = "bound" => "publishEarly" \in Uses)
      /\ published' = published + 1
      /\ early' = IF bound[u].state = "bound" THEN early \cup {u} ELSE early
      /\ lastCached' = [lastCached EXCEPT ![u] = m]
      /\ subscription' = Arrived(u, m) /\ NodeKept
      /\ UNCHANGED <<vars, latest, overtaken, bound, unregistrations, received>>
  BY DEF Publish, NewMessage, timeVars, callVars, NodeKept
<1>3. m \in Message
  <2>1. bound[u].id \in ProductIDs /\ RegTime(u) \in Times
    BY <1>2, RegistrationType DEF SystemType
  <2>2. published + 1 \in Nat \ {0}
    BY DEF SystemType, PublishersType
  <2>3. QED BY <2>1, <2>2 DEF NewMessage, Message
<1>4. /\ Socket(u) \in SocketType /\ subscription \in DetailsType
      /\ Socket(u).joined => Socket(u).open
  BY <1>1, OpenSockets
<1>5. x \in SocketType /\ x.open = Socket(u).open
      /\ x.regTime = Socket(u).regTime
  BY <1>3, <1>4, QueuedType
<1>6. ~Socket(u).open => x \in {NoSocket, ClosedSocket}
  BY <1>1, <1>4 DEF Queued, SystemType, SocketsInv
<1>7. subscription' = [subscription EXCEPT !.pollItemMap[u] = x]
  BY <1>1, <1>2, <1>4 DEF Arrived, Queued, Socket, DetailsType
<1>8. /\ lastCached \in [PublisherUrls -> MaybeMessage] /\ m \in MaybeMessage
      /\ published \in Nat
  BY <1>3 DEF SystemType, PublishersType, MaybeMessage
<1> HIDE DEF m, x
<1>9. /\ lastCached' \in [PublisherUrls -> MaybeMessage] /\ lastCached'[u] = m
      /\ \A v \in PublisherUrls \ {u} : lastCached'[v] = lastCached[v]
  BY <1>2, <1>8
<1>10. PublishersType' /\ RequestsType'
  BY <1>2, <1>8, <1>9 DEF SystemType, PublishersType, RequestsType
<1>11. received' \in [Subscribers -> Seq(Message)]
  BY <1>2 DEF SystemType, NodeType
<1>12. SystemType' /\ ChangesSocket(u, x) /\ UNCHANGED <<dataProductMap, Listing>>
  BY <1>2, <1>4, <1>5, <1>6, <1>7, <1>10, <1>11, SocketStep
<1>13. QED BY <1>2, <1>3, <1>9, <1>12 DEF Publishes, m, x

\* A subscription arrives at the publisher: the cached value is sent again.
Resends(u) ==
    LET joined == [Socket(u) EXCEPT !.joined = TRUE]
        m == [lastCached[u] EXCEPT !.cached = TRUE]
    IN  /\ ChangesSocket(u, IF lastCached[u] = NoMessage THEN joined
                            ELSE Queued(joined, m))
        /\ Socket(u).open
        /\ Socket(u).joined => lastCached[u] # NoMessage
        /\ UNCHANGED <<dataProductMap, Listing, latest, overtaken, early,
                       bound, lastCached,
                       published, unregistrations, received>>
        /\ NodeKept
        /\ lastCached[u] # NoMessage => m \in Message

\* A socket that joins is sent the cached message.
LEMMA ResendStep ==
    ASSUME SystemType, NEW u \in PublisherUrls, Socket(u).open,
           Socket(u).joined => lastCached[u] # NoMessage,
           subscription' =
              Resent(u, [subscription EXCEPT !.pollItemMap[u].joined = TRUE]),
           UNCHANGED <<vars, publisherVars, unregistrations, callVars, commands,
                       received>>
    PROVE  SystemType' /\ Resends(u)
<1> DEFINE joined == [Socket(u) EXCEPT !.joined = TRUE]
           m == [lastCached[u] EXCEPT !.cached = TRUE]
           x == IF lastCached[u] = NoMessage THEN joined ELSE Queued(joined, m)
<1>1. u \in Urls
  BY DEF PublisherUrls
<1>2. Socket(u) \in SocketType /\ subscription \in DetailsType
  BY <1>1, OpenSockets
<1>3. lastCached[u] # NoMessage => m \in Message
  BY DEF SystemType, PublishersType, MaybeMessage, Message
<1>4. /\ joined \in SocketType /\ joined.open = Socket(u).open
      /\ joined.regTime = Socket(u).regTime /\ joined.joined
  BY <1>2 DEF SocketType
<1>5. [subscription EXCEPT !.pollItemMap[u].joined = TRUE]
         = [subscription EXCEPT !.pollItemMap[u] = joined]
  BY <1>1, <1>2 DEF Socket, DetailsType
<1> HIDE DEF joined, m
<1> DEFINE sub == [subscription EXCEPT !.pollItemMap[u] = joined]
<1>6. sub \in DetailsType /\ sub.pollItemMap[u] = joined
  BY <1>1, <1>2, <1>4 DEF DetailsType
<1>7. subscription' = IF lastCached[u] # NoMessage
                      THEN [sub EXCEPT !.pollItemMap[u].waiting = Append(@, m)]
                      ELSE sub
  <2>1. subscription' = Resent(u, sub)
    BY <1>5
  <2> HIDE DEF sub
  <2>2. QED BY <1>4, <1>6, <2>1 DEF Resent, m
<1>8. [sub EXCEPT !.pollItemMap[u].waiting = Append(@, m)]
         = [subscription EXCEPT !.pollItemMap[u] = Queued(joined, m)]
  BY <1>1, <1>2, <1>4, <1>6 DEF Queued, DetailsType
<1>9. subscription' = [subscription EXCEPT !.pollItemMap[u] = x]
  BY <1>7, <1>8
<1>10. x \in SocketType /\ x.open = Socket(u).open
       /\ x.regTime = Socket(u).regTime
  BY <1>3, <1>4, QueuedType
<1> HIDE DEF x, sub
<1>11. UNCHANGED <<vars, latest, overtaken, early, bound, lastCached,
                   published, unregistrations,
                   received>> /\ NodeKept
  BY DEF publisherVars, timeVars, callVars, NodeKept
<1>12. PublishersType' /\ RequestsType' /\ received' \in [Subscribers -> Seq(Message)]
  BY <1>11 DEF SystemType, PublishersType, RequestsType, NodeType
<1>13. SystemType' /\ ChangesSocket(u, x) /\ UNCHANGED <<dataProductMap, Listing>>
  BY <1>9, <1>10, <1>11, <1>12, SocketStep
<1>14. QED BY <1>3, <1>11, <1>13 DEF Resends, x, m, joined

\* A socket of the subscription joins its publisher.
LEMMA JoinTypes ==
    ASSUME SystemType, NEW u \in PublisherUrls, JoinPublisher(u)
    PROVE  SystemType' /\ Resends(u)
  BY ResendStep DEF JoinPublisher, Socket

\* Another subscriber of the network joins, and everybody is sent the cache.
LEMMA OtherJoinTypes ==
    ASSUME SystemType, NEW u \in PublisherUrls, OtherNodeJoins(u)
    PROVE  SystemType' /\ Resends(u)
<1>1. u \in Urls
  BY DEF PublisherUrls
<1>2. /\ Socket(u) \in SocketType /\ subscription \in DetailsType
      /\ Socket(u).joined /\ Socket(u).open
  BY <1>1, OpenSockets DEF OtherNodeJoins, Socket
<1>3. [subscription EXCEPT !.pollItemMap[u].joined = TRUE] = subscription
  <2>1. [Socket(u) EXCEPT !.joined = TRUE] = Socket(u)
    BY <1>2 DEF SocketType
  <2>2. [subscription.pollItemMap EXCEPT ![u] = Socket(u)]
           = subscription.pollItemMap
    BY <1>1, <1>2 DEF Socket, DetailsType
  <2>3. QED BY <1>1, <1>2, <2>1, <2>2 DEF Socket, DetailsType
<1>4. QED BY <1>2, <1>3, ResendStep DEF OtherNodeJoins

\* A message of another publisher is rejected, and its socket deleted.
Rejects(u) ==
    /\ ChangesSocket(u, NoSocket)
    /\ UNCHANGED <<dataProductMap, Listing, latest, overtaken, early, bound,
                   lastCached, published,
                   received>>
    /\ NodeKept
    /\ Queue(u) # <<>> /\ Socket(u).open
    /\ Queue(u)[1].regTime # Socket(u).regTime
    /\ unregistrations' = unregistrations \cup
          {Unregistration(SubscribedID, u, Socket(u).regTime)}

\* A message of another publisher is dropped and reported as stale.
LEMMA RejectTypes ==
    ASSUME SystemType, NEW u \in PublisherUrls, RejectMessage(u)
    PROVE  SystemType' /\ Rejects(u)
<1>1. u \in Urls
  BY DEF PublisherUrls
<1>2. /\ UNCHANGED <<vars, latest, overtaken, early, bound, lastCached,
                     published, received>>
      /\ NodeKept /\ Queue(u) # <<>>
      /\ Socket(u).regTime # Head(Queue(u)).regTime
      /\ subscription' = [subscription EXCEPT !.pollItemMap[u] = NoSocket]
      /\ unregistrations' = unregistrations \cup
            {Unregistration(SubscribedID, u, Socket(u).regTime)}
  BY DEF RejectMessage, StaleEntry, Verified, FirstOf, publisherVars, timeVars,
         callVars,
         NodeKept, Queue, Socket
<1>3. Socket(u) \in SocketType /\ subscription \in DetailsType /\ Socket(u).open
  BY <1>1, <1>2, OpenSockets
<1>4. Queue(u) \in Seq(Message)
  BY <1>1, <1>3, DetailsParts
<1>5. Head(Queue(u)) = Queue(u)[1]
  BY <1>2, <1>4, SeqFacts
<1>6. Socket(u).regTime \in 0 .. Secs(MaxTime)
  <2>1. Secs(MaxTime) \in Nat
    BY TimeAssumption, SecsMonotone
  <2>2. Socket(u).regTime \in Times
    BY <1>1, <1>3 DEF SystemType, SocketsInv
  <2>3. QED BY <2>1, <2>2 DEF Times
<1>7. Unregistration(SubscribedID, u, Socket(u).regTime) \in DataUnregistration
  BY <1>1, <1>6, DomainAssumption, SubscriptionAssumption
  DEF Unregistration, DataUnregistration
<1>8. PublishersType' /\ RequestsType' /\ received' \in [Subscribers -> Seq(Message)]
  BY <1>2, <1>7
  DEF SystemType, PublishersType, RequestsType, NodeType, Unregistration
<1>9. SystemType' /\ ChangesSocket(u, NoSocket)
      /\ UNCHANGED <<dataProductMap, Listing>>
  BY <1>2, <1>8, EmptySockets, SocketStep
<1>10. QED BY <1>2, <1>3, <1>5, <1>9 DEF Rejects

\* A verified message is taken.
Takes(u) ==
    LET item == Socket(u)
        m == Queue(u)[1]
        new == item.last.value < m.value
        wanted == new /\ (m.cached => subscription.receiveCached)
    IN  /\ ChangesSocket(u, [item EXCEPT !.waiting = Tail(Queue(u)),
                                         !.last = IF new THEN m ELSE item.last])
        /\ UNCHANGED <<dataProductMap, Listing, latest, overtaken, early,
                       bound, lastCached,
                       published, unregistrations>>
        /\ NodeKept
        /\ Queue(u) # <<>> /\ item.open /\ m.regTime = item.regTime
        /\ \A s \in Subscribers : received'[s] =
              IF wanted /\ s \in subscription.subscribers
              THEN Append(received[s], m) ELSE received[s]

\* A message is taken and handed to the subscribers.
LEMMA TakeTypes ==
    ASSUME SystemType, NEW u \in PublisherUrls, TakeMessage(u)
    PROVE  SystemType' /\ Takes(u)
<1> DEFINE item == Socket(u)
           m == Queue(u)[1]
           new == item.last.value < m.value
           wanted == new /\ (m.cached => subscription.receiveCached)
           x == [item EXCEPT !.waiting = Tail(Queue(u)),
                             !.last = IF new THEN m ELSE item.last]
<1>1. u \in Urls
  BY DEF PublisherUrls
<1>2. Queue(u) # <<>>
  BY DEF TakeMessage, Queue
<1>3. item \in SocketType /\ subscription \in DetailsType /\ item.open
  BY <1>1, <1>2, OpenSockets
<1>4. Queue(u) \in Seq(Message)
  BY <1>1, <1>3, DetailsParts
<1>5. /\ Head(Queue(u)) = m /\ m \in Message
      /\ Tail(Queue(u)) \in Seq(Message)
  BY <1>2, <1>4, SeqFacts
<1>6. /\ UNCHANGED <<vars, latest, overtaken, early, bound, lastCached,
                     published, unregistrations>>
      /\ NodeKept /\ m.regTime = item.regTime
      /\ subscription' = [subscription EXCEPT !.pollItemMap[u] = x]
      /\ received' = [s \in Subscribers |->
            IF wanted /\ s \in subscription.subscribers
            THEN Append(received[s], m) ELSE received[s]]
  <2>1. FirstOf(subscription.pollItemMap[u]) = m
    BY <1>5 DEF FirstOf, Queue
  <2>2. Queue(u) = item.waiting
    BY DEF Queue, Socket
  <2>3. IsNew(item) <=> new
    BY <2>1 DEF IsNew, Socket
  <2>4. QED
    BY <2>1, <2>2, <2>3
    DEF TakeMessage, Verified, publisherVars, timeVars, callVars, NodeKept,
        Socket
<1>7. x \in SocketType /\ x.open /\ x.regTime = item.regTime
  BY <1>3, <1>5 DEF SocketType, MaybeMessage
<1>8. received' \in [Subscribers -> Seq(Message)]
  <2> SUFFICES ASSUME NEW s \in Subscribers
               PROVE  /\ received[s] \in Seq(Message)
                      /\ Append(received[s], m) \in Seq(Message)
    BY <1>6
  <2>1. received[s] \in Seq(Message)
    BY DEF SystemType, NodeType
  <2>2. QED BY <1>5, <2>1, SeqFacts
<1>9. PublishersType' /\ RequestsType'
  BY <1>6 DEF SystemType, PublishersType, RequestsType
<1> HIDE DEF x
<1>10. SystemType' /\ ChangesSocket(u, x) /\ UNCHANGED <<dataProductMap, Listing>>
  BY <1>3, <1>6, <1>7, <1>8, <1>9, SocketStep
<1>11. QED BY <1>2, <1>3, <1>6, <1>10 DEF Takes, x

\* Nothing changes outside the node.
WorldKept ==
    UNCHANGED <<dataProductMap, Listing, latest, overtaken, early, bound,
                lastCached, published,
                unregistrations>>

\* A call of an application changes what the node remembers of its calls.
LEMMA CallStep ==
    ASSUME SystemType,
           UNCHANGED <<vars, publisherVars, unregistrations, managerVars>>,
           call' \in CallType \cup {NoCall},
           subscriptionList' \in SUBSET Subscribers,
           monitorList' \in SUBSET Monitors,
           commands' \in Seq(CommandType)
    PROVE  SystemType' /\ WorldKept /\ UNCHANGED <<subscription, received>>
<1>1. UNCHANGED <<subscription, received, latest, overtaken, early, bound,
                  lastCached, published>>
  BY DEF publisherVars, timeVars, managerVars
<1>2. SocketsInv'
  BY <1>1, SocketsSame DEF SystemType, Socket
<1>3. PublishersType' /\ RequestsType' /\ NodeType'
  BY <1>1 DEF SystemType, PublishersType, RequestsType, NodeType
<1>4. QED BY <1>1, <1>2, <1>3, DirectoryKept DEF SystemType, WorldKept

\* subscribe() looks the publishers up.
LEMMA LookupTypes ==
    ASSUME SystemType, NEW s \in Subscribers, SubscribeLookup(s)
    PROVE  /\ SystemType' /\ WorldKept
           /\ call'.found = Listing
           /\ UNCHANGED <<subscription, received, subscriptionList, monitorList,
                          commands>>
<1>1. /\ UNCHANGED <<vars, publisherVars, unregistrations, managerVars>>
      /\ UNCHANGED <<subscriptionList, monitorList, commands>>
      /\ call' = [subscriber |-> s, found |-> Listing]
  BY DEF SubscribeLookup, Listing
<1>2. Listing \in SUBSET Infos
  BY DEF SystemType, DirectoryInv
<1>3. call' \in CallType
  BY <1>1, <1>2 DEF CallType
<1>4. /\ subscriptionList' \in SUBSET Subscribers
      /\ monitorList' \in SUBSET Monitors /\ commands' \in Seq(CommandType)
  BY <1>1 DEF SystemType, NodeType
<1>5. QED BY <1>1, <1>3, <1>4, CallStep

\* What a command makes of the subscribers and the monitors.
Applied(members, c) ==
    [subs |-> IF c.op = "subscribe" THEN members.subs \cup {c.who}
              ELSE IF c.op = "unsubscribe" THEN members.subs \ {c.who}
              ELSE members.subs,
     mons |-> IF c.op = "set_monitor" THEN members.mons \cup {c.who}
              ELSE IF c.op = "clear_monitor" THEN members.mons \ {c.who}
              ELSE members.mons]

\* Those the applications want, and those the manager has.
Wanted == [subs |-> subscriptionList, mons |-> monitorList]
Present == [subs |-> subscription.subscribers, mons |-> subscription.monitors]

\* A command is sent to the manager.
Sends ==
    /\ WorldKept /\ UNCHANGED <<subscription, received>>
    /\ call' \in {call, NoCall}
    /\ \E c \in CommandType :
          /\ commands' = Append(commands, c)
          /\ Wanted' = Applied(Wanted, c)
          /\ c.found \in {{}, call.found}
    /\ {"monitorFirst", "monitorKept"} \cap Uses = {} =>
          ((subscriptionList = {} => monitorList = {}) =>
              (subscriptionList' = {} => monitorList' = {}))

\* A command is queued for the manager.
LEMMA SendStep ==
    ASSUME SystemType, NEW c \in CommandType, Send(c)
    PROVE  commands' = Append(commands, c) /\ commands' \in Seq(CommandType)
<1>1. commands \in Seq(CommandType)
  BY DEF SystemType, NodeType
<1>2. QED BY <1>1, SeqFacts DEF Send

\* subscribe() has the answer and tells the manager.
LEMMA SubscribeTypes ==
    ASSUME SystemType, SubscribeSend
    PROVE  SystemType' /\ Sends
<1> DEFINE c == [op |-> "subscribe", who |-> call.subscriber,
                 found |-> call.found]
<1>1. /\ call # NoCall /\ Send(c) /\ call' = NoCall
      /\ subscriptionList' = subscriptionList \cup {call.subscriber}
      /\ UNCHANGED <<vars, publisherVars, unregistrations, managerVars>>
      /\ UNCHANGED monitorList
  BY DEF SubscribeSend
<1>2. call \in CallType
  BY <1>1 DEF SystemType, NodeType
<1>3. /\ c \in CommandType /\ c.found = call.found
      /\ call.subscriber \in Subscribers
  BY <1>2 DEF CallType, CommandType, SubscriberCommands
<1>4. Wanted' = Applied(Wanted, c)
  BY <1>1 DEF Wanted, Applied
<1> HIDE DEF c
<1>5. commands' = Append(commands, c) /\ commands' \in Seq(CommandType)
  BY <1>1, <1>3, SendStep
<1>6. /\ subscriptionList' \in SUBSET Subscribers
      /\ monitorList' \in SUBSET Monitors
  BY <1>1, <1>3 DEF SystemType, NodeType
<1>7. SystemType' /\ WorldKept /\ UNCHANGED <<subscription, received>>
  BY <1>1, <1>5, <1>6, CallStep
<1>8. QED BY <1>1, <1>3, <1>4, <1>5, <1>7 DEF Sends

\* unsubscribe() tells the manager.
LEMMA UnsubscribeTypes ==
    ASSUME SystemType, NEW s \in Subscribers, Unsubscribe(s)
    PROVE  SystemType' /\ Sends
<1> DEFINE c == [op |-> "unsubscribe", who |-> s, found |-> {}]
<1>1. /\ Send(c) /\ subscriptionList' = subscriptionList \ {s}
      /\ UNCHANGED <<vars, publisherVars, unregistrations, managerVars>>
      /\ UNCHANGED <<call, monitorList>>
      /\ subscriptionList' = {} => monitorList = {} \/ "monitorKept" \in Uses
  BY DEF Unsubscribe
<1>2. c \in CommandType /\ c.found = {}
  BY DEF CommandType, SubscriberCommands
<1>3. Wanted' = Applied(Wanted, c)
  BY <1>1 DEF Wanted, Applied
<1> HIDE DEF c
<1>4. commands' = Append(commands, c) /\ commands' \in Seq(CommandType)
  BY <1>1, <1>2, SendStep
<1>5. /\ call' \in CallType \cup {NoCall}
      /\ subscriptionList' \in SUBSET Subscribers
      /\ monitorList' \in SUBSET Monitors
  BY <1>1 DEF SystemType, NodeType
<1>6. SystemType' /\ WorldKept /\ UNCHANGED <<subscription, received>>
  BY <1>1, <1>4, <1>5, CallStep
<1>7. QED BY <1>1, <1>2, <1>3, <1>4, <1>6 DEF Sends

\* setSubscriptionTimeoutMonitor() tells the manager.
LEMMA SetMonitorTypes ==
    ASSUME SystemType, NEW m \in Monitors, SetMonitor(m)
    PROVE  SystemType' /\ Sends
<1> DEFINE c == [op |-> "set_monitor", who |-> m, found |-> {}]
<1>1. /\ Send(c) /\ monitorList' = monitorList \cup {m}
      /\ UNCHANGED <<vars, publisherVars, unregistrations, managerVars>>
      /\ UNCHANGED <<call, subscriptionList>>
      /\ subscriptionList # {} \/ "monitorFirst" \in Uses
  BY DEF SetMonitor
<1>2. c \in CommandType /\ c.found = {}
  BY DEF CommandType, MonitorCommands
<1>3. Wanted' = Applied(Wanted, c)
  BY <1>1 DEF Wanted, Applied
<1> HIDE DEF c
<1>4. commands' = Append(commands, c) /\ commands' \in Seq(CommandType)
  BY <1>1, <1>2, SendStep
<1>5. /\ call' \in CallType \cup {NoCall}
      /\ subscriptionList' \in SUBSET Subscribers
      /\ monitorList' \in SUBSET Monitors
  BY <1>1 DEF SystemType, NodeType
<1>6. SystemType' /\ WorldKept /\ UNCHANGED <<subscription, received>>
  BY <1>1, <1>4, <1>5, CallStep
<1>7. QED BY <1>1, <1>2, <1>3, <1>4, <1>6 DEF Sends

\* clearSubscriptionTimeoutMonitor() tells the manager.
LEMMA ClearMonitorTypes ==
    ASSUME SystemType, NEW m \in Monitors, ClearMonitor(m)
    PROVE  SystemType' /\ Sends
<1> DEFINE c == [op |-> "clear_monitor", who |-> m, found |-> {}]
<1>1. /\ Send(c) /\ monitorList' = monitorList \ {m}
      /\ UNCHANGED <<vars, publisherVars, unregistrations, managerVars>>
      /\ UNCHANGED <<call, subscriptionList>>
  BY DEF ClearMonitor
<1>2. c \in CommandType /\ c.found = {}
  BY DEF CommandType, MonitorCommands
<1>3. Wanted' = Applied(Wanted, c)
  BY <1>1 DEF Wanted, Applied
<1> HIDE DEF c
<1>4. commands' = Append(commands, c) /\ commands' \in Seq(CommandType)
  BY <1>1, <1>2, SendStep
<1>5. /\ call' \in CallType \cup {NoCall}
      /\ subscriptionList' \in SUBSET Subscribers
      /\ monitorList' \in SUBSET Monitors
  BY <1>1 DEF SystemType, NodeType
<1>6. SystemType' /\ WorldKept /\ UNCHANGED <<subscription, received>>
  BY <1>1, <1>4, <1>5, CallStep
<1>7. QED BY <1>1, <1>2, <1>3, <1>4, <1>6 DEF Sends

-----------------------------------------------------------------------------
(***************************************************************************)
(* LastValues is what its CHOOSE looks for: every message of the sockets,  *)
(* once, and oldest first.  An enumeration exists because a smallest set   *)
(* without one would have one: that of the set without its oldest message, *)
(* with this message in front.                                             *)
(***************************************************************************)

\* A set of numbers has a least one.
LEMMA LeastNumber ==
    ASSUME NEW T, T \subseteq Nat, T # {}
    PROVE  \E x \in T : \A y \in T : x <= y
<1>1. IsWellFoundedOn(OpToRel(<, Nat), Nat)
  BY NatLessThanWellFounded, Zenon
<1>2. PICK x \in T : \A y \in T : ~(<<y, x>> \in OpToRel(<, Nat))
  BY <1>1, WFMin, Zenon
<1>3. \A y \in T : x \in Nat /\ y \in Nat /\ ~(y < x)
  BY <1>2 DEF OpToRel
<1>4. QED BY <1>3

\* Messages that their numbers tell apart, and messages in order.
Distinct(S) == \A m, n \in S : m.value = n.value => m = n
Ordered(s, n) == \A i, j \in 1 .. n : i < j => s[i].value < s[j].value

\* An oldest message, and the others in order.
LEMMA OldestFirst ==
    ASSUME NEW S \in SUBSET Message, NEW m \in S, NEW k \in Nat,
           \A n \in S \ {m} : m.value < n.value,
           NEW t \in [1 .. k -> S \ {m}], Ordered(t, k)
    PROVE  \E s \in [1 .. k + 1 -> S] : Ordered(s, k + 1)
<1> DEFINE s == [i \in 1 .. k + 1 |-> IF i = 1 THEN m ELSE t[i - 1]]
<1>1. \A i \in 2 .. k + 1 : i - 1 \in 1 .. k
  OBVIOUS
<1>2. s \in [1 .. k + 1 -> S]
  <2> SUFFICES ASSUME NEW i \in 1 .. k + 1
               PROVE  (IF i = 1 THEN m ELSE t[i - 1]) \in S
    OBVIOUS
  <2>1. i # 1 => i - 1 \in 1 .. k
    OBVIOUS
  <2>2. QED BY <2>1
<1>3. Ordered(s, k + 1)
  <2> SUFFICES ASSUME NEW i \in 1 .. k + 1, NEW j \in 1 .. k + 1, i < j
               PROVE  s[i].value < s[j].value
    BY DEF Ordered
  <2>1. j - 1 \in 1 .. k /\ s[j] = t[j - 1] /\ s[j] \in S \ {m}
    OBVIOUS
  <2>2. CASE i = 1
    BY <2>1, <2>2
  <2>3. CASE i # 1
    <3>1. i - 1 \in 1 .. k /\ s[i] = t[i - 1] /\ i - 1 < j - 1
      BY <2>3
    <3>2. QED BY <2>1, <3>1 DEF Ordered
  <2>4. QED BY <2>2, <2>3
<1>4. QED BY <1>2, <1>3

\* A finite set of messages can be put in order.
LEMMA InOrder ==
    ASSUME NEW S \in SUBSET Message, IsFiniteSet(S), Distinct(S)
    PROVE  \E s \in [1 .. Cardinality(S) -> S] : Ordered(s, Cardinality(S))
<1> DEFINE Fails(T) == /\ IsFiniteSet(T) /\ Distinct(T)
                       /\ ~\E s \in [1 .. Cardinality(T) -> T] :
                             Ordered(s, Cardinality(T))
           bad == {T \in SUBSET Message : Fails(T)}
           sizes == {Cardinality(T) : T \in bad}
<1> SUFFICES ASSUME Fails(S) PROVE FALSE
  OBVIOUS
<1>1. sizes \subseteq Nat /\ sizes # {}
  BY FS_CardinalityType
<1>2. PICK size \in sizes : \A k \in sizes : size <= k
  BY <1>1, LeastNumber
<1>3. PICK T \in bad : size = Cardinality(T)
  BY <1>2
<1>4. /\ T \in SUBSET Message /\ IsFiniteSet(T) /\ Distinct(T)
      /\ ~\E s \in [1 .. size -> T] : Ordered(s, size)
      /\ size \in Nat
  BY <1>1, <1>2, <1>3
<1>5. T # {}
  <2> SUFFICES ASSUME T = {} PROVE FALSE
    OBVIOUS
  <2>1. size = 0
    BY <1>3, FS_EmptySet
  <2>2. [i \in 1 .. 0 |-> i] \in [1 .. 0 -> {}]
    OBVIOUS
  <2>3. Ordered([i \in 1 .. 0 |-> i], 0)
    BY DEF Ordered
  <2>4. QED BY <1>4, <2>1, <2>2, <2>3
<1>6. PICK m \in T : \A n \in T : m.value <= n.value
  <2> DEFINE values == {n.value : n \in T}
  <2>1. values \subseteq Nat /\ values # {}
    BY <1>4, <1>5 DEF Message
  <2>2. PICK x \in values : \A y \in values : x <= y
    BY <2>1, LeastNumber
  <2>3. QED BY <2>2
<1>7. \A n \in T \ {m} : m.value < n.value
  BY <1>4, <1>6 DEF Distinct, Message
<1> DEFINE U == T \ {m}
<1>8. U \in SUBSET Message /\ IsFiniteSet(U) /\ Distinct(U)
      /\ Cardinality(U) = size - 1 /\ size - 1 \in Nat
  <2>1. IsFiniteSet(U) /\ Cardinality(U) = size - 1
    BY <1>3, <1>4, <1>6, FS_RemoveElement
  <2>2. QED BY <1>4, <2>1, FS_CardinalityType DEF Distinct
<1>9. U \notin bad
  <2> SUFFICES ASSUME U \in bad PROVE FALSE
    OBVIOUS
  <2>1. size - 1 \in sizes
    BY <1>8
  <2>2. QED BY <1>2, <1>4, <2>1
<1>10. PICK t \in [1 .. size - 1 -> U] : Ordered(t, size - 1)
  BY <1>8, <1>9
<1>11. \E s \in [1 .. (size - 1) + 1 -> T] : Ordered(s, (size - 1) + 1)
  BY <1>4, <1>6, <1>7, <1>8, <1>10, OldestFirst
<1>12. QED BY <1>4, <1>11

\* The messages lastCachedValueMap has for sockets in items.
Lasts(items) == {items[u].last : u \in Urls} \ {NoMessage}

\* So LastValues lists the last message of every socket, in order.
LEMMA LastValuesInOrder ==
    ASSUME NEW items \in [Urls -> SocketType], Distinct(Lasts(items))
    PROVE  /\ LastValues(items) \in Seq(Message)
           /\ Ordered(LastValues(items), Len(LastValues(items)))
           /\ \A k \in 1 .. Len(LastValues(items)) :
                 LastValues(items)[k] \in Lasts(items)
           /\ \A m \in Lasts(items) : \E k \in 1 .. Len(LastValues(items)) :
                 LastValues(items)[k] = m
<1> DEFINE last == Lasts(items)
           n == Cardinality(last)
           s == LastValues(items)
<1>1. last \in SUBSET Message
  BY DEF Lasts, SocketType, MaybeMessage
<1>2. IsFiniteSet(last) /\ n \in Nat
  <2> DEFINE all == {items[u].last : u \in Urls}
             f == [u \in Urls |-> items[u].last]
  <2>1. f \in Surjection(Urls, all)
    BY DEF Surjection
  <2>2. IsFiniteSet(all)
    BY <2>1, FS_Surjection, SubscriptionAssumption
  <2>3. IsFiniteSet(last)
    BY <2>2, FS_RemoveElement DEF Lasts
  <2>4. QED BY <2>3, FS_CardinalityType
<1>3. \E t \in [1 .. n -> last] : Ordered(t, n)
  BY <1>1, <1>2, InOrder
<1>4. s = CHOOSE t \in [1 .. n -> last] :
         \A i, j \in DOMAIN t : i < j => t[i].value < t[j].value
  BY DEF LastValues, Lasts
<1> HIDE DEF last, n, s
<1>5. s \in [1 .. n -> last] /\ Ordered(s, n)
  <2>1. \E t \in [1 .. n -> last] :
           \A i, j \in DOMAIN t : i < j => t[i].value < t[j].value
    BY <1>3 DEF Ordered
  <2>2. /\ s \in [1 .. n -> last]
        /\ \A i, j \in DOMAIN s : i < j => s[i].value < s[j].value
    BY <1>4, <2>1
  <2>3. QED BY <2>2 DEF Ordered
<1>6. s \in Seq(Message) /\ Len(s) = n
  BY <1>1, <1>2, <1>5
<1>7. \A m \in last : \E k \in 1 .. n : s[k] = m
  <2>1. \A i, j \in 1 .. n : s[i] = s[j] => i = j
    <3> SUFFICES ASSUME NEW i \in 1 .. n, NEW j \in 1 .. n, s[i] = s[j], i # j
                 PROVE  FALSE
      OBVIOUS
    <3>1. /\ i < j \/ j < i
          /\ s[i].value \in Nat /\ s[j].value \in Nat
      BY <1>1, <1>2, <1>5 DEF Message
    <3>2. QED BY <1>5, <3>1 DEF Ordered
  <2>2. s \in Injection(1 .. n, last)
    BY <1>5, <2>1 DEF Injection, IsInjective
  <2>3. Cardinality(1 .. n) = n
    BY <1>2, FS_Interval
  <2>4. n = Cardinality(last)
    BY DEF n
  <2>5. s \in Surjection(1 .. n, last)
    BY <1>2, <2>2, <2>3, <2>4, FS_Injection
  <2>6. QED BY <2>5 DEF Surjection
<1>8. QED BY <1>5, <1>6, <1>7 DEF last, s

-----------------------------------------------------------------------------
(***************************************************************************)
(* The manager's steps.                                                    *)
(***************************************************************************)

\* The manager takes a command.
Commanded(op) ==
    /\ commands # <<>> /\ commands[1] \in CommandType /\ commands[1].op = op
    /\ commands' = Tail(commands) /\ commands' \in Seq(CommandType)
    /\ WorldKept
    /\ UNCHANGED <<call, subscriptionList, monitorList>>

\* The manager takes a command; the world outside it stays.
LEMMA CommandStep ==
    ASSUME SystemType, NEW op, Command(op)
    PROVE  /\ Commanded(op) /\ Head(commands) = commands[1]
           /\ PublishersType' /\ RequestsType' /\ DirectoryInv'
           /\ subscription' \in DetailsType /\ SocketsInv'
              /\ received' \in [Subscribers -> Seq(Message)] => SystemType'
<1>1. /\ commands # <<>> /\ Head(commands).op = op /\ commands' = Tail(commands)
      /\ UNCHANGED <<vars, latest, overtaken, early, bound, lastCached,
                     published, unregistrations,
                     call, subscriptionList, monitorList>>
  BY DEF Command, publisherVars, timeVars, callVars
<1>2. commands \in Seq(CommandType)
  BY DEF SystemType, NodeType
<1>3. /\ Head(commands) = commands[1] /\ Head(commands) \in CommandType
      /\ Tail(commands) \in Seq(CommandType)
  BY <1>1, <1>2, SeqFacts
<1>4. DirectoryInv' /\ UNCHANGED <<dataProductMap, Listing>>
  BY <1>1, DirectoryKept
<1>5. PublishersType' /\ RequestsType'
  BY <1>1 DEF SystemType, PublishersType, RequestsType
<1>6. subscription' \in DetailsType /\ received' \in [Subscribers -> Seq(Message)]
      => NodeType'
  BY <1>1, <1>3 DEF SystemType, NodeType
<1>7. QED
  BY <1>1, <1>3, <1>4, <1>5, <1>6 DEF Commanded, WorldKept, SystemType

\* What a subscriber or monitor command names.
LEMMA CommandParts ==
    ASSUME NEW c \in CommandType
    PROVE  /\ c.op \in {"subscribe", "unsubscribe"} =>
                 c.who \in Subscribers /\ c.found \in SUBSET Infos
           /\ c.op \in {"set_monitor", "clear_monitor"} =>
                 c.who \in Monitors /\ c.found = {}
           /\ c.op \in {"subscribe", "unsubscribe", "set_monitor",
                        "clear_monitor"}
           /\ c.found \in SUBSET Infos
  BY DEF CommandType, SubscriberCommands, MonitorCommands

\* A subscriber is added.
Adds ==
    LET s == commands[1].who
        items == subscription'.pollItemMap
    IN  /\ Commanded("subscribe") /\ s \in Subscribers
        /\ subscription'.subscribers = subscription.subscribers \cup {s}
        /\ subscription'.monitors = subscription.monitors
        /\ subscription = NoDetails =>
              /\ subscription'.receiveCached = (s \in ReceiveCached)
              /\ subscription'.updates = UpdateSocket
        /\ subscription # NoDetails =>
              UNCHANGED <<subscription.receiveCached, subscription.updates>>
        /\ \A u \in Urls :
              \/ Socket(u)' = Socket(u)
              \/ /\ Socket(u) = NoSocket
                 /\ \E p \in commands[1].found :
                       p.url = u /\ Socket(u)' = NewSocket(p.registration_time)
        /\ Lasts(items) = Lasts(subscription.pollItemMap)
        /\ received'[s] = received[s] \o LateValues(s, items)
        /\ \A r \in Subscribers \ {s} : received'[r] = received[r]

\* addSubscription: sockets, and cached values for the newcomer.
LEMMA AddTypes ==
    ASSUME SystemType, Distinct(Lasts(subscription.pollItemMap)),
           AddSubscription
    PROVE  SystemType' /\ Adds
<1> DEFINE s == commands[1].who
           found == commands[1].found
           old == subscription.pollItemMap
           items == [u \in Urls |->
               IF old[u] = NoSocket /\ \E p \in found : p.url = u
               THEN NewSocket((CHOOSE p \in found : p.url = u).registration_time)
               ELSE old[u]]
           created == [NoDetails EXCEPT !.receiveCached = s \in ReceiveCached,
                                        !.updates = UpdateSocket]
           sub == IF subscription = NoDetails THEN created ELSE subscription
<1>1. Commanded("subscribe") /\ Head(commands) = commands[1]
  BY CommandStep DEF AddSubscription
<1>2. s \in Subscribers /\ found \in SUBSET Infos
  BY <1>1, CommandParts DEF Commanded
<1>3. /\ subscription' = [sub EXCEPT !.pollItemMap = items,
                                     !.subscribers = @ \cup {s}]
      /\ received' = [received EXCEPT ![s] = @ \o LateValues(s, items)]
  BY <1>1 DEF AddSubscription
<1>4. subscription \in DetailsType /\ old \in [Urls -> SocketType]
  BY DetailsParts DEF SystemType, NodeType
<1>5. \A u \in Urls :
         \/ items[u] = old[u] /\ items[u] \in SocketType
         \/ /\ old[u] = NoSocket
            /\ \E p \in found : /\ p.url = u
                                /\ items[u] = NewSocket(p.registration_time)
                                /\ items[u] \in SocketType
  <2> SUFFICES ASSUME NEW u \in Urls, old[u] = NoSocket,
                      \E p \in found : p.url = u
               PROVE  \E p \in found : /\ p.url = u
                                       /\ items[u] = NewSocket(p.registration_time)
                                       /\ items[u] \in SocketType
    BY <1>4
  <2> DEFINE p == CHOOSE q \in found : q.url = u
  <2>1. p \in found /\ p.url = u
    OBVIOUS
  <2>2. items[u] = NewSocket(p.registration_time)
    OBVIOUS
  <2>3. p.registration_time \in Times
    BY <1>2, <2>1 DEF Infos
  <2>4. QED BY <2>1, <2>2, <2>3, EmptySockets
<1>6. items \in [Urls -> SocketType]
  <2>1. \A u \in Urls : items[u] \in SocketType
    BY <1>5
  <2>2. items = [u \in Urls |-> items[u]]
    OBVIOUS
  <2> HIDE DEF items
  <2>3. QED BY <2>1, <2>2
<1> HIDE DEF items
<1>7. Lasts(items) = Lasts(old)
  <2>1. \A u \in Urls : items[u].last = old[u].last
    <3> SUFFICES ASSUME NEW u \in Urls, items[u] # old[u]
                 PROVE  items[u].last = old[u].last
      OBVIOUS
    <3>1. PICK p \in found : items[u] = NewSocket(p.registration_time)
      BY <1>5
    <3>2. p.registration_time \in Times
      BY <1>2 DEF Infos
    <3>3. QED BY <1>5, <3>1, <3>2, EmptySockets
  <2>2. QED BY <2>1 DEF Lasts
<1>8. /\ created \in DetailsType /\ created.subscribers = {}
      /\ created.monitors = {} /\ created.updates = UpdateSocket
      /\ created.receiveCached = (s \in ReceiveCached)
  <2>1. NoDetails \in DetailsType /\ UpdateSocket \in UpdatesType
        /\ NoDetails.subscribers = {} /\ NoDetails.monitors = {}
    BY EmptyDetails
  <2>2. (s \in ReceiveCached) \in BOOLEAN
    OBVIOUS
  <2>3. QED BY <2>1, <2>2 DEF DetailsType
<1>9. /\ sub \in DetailsType /\ sub.subscribers = subscription.subscribers
      /\ sub.monitors = subscription.monitors
      /\ subscription = NoDetails =>
            /\ sub.updates = UpdateSocket
            /\ sub.receiveCached = (s \in ReceiveCached)
      /\ subscription # NoDetails => sub = subscription
  BY <1>4, <1>8, EmptyDetails
<1> HIDE DEF sub, created
<1>10. subscription' = [receiveCached |-> sub.receiveCached,
                        subscribers |-> subscription.subscribers \cup {s},
                        monitors |-> subscription.monitors,
                        updates |-> sub.updates,
                        pollItemMap |-> items]
  BY <1>3, <1>9 DEF DetailsType
<1>11. /\ subscription.subscribers \cup {s} \in SUBSET Subscribers
       /\ sub.receiveCached \in BOOLEAN /\ sub.updates \in UpdatesType
       /\ subscription.monitors \in SUBSET Monitors
  BY <1>2, <1>4, <1>9 DEF DetailsType
<1>12. subscription' \in DetailsType
  BY <1>6, <1>10, <1>11 DEF DetailsType
<1>13. subscription'.pollItemMap = items
  BY <1>10
<1>14. SocketsInv'
  <2>1. \A u \in Urls : Socket(u)' = items[u] /\ Socket(u) = old[u]
    BY <1>13 DEF Socket
  <2>2. ASSUME NEW u \in Urls, items[u] # old[u]
        PROVE  items[u].open /\ items[u].regTime \in Times /\ u # DirectoryUrl
    <3>1. PICK p \in found : p.url = u /\ items[u] = NewSocket(p.registration_time)
      BY <1>5, <2>2
    <3>2. p.registration_time \in Times /\ p.url \in PublisherUrls
      BY <1>2 DEF Infos
    <3>3. QED BY <3>1, <3>2, EmptySockets DEF PublisherUrls
  <2>3. SocketsInv /\ DirectoryUrl \in Urls
    BY SubscriptionAssumption DEF SystemType
  <2>4. \A u \in Urls :
           /\ items[u].open => items[u].regTime \in Times
           /\ ~items[u].open => items[u] \in {NoSocket, ClosedSocket}
    BY <2>1, <2>2, <2>3 DEF SocketsInv
  <2>5. items[DirectoryUrl] \in {NoSocket, ClosedSocket}
    BY <2>1, <2>2, <2>3 DEF SocketsInv
  <2>6. QED BY <2>1, <2>3, <2>4, <2>5 DEF SocketsInv
<1>15. LateValues(s, items) \in Seq(Message)
  BY <1>6, <1>7, LastValuesInOrder DEF LateValues
<1>16. received \in [Subscribers -> Seq(Message)]
  BY DEF SystemType, NodeType
<1>17. received[s] \o LateValues(s, items) \in Seq(Message)
  BY <1>2, <1>15, <1>16, ConcatProperties
<1>18. received' \in [Subscribers -> Seq(Message)]
  BY <1>2, <1>3, <1>16, <1>17
<1>19. SystemType'
  BY <1>12, <1>14, <1>18, CommandStep DEF AddSubscription
<1>20. /\ \A u \in Urls : Socket(u)' = items[u] /\ Socket(u) = old[u]
       /\ received'[s] = received[s] \o LateValues(s, items)
       /\ \A r \in Subscribers \ {s} : received'[r] = received[r]
  BY <1>2, <1>3, <1>13, <1>16 DEF Socket
<1>21. \A u \in Urls :
          \/ Socket(u)' = Socket(u)
          \/ /\ Socket(u) = NoSocket
             /\ \E p \in found :
                   p.url = u /\ Socket(u)' = NewSocket(p.registration_time)
  BY <1>5, <1>20
<1>22. /\ subscription'.subscribers = subscription.subscribers \cup {s}
       /\ subscription'.monitors = subscription.monitors
       /\ subscription'.receiveCached = sub.receiveCached
       /\ subscription'.updates = sub.updates
  BY <1>10
<1>23. Adds
  BY <1>1, <1>2, <1>7, <1>9, <1>13, <1>20, <1>21, <1>22 DEF Adds
<1>24. QED BY <1>19, <1>23

\* Details without sockets and messages.
LEMMA NoDetailsSockets ==
    ASSUME subscription' = NoDetails
    PROVE  /\ SocketsInv' /\ \A u \in Urls : Socket(u)' = NoSocket
           /\ subscription' \in DetailsType
<1>1. \A u \in Urls : Socket(u)' = NoSocket
  BY EmptyDetails DEF Socket
<1>2. DirectoryUrl \in Urls
  BY SubscriptionAssumption
<1>3. \A u \in Urls :
         /\ Socket(u)'.open => Socket(u)'.regTime \in Times
         /\ ~Socket(u)'.open => Socket(u)' \in {NoSocket, ClosedSocket}
  BY <1>1, EmptySockets
<1>4. QED BY <1>1, <1>2, <1>3, EmptyDetails DEF SocketsInv

\* A subscriber is removed.
Removes ==
    LET s == commands[1].who
    IN  /\ Commanded("unsubscribe") /\ s \in Subscribers
        /\ subscription'.subscribers = subscription.subscribers \ {s}
        /\ subscription'.monitors = subscription.monitors
        /\ subscription'.subscribers # {} =>
              /\ UNCHANGED <<subscription.receiveCached, subscription.updates>>
              /\ \A u \in Urls : Socket(u)' = Socket(u)
        /\ subscription'.subscribers = {} =>
              /\ \A u \in Urls : Socket(u)' \in {NoSocket, ClosedSocket}
              /\ \/ UNCHANGED subscription.updates
                 \/ subscription' = NoDetails
              /\ subscription.monitors = {} => subscription' = NoDetails
        /\ received'[s] = <<>>
        /\ \A r \in Subscribers \ {s} : received'[r] = received[r]

\* removeSubscription: with the last member the details go.
LEMMA RemoveTypes ==
    ASSUME SystemType, RemoveSubscription
    PROVE  SystemType' /\ Removes
<1> DEFINE s == commands[1].who
           left == subscription.subscribers \ {s}
           closed == [u \in Urls |->
               IF subscription.pollItemMap[u] = NoSocket THEN NoSocket
                                                         ELSE ClosedSocket]
<1>1. Commanded("unsubscribe") /\ Head(commands) = commands[1]
  BY CommandStep DEF RemoveSubscription
<1>2. s \in Subscribers
  BY <1>1, CommandParts DEF Commanded
<1>3. /\ subscription' =
            IF left # {} THEN [subscription EXCEPT !.subscribers = left]
            ELSE IF subscription.monitors = {} THEN NoDetails
            ELSE [WithItems(closed) EXCEPT !.subscribers = {}]
      /\ received' = [received EXCEPT ![s] = <<>>]
  BY <1>1 DEF RemoveSubscription
<1>4. /\ subscription \in DetailsType /\ left \in SUBSET Subscribers
      /\ received \in [Subscribers -> Seq(Message)]
  BY DetailsParts DEF SystemType, NodeType
<1>5. /\ received' \in [Subscribers -> Seq(Message)] /\ received'[s] = <<>>
      /\ \A r \in Subscribers \ {s} : received'[r] = received[r]
  BY <1>2, <1>3, <1>4
<1>6. /\ closed \in [Urls -> SocketType]
      /\ \A u \in Urls : closed[u] \in {NoSocket, ClosedSocket}
  BY EmptySockets
<1> HIDE DEF left, closed
<1>7. CASE left # {}
  <2>1. subscription' = [receiveCached |-> subscription.receiveCached,
                         subscribers |-> left,
                         monitors |-> subscription.monitors,
                         updates |-> subscription.updates,
                         pollItemMap |-> subscription.pollItemMap]
    BY <1>3, <1>4, <1>7 DEF DetailsType
  <2>2. subscription' \in DetailsType
    BY <1>4, <2>1 DEF DetailsType
  <2>3. /\ UNCHANGED <<subscription.receiveCached, subscription.updates,
                       subscription.monitors>>
        /\ subscription'.subscribers = left
        /\ \A u \in Urls : Socket(u)' = Socket(u)
    BY <2>1 DEF Socket
  <2>4. SocketsInv'
    BY <2>3, SocketsSame DEF SystemType
  <2>5. SystemType'
    BY <1>5, <2>2, <2>4, CommandStep DEF RemoveSubscription
  <2>6. QED BY <1>1, <1>2, <1>5, <1>7, <2>3, <2>5 DEF Removes, left
<1>8. CASE left = {} /\ subscription.monitors = {}
  <2>1. subscription' = NoDetails
    BY <1>3, <1>8
  <2>2. /\ SocketsInv' /\ subscription' \in DetailsType
        /\ \A u \in Urls : Socket(u)' = NoSocket
    BY <2>1, NoDetailsSockets
  <2>3. SystemType'
    BY <1>5, <2>2, CommandStep DEF RemoveSubscription
  <2>4. subscription'.subscribers = {} /\ subscription'.monitors = {}
    BY <2>1, EmptyDetails
  <2>5. QED
    BY <1>1, <1>2, <1>5, <1>8, <2>1, <2>2, <2>3, <2>4 DEF Removes, left
<1>9. CASE left = {} /\ subscription.monitors # {}
  <2>1. subscription' = [receiveCached |-> subscription.receiveCached,
                         subscribers |-> {},
                         monitors |-> subscription.monitors,
                         updates |-> subscription.updates,
                         pollItemMap |-> closed]
    BY <1>3, <1>4, <1>9 DEF DetailsType, WithItems
  <2>2. subscription' \in DetailsType
    BY <1>4, <1>6, <2>1 DEF DetailsType
  <2>3. /\ UNCHANGED <<subscription.receiveCached, subscription.updates,
                       subscription.monitors>>
        /\ subscription'.subscribers = {}
        /\ \A u \in Urls : Socket(u)' = closed[u]
    BY <2>1 DEF Socket
  <2>4. \A u \in Urls : Socket(u)' \in {NoSocket, ClosedSocket}
    BY <1>6, <2>3
  <2>5. SocketsInv'
    <3>1. DirectoryUrl \in Urls
      BY SubscriptionAssumption
    <3>2. \A u \in Urls : ~Socket(u)'.open
      BY <2>4, EmptySockets
    <3>3. QED BY <2>4, <3>1, <3>2 DEF SocketsInv
  <2>6. SystemType'
    BY <1>5, <2>2, <2>5, CommandStep DEF RemoveSubscription
  <2>7. QED BY <1>1, <1>2, <1>5, <1>9, <2>3, <2>4, <2>6 DEF Removes, left
<1>10. QED BY <1>7, <1>8, <1>9

\* A monitor is set or cleared.
ChangesMonitors ==
    /\ Commanded("set_monitor") \/ Commanded("clear_monitor")
    /\ UNCHANGED <<received, subscription.subscribers>>
    /\ subscription'.monitors = Applied(Present, commands[1]).mons
    /\ \/ /\ UNCHANGED <<subscription.receiveCached, subscription.updates>>
          /\ \A u \in Urls : Socket(u)' = Socket(u)
       \/ subscription.subscribers = {} /\ subscription' = NoDetails

\* A step that writes the monitors.
LEMMA MonitorsStep ==
    ASSUME SystemType, NEW op, Command(op), UNCHANGED received,
           NEW mons \in SUBSET Monitors,
           subscription' = [subscription EXCEPT !.monitors = mons]
    PROVE  /\ SystemType'
           /\ subscription'.monitors = mons
           /\ UNCHANGED <<subscription.receiveCached, subscription.updates,
                          subscription.subscribers>>
           /\ \A u \in Urls : Socket(u)' = Socket(u)
<1>1. subscription \in DetailsType /\ received' \in [Subscribers -> Seq(Message)]
  BY DEF SystemType, NodeType
<1>2. subscription' = [receiveCached |-> subscription.receiveCached,
                       subscribers |-> subscription.subscribers,
                       monitors |-> mons,
                       updates |-> subscription.updates,
                       pollItemMap |-> subscription.pollItemMap]
  BY <1>1 DEF DetailsType
<1>3. subscription' \in DetailsType
  BY <1>1, <1>2 DEF DetailsType
<1>4. \A u \in Urls : Socket(u)' = Socket(u)
  BY <1>2 DEF Socket
<1>5. SocketsInv'
  BY <1>4, SocketsSame DEF SystemType
<1>6. SystemType'
  BY <1>1, <1>3, <1>5, CommandStep
<1>7. QED BY <1>2, <1>4, <1>6

\* setTimeoutMonitor: details are made if there are none.
LEMMA SetTimeoutTypes ==
    ASSUME SystemType, SetTimeoutMonitor
    PROVE  SystemType' /\ ChangesMonitors
<1> DEFINE mons == subscription.monitors \cup {commands[1].who}
<1>1. /\ Commanded("set_monitor") /\ Head(commands) = commands[1]
      /\ Command("set_monitor") /\ UNCHANGED received
  BY CommandStep DEF SetTimeoutMonitor
<1>2. commands[1].who \in Monitors
  BY <1>1, CommandParts DEF Commanded
<1>3. subscription' = [subscription EXCEPT !.monitors = mons]
  BY <1>1 DEF SetTimeoutMonitor
<1>4. mons \in SUBSET Monitors
  BY <1>2 DEF SystemType, NodeType, DetailsType
<1>5. mons = Applied(Present, commands[1]).mons
  BY <1>1 DEF Applied, Present, Commanded
<1> HIDE DEF mons
<1>6. QED BY <1>1, <1>3, <1>4, <1>5, MonitorsStep DEF ChangesMonitors

\* clearTimeoutMonitor: a monitor goes.
LEMMA ClearTimeoutTypes ==
    ASSUME SystemType, ClearTimeoutMonitor
    PROVE  SystemType' /\ ChangesMonitors
<1> DEFINE mons == subscription.monitors \ {commands[1].who}
<1>1. /\ Commanded("clear_monitor") /\ Head(commands) = commands[1]
      /\ Command("clear_monitor") /\ UNCHANGED received
  BY CommandStep DEF ClearTimeoutMonitor
<1>2. subscription' =
         IF mons = {} /\ subscription.subscribers = {} THEN NoDetails
         ELSE [subscription EXCEPT !.monitors = mons]
  BY <1>1 DEF ClearTimeoutMonitor
<1>3. /\ mons \in SUBSET Monitors
      /\ received' \in [Subscribers -> Seq(Message)]
  BY <1>1 DEF SystemType, NodeType, DetailsType
<1>4. mons = Applied(Present, commands[1]).mons
  BY <1>1 DEF Applied, Present, Commanded
<1> HIDE DEF mons
<1>5. CASE mons = {} /\ subscription.subscribers = {}
  <2>1. subscription' = NoDetails
    BY <1>2, <1>5
  <2>2. SocketsInv' /\ subscription' \in DetailsType
    BY <2>1, NoDetailsSockets
  <2>3. SystemType'
    BY <1>1, <1>3, <2>2, CommandStep
  <2>4. subscription'.subscribers = {} /\ subscription'.monitors = {}
    BY <2>1, EmptyDetails
  <2>5. QED BY <1>1, <1>4, <1>5, <2>1, <2>3, <2>4 DEF ChangesMonitors
<1>6. CASE ~(mons = {} /\ subscription.subscribers = {})
  BY <1>1, <1>2, <1>3, <1>4, <1>6, MonitorsStep DEF ChangesMonitors
<1>7. QED BY <1>5, <1>6

\* The subscription of the update socket arrives at the directory.
JoinsUpdates ==
    /\ WorldKept /\ NodeKept /\ UNCHANGED received
    /\ subscription.updates.open /\ ~subscription.updates.joined
    /\ \A u \in Urls : Socket(u)' = Socket(u)
    /\ SameMembers
    /\ subscription'.updates.open /\ subscription'.updates.joined
    /\ \/ Pending' = Pending /\ Listing = {}
       \/ Pending' = Append(Pending, Listing)

\* The update socket joins and is sent the cached update.
LEMMA JoinUpdatesTypes ==
    ASSUME SystemType, JoinUpdates
    PROVE  SystemType' /\ JoinsUpdates
<1> DEFINE waiting == IF cachedUpdates[SubscribedID] = {} THEN Pending
                      ELSE Append(Pending, Listing)
           joined == [subscription.updates EXCEPT !.joined = TRUE]
           x == [joined EXCEPT !.waiting = waiting]
<1>1. /\ UNCHANGED <<vars, latest, overtaken, early, bound, lastCached,
                     published, unregistrations,
                     received>>
      /\ NodeKept
      /\ subscription.updates.open /\ ~subscription.updates.joined
  BY DEF JoinUpdates, publisherVars, timeVars, callVars, NodeKept
<1>2. subscription \in DetailsType /\ received' \in [Subscribers -> Seq(Message)]
  BY <1>1 DEF SystemType, NodeType
<1>3. /\ publishedUpdates[OwnDomain][SubscribedID] = Listing
      /\ Listing \in SUBSET Infos
      /\ cachedUpdates[SubscribedID] = {} => Listing = {}
  BY DEF SystemType, DirectoryInv
<1>4. Pending \in Seq(SUBSET Infos) /\ waiting \in Seq(SUBSET Infos)
  BY <1>2, <1>3, DetailsParts, SeqFacts
<1>5. subscription' = [subscription EXCEPT !.updates = x]
  <2> DEFINE mid == [subscription EXCEPT !.updates = joined]
  <2>1. mid.updates = joined /\ mid.updates.waiting = Pending
    BY <1>2 DEF DetailsType, UpdatesType, Pending
  <2>2. subscription' = [mid EXCEPT !.updates = x]
    BY <1>3, <2>1 DEF JoinUpdates
  <2> HIDE DEF joined, x
  <2>3. QED BY <1>2, <2>2 DEF DetailsType
<1>6. x \in UpdatesType
  BY <1>2, <1>4, DetailsParts DEF UpdatesType
<1> HIDE DEF x
<1>7. subscription' \in DetailsType /\ ChangesUpdates(x)
  BY <1>2, <1>5, <1>6, OneUpdateSocket
<1>8. SocketsInv'
  BY <1>7, SocketsSame DEF SystemType, ChangesUpdates
<1>9. DirectoryInv' /\ WorldKept
  BY <1>1, DirectoryKept DEF WorldKept
<1>10. PublishersType' /\ RequestsType' /\ NodeType'
  BY <1>1, <1>2, <1>7
  DEF SystemType, PublishersType, RequestsType, NodeType, NodeKept
<1>11. subscription'.updates = x
  BY <1>7 DEF ChangesUpdates
<1>12. /\ subscription'.updates.open /\ subscription'.updates.joined
       /\ Pending' = waiting
  BY <1>1, <1>2, <1>11 DEF x, Pending, DetailsType, UpdatesType
<1>13. QED
  BY <1>1, <1>3, <1>7, <1>8, <1>9, <1>10, <1>12
  DEF JoinsUpdates, ChangesUpdates, SystemType

\* The manager takes an update.
TakesUpdate ==
    /\ WorldKept /\ NodeKept /\ UNCHANGED received
    /\ SameMembers
    /\ UNCHANGED <<subscription.updates.open, subscription.updates.joined>>
    /\ Pending # <<>> /\ Pending' = Tail(Pending)
    /\ Pending[1] \in SUBSET Infos
    /\ \A u \in Urls :
          \/ Socket(u)' = NoSocket /\ \A p \in Pending[1] : p.url # u
          \/ \E p \in Pending[1] :
                /\ p.url = u
                /\ \/ Socket(u)' = NewSocket(p.registration_time)
                   \/ Socket(u)' = Socket(u) /\ Socket(u).regTime = p.registration_time

\* An update is taken: sockets are opened, replaced and closed.
LEMMA TakeUpdateTypes ==
    ASSUME SystemType, TakeUpdate
    PROVE  SystemType' /\ TakesUpdate
<1> DEFINE listed == Pending[1]
           old == subscription.pollItemMap
           items == Reconciled(old, listed)
<1>1. /\ UNCHANGED <<vars, latest, overtaken, early, bound, lastCached,
                     published, unregistrations,
                     received>>
      /\ NodeKept /\ Pending # <<>>
  BY DEF TakeUpdate, publisherVars, timeVars, callVars, NodeKept, Pending
<1>2. /\ subscription \in DetailsType /\ old \in [Urls -> SocketType]
      /\ received' \in [Subscribers -> Seq(Message)]
      /\ Pending \in Seq(SUBSET Infos)
  BY <1>1, DetailsParts DEF SystemType, NodeType
<1>3. /\ Head(Pending) = listed /\ listed \in SUBSET Infos
      /\ Tail(Pending) \in Seq(SUBSET Infos)
  BY <1>1, <1>2, SeqFacts
<1>4. subscription' = [WithItems(items) EXCEPT !.updates.waiting = Tail(Pending)]
  BY <1>3 DEF TakeUpdate, Pending
<1>5. \A u \in Urls :
         \/ items[u] = NoSocket /\ \A p \in listed : p.url # u
         \/ \E p \in listed :
               /\ p.url = u /\ p.registration_time \in Times
               /\ \/ items[u] = NewSocket(p.registration_time)
                  \/ items[u] = old[u] /\ old[u].regTime = p.registration_time
  <2> SUFFICES ASSUME NEW u \in Urls, \E p \in listed : p.url = u
               PROVE  \E p \in listed :
                         /\ p.url = u /\ p.registration_time \in Times
                         /\ \/ items[u] = NewSocket(p.registration_time)
                            \/ /\ items[u] = old[u]
                               /\ old[u].regTime = p.registration_time
    BY DEF Reconciled
  <2> DEFINE p == CHOOSE q \in listed : q.url = u
  <2>1. p \in listed /\ p.url = u
    OBVIOUS
  <2>2. items[u] = IF old[u].regTime = p.registration_time THEN old[u]
                   ELSE NewSocket(p.registration_time)
    BY DEF Reconciled
  <2>3. p.registration_time \in Times
    BY <1>3, <2>1 DEF Infos
  <2>4. QED BY <2>1, <2>2, <2>3
<1>6. items = [u \in Urls |-> items[u]]
  BY DEF Reconciled
<1> HIDE DEF items, listed
<1>7. items \in [Urls -> SocketType]
  <2>1. \A u \in Urls : items[u] \in SocketType
    BY <1>2, <1>5, EmptySockets
  <2>2. QED BY <1>6, <2>1
<1>8. subscription' = [receiveCached |-> subscription.receiveCached,
                       subscribers |-> subscription.subscribers,
                       monitors |-> subscription.monitors,
                       updates |-> [open |-> subscription.updates.open,
                                    joined |-> subscription.updates.joined,
                                    waiting |-> Tail(Pending)],
                       pollItemMap |-> items]
  BY <1>2, <1>4 DEF WithItems, DetailsType, UpdatesType
<1>9. subscription' \in DetailsType
  BY <1>2, <1>3, <1>7, <1>8, DetailsParts DEF DetailsType, UpdatesType
<1>10. /\ SameMembers
       /\ UNCHANGED <<subscription.updates.open, subscription.updates.joined>>
       /\ Pending' = Tail(Pending)
       /\ \A u \in Urls : Socket(u)' = items[u] /\ Socket(u) = old[u]
  BY <1>8 DEF SameMembers, Pending, Socket
<1>11. SocketsInv'
  <2>1. \A u \in Urls :
           /\ items[u].open => items[u].regTime \in Times
           /\ ~items[u].open => items[u] \in {NoSocket, ClosedSocket}
    <3> SUFFICES ASSUME NEW u \in Urls, items[u] # NoSocket,
                        items[u] # old[u]
                 PROVE  items[u].open /\ items[u].regTime \in Times
      BY <1>10, EmptySockets DEF SystemType, SocketsInv
    <3>1. QED BY <1>5, EmptySockets
  <2>2. items[DirectoryUrl] = NoSocket
    <3>1. \A p \in listed : p.url # DirectoryUrl
      BY <1>3 DEF Infos, PublisherUrls
    <3>2. QED BY <1>5, <3>1, SubscriptionAssumption
  <2>3. DirectoryUrl \in Urls
    BY SubscriptionAssumption
  <2>4. QED BY <1>10, <2>1, <2>2, <2>3 DEF SocketsInv
<1>12. DirectoryInv' /\ WorldKept
  BY <1>1, DirectoryKept DEF WorldKept
<1>13. PublishersType' /\ RequestsType' /\ NodeType'
  BY <1>1, <1>2, <1>9
  DEF SystemType, PublishersType, RequestsType, NodeType, NodeKept
<1>14. \A u \in Urls :
          \/ Socket(u)' = NoSocket /\ \A p \in listed : p.url # u
          \/ \E p \in listed :
                /\ p.url = u
                /\ \/ Socket(u)' = NewSocket(p.registration_time)
                   \/ Socket(u)' = Socket(u) /\ Socket(u).regTime = p.registration_time
  BY <1>5, <1>10
<1>15. QED
  BY <1>1, <1>3, <1>10, <1>11, <1>12, <1>13, <1>14
  DEF TakesUpdate, SystemType, listed

\* Nothing happens.
LEMMA StutterTypes ==
    ASSUME SystemType, UNCHANGED systemVars
    PROVE  /\ SystemType' /\ WorldKept /\ NodeKept
           /\ UNCHANGED <<subscription, received>>
<1>1. /\ UNCHANGED <<vars, publisherVars, unregistrations, managerVars>>
      /\ UNCHANGED <<call, subscriptionList, monitorList, commands>>
  BY DEF systemVars, callVars
<1>2. /\ call' \in CallType \cup {NoCall}
      /\ subscriptionList' \in SUBSET Subscribers
      /\ monitorList' \in SUBSET Monitors /\ commands' \in Seq(CommandType)
  BY <1>1 DEF SystemType, NodeType
<1>3. QED BY <1>1, <1>2, CallStep DEF NodeKept

-----------------------------------------------------------------------------
(***************************************************************************)
(* All steps together.                                                     *)
(***************************************************************************)

\* A publisher binds a port.
Binds(u) ==
    /\ UNCHANGED <<subscription, dataProductMap, Listing, lastCached, published,
                   unregistrations, received>>
    /\ NodeKept
    /\ overtaken \subseteq overtaken'
    /\ u \notin overtaken' => Secs(latest[u]) < Secs(latest'[u])
    /\ bound[u] = Nobody
    /\ bound'[u] # Nobody /\ bound'[u].state # "registered"
    /\ \A v \in PublisherUrls \ {u} :
          bound'[v] = bound[v] /\ latest'[v] = latest[v]
    /\ UNCHANGED early

\* A publisher is registered.
Registers(u) ==
    /\ ChangesUpdates(UpdatesNext)
    /\ UNCHANGED <<latest, overtaken, early, lastCached, published,
                   unregistrations, received>>
    /\ NodeKept
    /\ bound[u] # Nobody /\ bound[u].state = "bound"
    /\ bound'[u].state = "registered" /\ bound'[u].id = bound[u].id
    /\ bound'[u].timestamp = bound[u].timestamp /\ bound'[u] # Nobody
    /\ \A v \in PublisherUrls \ {u} : bound'[v] = bound[v]
    /\ \A p \in Listing' : \/ p \in Listing
                           \/ /\ p = EntryOf(u)
                              /\ bound[u].id = SubscribedID
    /\ Accepted(Registration(u)) =>
          EntryOf(u) \in dataProductMap'[OwnDomain][bound[u].id]
    /\ \A i \in ProductIDs : \A p \in dataProductMap[OwnDomain][i] :
          p.url # u => p \in dataProductMap'[OwnDomain][i]

\* The directory takes an unregistration.
Removed(unreg) ==
    /\ ChangesUpdates(UpdatesNext)
    /\ unregistrations' = unregistrations \ {unreg}
    /\ NodeKept
    /\ UNCHANGED <<latest, overtaken, early, bound, lastCached, published,
                   received>>
    /\ Listing' \subseteq Listing
    /\ \A p \in Listing' :
          Unregistration(SubscribedID, p.url, p.registration_time) # unreg
    /\ \A i \in ProductIDs : \A p \in dataProductMap[OwnDomain][i] :
          \/ p \in dataProductMap'[OwnDomain][i]
          \/ /\ i = unreg.id /\ p.url = unreg.url
             /\ p.registration_time = unreg.registration_time

\* A publisher ends.
Ends(u) ==
    /\ Ended(u)
    /\ \/ UNCHANGED unregistrations
       \/ /\ bound[u] # Nobody
          /\ unregistrations' = unregistrations \cup
                {Unregistration(bound[u].id, u, RegTime(u))}

\* subscribe() asks the directory.
Looks ==
    /\ WorldKept /\ call'.found = Listing
    /\ UNCHANGED <<subscription, received, subscriptionList, monitorList,
                   commands>>

\* Nothing happens.
Idles == WorldKept /\ NodeKept /\ UNCHANGED <<subscription, received>>

\* What any step does.
AnyStep ==
    \/ \E u \in PublisherUrls :
          \/ Binds(u) \/ Registers(u) \/ Ends(u) \/ Publishes(u) \/ Resends(u)
          \/ Rejects(u) \/ Takes(u)
    \/ \E unreg \in unregistrations : Removed(unreg)
    \/ JoinsUpdates \/ TakesUpdate \/ Looks \/ Sends \/ Adds \/ Removes
    \/ ChangesMonitors \/ Idles

\* Every step keeps the types and is one of the effects above.
LEMMA StepEffects ==
    ASSUME SystemType, Distinct(Lasts(subscription.pollItemMap)),
           [SystemNext]_systemVars
    PROVE  SystemType' /\ AnyStep
<1>1. ASSUME NEW u \in PublisherUrls,
             NEW id \in ProductIDs \ {RegisteredPublishersID},
             NEW state \in {"bound", "elsewhere"}, NEW t \in Timestamps,
             BindPublisher(u, id, state, t)
      PROVE  SystemType' /\ Binds(u)
  <2>1. /\ UNCHANGED <<vars, early, lastCached, published, unregistrations,
                       received>>
        /\ NodeKept
    BY <1>1 DEF BindPublisher, timeVars, callVars, managerVars, NodeKept
  <2>2. QED BY <1>1, <2>1, BindStep, DirectoryKept DEF Binds
<1>2. ASSUME NEW u \in PublisherUrls, RegisterAtDirectory(u)
      PROVE  SystemType' /\ Registers(u)
  BY <1>2, RegisterTypes, RegisterStep DEF Registers, NodeKept
<1>3. ASSUME NEW unreg \in unregistrations, TakeUnregistration(unreg)
      PROVE  SystemType' /\ Removed(unreg)
  BY <1>3, TakeUnregistrationTypes, UnregisterStep DEF Removed
<1>4. ASSUME NEW u \in PublisherUrls, UnregisterDataProduct(u) \/ Crash(u)
      PROVE  SystemType' /\ Ends(u)
  BY <1>4, UnregisterTypes, CrashTypes DEF Ends
<1>5. ASSUME NEW s \in Subscribers, SubscribeLookup(s)
      PROVE  SystemType' /\ Looks
  BY <1>5, LookupTypes DEF Looks
<1>6. AddSubscription => SystemType' /\ Adds
  BY AddTypes
<1>7. UNCHANGED systemVars => SystemType' /\ Idles
  BY StutterTypes DEF Idles
<1>8. \A u \in PublisherUrls : Publish(u) => SystemType' /\ Publishes(u)
  BY PublishTypes
<1>9. \A u \in PublisherUrls :
         JoinPublisher(u) \/ OtherNodeJoins(u) => SystemType' /\ Resends(u)
  BY JoinTypes, OtherJoinTypes
<1>10. \A u \in PublisherUrls : RejectMessage(u) => SystemType' /\ Rejects(u)
  BY RejectTypes
<1>11. \A u \in PublisherUrls : TakeMessage(u) => SystemType' /\ Takes(u)
  BY TakeTypes
<1>12. JoinUpdates => SystemType' /\ JoinsUpdates
  BY JoinUpdatesTypes
<1>13. TakeUpdate => SystemType' /\ TakesUpdate
  BY TakeUpdateTypes
<1>14. /\ SubscribeSend => SystemType' /\ Sends
       /\ \A s \in Subscribers : Unsubscribe(s) => SystemType' /\ Sends
       /\ \A m \in Monitors : SetMonitor(m) => SystemType' /\ Sends
       /\ \A m \in Monitors : ClearMonitor(m) => SystemType' /\ Sends
  BY SubscribeTypes, UnsubscribeTypes, SetMonitorTypes, ClearMonitorTypes
<1>15. RemoveSubscription => SystemType' /\ Removes
  BY RemoveTypes
<1>16. SetTimeoutMonitor \/ ClearTimeoutMonitor => SystemType' /\ ChangesMonitors
  BY SetTimeoutTypes, ClearTimeoutTypes
<1>17. QED
  BY <1>1, <1>2, <1>3, <1>4, <1>5, <1>6, <1>7, <1>8, <1>9, <1>10, <1>11,
     <1>12, <1>13, <1>14, <1>15, <1>16
  DEF SystemNext, AnyStep

\* The directory lists nobody but itself.
LEMMA InitTypes ==
    ASSUME SystemInit
    PROVE  SystemType
<1> DEFINE directory == [url |-> DirectoryUrl, registration_time |-> 1]
<1>1. /\ TicksPerSecond \in Nat /\ TicksPerSecond # 0
      /\ MaxTime \in Nat /\ TicksPerSecond <= MaxTime
  BY TimeAssumption, SubscriptionAssumption
<1>2. TicksPerSecond \in Timestamps
  BY <1>1 DEF Timestamps
<1>3. directory \in PublisherInfo
  <2>1. Secs(MaxTime) \in Nat /\ Secs(MaxTime) # 0
    BY <1>1, SecsPositive
  <2>2. QED BY <2>1, SubscriptionAssumption DEF PublisherInfo
<1>4. /\ OwnDomain \in Domains /\ SubscribedID \in ProductIDs
      /\ SubscribedID # RegisteredPublishersID
      /\ RegisteredPublishersID \in ProductIDs
  BY DomainAssumption, SubscriptionAssumption, ProductAssumption
<1> HIDE DEF directory
<1>5. /\ dataProductMap = [d \in Domains |-> [i \in ProductIDs |->
              IF d = OwnDomain /\ i = RegisteredPublishersID
              THEN {directory} ELSE {}]]
      /\ publishedUpdates = dataProductMap
      /\ serviceMap = [d \in Domains |-> [s \in ServiceIDs |-> NoUrl]]
      /\ registrationInstanceMap =
            [u \in Urls |-> IF u = DirectoryUrl THEN TicksPerSecond
                                                ELSE NoInstance]
      /\ registeredPublishersBound = TRUE
      /\ registeredPublishersReady = TRUE
      /\ registeredPublishersProcessed = TRUE
      /\ registerUpdatesToSend = {}
      /\ cachedUpdates = [i \in ProductIDs |->
            IF i = RegisteredPublishersID THEN {OwnDomain} ELSE {}]
      /\ details = {}
  BY DEF SystemInit, directory
<1>6. DirectoryInv
  <2>1. dataProductMap \in [Domains -> [ProductIDs -> SUBSET PublisherInfo]]
    BY <1>3, <1>5
  <2>2. registrationInstanceMap \in [Urls -> {NoInstance, 0} \cup Timestamps]
    BY <1>2, <1>5
  <2>3. cachedUpdates \in [ProductIDs -> SUBSET Domains]
    BY <1>4, <1>5
  <2>4. TypeOK
    BY <1>5, <2>1, <2>2, <2>3 DEF TypeOK
  <2>5. \A i \in ProductIDs : dataProductMap[OwnDomain][i] =
           IF i = RegisteredPublishersID THEN {directory} ELSE {}
    BY <1>4, <1>5
  <2>6. OneProductPerUrl
    BY <2>5 DEF OneProductPerUrl
  <2>7. Listing = {}
    BY <1>4, <2>5 DEF Listing
  <2>8. QED BY <1>5, <2>4, <2>6, <2>7 DEF DirectoryInv, Listing
<1>7. /\ bound = [u \in PublisherUrls |-> Nobody]
      /\ lastCached = [u \in PublisherUrls |-> NoMessage]
      /\ published = 0 /\ unregistrations = {} /\ call = NoCall
      /\ subscriptionList = {} /\ monitorList = {} /\ commands = <<>>
      /\ subscription = NoDetails
      /\ received = [s \in Subscribers |-> <<>>]
      /\ latest = [u \in PublisherUrls |-> 0] /\ overtaken = {}
  BY DEF SystemInit
<1>8. PublishersType
  BY <1>1, <1>2, <1>7 DEF PublishersType, MaybeMessage
<1>9. RequestsType /\ NodeType
  BY <1>7, EmptyDetails DEF RequestsType, NodeType
<1>10. SocketsInv
  <2>1. \A u \in Urls : Socket(u) = NoSocket
    BY <1>7, EmptyDetails DEF Socket
  <2>2. QED BY <2>1, EmptySockets, SubscriptionAssumption DEF SocketsInv
<1>11. QED BY <1>6, <1>8, <1>9, <1>10 DEF SystemType

-----------------------------------------------------------------------------
(***************************************************************************)
(* Messages.  What is kept of a publisher's messages at its URL: those     *)
(* that wait at the socket, the last that was taken, and the cached one.   *)
(***************************************************************************)

\* The messages that are kept at a URL.
At(u) ==
    ({Queue(u)[k] : k \in 1 .. Len(Queue(u))}
        \cup {Socket(u).last, lastCached[u]}) \ {NoMessage}

\* Messages are numbered as they are published, and each is kept at one URL
\* only: that where it was published.
ValuesInv ==
    /\ \A u \in PublisherUrls : \A m \in At(u) : m.value <= published
    /\ \A u, v \in PublisherUrls : \A m \in At(u), n \in At(v) :
          m.value = n.value =>
              /\ u = v /\ m.id = n.id /\ m.regTime = n.regTime

\* A socket without messages, and a step that at most empties sockets.
Empty(x) == ~x.joined /\ x.last = NoMessage /\ x.waiting = <<>>
Quiet ==
    /\ UNCHANGED <<lastCached, published>>
    /\ \A u \in Urls : Socket(u)' = Socket(u) \/ Empty(Socket(u)')

\* What happens to messages happens at one publisher.
LEMMA MessageSteps ==
    ASSUME SystemType, AnyStep
    PROVE  \/ Quiet
           \/ \E u \in PublisherUrls :
                 Ended(u) \/ Publishes(u) \/ Resends(u) \/ Takes(u)
<1>1. /\ Empty(NoSocket) /\ Empty(ClosedSocket)
      /\ \A p \in Infos : Empty(NewSocket(p.registration_time))
  BY EmptySockets DEF Empty, Infos
<1>2. ASSUME NEW u \in PublisherUrls, Binds(u) PROVE Quiet
  BY <1>2 DEF Binds, Quiet, Socket
<1>3. ASSUME NEW u \in PublisherUrls, Registers(u) PROVE Quiet
  BY <1>3 DEF Registers, Quiet, ChangesUpdates
<1>4. ASSUME NEW u \in PublisherUrls, Rejects(u) PROVE Quiet
  BY <1>1, <1>4 DEF Rejects, Quiet, ChangesSocket
<1>5. ASSUME NEW unreg \in unregistrations, Removed(unreg) PROVE Quiet
  BY <1>5 DEF Removed, Quiet, ChangesUpdates
<1>6. JoinsUpdates => Quiet
  BY DEF JoinsUpdates, Quiet, WorldKept
<1>7. TakesUpdate => Quiet
  <2> SUFFICES ASSUME TakesUpdate, NEW u \in Urls
               PROVE  Socket(u)' = Socket(u) \/ Empty(Socket(u)')
    BY DEF TakesUpdate, Quiet, WorldKept
  <2>1. \/ Socket(u)' = NoSocket \/ Socket(u)' = Socket(u)
        \/ \E p \in Pending[1] : Socket(u)' = NewSocket(p.registration_time)
    BY DEF TakesUpdate
  <2>2. Pending[1] \in SUBSET Infos
    BY DEF TakesUpdate
  <2>3. QED BY <1>1, <2>1, <2>2
<1>8. Looks \/ Sends \/ Idles => Quiet
  BY DEF Looks, Sends, Idles, Quiet, WorldKept, Socket
<1>9. Adds => Quiet
  <2> SUFFICES ASSUME Adds, NEW u \in Urls
               PROVE  Socket(u)' = Socket(u) \/ Empty(Socket(u)')
    BY DEF Adds, Commanded, Quiet, WorldKept
  <2>1. \/ Socket(u)' = Socket(u)
        \/ \E p \in commands[1].found :
              Socket(u)' = NewSocket(p.registration_time)
    BY DEF Adds
  <2>2. commands[1].found \in SUBSET Infos
    BY CommandParts DEF Adds, Commanded
  <2>3. QED BY <1>1, <2>1, <2>2
<1>10. Removes => Quiet
  <2> SUFFICES ASSUME Removes, NEW u \in Urls
               PROVE  Socket(u)' = Socket(u) \/ Empty(Socket(u)')
    BY DEF Removes, Commanded, Quiet, WorldKept
  <2>1. Socket(u)' = Socket(u) \/ Socket(u)' \in {NoSocket, ClosedSocket}
    BY DEF Removes
  <2>2. QED BY <1>1, <2>1
<1>11. ChangesMonitors => Quiet
  <2> SUFFICES ASSUME ChangesMonitors, NEW u \in Urls
               PROVE  Socket(u)' = Socket(u) \/ Empty(Socket(u)')
    BY DEF ChangesMonitors, Commanded, Quiet, WorldKept
  <2>1. Socket(u)' = Socket(u) \/ Socket(u)' = NoSocket
    BY NoDetailsSockets DEF ChangesMonitors
  <2>2. QED BY <1>1, <2>1
<1>12. QED
  BY <1>2, <1>3, <1>4, <1>5, <1>6, <1>7, <1>8, <1>9, <1>10, <1>11
  DEF AnyStep, Ends

\* A message is put at the end of a queue.
Appended(u, m) ==
    /\ Len(Queue(u)') = Len(Queue(u)) + 1
    /\ Queue(u)'[Len(Queue(u)) + 1] = m
    /\ \A k \in 1 .. Len(Queue(u)) : Queue(u)'[k] = Queue(u)[k]

\* The messages at all other URLs are as before.
OthersKept(u) ==
    \A v \in PublisherUrls \ {u} :
        Socket(v)' = Socket(v) /\ lastCached'[v] = lastCached[v]

\* The types of what is kept at a URL.
LEMMA AtTypes ==
    ASSUME SystemType, NEW u \in PublisherUrls
    PROVE  /\ Queue(u) \in Seq(Message) /\ Len(Queue(u)) \in Nat
           /\ \A k \in 1 .. Len(Queue(u)) :
                 Queue(u)[k] \in Message /\ Queue(u)[k] \in At(u)
           /\ Queue(u) = <<>> <=> Len(Queue(u)) = 0
           /\ Socket(u).last \in MaybeMessage /\ lastCached[u] \in MaybeMessage
           /\ Socket(u).last # NoMessage => Socket(u).last \in At(u)
           /\ lastCached[u] # NoMessage => lastCached[u] \in At(u)
           /\ \A m \in At(u) : m \in Message
           /\ \A m \in MaybeMessage : m.value \in Nat
           /\ \A m \in Message : m.value \in Nat \ {0} /\ m # NoMessage
           /\ NoMessage.value = 0
           /\ published \in Nat
<1>1. u \in Urls
  BY DEF PublisherUrls
<1>2. Socket(u) \in SocketType /\ subscription \in DetailsType
  BY <1>1, OpenSockets
<1>3. Queue(u) \in Seq(Message)
  BY <1>1, <1>2, DetailsParts
<1>4. /\ Len(Queue(u)) \in Nat /\ Queue(u) = <<>> <=> Len(Queue(u)) = 0
      /\ \A k \in 1 .. Len(Queue(u)) : Queue(u)[k] \in Message
  BY <1>3, SeqFacts
<1>5. /\ \A m \in Message : m.value \in Nat \ {0} /\ m # NoMessage
      /\ NoMessage.value = 0
  BY DEF Message, NoMessage
<1>6. \A m \in MaybeMessage : m.value \in Nat
  BY <1>5 DEF MaybeMessage
<1>7. /\ Socket(u).last \in MaybeMessage /\ lastCached[u] \in MaybeMessage
      /\ published \in Nat
  BY <1>2 DEF SocketType, SystemType, PublishersType
<1>8. QED BY <1>3, <1>4, <1>5, <1>6, <1>7 DEF At, MaybeMessage

\* A publisher ends: its cached value is gone, what was sent is not.
LEMMA EndedParts ==
    ASSUME SystemType, NEW u \in PublisherUrls, Ended(u)
    PROVE  /\ OthersKept(u) /\ UNCHANGED published
           /\ Queue(u)' = Queue(u) /\ Socket(u)'.last = Socket(u).last
           /\ ~Socket(u)'.joined /\ lastCached'[u] = NoMessage
           /\ Socket(u)'.open = Socket(u).open
           /\ Socket(u)'.regTime = Socket(u).regTime
<1>1. u \in Urls
  BY DEF PublisherUrls
<1>2. Socket(u) \in SocketType
  BY <1>1, OpenSockets
<1>3. Socket(u)' = [Socket(u) EXCEPT !.joined = FALSE]
  BY DEF Ended, ChangesSocket
<1>4. QED
  BY <1>2, <1>3
  DEF Ended, ChangesSocket, OthersKept, PublisherUrls, SocketType, Queue, Socket

\* A message is published: it is cached, and sent to a socket that joined.
LEMMA PublishesParts ==
    ASSUME SystemType, NEW u \in PublisherUrls, Publishes(u)
    PROVE  /\ OthersKept(u) /\ published' = published + 1
           /\ Socket(u)'.last = Socket(u).last
           /\ Socket(u)'.joined = Socket(u).joined
           /\ Socket(u)'.open = Socket(u).open
           /\ Socket(u)'.regTime = Socket(u).regTime
           /\ lastCached'[u] = NewMessage(u) /\ NewMessage(u) \in Message
           /\ NewMessage(u).value = published + 1
           /\ Socket(u).joined => Appended(u, NewMessage(u))
           /\ ~Socket(u).joined => Queue(u)' = Queue(u)
<1>1. u \in Urls
  BY DEF PublisherUrls
<1>2. Socket(u) \in SocketType /\ Queue(u) \in Seq(Message)
  BY <1>1, OpenSockets, AtTypes
<1>3. Socket(u)' = Queued(Socket(u), NewMessage(u)) /\ NewMessage(u) \in Message
  BY DEF Publishes, ChangesSocket
<1>4. /\ Socket(u)'.last = Socket(u).last
      /\ Socket(u)'.joined = Socket(u).joined
      /\ Socket(u)'.open = Socket(u).open
      /\ Socket(u)'.regTime = Socket(u).regTime
      /\ Queue(u)' = IF Socket(u).joined THEN Append(Queue(u), NewMessage(u))
                     ELSE Queue(u)
  BY <1>2, <1>3, QueuedType DEF Queue, Socket
<1>5. Socket(u).joined => Appended(u, NewMessage(u))
  BY <1>2, <1>3, <1>4, SeqFacts DEF Appended
<1>6. NewMessage(u).value = published + 1
  BY DEF NewMessage
<1>7. QED
  BY <1>3, <1>4, <1>5, <1>6 DEF Publishes, ChangesSocket, OthersKept,
                                PublisherUrls

\* Two messages are the same, but for the flag that says one was cached.
Same(m, n) ==
    m.id = n.id /\ m.url = n.url /\ m.regTime = n.regTime /\ m.value = n.value

\* The cached value is sent again.
LEMMA ResendsParts ==
    ASSUME SystemType, NEW u \in PublisherUrls, Resends(u)
    PROVE  /\ OthersKept(u) /\ UNCHANGED published
           /\ Socket(u)'.last = Socket(u).last
           /\ Socket(u)'.joined /\ Socket(u).open
           /\ Socket(u)'.open = Socket(u).open
           /\ Socket(u)'.regTime = Socket(u).regTime
           /\ lastCached'[u] = lastCached[u]
           /\ lastCached[u] = NoMessage => Queue(u)' = Queue(u)
           /\ lastCached[u] # NoMessage => \E m \in Message :
                 Appended(u, m) /\ Same(m, lastCached[u])
<1> DEFINE joined == [Socket(u) EXCEPT !.joined = TRUE]
           m == [lastCached[u] EXCEPT !.cached = TRUE]
<1>1. u \in Urls
  BY DEF PublisherUrls
<1>2. Socket(u) \in SocketType /\ Queue(u) \in Seq(Message)
  BY <1>1, OpenSockets, AtTypes
<1>3. /\ joined \in SocketType /\ joined.last = Socket(u).last
      /\ joined.joined /\ joined.open = Socket(u).open
      /\ joined.regTime = Socket(u).regTime /\ joined.waiting = Queue(u)
  BY <1>2 DEF SocketType, Queue, Socket
<1>4. lastCached[u] # NoMessage => m \in Message /\ Same(m, lastCached[u])
  <2> SUFFICES ASSUME lastCached[u] # NoMessage
               PROVE  m \in Message /\ Same(m, lastCached[u])
    OBVIOUS
  <2>1. lastCached[u] \in Message
    BY AtTypes DEF MaybeMessage
  <2>2. QED BY <2>1 DEF Message, Same
<1> HIDE DEF joined, m
<1>5. Socket(u)' = IF lastCached[u] = NoMessage THEN joined ELSE Queued(joined, m)
  BY DEF Resends, ChangesSocket, joined, m
<1>6. /\ Socket(u)'.last = Socket(u).last /\ Socket(u)'.joined
      /\ Socket(u)'.open = Socket(u).open
      /\ Socket(u)'.regTime = Socket(u).regTime
      /\ Queue(u)' = IF lastCached[u] = NoMessage THEN Queue(u)
                     ELSE Append(Queue(u), m)
  BY <1>2, <1>3, <1>4, <1>5, QueuedType DEF Queue, Socket
<1>7. lastCached[u] # NoMessage => Appended(u, m)
  BY <1>2, <1>4, <1>6, SeqFacts DEF Appended
<1>8. QED
  BY <1>4, <1>6, <1>7
  DEF Resends, ChangesSocket, OthersKept, PublisherUrls

\* The first message is taken.
LEMMA TakesParts ==
    ASSUME SystemType, NEW u \in PublisherUrls, Takes(u)
    PROVE  /\ OthersKept(u) /\ UNCHANGED published
           /\ Socket(u)'.last = IF Socket(u).last.value < Queue(u)[1].value
                                THEN Queue(u)[1] ELSE Socket(u).last
           /\ Socket(u)'.joined = Socket(u).joined
           /\ Socket(u)'.open = Socket(u).open
           /\ Socket(u)'.regTime = Socket(u).regTime
           /\ lastCached'[u] = lastCached[u]
           /\ Len(Queue(u)) > 0 /\ Len(Queue(u)') = Len(Queue(u)) - 1
           /\ Queue(u)[1] \in Message
           /\ \A k \in 1 .. Len(Queue(u)) - 1 : Queue(u)'[k] = Queue(u)[k + 1]
<1> DEFINE last == IF Socket(u).last.value < Queue(u)[1].value
                   THEN Queue(u)[1] ELSE Socket(u).last
<1>1. u \in Urls
  BY DEF PublisherUrls
<1>2. Socket(u) \in SocketType /\ Queue(u) \in Seq(Message) /\ Queue(u) # <<>>
  BY <1>1, OpenSockets, AtTypes DEF Takes
<1>3. Socket(u)' = [Socket(u) EXCEPT !.waiting = Tail(Queue(u)), !.last = last]
  BY DEF Takes, ChangesSocket
<1> HIDE DEF last
<1>4. /\ Socket(u)'.last = last /\ Socket(u)'.joined = Socket(u).joined
      /\ Socket(u)'.open = Socket(u).open
      /\ Socket(u)'.regTime = Socket(u).regTime
      /\ Queue(u)' = Tail(Queue(u))
  BY <1>2, <1>3 DEF SocketType, Queue, Socket
<1>5. /\ Len(Queue(u)) > 0 /\ Len(Queue(u)') = Len(Queue(u)) - 1
      /\ Queue(u)[1] \in Message
      /\ \A k \in 1 .. Len(Queue(u)) - 1 : Queue(u)'[k] = Queue(u)[k + 1]
  BY <1>2, <1>4, SeqFacts
<1>6. QED
  BY <1>4, <1>5 DEF Takes, ChangesSocket, OthersKept, PublisherUrls, last

\* No step moves a message to another URL, and only a publisher adds one.
LEMMA AtStep ==
    ASSUME SystemType, AnyStep, NEW v \in PublisherUrls, NEW m \in At(v)'
    PROVE  \/ \E n \in At(v) : Same(m, n)
           \/ Publishes(v) /\ m = NewMessage(v)
<1>1. /\ m # NoMessage
      /\ \/ m = Socket(v)'.last \/ m = lastCached'[v]
         \/ \E k \in 1 .. Len(Queue(v)') : m = Queue(v)'[k]
  BY DEF At
<1>2. \A n \in At(v) : Same(n, n)
  BY DEF Same
<1>3. v \in Urls
  BY DEF PublisherUrls
<1>4. CASE Socket(v)' = Socket(v) /\ lastCached'[v] = lastCached[v]
  <2>1. Queue(v)' = Queue(v) /\ Socket(v)'.last = Socket(v).last
    BY <1>4 DEF Queue, Socket
  <2>2. m \in At(v)
    BY <1>1, <1>4, <2>1 DEF At
  <2>3. QED BY <1>2, <2>2
<1>5. CASE Empty(Socket(v)') /\ lastCached'[v] = lastCached[v]
  <2>1. Queue(v)' = <<>> /\ Socket(v)'.last = NoMessage
    BY <1>5 DEF Queue, Socket, Empty
  <2>2. m = lastCached[v]
    BY <1>1, <1>5, <2>1
  <2>3. QED BY <1>1, <1>2, <2>2 DEF At
<1>6. CASE Ended(v)
  <2>1. /\ Queue(v)' = Queue(v) /\ Socket(v)'.last = Socket(v).last
        /\ lastCached'[v] = NoMessage
    BY <1>6, EndedParts
  <2>2. m \in At(v)
    BY <1>1, <2>1 DEF At
  <2>3. QED BY <1>2, <2>2
<1>7. CASE Publishes(v)
  <2>1. /\ Socket(v)'.last = Socket(v).last /\ lastCached'[v] = NewMessage(v)
        /\ Socket(v).joined => Appended(v, NewMessage(v))
        /\ ~Socket(v).joined => Queue(v)' = Queue(v)
    BY <1>7, PublishesParts
  <2>2. m = NewMessage(v) \/ m \in At(v)
    <3> SUFFICES ASSUME NEW k \in 1 .. Len(Queue(v)'), m = Queue(v)'[k]
                 PROVE  m = NewMessage(v) \/ m \in At(v)
      BY <1>1, <2>1 DEF At
    <3>1. Len(Queue(v)) \in Nat
      BY AtTypes
    <3>2. CASE Socket(v).joined
      BY <2>1, <3>1, <3>2, AtTypes DEF Appended
    <3>3. CASE ~Socket(v).joined
      BY <2>1, <3>3, AtTypes
    <3>4. QED BY <3>2, <3>3
  <2>3. QED BY <1>2, <1>7, <2>2
<1>8. CASE Resends(v)
  <2>1. /\ Socket(v)'.last = Socket(v).last /\ lastCached'[v] = lastCached[v]
        /\ lastCached[v] = NoMessage => Queue(v)' = Queue(v)
        /\ lastCached[v] # NoMessage => \E n \in Message :
              Appended(v, n) /\ Same(n, lastCached[v])
    BY <1>8, ResendsParts
  <2>2. CASE lastCached[v] = NoMessage
    <3>1. m \in At(v)
      BY <1>1, <2>1, <2>2 DEF At
    <3>2. QED BY <1>2, <3>1
  <2>3. CASE lastCached[v] # NoMessage
    <3>1. PICK n \in Message : Appended(v, n) /\ Same(n, lastCached[v])
      BY <2>1, <2>3
    <3>2. m = n \/ m \in At(v)
      <4> SUFFICES ASSUME NEW k \in 1 .. Len(Queue(v)'), m = Queue(v)'[k]
                   PROVE  m = n \/ m \in At(v)
        BY <1>1, <2>1 DEF At
      <4>1. Len(Queue(v)) \in Nat
        BY AtTypes
      <4>2. QED BY <3>1, <4>1, AtTypes DEF Appended
    <3>3. lastCached[v] \in At(v)
      BY <2>3, AtTypes
    <3>4. QED BY <1>2, <3>1, <3>2, <3>3
  <2>4. QED BY <2>2, <2>3
<1>9. CASE Takes(v)
  <2>1. /\ Socket(v)'.last \in {Queue(v)[1], Socket(v).last}
        /\ lastCached'[v] = lastCached[v]
        /\ Len(Queue(v)) > 0 /\ Len(Queue(v)') = Len(Queue(v)) - 1
        /\ \A k \in 1 .. Len(Queue(v)) - 1 : Queue(v)'[k] = Queue(v)[k + 1]
    BY <1>9, TakesParts
  <2>2. Len(Queue(v)) \in Nat
    BY AtTypes
  <2>3. m \in At(v)
    <3>1. Queue(v)[1] \in At(v)
      BY <2>1, <2>2, AtTypes
    <3>2. \A k \in 1 .. Len(Queue(v)') : Queue(v)'[k] \in At(v)
      BY <2>1, <2>2, AtTypes
    <3>3. QED BY <1>1, <2>1, <3>1, <3>2 DEF At
  <2>4. QED BY <1>2, <2>3
<1>10. Quiet \/ \E u \in PublisherUrls : OthersKept(u) /\
          (Ended(u) \/ Publishes(u) \/ Resends(u) \/ Takes(u))
  BY MessageSteps, EndedParts, PublishesParts, ResendsParts, TakesParts
<1>11. QED
  BY <1>3, <1>4, <1>5, <1>6, <1>7, <1>8, <1>9, <1>10 DEF Quiet, OthersKept

\* The numbers of the messages stay the ones of one URL.
LEMMA ValuesStep ==
    ASSUME SystemType, AnyStep, ValuesInv
    PROVE  ValuesInv'
<1>1. published \in Nat /\ published' \in Nat /\ published <= published'
  <2>1. published \in Nat
    BY DEF SystemType, PublishersType
  <2>2. published' = published \/ published' = published + 1
    BY MessageSteps, EndedParts, PublishesParts, ResendsParts, TakesParts
    DEF Quiet
  <2>3. QED BY <2>1, <2>2
<1>2. ASSUME NEW u \in PublisherUrls, NEW m \in At(u)'
      PROVE  \/ \E n \in At(u) : /\ n.value = m.value /\ n.id = m.id
                                 /\ n.regTime = m.regTime
                                 /\ m.value <= published /\ m.value \in Nat
             \/ /\ Publishes(u) /\ m = NewMessage(u)
                /\ m.value = published + 1 /\ published' = published + 1
  BY <1>2, AtStep, AtTypes, PublishesParts DEF ValuesInv, Same
<1>3. ASSUME NEW u \in PublisherUrls, NEW m \in At(u)'
      PROVE  m.value <= published'
  BY <1>1, <1>2, <1>3
<1>4. ASSUME NEW u \in PublisherUrls, NEW v \in PublisherUrls,
             Publishes(u), Publishes(v)
      PROVE  u = v
  <2> SUFFICES ASSUME u # v PROVE FALSE
    OBVIOUS
  <2>1. lastCached'[v] = lastCached[v] /\ lastCached'[v] = NewMessage(v)
    BY <1>4, PublishesParts DEF OthersKept
  <2>2. lastCached[v] \in At(v) /\ lastCached[v].value = published + 1
    BY <1>4, <2>1, PublishesParts, AtTypes
  <2>3. QED BY <1>1, <2>2 DEF ValuesInv
<1>5. ASSUME NEW u \in PublisherUrls, NEW v \in PublisherUrls,
             NEW m \in At(u)', NEW n \in At(v)', m.value = n.value
      PROVE  u = v /\ m.id = n.id /\ m.regTime = n.regTime
  <2>1. CASE Publishes(u) /\ m = NewMessage(u) /\ m.value = published + 1
    <3>1. Publishes(v) /\ n = NewMessage(v)
      BY <1>1, <1>2, <1>5, <2>1
    <3>2. QED BY <1>4, <2>1, <3>1
  <2>2. CASE \E o \in At(u) : /\ o.value = m.value /\ o.id = m.id
                              /\ o.regTime = m.regTime
                              /\ m.value <= published
    <3>1. ~(n.value = published + 1)
      BY <1>1, <1>5, <2>2
    <3>2. \E o \in At(v) : /\ o.value = n.value /\ o.id = n.id
                           /\ o.regTime = n.regTime
      BY <1>2, <3>1
    <3>3. QED BY <1>5, <2>2, <3>2 DEF ValuesInv
  <2>3. QED BY <1>2, <2>1, <2>2
<1>6. QED BY <1>3, <1>5 DEF ValuesInv

\* The messages the manager keeps are all different.
LEMMA LastsDistinct ==
    ASSUME SystemType, ValuesInv
    PROVE  Distinct(Lasts(subscription.pollItemMap))
<1> SUFFICES ASSUME NEW u \in Urls, NEW v \in Urls,
                    Socket(u).last # NoMessage, Socket(v).last # NoMessage,
                    Socket(u).last.value = Socket(v).last.value
             PROVE  Socket(u).last = Socket(v).last
  BY DEF Distinct, Lasts, Socket
<1>1. Socket(DirectoryUrl).last = NoMessage
  BY EmptySockets DEF SystemType, SocketsInv
<1>2. u \in PublisherUrls /\ v \in PublisherUrls
  BY <1>1 DEF PublisherUrls
<1>3. Socket(u).last \in At(u) /\ Socket(v).last \in At(v)
  BY <1>2, AtTypes
<1>4. u = v
  BY <1>2, <1>3 DEF ValuesInv
<1>5. QED BY <1>4

\* Messages wait in the order in which they were published, none before one
\* that was taken, and nothing at a URL is newer than what is cached there.
OrderInv ==
    \A u \in PublisherUrls :
        /\ \A i, j \in 1 .. Len(Queue(u)) :
              i < j => Queue(u)[i].value <= Queue(u)[j].value
        /\ \A j \in 1 .. Len(Queue(u)) : Socket(u).last.value <= Queue(u)[j].value
        /\ lastCached[u] # NoMessage =>
              \A m \in At(u) : m.value <= lastCached[u].value

\* The newest message of a socket that joined is the one that is cached.
NewestInv ==
    \A u \in PublisherUrls : Socket(u).joined /\ lastCached[u] # NoMessage =>
        /\ Queue(u) = <<>> => Socket(u).last.value = lastCached[u].value
        /\ Queue(u) # <<>> =>
              Queue(u)[Len(Queue(u))].value = lastCached[u].value

\* A message that is not older than those at the URL is added.
LEMMA OrderAppend ==
    ASSUME SystemType, OrderInv, NEW u \in PublisherUrls, NEW m \in Message,
           Appended(u, m), Socket(u)'.last = Socket(u).last,
           \A n \in At(u) : n.value <= m.value
    PROVE  /\ \A i, j \in 1 .. Len(Queue(u)') :
                 i < j => Queue(u)'[i].value <= Queue(u)'[j].value
           /\ \A j \in 1 .. Len(Queue(u)') :
                 Socket(u)'.last.value <= Queue(u)'[j].value
<1>1. /\ Len(Queue(u)) \in Nat /\ m.value \in Nat
      /\ \A k \in 1 .. Len(Queue(u)) :
            Queue(u)[k] \in At(u) /\ Queue(u)[k].value \in Nat
  BY AtTypes
<1>2. /\ Len(Queue(u)') = Len(Queue(u)) + 1
      /\ Queue(u)'[Len(Queue(u)) + 1] = m
      /\ \A k \in 1 .. Len(Queue(u)) : Queue(u)'[k] = Queue(u)[k]
  BY DEF Appended
<1>3. Socket(u).last.value <= m.value
  <2>1. Socket(u).last = NoMessage \/ Socket(u).last \in At(u)
    BY AtTypes
  <2>2. QED BY <1>1, <2>1 DEF NoMessage
<1>4. ASSUME NEW i \in 1 .. Len(Queue(u)'), NEW j \in 1 .. Len(Queue(u)'), i < j
      PROVE  Queue(u)'[i].value <= Queue(u)'[j].value
  <2>1. i \in 1 .. Len(Queue(u)) /\ Queue(u)'[i] = Queue(u)[i]
    BY <1>1, <1>2, <1>4
  <2>2. CASE j = Len(Queue(u)) + 1
    BY <1>1, <1>2, <2>1, <2>2
  <2>3. CASE j # Len(Queue(u)) + 1
    <3>1. j \in 1 .. Len(Queue(u)) /\ Queue(u)'[j] = Queue(u)[j]
      BY <1>1, <1>2, <2>3
    <3>2. QED BY <1>4, <2>1, <3>1 DEF OrderInv
  <2>4. QED BY <2>2, <2>3
<1>5. ASSUME NEW j \in 1 .. Len(Queue(u)')
      PROVE  Socket(u)'.last.value <= Queue(u)'[j].value
  <2>1. CASE j = Len(Queue(u)) + 1
    BY <1>2, <1>3, <2>1
  <2>2. CASE j # Len(Queue(u)) + 1
    <3>1. j \in 1 .. Len(Queue(u)) /\ Queue(u)'[j] = Queue(u)[j]
      BY <1>1, <1>2, <2>2
    <3>2. QED BY <3>1 DEF OrderInv
  <2>3. QED BY <2>1, <2>2
<1>6. QED BY <1>4, <1>5

\* Queues stay in order, and nothing in them is newer than the cache.
LEMMA OrderStep ==
    ASSUME SystemType, SystemType', AnyStep, ValuesInv, OrderInv, NewestInv
    PROVE  OrderInv' /\ NewestInv'
<1> SUFFICES ASSUME NEW v \in PublisherUrls
             PROVE  /\ \A i, j \in 1 .. Len(Queue(v)') :
                          i < j => Queue(v)'[i].value <= Queue(v)'[j].value
                    /\ \A j \in 1 .. Len(Queue(v)') :
                          Socket(v)'.last.value <= Queue(v)'[j].value
                    /\ lastCached'[v] # NoMessage =>
                          \A m \in At(v)' : m.value <= lastCached'[v].value
                    /\ Socket(v)'.joined /\ lastCached'[v] # NoMessage =>
                          /\ Queue(v)' = <<>> =>
                                Socket(v)'.last.value = lastCached'[v].value
                          /\ Queue(v)' # <<>> =>
                                Queue(v)'[Len(Queue(v)')].value
                                   = lastCached'[v].value
  BY DEF OrderInv, NewestInv
<1>1. v \in Urls
  BY DEF PublisherUrls
<1>2. /\ Len(Queue(v)) \in Nat /\ published \in Nat
      /\ \A k \in 1 .. Len(Queue(v)) :
            Queue(v)[k] \in At(v) /\ Queue(v)[k].value \in Nat
      /\ \A m \in At(v) : m \in Message
      /\ Queue(v) = <<>> <=> Len(Queue(v)) = 0
  BY AtTypes
<1>3. /\ Len(Queue(v)') \in Nat
      /\ Queue(v)' = <<>> <=> Len(Queue(v)') = 0
      /\ \A m \in Message : m.value \in Nat
  <2>1. subscription' \in DetailsType
    BY DEF SystemType, NodeType
  <2>2. Queue(v)' \in Seq(Message)
    BY <1>1, <2>1 DEF DetailsType, SocketType, Queue
  <2>3. QED BY <2>2, SeqFacts DEF Message
<1>4. /\ \A i, j \in 1 .. Len(Queue(v)) :
            i < j => Queue(v)[i].value <= Queue(v)[j].value
      /\ \A j \in 1 .. Len(Queue(v)) : Socket(v).last.value <= Queue(v)[j].value
      /\ lastCached[v] # NoMessage =>
            \A m \in At(v) : m.value <= lastCached[v].value
  BY DEF OrderInv
<1>5. Socket(v).joined /\ lastCached[v] # NoMessage =>
         /\ Queue(v) = <<>> => Socket(v).last.value = lastCached[v].value
         /\ Queue(v) # <<>> => Queue(v)[Len(Queue(v))].value = lastCached[v].value
  BY DEF NewestInv
<1>6. lastCached'[v] = lastCached[v] /\ lastCached[v] # NoMessage =>
         \A m \in At(v)' : m.value <= lastCached'[v].value
  <2> SUFFICES ASSUME lastCached'[v] = lastCached[v], lastCached[v] # NoMessage,
                      NEW m \in At(v)'
               PROVE  m.value <= lastCached[v].value
    OBVIOUS
  <2>1. CASE \E n \in At(v) : Same(m, n)
    BY <1>4, <2>1 DEF Same
  <2>2. CASE Publishes(v) /\ m = NewMessage(v)
    <3>1. lastCached'[v] = m /\ m.value = published + 1
      BY <2>2, PublishesParts
    <3>2. QED BY <1>2, <3>1
  <2>3. QED BY <2>1, <2>2, AtStep
<1>7. CASE Socket(v)' = Socket(v) /\ lastCached'[v] = lastCached[v]
  <2>1. Queue(v)' = Queue(v) /\ Socket(v)'.last = Socket(v).last
        /\ Socket(v)'.joined = Socket(v).joined
    BY <1>7 DEF Queue, Socket
  <2>2. QED BY <1>4, <1>5, <1>6, <1>7, <2>1
<1>8. CASE Empty(Socket(v)') /\ lastCached'[v] = lastCached[v]
  <2>1. Queue(v)' = <<>> /\ ~Socket(v)'.joined
    BY <1>8 DEF Queue, Socket, Empty
  <2>2. QED BY <1>3, <1>6, <1>8, <2>1
<1>9. CASE Ended(v)
  <2>1. /\ Queue(v)' = Queue(v) /\ Socket(v)'.last = Socket(v).last
        /\ lastCached'[v] = NoMessage
    BY <1>9, EndedParts
  <2>2. QED BY <1>4, <2>1
<1>10. CASE Publishes(v)
  <2> DEFINE new == NewMessage(v)
  <2>1. /\ Socket(v)'.last = Socket(v).last /\ lastCached'[v] = new
        /\ new.value = published + 1 /\ new \in Message
        /\ Socket(v)'.joined = Socket(v).joined
        /\ Socket(v).joined => Appended(v, new)
        /\ ~Socket(v).joined => Queue(v)' = Queue(v)
    BY <1>10, PublishesParts
  <2>2. \A n \in At(v) : n.value <= new.value
    BY <1>2, <2>1 DEF ValuesInv, Message
  <2>3. \A m \in At(v)' : m.value <= new.value
    <3> SUFFICES ASSUME NEW m \in At(v)' PROVE m.value <= new.value
      OBVIOUS
    <3>1. (\E n \in At(v) : m.value = n.value) \/ m = new
      BY AtStep DEF Same
    <3>2. QED BY <1>2, <2>1, <2>2, <3>1
  <2> HIDE DEF new
  <2>4. CASE Socket(v).joined
    <3>1. /\ \A i, j \in 1 .. Len(Queue(v)') :
                i < j => Queue(v)'[i].value <= Queue(v)'[j].value
          /\ \A j \in 1 .. Len(Queue(v)') :
                Socket(v)'.last.value <= Queue(v)'[j].value
      BY <2>1, <2>2, <2>4, OrderAppend
    <3>2. /\ Len(Queue(v)') = Len(Queue(v)) + 1
          /\ Queue(v)'[Len(Queue(v)')] = new
      BY <1>2, <2>1, <2>4 DEF Appended
    <3>3. QED BY <1>2, <1>3, <2>1, <2>3, <3>1, <3>2
  <2>5. CASE ~Socket(v).joined
    BY <1>4, <2>1, <2>3, <2>5
  <2>6. QED BY <2>4, <2>5
<1>11. CASE Resends(v)
  <2>1. /\ Socket(v)'.last = Socket(v).last /\ lastCached'[v] = lastCached[v]
        /\ lastCached[v] = NoMessage => Queue(v)' = Queue(v)
        /\ lastCached[v] # NoMessage => \E n \in Message :
              Appended(v, n) /\ Same(n, lastCached[v])
    BY <1>11, ResendsParts
  <2>2. CASE lastCached[v] = NoMessage
    BY <1>4, <2>1, <2>2
  <2>3. CASE lastCached[v] # NoMessage
    <3>1. PICK n \in Message : Appended(v, n) /\ Same(n, lastCached[v])
      BY <2>1, <2>3
    <3>2. \A m \in At(v) : m.value <= n.value
      BY <1>4, <2>3, <3>1 DEF Same
    <3>3. /\ \A i, j \in 1 .. Len(Queue(v)') :
                i < j => Queue(v)'[i].value <= Queue(v)'[j].value
          /\ \A j \in 1 .. Len(Queue(v)') :
                Socket(v)'.last.value <= Queue(v)'[j].value
      BY <2>1, <3>1, <3>2, OrderAppend
    <3>4. /\ Len(Queue(v)') = Len(Queue(v)) + 1
          /\ Queue(v)'[Len(Queue(v)')].value = lastCached[v].value
      BY <1>2, <3>1 DEF Appended, Same
    <3>5. QED BY <1>2, <1>3, <1>6, <2>1, <3>3, <3>4
  <2>4. QED BY <2>2, <2>3
<1>12. CASE Takes(v)
  <2> DEFINE n == Len(Queue(v))
  <2>1. /\ Socket(v)'.last = IF Socket(v).last.value < Queue(v)[1].value
                             THEN Queue(v)[1] ELSE Socket(v).last
        /\ Socket(v)'.joined = Socket(v).joined
        /\ lastCached'[v] = lastCached[v]
        /\ n > 0 /\ Len(Queue(v)') = n - 1
        /\ \A k \in 1 .. n - 1 : Queue(v)'[k] = Queue(v)[k + 1]
    BY <1>12, TakesParts
  <2>2. Socket(v).last.value \in Nat /\ Socket(v).last.value <= Queue(v)[1].value
    BY <1>2, <1>4, <2>1, AtTypes
  <2>3. Socket(v)'.last.value = Queue(v)[1].value
    BY <1>2, <2>1, <2>2
  <2>4. ASSUME NEW i \in 1 .. n - 1, NEW j \in 1 .. n - 1, i < j
        PROVE  Queue(v)'[i].value <= Queue(v)'[j].value
    <3>1. i + 1 \in 1 .. n /\ j + 1 \in 1 .. n /\ i + 1 < j + 1
      BY <1>2, <2>4
    <3>2. QED BY <1>4, <2>1, <3>1
  <2>5. ASSUME NEW j \in 1 .. n - 1
        PROVE  Socket(v)'.last.value <= Queue(v)'[j].value
    <3>1. 1 \in 1 .. n /\ j + 1 \in 1 .. n /\ 1 < j + 1
      BY <1>2, <2>5
    <3>2. Queue(v)[1].value <= Queue(v)[j + 1].value
      BY <1>4, <3>1
    <3>3. QED BY <2>1, <2>3, <3>2
  <2>6. Socket(v).joined /\ lastCached[v] # NoMessage =>
           Queue(v)[n].value = lastCached[v].value
    BY <1>2, <1>5, <2>1
  <2>7. n # 1 => Queue(v)'[n - 1] = Queue(v)[n]
    BY <1>2, <2>1
  <2>8. Queue(v)' = <<>> => n = 1
    BY <1>2, <1>3, <2>1
  <2>9. Queue(v)' # <<>> => n # 1
    BY <1>2, <1>3, <2>1
  <2>10. QED BY <1>6, <2>1, <2>3, <2>4, <2>5, <2>6, <2>7, <2>8, <2>9
<1>13. Quiet \/ \E u \in PublisherUrls : OthersKept(u) /\
          (Ended(u) \/ Publishes(u) \/ Resends(u) \/ Takes(u))
  BY MessageSteps, EndedParts, PublishesParts, ResendsParts, TakesParts
<1>14. QED
  <2>1. \/ Socket(v)' = Socket(v) /\ lastCached'[v] = lastCached[v]
        \/ Empty(Socket(v)') /\ lastCached'[v] = lastCached[v]
        \/ Ended(v) \/ Publishes(v) \/ Resends(v) \/ Takes(v)
    BY <1>1, <1>13 DEF Quiet, OthersKept
  <2>2. QED BY <1>7, <1>8, <1>9, <1>10, <1>11, <1>12, <2>1

-----------------------------------------------------------------------------
(***************************************************************************)
(* What the subscribers have.                                              *)
(***************************************************************************)

\* Subscriber s has been given the message with this number.
Got(s, value) ==
    \E i \in 1 .. Len(received[s]) : received[s][i].value = value

\* With a subscription that wants cached values, a subscriber that wants them
\* has every message the manager took last from a publisher.
GotInv ==
    subscription.receiveCached =>
        \A s \in subscription.subscribers \cap ReceiveCached,
           u \in PublisherUrls :
            Socket(u).last # NoMessage => Got(s, Socket(u).last.value)

\* The last message of a socket changes only when one is taken.
LEMMA LastsKept ==
    ASSUME SystemType, AnyStep, NEW u \in PublisherUrls
    PROVE  Socket(u)'.last \in {Socket(u).last, NoMessage} \/ Takes(u)
<1>1. u \in Urls
  BY DEF PublisherUrls
<1>2. \/ Quiet \/ Ended(u) \/ Publishes(u) \/ Resends(u) \/ Takes(u)
      \/ Socket(u)' = Socket(u)
  BY MessageSteps, EndedParts, PublishesParts, ResendsParts, TakesParts
  DEF OthersKept
<1>3. Quiet => Socket(u)'.last \in {Socket(u).last, NoMessage}
  BY <1>1 DEF Quiet, Empty
<1>4. QED
  BY <1>2, <1>3, EndedParts, PublishesParts, ResendsParts

\* Who subscribes, and what was received, changes in few steps.
LEMMA MemberSteps ==
    ASSUME AnyStep
    PROVE  \/ SameMembers /\ UNCHANGED received
           \/ \E u \in PublisherUrls : Takes(u)
           \/ Adds \/ Removes \/ ChangesMonitors
<1>1. ASSUME NEW u \in PublisherUrls,
             Binds(u) \/ Registers(u) \/ Ends(u) \/ Publishes(u) \/ Resends(u)
             \/ Rejects(u)
      PROVE  SameMembers /\ UNCHANGED received
  BY <1>1 DEF Binds, Registers, Ends, Ended, Publishes, Resends, Rejects,
              ChangesSocket, ChangesUpdates, SameMembers
<1>2. ASSUME NEW unreg \in unregistrations, Removed(unreg)
      PROVE  SameMembers /\ UNCHANGED received
  BY <1>2 DEF Removed, ChangesUpdates
<1>3. JoinsUpdates \/ TakesUpdate \/ Looks \/ Sends \/ Idles =>
         SameMembers /\ UNCHANGED received
  BY DEF JoinsUpdates, TakesUpdate, Looks, Sends, Idles, SameMembers
<1>4. QED BY <1>1, <1>2, <1>3 DEF AnyStep

\* Steps that take nothing away from anybody.
LEMMA GotKept ==
    ASSUME SystemType, GotInv,
           \A u \in PublisherUrls :
              Socket(u)'.last \in {Socket(u).last, NoMessage},
           subscription'.receiveCached => subscription.receiveCached,
           subscription'.subscribers \subseteq subscription.subscribers,
           \A s \in subscription'.subscribers : received'[s] = received[s]
    PROVE  GotInv'
<1> SUFFICES ASSUME subscription'.receiveCached, NEW u \in PublisherUrls,
                    NEW s \in subscription'.subscribers \cap ReceiveCached,
                    Socket(u)'.last # NoMessage
             PROVE  Got(s, Socket(u).last.value)'
  BY DEF GotInv
<1>1. Socket(u)'.last = Socket(u).last
  OBVIOUS
<1>2. Got(s, Socket(u).last.value)
  BY <1>1 DEF GotInv
<1>3. QED BY <1>1, <1>2 DEF Got

\* A message is given to all, and a newcomer gets what the others have.
LEMMA GotStep ==
    ASSUME SystemType, SystemType', AnyStep, ValuesInv, GotInv
    PROVE  GotInv'
<1>1. ASSUME NEW u \in PublisherUrls, Takes(u) PROVE GotInv'
  <2> SUFFICES ASSUME subscription'.receiveCached, NEW v \in PublisherUrls,
                      NEW s \in subscription'.subscribers \cap ReceiveCached,
                      Socket(v)'.last # NoMessage
               PROVE  Got(s, Socket(v).last.value)'
    BY DEF GotInv
  <2> DEFINE m == Queue(u)[1]
  <2>1. /\ subscription.receiveCached /\ s \in subscription.subscribers
        /\ s \in Subscribers
    BY <1>1, SubscriptionAssumption DEF Takes, ChangesSocket, SameMembers
  <2>2. received[s] \in Seq(Message) /\ m \in Message
    BY <1>1, <2>1, TakesParts DEF SystemType, NodeType
  <2>3. received'[s] = IF Socket(u).last.value < m.value
                       THEN Append(received[s], m) ELSE received[s]
    BY <1>1, <2>1 DEF Takes
  <2>4. \A value : Got(s, value) => Got(s, value)'
    <3> SUFFICES ASSUME NEW value, NEW i \in 1 .. Len(received[s]),
                        received[s][i].value = value
                 PROVE  \E j \in 1 .. Len(received'[s]) :
                           received'[s][j].value = value
      BY DEF Got
    <3>1. Len(received[s]) \in Nat
      BY <2>2, SeqFacts
    <3>2. i \in 1 .. Len(received'[s]) /\ received'[s][i] = received[s][i]
      BY <2>2, <2>3, <3>1, SeqFacts
    <3>3. QED BY <3>2
  <2>5. CASE v = u /\ Socket(u).last.value < m.value
    <3>1. Socket(v)'.last = m /\ received'[s] = Append(received[s], m)
      BY <1>1, <2>3, <2>5, TakesParts
    <3>2. /\ Len(received'[s]) \in 1 .. Len(received'[s])
          /\ received'[s][Len(received'[s])] = m
      BY <2>2, <3>1, SeqFacts
    <3>3. QED BY <3>1, <3>2 DEF Got
  <2>6. CASE ~(v = u /\ Socket(u).last.value < m.value)
    <3>1. Socket(v)'.last = Socket(v).last
      BY <1>1, <2>6, TakesParts DEF OthersKept
    <3>2. QED BY <2>1, <2>4, <3>1 DEF GotInv
  <2>7. QED BY <2>5, <2>6
<1>2. CASE \A u \in PublisherUrls : ~Takes(u)
  <2>1. \A u \in PublisherUrls : Socket(u)'.last \in {Socket(u).last, NoMessage}
    BY <1>2, LastsKept
  <2>2. CASE SameMembers /\ UNCHANGED received
    BY <2>1, <2>2, GotKept DEF SameMembers
  <2>3. CASE Removes
    <3>1. CASE subscription'.subscribers = {}
      BY <3>1 DEF GotInv
    <3>2. CASE subscription'.subscribers # {}
      <4>1. subscription'.subscribers \subseteq Subscribers
        BY DEF SystemType, NodeType, DetailsType
      <4>2. QED BY <2>1, <2>3, <3>2, <4>1, GotKept DEF Removes
    <3>3. QED BY <3>1, <3>2
  <2>4. CASE ChangesMonitors
    <3>1. CASE subscription' = NoDetails
      BY <3>1, EmptyDetails DEF GotInv
    <3>2. CASE subscription' # NoDetails
      BY <2>1, <2>4, <3>2, GotKept DEF ChangesMonitors
    <3>3. QED BY <3>1, <3>2
  <2>5. CASE Adds
    <3> SUFFICES ASSUME subscription'.receiveCached, NEW u \in PublisherUrls,
                        NEW s \in subscription'.subscribers \cap ReceiveCached,
                        Socket(u)'.last # NoMessage
                 PROVE  Got(s, Socket(u).last.value)'
      BY DEF GotInv
    <3> DEFINE c == commands[1]
               items == subscription'.pollItemMap
               late == LateValues(c.who, items)
    <3>1. u \in Urls /\ Socket(u)'.last = Socket(u).last
      BY <2>1 DEF PublisherUrls
    <3>2. subscription # NoDetails
      <4>1. NoDetails.pollItemMap[u].last = NoMessage
        BY <3>1, EmptyDetails, EmptySockets
      <4>2. QED BY <3>1, <4>1 DEF Socket
    <3>3. /\ subscription.receiveCached /\ c.who \in Subscribers
          /\ subscription'.subscribers = subscription.subscribers \cup {c.who}
          /\ received'[c.who] = received[c.who] \o late
          /\ \A r \in Subscribers \ {c.who} : received'[r] = received[r]
      BY <2>5, <3>2 DEF Adds
    <3>4. s \in Subscribers
      BY SubscriptionAssumption
    <3>5. CASE s # c.who
      <4>1. Got(s, Socket(u).last.value)
        BY <3>1, <3>3, <3>5 DEF GotInv
      <4>2. received'[s] = received[s]
        BY <3>3, <3>4, <3>5
      <4>3. QED BY <3>1, <4>1, <4>2 DEF Got
    <3>6. CASE s = c.who /\ s \in subscription.subscribers
      <4>1. late = <<>> /\ received[s] \in Seq(Message)
        BY <3>4, <3>6 DEF LateValues, SystemType, NodeType
      <4>2. received'[s] = received[s]
        BY <3>3, <3>6, <4>1, ConcatEmptySeq
      <4>3. Got(s, Socket(u).last.value)
        BY <3>1, <3>3, <3>6 DEF GotInv
      <4>4. QED BY <3>1, <4>2, <4>3 DEF Got
    <3>7. CASE s = c.who /\ s \notin subscription.subscribers
      <4>1. late = LastValues(items) /\ received[s] \in Seq(Message)
        BY <3>4, <3>7 DEF LateValues, SystemType, NodeType
      <4>2. items \in [Urls -> SocketType] /\ Distinct(Lasts(items))
        <5>1. items \in [Urls -> SocketType]
          BY DEF SystemType, NodeType, DetailsType
        <5>2. Lasts(items) = Lasts(subscription.pollItemMap)
          BY <2>5 DEF Adds
        <5>3. QED BY <5>1, <5>2, LastsDistinct
      <4>3. PICK k \in 1 .. Len(late) : late[k] = Socket(u)'.last
        <5>1. Socket(u)'.last \in Lasts(items)
          BY <3>1 DEF Lasts, Socket
        <5>2. QED BY <4>1, <4>2, <5>1, LastValuesInOrder
      <4>4. late \in Seq(Message)
        BY <4>1, <4>2, LastValuesInOrder
      <4> HIDE DEF late
      <4>5. received'[s] = received[s] \o late
        BY <3>3, <3>7
      <4>6. /\ Len(received[s]) + k \in 1 .. Len(received'[s])
            /\ received'[s][Len(received[s]) + k] = late[k]
        <5> DEFINE q == received[s]
                   r == received'[s]
        <5>1. q \in Seq(Message) /\ r = q \o late
          BY <4>1, <4>5
        <5> HIDE DEF q, r
        <5>2. \A n \in 1 .. Len(late) : /\ Len(q) + n \in 1 .. Len(r)
                                        /\ r[Len(q) + n] = late[n]
          BY <4>4, <5>1, ConcatFacts
        <5>3. QED BY <5>2 DEF q, r
      <4>7. QED BY <4>3, <4>6 DEF Got
    <3>8. QED BY <3>5, <3>6, <3>7
  <2>6. QED BY <1>2, <2>2, <2>3, <2>4, <2>5, MemberSteps
<1>3. QED BY <1>1, <1>2

\* The inductive invariant behind delivery.
DeliveryInv == SystemType /\ ValuesInv /\ OrderInv /\ NewestInv /\ GotInv

\* At first there is nothing anywhere.
LEMMA NoMessages ==
    ASSUME SystemInit
    PROVE  /\ \A u \in Urls : Socket(u) = NoSocket
           /\ \A u \in PublisherUrls :
                 /\ At(u) = {} /\ Queue(u) = <<>> /\ Socket(u).last = NoMessage
                 /\ ~Socket(u).joined /\ lastCached[u] = NoMessage
                 /\ bound[u] = Nobody
           /\ subscription = NoDetails /\ subscription.subscribers = {}
           /\ unregistrations = {} /\ commands = <<>> /\ call = NoCall
           /\ subscription.updates = NoUpdateSocket /\ Pending = <<>>
           /\ received = [s \in Subscribers |-> <<>>]
           /\ Listing = {}
<1>1. subscription = NoDetails /\ lastCached = [u \in PublisherUrls |-> NoMessage]
  BY DEF SystemInit
<1>2. \A u \in Urls : Socket(u) = NoSocket
  BY <1>1, EmptyDetails DEF Socket
<1>3. \A u \in PublisherUrls : /\ Queue(u) = <<>> /\ Socket(u).last = NoMessage
                               /\ ~Socket(u).joined
                               /\ lastCached[u] = NoMessage
  <2>1. \A u \in Urls : /\ Queue(u) = <<>> /\ Socket(u).last = NoMessage
                        /\ ~Socket(u).joined
    BY <1>2, EmptySockets DEF Queue, Socket
  <2>2. QED BY <1>1, <2>1 DEF PublisherUrls
<1>4. \A u \in PublisherUrls : At(u) = {}
  BY <1>3 DEF At
<1>5. Listing = {}
  <2>1. OwnDomain \in Domains /\ SubscribedID \in ProductIDs
        /\ SubscribedID # RegisteredPublishersID
    BY DomainAssumption, SubscriptionAssumption
  <2>2. QED BY <2>1 DEF SystemInit, Listing
<1>6. /\ \A u \in PublisherUrls : bound[u] = Nobody
      /\ unregistrations = {} /\ commands = <<>> /\ call = NoCall
      /\ received = [s \in Subscribers |-> <<>>]
  BY DEF SystemInit
<1>7. /\ subscription.subscribers = {} /\ Pending = <<>>
      /\ subscription.updates = NoUpdateSocket
  BY <1>1, EmptyDetails DEF Pending
<1>8. QED BY <1>1, <1>2, <1>3, <1>4, <1>5, <1>6, <1>7

\* It holds at first,
LEMMA DeliveryInitial ==
    ASSUME SystemInit
    PROVE  DeliveryInv
<1>1. SystemType
  BY InitTypes
<1>2. ValuesInv
  BY NoMessages DEF ValuesInv
<1>3. OrderInv /\ NewestInv
  <2>1. Len(<<>>) = 0
    OBVIOUS
  <2>2. QED BY <2>1, NoMessages DEF OrderInv, NewestInv
<1>4. GotInv
  BY NoMessages DEF GotInv
<1>5. QED BY <1>1, <1>2, <1>3, <1>4 DEF DeliveryInv

\* and every step keeps it.
LEMMA DeliveryStep ==
    ASSUME DeliveryInv, [SystemNext]_systemVars
    PROVE  DeliveryInv' /\ AnyStep
<1>1. SystemType' /\ AnyStep
  BY StepEffects, LastsDistinct DEF DeliveryInv
<1>2. ValuesInv' /\ OrderInv' /\ NewestInv' /\ GotInv'
  BY <1>1, ValuesStep, OrderStep, GotStep DEF DeliveryInv
<1>3. QED BY <1>1, <1>2 DEF DeliveryInv

\* A subscriber that wants cached values has the last value of every publisher
\* its subscription is joined to, whenever it came: from the publisher, from
\* the publisher's cache when the socket joined (the reconnection of the SUB
\* socket included), or from lastCachedValueMap when it joined a subscription
\* of others.
THEOREM SubscribersUpToDateHolds == SystemSpec => []SubscribersUpToDate
<1>1. DeliveryInv => SubscribersUpToDate
  <2> SUFFICES ASSUME DeliveryInv, subscription.receiveCached,
                      NEW s \in subscription.subscribers \cap ReceiveCached,
                      NEW u \in PublisherUrls, lastCached[u] # NoMessage,
                      Socket(u).joined, Queue(u) = <<>>
               PROVE  \E i \in DOMAIN received[s] :
                         received[s][i].value = lastCached[u].value
    BY DEF SubscribersUpToDate, Socket, Queue
  <2>1. Socket(u).last.value = lastCached[u].value
    BY DEF DeliveryInv, NewestInv
  <2>2. Socket(u).last # NoMessage
    <3>1. lastCached[u] \in Message
      BY AtTypes DEF DeliveryInv, MaybeMessage
    <3>2. QED BY <2>1, <3>1 DEF Message, NoMessage
  <2>3. Got(s, lastCached[u].value)
    BY <2>1, <2>2 DEF DeliveryInv, GotInv
  <2>4. received[s] \in Seq(Message)
    BY SubscriptionAssumption DEF DeliveryInv, SystemType, NodeType
  <2>5. DOMAIN received[s] = 1 .. Len(received[s])
    BY <2>4, SeqFacts
  <2>6. QED BY <2>3, <2>5 DEF Got
<1>2. QED
  BY <1>1, DeliveryInitial, DeliveryStep, PTL DEF SystemSpec

-----------------------------------------------------------------------------
(***************************************************************************)
(* The subscription follows the directory.                                 *)
(***************************************************************************)

\* Updates wait only where the subscription for them arrived, and the last
\* one that waits says what the directory lists.
UpdatesInv ==
    /\ subscription.updates.joined => subscription.updates.open
    /\ ~subscription.updates.joined => Pending = <<>>
    /\ Pending # <<>> => Pending[Len(Pending)] = Listing

\* What a step does to the update socket.
LEMMA UpdateSteps ==
    ASSUME AnyStep
    PROVE  \/ UNCHANGED <<subscription.updates, Listing>>
           \/ subscription'.updates \in {UpdateSocket, NoUpdateSocket}
              /\ UNCHANGED Listing
           \/ ChangesUpdates(UpdatesNext) \/ JoinsUpdates \/ TakesUpdate
<1>1. ASSUME NEW u \in PublisherUrls,
             Binds(u) \/ Ends(u) \/ Publishes(u) \/ Resends(u) \/ Rejects(u)
             \/ Takes(u)
      PROVE  UNCHANGED <<subscription.updates, Listing>>
  BY <1>1 DEF Binds, Ends, Ended, Publishes, Resends, Rejects, Takes,
              ChangesSocket
<1>2. ASSUME NEW u \in PublisherUrls, Registers(u)
      PROVE  ChangesUpdates(UpdatesNext)
  BY <1>2 DEF Registers
<1>3. ASSUME NEW unreg \in unregistrations, Removed(unreg)
      PROVE  ChangesUpdates(UpdatesNext)
  BY <1>3 DEF Removed
<1>4. Looks \/ Sends \/ Idles => UNCHANGED <<subscription.updates, Listing>>
  BY DEF Looks, Sends, Idles, WorldKept
<1>5. Adds => \/ UNCHANGED <<subscription.updates, Listing>>
              \/ subscription'.updates = UpdateSocket /\ UNCHANGED Listing
  BY DEF Adds, Commanded, WorldKept
<1>6. Removes \/ ChangesMonitors =>
         /\ UNCHANGED Listing
         /\ UNCHANGED subscription.updates \/ subscription' = NoDetails
  BY DEF Removes, ChangesMonitors, Commanded, WorldKept
<1>7. QED
  BY <1>1, <1>2, <1>3, <1>4, <1>5, <1>6, EmptyDetails DEF AnyStep

\* The last update that waits stays the one of the listing.
LEMMA UpdatesInvStep ==
    ASSUME SystemType, SystemType', AnyStep, UpdatesInv
    PROVE  UpdatesInv'
<1>1. /\ Pending \in Seq(SUBSET Infos) /\ Len(Pending) \in Nat
      /\ Listing \in SUBSET Infos /\ Listing' \in SUBSET Infos
      /\ Pending = <<>> <=> Len(Pending) = 0
      /\ subscription.updates \in UpdatesType
      /\ subscription.updates.joined \in BOOLEAN
  <2>1. subscription \in DetailsType
    BY DEF SystemType, NodeType
  <2>2. Listing \in SUBSET Infos /\ Listing' \in SUBSET Infos
    BY DEF SystemType, DirectoryInv
  <2>3. Pending \in Seq(SUBSET Infos) /\ subscription.updates \in UpdatesType
        /\ subscription.updates.joined \in BOOLEAN
    BY <2>1, DetailsParts
  <2>4. QED BY <2>2, <2>3, SeqFacts
<1>2. ASSUME NEW x \in SUBSET Infos, Pending' = Append(Pending, x)
      PROVE  Pending' # <<>> /\ Pending'[Len(Pending')] = x
  <2>1. /\ Append(Pending, x) \in Seq(SUBSET Infos)
        /\ Len(Append(Pending, x)) = Len(Pending) + 1
        /\ Append(Pending, x)[Len(Pending) + 1] = x
    BY <1>1, SeqFacts
  <2>2. Append(Pending, x) # <<>>
    BY <1>1, <2>1
  <2>3. QED BY <1>2, <2>1, <2>2
<1>3. CASE UNCHANGED <<subscription.updates, Listing>>
  <2>1. Pending' = Pending
    BY <1>3 DEF Pending
  <2>2. QED BY <1>3, <2>1 DEF UpdatesInv
<1>4. CASE subscription'.updates \in {UpdateSocket, NoUpdateSocket}
  <2>1. Pending' = <<>> /\ ~subscription'.updates.joined
    BY <1>4, EmptyDetails DEF Pending
  <2>2. QED BY <2>1 DEF UpdatesInv
<1>5. CASE ChangesUpdates(UpdatesNext)
  <2>1. CASE subscription.updates.joined /\ Listing' # Listing
    <3>1. /\ subscription'.updates.joined /\ Pending' = Append(Pending, Listing')
          /\ subscription'.updates.open = subscription.updates.open
      BY <1>1, <1>5, <2>1 DEF ChangesUpdates, UpdatesNext, UpdatesType, Pending
    <3>2. Pending' # <<>> /\ Pending'[Len(Pending')] = Listing'
      BY <1>1, <1>2, <3>1
    <3>3. QED BY <2>1, <3>1, <3>2 DEF UpdatesInv
  <2>2. CASE ~(subscription.updates.joined /\ Listing' # Listing)
    <3>1. subscription'.updates = subscription.updates /\ Pending' = Pending
      BY <1>5, <2>2 DEF ChangesUpdates, UpdatesNext, Pending
    <3>2. QED BY <2>2, <3>1 DEF UpdatesInv
  <2>3. QED BY <2>1, <2>2
<1>6. CASE JoinsUpdates
  <2>1. /\ Pending = <<>> /\ Listing' = Listing
        /\ subscription'.updates.open /\ subscription'.updates.joined
        /\ Pending' = Pending \/ Pending' = Append(Pending, Listing)
    BY <1>6 DEF JoinsUpdates, UpdatesInv, WorldKept
  <2>2. Pending' # <<>> => Pending'[Len(Pending')] = Listing'
    BY <1>1, <1>2, <2>1
  <2>3. QED BY <2>1, <2>2 DEF UpdatesInv
<1>7. CASE TakesUpdate
  <2>1. /\ Pending # <<>> /\ Pending' = Tail(Pending) /\ Listing' = Listing
        /\ subscription'.updates.open = subscription.updates.open
        /\ subscription'.updates.joined = subscription.updates.joined
    BY <1>7 DEF TakesUpdate, WorldKept
  <2>2. /\ Len(Pending') = Len(Pending) - 1 /\ Pending' \in Seq(SUBSET Infos)
        /\ \A k \in 1 .. Len(Pending) - 1 : Pending'[k] = Pending[k + 1]
    BY <1>1, <2>1, SeqFacts
  <2>3. Pending' # <<>> => Len(Pending') # 0
    BY <2>2, SeqFacts
  <2>4. Pending' # <<>> => Pending'[Len(Pending')] = Pending[Len(Pending)]
    BY <1>1, <2>2, <2>3
  <2>5. QED BY <2>1, <2>4 DEF UpdatesInv
<1>8. QED BY <1>3, <1>4, <1>5, <1>6, <1>7, UpdateSteps


\* No monitor is set before the first subscriber comes, or left when the last
\* one goes.
MonitorsSubscribed == {"monitorFirst", "monitorKept"} \cap Uses = {}

\* Who has subscribed and who monitors.
Members == [subs : SUBSET Subscribers, mons : SUBSET Monitors]

\* The commands on their way lead from the members the manager has to those
\* that the applications want, and on the way there are no monitors without
\* subscribers.
IsTrace(trace) ==
    /\ trace[0] = Present /\ trace[Len(commands)] = Wanted
    /\ \A k \in 1 .. Len(commands) :
          trace[k] = Applied(trace[k - 1], commands[k])
    /\ \A k \in 0 .. Len(commands) : trace[k].subs = {} => trace[k].mons = {}

\* There is such a way.
TraceInv == \E trace \in [0 .. Len(commands) -> Members] : IsTrace(trace)

\* What a step does to the commands and to the members.
LEMMA TraceSteps ==
    ASSUME AnyStep
    PROVE  \/ UNCHANGED <<commands, Wanted, Present>>
           \/ Sends
           \/ /\ commands # <<>> /\ commands[1] \in CommandType
              /\ commands' = Tail(commands) /\ UNCHANGED Wanted
              /\ Present' = Applied(Present, commands[1])
<1>1. ASSUME NEW u \in PublisherUrls,
             Binds(u) \/ Registers(u) \/ Ends(u) \/ Publishes(u) \/ Resends(u)
             \/ Rejects(u) \/ Takes(u)
      PROVE  UNCHANGED <<commands, Wanted, Present>>
  BY <1>1 DEF Binds, Registers, Ends, Ended, Publishes, Resends, Rejects, Takes,
              ChangesSocket, ChangesUpdates, SameMembers, NodeKept, Wanted,
              Present
<1>2. ASSUME NEW unreg \in unregistrations, Removed(unreg)
      PROVE  UNCHANGED <<commands, Wanted, Present>>
  BY <1>2 DEF Removed, ChangesUpdates, SameMembers, NodeKept, Wanted, Present
<1>3. JoinsUpdates \/ TakesUpdate \/ Looks \/ Idles =>
         UNCHANGED <<commands, Wanted, Present>>
  BY DEF JoinsUpdates, TakesUpdate, Looks, Idles, SameMembers, NodeKept, Wanted,
         Present
<1>4. ASSUME Adds \/ Removes \/ ChangesMonitors
      PROVE  /\ commands # <<>> /\ commands[1] \in CommandType
             /\ commands' = Tail(commands) /\ UNCHANGED Wanted
             /\ Present' = Applied(Present, commands[1])
  <2>1. PICK op \in {"subscribe", "unsubscribe", "set_monitor", "clear_monitor"} :
           Commanded(op)
    BY <1>4 DEF Adds, Removes, ChangesMonitors
  <2>2. /\ commands # <<>> /\ commands[1] \in CommandType
        /\ commands' = Tail(commands) /\ UNCHANGED Wanted
    BY <2>1 DEF Commanded, Wanted
  <2>3. Present' = Applied(Present, commands[1])
    <3>1. CASE Adds
      BY <3>1 DEF Adds, Commanded, Present, Applied
    <3>2. CASE Removes
      BY <3>2 DEF Removes, Commanded, Present, Applied
    <3>3. CASE ChangesMonitors
      BY <3>3 DEF ChangesMonitors, Commanded, Present, Applied
    <3>4. QED BY <1>4, <3>1, <3>2, <3>3
  <2>4. QED BY <2>2, <2>3
<1>5. QED BY <1>1, <1>2, <1>3, <1>4 DEF AnyStep

\* The types of the members.
LEMMA MemberTypes ==
    ASSUME SystemType
    PROVE  /\ Present \in Members /\ Wanted \in Members
           /\ commands \in Seq(CommandType) /\ Len(commands) \in Nat
<1>1. subscription \in DetailsType /\ commands \in Seq(CommandType)
  BY DEF SystemType, NodeType
<1>2. Present \in Members
  BY <1>1, DetailsParts DEF Present, Members
<1>3. Wanted \in Members
  BY DEF SystemType, NodeType, Wanted, Members
<1>4. QED BY <1>1, <1>2, <1>3, SeqFacts

\* What is sent comes last, and what is taken was first.
LEMMA TraceStep ==
    ASSUME SystemType, SystemType', AnyStep, MonitorsSubscribed, TraceInv
    PROVE  TraceInv'
<1> DEFINE n == Len(commands)
<1>1. PICK trace \in [0 .. n -> Members] : IsTrace(trace)
  BY DEF TraceInv
<1>2. /\ n \in Nat /\ commands \in Seq(CommandType)
      /\ Present \in Members /\ Wanted' \in Members
  BY MemberTypes DEF SystemType, NodeType, Wanted, Members
<1>3. CASE UNCHANGED <<commands, Wanted, Present>>
  BY <1>1, <1>3 DEF TraceInv, IsTrace
<1>4. CASE Sends
  <2>1. PICK c \in CommandType :
           commands' = Append(commands, c) /\ Wanted' = Applied(Wanted, c)
    BY <1>4 DEF Sends
  <2>2. /\ Len(commands') = n + 1 /\ commands'[n + 1] = c
        /\ \A k \in 1 .. n : commands'[k] = commands[k]
    BY <1>2, <2>1, SeqFacts
  <2>3. Wanted'.subs = {} => Wanted'.mons = {}
    <3>1. Wanted.subs = {} => Wanted.mons = {}
      BY <1>1, <1>2 DEF IsTrace
    <3>2. QED BY <1>4, <3>1 DEF Sends, MonitorsSubscribed, Wanted
  <2> DEFINE next == [k \in 0 .. n + 1 |-> IF k = n + 1 THEN Wanted' ELSE trace[k]]
  <2>4. next \in [0 .. n + 1 -> Members]
    BY <1>2
  <2>5. /\ next[n + 1] = Wanted' /\ \A k \in 0 .. n : next[k] = trace[k]
    BY <1>2
  <2> HIDE DEF next
  <2>6. next[0] = Present'
    BY <1>1, <1>2, <1>4, <2>5 DEF IsTrace, Sends, Present
  <2>7. ASSUME NEW k \in 1 .. n + 1
        PROVE  next[k] = Applied(next[k - 1], commands'[k])
    <3>1. CASE k = n + 1
      <4>1. k - 1 = n /\ next[n] = Wanted
        BY <1>1, <1>2, <2>5, <3>1 DEF IsTrace
      <4>2. QED BY <2>1, <2>2, <2>5, <3>1, <4>1
    <3>2. CASE k # n + 1
      <4>1. k \in 1 .. n /\ k \in 0 .. n /\ k - 1 \in 0 .. n
        BY <1>2, <3>2
      <4>2. trace[k] = Applied(trace[k - 1], commands[k])
        BY <1>1, <4>1 DEF IsTrace
      <4>3. QED BY <2>2, <2>5, <4>1, <4>2
    <3>3. QED BY <3>1, <3>2
  <2>8. ASSUME NEW k \in 0 .. n + 1, next[k].subs = {} PROVE next[k].mons = {}
    <3>1. CASE k = n + 1
      BY <2>3, <2>5, <2>8, <3>1
    <3>2. CASE k # n + 1
      <4>1. k \in 0 .. n
        BY <1>2, <3>2
      <4>2. QED BY <1>1, <2>5, <2>8, <4>1 DEF IsTrace
    <3>3. QED BY <3>1, <3>2
  <2>9. QED BY <2>2, <2>4, <2>5, <2>6, <2>7, <2>8 DEF TraceInv, IsTrace
<1>5. CASE /\ commands # <<>> /\ commands[1] \in CommandType
           /\ commands' = Tail(commands) /\ UNCHANGED Wanted
           /\ Present' = Applied(Present, commands[1])
  <2>1. /\ n > 0 /\ Len(commands') = n - 1
        /\ \A k \in 1 .. n - 1 : commands'[k] = commands[k + 1]
    BY <1>2, <1>5, SeqFacts
  <2> DEFINE next == [k \in 0 .. n - 1 |-> trace[k + 1]]
  <2>2. next \in [0 .. n - 1 -> Members]
    BY <1>2, <2>1
  <2>3. \A k \in 0 .. n - 1 : next[k] = trace[k + 1] /\ k + 1 \in 0 .. n
    BY <1>2
  <2> HIDE DEF next
  <2>4. next[0] = Present'
    <3>1. trace[1] = Applied(trace[0], commands[1]) /\ trace[0] = Present
      BY <1>1, <1>2, <2>1 DEF IsTrace
    <3>2. next[0] = trace[1]
      BY <1>2, <2>1, <2>3
    <3>3. QED BY <1>5, <3>1, <3>2
  <2>5. next[n - 1] = Wanted'
    BY <1>1, <1>2, <1>5, <2>1, <2>3 DEF IsTrace
  <2>6. ASSUME NEW k \in 1 .. n - 1
        PROVE  next[k] = Applied(next[k - 1], commands'[k])
    <3>1. /\ k \in 0 .. n - 1 /\ k - 1 \in 0 .. n - 1 /\ k + 1 \in 1 .. n
          /\ (k - 1) + 1 = k /\ (k + 1) - 1 = k
      BY <1>2
    <3>2. trace[k + 1] = Applied(trace[k], commands[k + 1])
      BY <1>1, <3>1 DEF IsTrace
    <3>3. QED BY <2>1, <2>3, <3>1, <3>2
  <2>7. \A k \in 0 .. n - 1 : next[k].subs = {} => next[k].mons = {}
    BY <1>1, <2>3 DEF IsTrace
  <2>8. QED BY <2>1, <2>2, <2>4, <2>5, <2>6, <2>7 DEF TraceInv, IsTrace
<1>6. QED BY <1>3, <1>4, <1>5, TraceSteps


\* Without subscribers there are no details, and with them there is an update
\* socket.
DetailsInv ==
    /\ subscription.subscribers = {} => subscription = NoDetails
    /\ subscription.subscribers # {} => subscription.updates.open

\* Details are the same when their parts are.
LEMMA SameDetails ==
    ASSUME NEW d \in DetailsType, NEW e \in DetailsType,
           d.receiveCached = e.receiveCached, d.subscribers = e.subscribers,
           d.monitors = e.monitors, d.updates = e.updates,
           \A u \in Urls : d.pollItemMap[u] = e.pollItemMap[u]
    PROVE  d = e
<1>1. d.pollItemMap \in [Urls -> SocketType] /\ e.pollItemMap \in [Urls -> SocketType]
  BY DEF DetailsType
<1>2. d.pollItemMap = e.pollItemMap
  BY <1>1
<1> HIDE DEF SocketType, UpdatesType
<1>3. QED BY <1>2 DEF DetailsType

\* While there are no details, only the first subscriber gets any.
LEMMA NothingKept ==
    ASSUME SystemType, SystemType', AnyStep, subscription = NoDetails
    PROVE  \/ Adds
           \/ /\ ~subscription'.receiveCached
              /\ subscription'.updates = NoUpdateSocket
              /\ \A u \in Urls : Socket(u)' = NoSocket
<1>1. /\ ~subscription.receiveCached /\ subscription.updates = NoUpdateSocket
      /\ ~subscription.updates.open /\ ~subscription.updates.joined
      /\ Pending = <<>> /\ subscription.subscribers = {}
      /\ \A u \in Urls : Socket(u) = NoSocket
  BY EmptyDetails DEF Pending, Socket
<1>2. ~NoSocket.open /\ ~NoSocket.joined /\ NoSocket \in SocketType
  BY EmptySockets
<1>3. ASSUME NEW u \in PublisherUrls, Ended(u) PROVE ChangesSocket(u, NoSocket)
  <2>1. u \in Urls
    BY DEF PublisherUrls
  <2>2. ~Socket(u)'.open /\ Socket(u)'.regTime = -1
    BY <1>1, <1>3, <2>1, EndedParts, EmptySockets
  <2>3. Socket(u)' \in {NoSocket, ClosedSocket}
    BY <2>1, <2>2 DEF SystemType, SocketsInv
  <2>4. ClosedSocket.regTime = 0
    BY EmptySockets
  <2>5. Socket(u)' = NoSocket
    BY <2>2, <2>3, <2>4
  <2>6. QED BY <1>3, <2>5 DEF Ended, ChangesSocket
<1>4. \A u \in PublisherUrls : u \in Urls
  BY DEF PublisherUrls
<1>5. CASE SubscriptionKept
  BY <1>1, <1>5 DEF SubscriptionKept, SameMembers
<1>6. CASE subscription' = subscription
  BY <1>1, <1>6 DEF Socket
<1>7. CASE subscription' = NoDetails
  BY <1>7, EmptyDetails DEF Socket
<1>8. ASSUME NEW u \in PublisherUrls, ChangesSocket(u, NoSocket)
      PROVE  SubscriptionKept
  BY <1>1, <1>4, <1>8 DEF SubscriptionKept, ChangesSocket
<1>9. ASSUME NEW u \in PublisherUrls,
             Binds(u) \/ Registers(u) \/ Ends(u) \/ Publishes(u) \/ Resends(u)
             \/ Rejects(u) \/ Takes(u)
      PROVE  SubscriptionKept \/ subscription' = subscription
  <2>1. CASE Binds(u)
    BY <2>1 DEF Binds
  <2>2. CASE Registers(u)
    BY <1>1, <2>2 DEF Registers, ChangesUpdates, UpdatesNext, SubscriptionKept
  <2>3. CASE Ends(u)
    BY <1>3, <1>8, <2>3 DEF Ends
  <2>4. CASE Publishes(u)
    BY <1>1, <1>2, <1>4, <1>8, <2>4 DEF Publishes, Queued
  <2>5. CASE Resends(u) \/ Rejects(u) \/ Takes(u)
    BY <1>1, <1>2, <1>4, <2>5 DEF Resends, Rejects, Takes
  <2>6. QED BY <1>9, <2>1, <2>2, <2>3, <2>4, <2>5
<1>10. ASSUME NEW unreg \in unregistrations, Removed(unreg)
       PROVE SubscriptionKept
  BY <1>1, <1>10 DEF Removed, ChangesUpdates, UpdatesNext, SubscriptionKept
<1>11. Looks \/ Sends \/ Idles => subscription' = subscription
  BY DEF Looks, Sends, Idles
<1>12. ~JoinsUpdates /\ ~TakesUpdate
  BY <1>1 DEF JoinsUpdates, TakesUpdate
<1>13. CASE Removes
  <2>1. subscription' = NoDetails
    BY <1>1, <1>13, EmptyDetails DEF Removes
  <2>2. QED BY <1>7, <2>1
<1>14. CASE ChangesMonitors
  BY <1>1, <1>7, <1>14 DEF ChangesMonitors
<1>15. QED
  BY <1>5, <1>6, <1>9, <1>10, <1>11, <1>12, <1>13, <1>14 DEF AnyStep

\* Who subscribes changes by command only, and the update socket stays open.
LEMMA SubscribersSteps ==
    ASSUME AnyStep, SystemType
    PROVE  \/ Adds \/ Removes \/ ChangesMonitors
           \/ /\ UNCHANGED subscription.subscribers
              /\ subscription.updates.open => subscription'.updates.open
<1>0. subscription.updates \in UpdatesType
  BY DetailsParts DEF SystemType, NodeType
<1>1. ASSUME NEW u \in PublisherUrls,
             Binds(u) \/ Ends(u) \/ Publishes(u) \/ Resends(u) \/ Rejects(u)
             \/ Takes(u)
      PROVE  UNCHANGED <<subscription.subscribers, subscription.updates>>
  BY <1>1 DEF Binds, Ends, Ended, Publishes, Resends, Rejects, Takes,
              ChangesSocket, SameMembers
<1>2. ChangesUpdates(UpdatesNext) =>
         /\ UNCHANGED subscription.subscribers
         /\ subscription.updates.open => subscription'.updates.open
  BY <1>0 DEF ChangesUpdates, UpdatesNext, UpdatesType, SameMembers
<1>3. \A u \in PublisherUrls : Registers(u) => ChangesUpdates(UpdatesNext)
  BY DEF Registers
<1>4. \A unreg \in unregistrations : Removed(unreg) => ChangesUpdates(UpdatesNext)
  BY DEF Removed
<1>5. JoinsUpdates \/ TakesUpdate \/ Looks \/ Sends \/ Idles =>
         /\ UNCHANGED subscription.subscribers
         /\ subscription.updates.open => subscription'.updates.open
  BY DEF JoinsUpdates, TakesUpdate, Looks, Sends, Idles, SameMembers
<1>6. QED BY <1>1, <1>2, <1>3, <1>4, <1>5 DEF AnyStep

\* So the details go with the last subscriber.
LEMMA DetailsStep ==
    ASSUME SystemType, SystemType', AnyStep, TraceInv,
           subscription'.subscribers = {} => subscription'.monitors = {},
           DetailsInv
    PROVE  DetailsInv'
<1>0. subscription' \in DetailsType
  BY DEF SystemType, NodeType
<1>1. CASE subscription.subscribers = {} /\ ~Adds
  <2>1. subscription = NoDetails
    BY <1>1 DEF DetailsInv
  <2>2. /\ ~subscription'.receiveCached /\ subscription'.updates = NoUpdateSocket
        /\ \A u \in Urls : Socket(u)' = NoSocket
    BY <1>1, <2>1, NothingKept
  <2>3. subscription'.subscribers = {}
    BY <1>1, SubscribersSteps DEF Removes, ChangesMonitors
  <2>4. subscription'.receiveCached \in BOOLEAN
    BY <1>0 DEF DetailsType
  <2>5. /\ subscription'.receiveCached = NoDetails.receiveCached
        /\ subscription'.subscribers = NoDetails.subscribers
        /\ subscription'.monitors = NoDetails.monitors
        /\ subscription'.updates = NoDetails.updates
        /\ \A u \in Urls : subscription'.pollItemMap[u] = NoDetails.pollItemMap[u]
    <3>1. NoDetails.receiveCached = FALSE
      BY DEF NoDetails
    <3>2. QED BY <2>2, <2>3, <2>4, <3>1, EmptyDetails DEF Socket
  <2>6. subscription' = NoDetails
    BY <1>0, <2>5, EmptyDetails, SameDetails
  <2>7. QED BY <2>3, <2>6 DEF DetailsInv
<1>2. CASE Adds
  <2>1. subscription'.subscribers # {}
    BY <1>2 DEF Adds
  <2>2. subscription'.updates.open
    BY <1>2, EmptyDetails DEF Adds, DetailsInv
  <2>3. QED BY <2>1, <2>2 DEF DetailsInv
<1>3. CASE Removes
  <2>1. CASE subscription'.subscribers = {}
    <3>1. subscription.monitors = {}
      BY <1>3, <2>1 DEF Removes
    <3>2. QED BY <1>3, <2>1, <3>1 DEF Removes, DetailsInv
  <2>2. CASE subscription'.subscribers # {}
    BY <1>3, <2>2 DEF Removes, DetailsInv
  <2>3. QED BY <2>1, <2>2
<1>4. CASE subscription.subscribers # {} /\ ~Adds /\ ~Removes
  BY <1>4, SubscribersSteps DEF DetailsInv, ChangesMonitors
<1>5. QED BY <1>1, <1>2, <1>3, <1>4


\* A publisher the directory lists has a socket, or the directory will be told
\* that there is another publisher at the URL.
Covered(p) == Socket(p.url).open /\ Socket(p.url).regTime = p.registration_time

\* Somebody has asked the directory to remove the entry.
Reported(p) ==
    Unregistration(SubscribedID, p.url, p.registration_time) \in unregistrations

\* With every update read, no listed publisher is left out.
FollowInv ==
    subscription.updates.joined /\ Pending = <<>> =>
        \A p \in Listing : Covered(p) \/ Reported(p)

\* Steps that leave the sockets open which are.
SocketsStayOpen ==
    /\ UNCHANGED <<subscription.updates, Listing>>
    /\ \A r \in unregistrations : r \in unregistrations'
    /\ \A u \in Urls : Socket(u).open =>
          Socket(u)'.open /\ Socket(u)'.regTime = Socket(u).regTime

\* The steps that can leave one out, or change what is listed.
LEMMA FollowSteps ==
    ASSUME SystemType, AnyStep, TraceInv
    PROVE  \/ SocketsStayOpen
           \/ subscription'.updates \in {UpdateSocket, NoUpdateSocket}
           \/ \E u \in PublisherUrls : Registers(u) \/ Rejects(u)
           \/ \E unreg \in unregistrations : Removed(unreg)
           \/ JoinsUpdates \/ TakesUpdate
<1>1. \A u \in PublisherUrls : u \in Urls
  BY DEF PublisherUrls
<1>2. ASSUME UNCHANGED <<subscription.updates, Listing, unregistrations>>,
             \A u \in Urls : Socket(u)' = Socket(u)
      PROVE  SocketsStayOpen
  BY <1>2 DEF SocketsStayOpen
<1>3. ASSUME NEW u \in PublisherUrls,
             Ended(u) \/ Publishes(u) \/ Resends(u) \/ Takes(u),
             \A r \in unregistrations : r \in unregistrations'
      PROVE  SocketsStayOpen
  <2>1. /\ Socket(u)'.open = Socket(u).open
        /\ Socket(u)'.regTime = Socket(u).regTime
    BY <1>3, EndedParts, PublishesParts, ResendsParts, TakesParts
  <2>2. /\ UNCHANGED <<subscription.updates, Listing>>
        /\ \A v \in Urls \ {u} : Socket(v)' = Socket(v)
    BY <1>3 DEF Ended, Publishes, Resends, Takes, ChangesSocket
  <2>3. QED BY <1>3, <2>1, <2>2 DEF SocketsStayOpen
<1>4. ASSUME NEW u \in PublisherUrls,
             Binds(u) \/ Ends(u) \/ Publishes(u) \/ Resends(u) \/ Takes(u)
      PROVE  SocketsStayOpen
  <2>1. CASE Binds(u)
    BY <1>2, <2>1 DEF Binds, Socket
  <2>2. CASE Ends(u)
    BY <1>3, <2>2 DEF Ends
  <2>3. CASE Publishes(u) \/ Resends(u) \/ Takes(u)
    <3>1. UNCHANGED unregistrations
      BY <2>3 DEF Publishes, Resends, Takes
    <3>2. QED BY <1>3, <2>3, <3>1
  <2>4. QED BY <1>4, <2>1, <2>2, <2>3
<1>5. Looks \/ Sends \/ Idles => SocketsStayOpen
  BY <1>2 DEF Looks, Sends, Idles, WorldKept, Socket
<1>6. ASSUME Adds
      PROVE  SocketsStayOpen \/ subscription'.updates = UpdateSocket
  <2>1. CASE subscription = NoDetails
    BY <1>6, <2>1 DEF Adds
  <2>2. CASE subscription # NoDetails
    <3>1. UNCHANGED <<subscription.updates, Listing, unregistrations>>
      BY <1>6, <2>2 DEF Adds, Commanded, WorldKept
    <3>2. ASSUME NEW u \in Urls, Socket(u).open PROVE Socket(u)' = Socket(u)
      BY <1>6, <3>2, EmptySockets DEF Adds
    <3>3. QED BY <3>1, <3>2 DEF SocketsStayOpen
  <2>3. QED BY <2>1, <2>2
<1>7. subscription' = NoDetails => subscription'.updates = NoUpdateSocket
  BY EmptyDetails
<1>8. ASSUME Removes
      PROVE  SocketsStayOpen \/ subscription' = NoDetails
  <2>1. UNCHANGED <<Listing, unregistrations>>
    BY <1>8 DEF Removes, Commanded, WorldKept
  <2>2. CASE subscription'.subscribers # {}
    BY <1>2, <1>8, <2>1, <2>2 DEF Removes
  <2>3. CASE subscription'.subscribers = {}
    <3>1. Present' = Applied(Present, commands[1]) /\ commands[1].op = "unsubscribe"
      BY <1>8 DEF Removes, Commanded, Present, Applied
    <3>2. PICK trace \in [0 .. Len(commands) -> Members] : IsTrace(trace)
      BY DEF TraceInv
    <3>3. commands # <<>>
      BY <1>8 DEF Removes, Commanded
    <3>4. 0 \in 0 .. Len(commands) /\ 1 \in 1 .. Len(commands) /\ 1 \in 0 .. Len(commands)
      BY <3>3, MemberTypes, SeqFacts
    <3>5. trace[1] = Applied(Present, commands[1])
      <4>1. trace[1] = Applied(trace[1 - 1], commands[1]) /\ trace[0] = Present
        BY <3>2, <3>4 DEF IsTrace
      <4>2. QED BY <4>1
    <3>6. trace[1].subs = {} => trace[1].mons = {}
      BY <3>2, <3>4 DEF IsTrace
    <3>7. subscription'.monitors = {}
      BY <2>3, <3>1, <3>5, <3>6 DEF Present
    <3>8. QED BY <1>8, <2>3, <3>7 DEF Removes
  <2>4. QED BY <2>2, <2>3
<1>9. ASSUME ChangesMonitors
      PROVE  SocketsStayOpen \/ subscription' = NoDetails
  <2>1. UNCHANGED <<Listing, unregistrations>>
    BY <1>9 DEF ChangesMonitors, Commanded, WorldKept
  <2>2. QED BY <1>2, <1>9, <2>1 DEF ChangesMonitors
<1>10. QED BY <1>4, <1>5, <1>6, <1>7, <1>8, <1>9 DEF AnyStep

\* The directory sends what it lists to the manager, and an update that is the
\* last one leaves a socket for everything in it.
LEMMA FollowStep ==
    ASSUME SystemType, SystemType', AnyStep, TraceInv, UpdatesInv, FollowInv
    PROVE  FollowInv'
<1>1. \A p \in Listing : p \in Infos /\ p.url \in Urls /\ p.registration_time \in Times
  BY DEF SystemType, DirectoryInv, Infos, PublisherUrls
<1>2. Listing' \in SUBSET Infos
  BY DEF SystemType, DirectoryInv
<1>3. CASE SocketsStayOpen
  <2> SUFFICES ASSUME subscription'.updates.joined, Pending' = <<>>,
                      NEW p \in Listing
               PROVE  Covered(p)' \/ Reported(p)'
    BY <1>3 DEF FollowInv, SocketsStayOpen
  <2>1. subscription.updates.joined /\ Pending = <<>>
    BY <1>3 DEF SocketsStayOpen, Pending
  <2>2. Covered(p) => Covered(p)'
    BY <1>1, <1>3 DEF SocketsStayOpen, Covered
  <2>3. Reported(p) => Reported(p)'
    BY <1>3 DEF SocketsStayOpen, Reported
  <2>4. QED BY <2>1, <2>2, <2>3 DEF FollowInv
<1>4. CASE subscription'.updates \in {UpdateSocket, NoUpdateSocket}
  BY <1>4, EmptyDetails DEF FollowInv
<1>5. ASSUME NEW u \in PublisherUrls, Rejects(u) PROVE FollowInv'
  <2> SUFFICES ASSUME subscription'.updates.joined, Pending' = <<>>,
                      NEW p \in Listing
               PROVE  Covered(p)' \/ Reported(p)'
    BY <1>5 DEF FollowInv, Rejects
  <2>1. subscription.updates.joined /\ Pending = <<>>
    BY <1>5 DEF Rejects, ChangesSocket, Pending
  <2>2. CASE Reported(p)
    BY <1>5, <2>2 DEF Rejects, Reported
  <2>3. CASE Covered(p) /\ p.url = u
    BY <1>5, <2>3 DEF Rejects, Reported, Covered
  <2>4. CASE Covered(p) /\ p.url # u
    BY <1>1, <1>5, <2>4 DEF Rejects, ChangesSocket, Covered
  <2>5. QED BY <2>1, <2>2, <2>3, <2>4 DEF FollowInv
<1>6. ASSUME ChangesUpdates(UpdatesNext), subscription'.updates.joined,
             Pending' = <<>>
      PROVE  /\ subscription.updates.joined /\ Pending = <<>>
             /\ Listing' = Listing
             /\ \A p \in Listing : Covered(p) => Covered(p)'
  <2>1. Pending \in Seq(SUBSET Infos) /\ subscription.updates \in UpdatesType
        /\ subscription.updates.joined \in BOOLEAN
    BY DetailsParts DEF SystemType, NodeType
  <2>2. ~(subscription.updates.joined /\ Listing' # Listing)
    <3> SUFFICES ASSUME subscription.updates.joined, Listing' # Listing
                 PROVE  FALSE
      OBVIOUS
    <3>1. Pending' = Append(Pending, Listing')
      BY <1>6, <2>1 DEF ChangesUpdates, UpdatesNext, UpdatesType, Pending
    <3>2. Append(Pending, Listing') # <<>>
      <4>1. Len(Append(Pending, Listing')) = Len(Pending) + 1 /\ Len(Pending) \in Nat
            /\ Append(Pending, Listing') \in Seq(SUBSET Infos)
        BY <1>2, <2>1, SeqFacts
      <4>2. QED BY <4>1, SeqFacts
    <3>3. QED BY <1>6, <3>1, <3>2
  <2>3. subscription'.updates = subscription.updates
    BY <1>6, <2>2 DEF ChangesUpdates, UpdatesNext
  <2>4. subscription.updates.joined /\ Pending = <<>>
    BY <1>6, <2>3 DEF Pending
  <2>5. \A p \in Listing : Covered(p) => Covered(p)'
    BY <1>1, <1>6 DEF ChangesUpdates, Covered
  <2>6. QED BY <2>2, <2>4, <2>5
<1>7. ASSUME NEW u \in PublisherUrls, Registers(u) PROVE FollowInv'
  <2> SUFFICES ASSUME subscription'.updates.joined, Pending' = <<>>,
                      NEW p \in Listing'
               PROVE  Covered(p)' \/ Reported(p)'
    BY DEF FollowInv
  <2>1. ChangesUpdates(UpdatesNext) /\ UNCHANGED unregistrations
    BY <1>7 DEF Registers
  <2>2. /\ p \in Listing /\ (Covered(p) => Covered(p)')
        /\ subscription.updates.joined /\ Pending = <<>>
    BY <1>6, <2>1
  <2>3. QED BY <2>1, <2>2 DEF FollowInv, Reported
<1>8. ASSUME NEW unreg \in unregistrations, Removed(unreg) PROVE FollowInv'
  <2> SUFFICES ASSUME subscription'.updates.joined, Pending' = <<>>,
                      NEW p \in Listing'
               PROVE  Covered(p)' \/ Reported(p)'
    BY DEF FollowInv
  <2>1. /\ ChangesUpdates(UpdatesNext) /\ unregistrations' = unregistrations \ {unreg}
        /\ Unregistration(SubscribedID, p.url, p.registration_time) # unreg
    BY <1>8 DEF Removed
  <2>2. /\ p \in Listing /\ (Covered(p) => Covered(p)')
        /\ subscription.updates.joined /\ Pending = <<>>
    BY <1>6, <2>1
  <2>3. QED BY <2>1, <2>2 DEF FollowInv, Reported
<1>9. CASE JoinsUpdates
  <2> SUFFICES ASSUME Pending' = <<>> PROVE Listing' = {}
    BY DEF FollowInv
  <2>1. Pending \in Seq(SUBSET Infos) /\ Listing \in SUBSET Infos
    BY DetailsParts DEF SystemType, NodeType, DirectoryInv
  <2>2. Append(Pending, Listing) # <<>>
    <3>1. Len(Append(Pending, Listing)) = Len(Pending) + 1 /\ Len(Pending) \in Nat
          /\ Append(Pending, Listing) \in Seq(SUBSET Infos)
      BY <2>1, SeqFacts
    <3>2. QED BY <3>1, SeqFacts
  <2>3. QED BY <1>9, <2>2 DEF JoinsUpdates, WorldKept
<1>10. CASE TakesUpdate
  <2> SUFFICES ASSUME Pending' = <<>>, NEW p \in Listing PROVE Covered(p)'
    BY <1>10 DEF FollowInv, TakesUpdate, WorldKept
  <2>1. Pending \in Seq(SUBSET Infos) /\ Pending # <<>> /\ Pending' = Tail(Pending)
    BY <1>10, DetailsParts DEF SystemType, NodeType, TakesUpdate
  <2>2. Len(Pending) = 1
    <3> DEFINE rest == Tail(Pending)
    <3>1. Len(rest) = Len(Pending) - 1 /\ Len(Pending) \in Nat
          /\ rest \in Seq(SUBSET Infos) /\ rest = <<>>
      BY <2>1, SeqFacts
    <3> HIDE DEF rest
    <3>2. Len(rest) = 0
      BY <3>1, SeqFacts
    <3>3. QED BY <3>1, <3>2
  <2>3. Pending[1] = Listing
    BY <2>1, <2>2 DEF UpdatesInv
  <2>4. PICK q \in Listing :
           /\ q.url = p.url
           /\ \/ Socket(p.url)' = NewSocket(q.registration_time)
              \/ /\ Socket(p.url)' = Socket(p.url)
                 /\ Socket(p.url).regTime = q.registration_time
    BY <1>1, <1>10, <2>3 DEF TakesUpdate
  <2>5. q = p
    <3>1. SubscribedID \in ProductIDs
      BY SubscriptionAssumption
    <3>2. OneProductPerUrl
      BY DEF SystemType, DirectoryInv
    <3>3. QED BY <2>4, <3>1, <3>2 DEF OneProductPerUrl, Listing
  <2>6. p.url \in Urls /\ p.registration_time \in Times
    BY <1>1
  <2>7. CASE Socket(p.url)' = NewSocket(p.registration_time)
    BY <2>6, <2>7, EmptySockets DEF Covered
  <2>8. CASE Socket(p.url)' = Socket(p.url)
             /\ Socket(p.url).regTime = p.registration_time
    <3>1. Socket(p.url).open
      <4>1. -1 \notin Times /\ 0 \notin Times
        BY DEF Times
      <4>2. QED BY <2>6, <2>8, <4>1, EmptySockets DEF SystemType, SocketsInv
    <3>2. QED BY <2>8, <3>1 DEF Covered
  <2>9. QED BY <2>4, <2>5, <2>7, <2>8
<1>11. QED BY <1>3, <1>4, <1>5, <1>7, <1>8, <1>9, <1>10, FollowSteps


\* The inductive invariant behind SubscriptionFollowsDirectory.
FollowsInv == DeliveryInv /\ UpdatesInv /\ TraceInv /\ DetailsInv /\ FollowInv

\* It holds at first,
LEMMA FollowsInitial ==
    ASSUME SystemInit
    PROVE  FollowsInv
<1>1. DeliveryInv /\ SystemType
  BY DeliveryInitial, InitTypes
<1>2. UpdatesInv
  BY NoMessages, EmptyDetails DEF UpdatesInv
<1>3. TraceInv
  <2> DEFINE trace == [k \in 0 .. 0 |-> Present]
  <2>1. commands = <<>> /\ Len(<<>>) = 0
    BY NoMessages
  <2>2. Present = Wanted /\ Present.subs = {} /\ Present.mons = {}
    BY NoMessages, EmptyDetails DEF SystemInit, Present, Wanted
  <2>3. trace \in [0 .. 0 -> Members] /\ trace[0] = Present
    BY <1>1, MemberTypes
  <2> HIDE DEF trace
  <2>4. IsTrace(trace)
    BY <2>1, <2>2, <2>3 DEF IsTrace
  <2>5. QED BY <2>1, <2>3, <2>4 DEF TraceInv
<1>4. DetailsInv
  BY NoMessages DEF DetailsInv
<1>5. FollowInv
  BY NoMessages DEF FollowInv
<1>6. QED BY <1>1, <1>2, <1>3, <1>4, <1>5 DEF FollowsInv

\* and every step keeps it.
LEMMA FollowsStep ==
    ASSUME MonitorsSubscribed, FollowsInv, [SystemNext]_systemVars
    PROVE  FollowsInv'
<1>1. DeliveryInv' /\ AnyStep /\ SystemType /\ SystemType'
  BY DeliveryStep DEF FollowsInv, DeliveryInv
<1>2. UpdatesInv' /\ TraceInv' /\ FollowInv'
  BY <1>1, UpdatesInvStep, TraceStep, FollowStep DEF FollowsInv
<1>3. ASSUME subscription'.subscribers = {} PROVE subscription'.monitors = {}
  <2>1. PICK trace \in [0 .. Len(commands') -> Members] : IsTrace(trace)'
    BY <1>2 DEF TraceInv
  <2>2. Len(commands') \in Nat
    BY <1>1, SeqFacts DEF SystemType, NodeType
  <2>3. QED BY <1>3, <2>1, <2>2 DEF IsTrace, Present
<1>4. DetailsInv'
  BY <1>1, <1>3, DetailsStep DEF FollowsInv
<1>5. QED BY <1>1, <1>2, <1>4 DEF FollowsInv

\* A subscription covers every publisher the directory lists, whatever was
\* registered between the lookup of subscribe() and the arrival of the
\* subscription to RegisteredPublishers, in whatever order requests, updates
\* and messages are handled.  The hypothesis is needed: details made for a
\* monitor have no update socket, and the data sockets of details that are
\* kept for one stay closed.
THEOREM SubscriptionFollowsDirectoryHolds ==
    MonitorsSubscribed /\ SystemSpec => []SubscriptionFollowsDirectory
<1>1. ASSUME FollowsInv PROVE SubscriptionFollowsDirectory
  <2> SUFFICES ASSUME subscription.subscribers # {}, Settled, NEW p \in Listing
               PROVE  Covered(p)
    BY DEF SubscriptionFollowsDirectory, Covered, Socket, Listing
  <2>1. subscription.updates.joined /\ Pending = <<>> /\ unregistrations = {}
    BY <1>1 DEF Settled, FollowsInv, DetailsInv, Pending
  <2>2. QED BY <1>1, <2>1 DEF FollowsInv, FollowInv, Reported
<1>2. MonitorsSubscribed /\ FollowsInv /\ [SystemNext]_systemVars => FollowsInv'
  BY FollowsStep
<1>3. MonitorsSubscribed => []MonitorsSubscribed
  <2>1. MonitorsSubscribed => MonitorsSubscribed'
    BY DEF MonitorsSubscribed
  <2>2. QED BY <2>1, PTL
<1>4. QED
  BY <1>1, <1>2, <1>3, FollowsInitial, PTL DEF SystemSpec


-----------------------------------------------------------------------------
(***************************************************************************)
(* Registration times.  Where each publisher of a port has a later one     *)
(* than those before, a registration time names one publisher of the port, *)
(* for as long as anybody remembers it.                                    *)
(***************************************************************************)

\* The entries that the directory has, that it has told the node, and that
\* the node's sockets are for.
Told ==
    {p \in Infos :
        \/ p \in Listing \/ p \in call.found
        \/ \E k \in 1 .. Len(commands) : p \in commands[k].found
        \/ \E k \in 1 .. Len(Pending) : p \in Pending[k]
        \/ /\ Socket(p.url).open
           /\ Socket(p.url).regTime = p.registration_time}

\* What was told are entries.
LEMMA ToldTypes ==
    ASSUME SystemType
    PROVE  /\ \A p \in Told : /\ p \in Infos /\ p.url \in PublisherUrls
                              /\ p.registration_time \in Times
           /\ Len(commands) \in Nat /\ Len(Pending) \in Nat
           /\ \A p \in Listing : p \in Told
           /\ \A p \in call.found : p \in Told
           /\ \A k \in 1 .. Len(commands) : \A p \in commands[k].found : p \in Told
           /\ \A k \in 1 .. Len(Pending) : \A p \in Pending[k] : p \in Told
           /\ \A u \in PublisherUrls : Socket(u).open =>
                 [url |-> u, registration_time |-> Socket(u).regTime] \in Told
<1>1. /\ commands \in Seq(CommandType) /\ Pending \in Seq(SUBSET Infos)
      /\ call \in CallType \cup {NoCall} /\ Listing \in SUBSET Infos
  BY DetailsParts DEF SystemType, NodeType, DirectoryInv
<1>2. Len(commands) \in Nat /\ Len(Pending) \in Nat
  BY <1>1, SeqFacts
<1>3. \A k \in 1 .. Len(commands) : commands[k].found \in SUBSET Infos
  BY <1>1, SeqFacts, CommandParts
<1>4. \A k \in 1 .. Len(Pending) : Pending[k] \in SUBSET Infos
  BY <1>1, SeqFacts
<1>5. call.found \in SUBSET Infos
  BY <1>1 DEF CallType, NoCall
<1>6. ASSUME NEW u \in PublisherUrls, Socket(u).open
      PROVE  [url |-> u, registration_time |-> Socket(u).regTime] \in Told
  <2>1. u \in Urls /\ Socket(u).regTime \in Times
    BY <1>6 DEF SystemType, SocketsInv, PublisherUrls
  <2>2. QED BY <1>6, <2>1 DEF Infos, Told
<1>7. \A p \in Told : /\ p \in Infos /\ p.url \in PublisherUrls
                      /\ p.registration_time \in Times
  BY DEF Told, Infos
<1>8. QED BY <1>1, <1>2, <1>3, <1>4, <1>5, <1>6, <1>7 DEF Told

\* Nobody is told of an entry that the directory does not have or that was
\* not told before.
LEMMA CallsTold ==
    ASSUME SystemType, AnyStep
    PROVE  /\ \A p \in call'.found : p \in Told
           /\ \A k \in 1 .. Len(commands') : \A p \in commands'[k].found : p \in Told
<1>1. /\ commands \in Seq(CommandType) /\ Len(commands) \in Nat
      /\ \A p \in Listing : p \in Told
      /\ \A p \in call.found : p \in Told
      /\ \A k \in 1 .. Len(commands) : \A p \in commands[k].found : p \in Told
      /\ NoCall.found = {}
  BY MemberTypes, ToldTypes DEF NoCall
<1>2. CASE NodeKept
  BY <1>1, <1>2 DEF NodeKept
<1>3. CASE Looks
  BY <1>1, <1>3 DEF Looks
<1>4. CASE Sends
  <2>1. PICK c \in CommandType :
           commands' = Append(commands, c) /\ c.found \in {{}, call.found}
    BY <1>4 DEF Sends
  <2>2. /\ Len(commands') = Len(commands) + 1
        /\ commands'[Len(commands) + 1] = c
        /\ \A k \in 1 .. Len(commands) : commands'[k] = commands[k]
    BY <1>1, <2>1, SeqFacts
  <2>3. ASSUME NEW k \in 1 .. Len(commands'), NEW p \in commands'[k].found
        PROVE  p \in Told
    BY <1>1, <2>1, <2>2, <2>3
  <2>4. \A p \in call'.found : p \in Told
    BY <1>1, <1>4 DEF Sends
  <2>5. QED BY <2>3, <2>4
<1>5. CASE Adds \/ Removes \/ ChangesMonitors
  <2>1. commands # <<>> /\ commands' = Tail(commands) /\ call' = call
    BY <1>5 DEF Adds, Removes, ChangesMonitors, Commanded
  <2>2. /\ Len(commands') = Len(commands) - 1
        /\ \A k \in 1 .. Len(commands) - 1 : commands'[k] = commands[k + 1]
    BY <1>1, <2>1, SeqFacts
  <2>3. ASSUME NEW k \in 1 .. Len(commands'), NEW p \in commands'[k].found
        PROVE  p \in Told
    BY <1>1, <2>2, <2>3
  <2>4. QED BY <1>1, <2>1, <2>3
<1>6. NodeKept \/ Looks \/ Sends \/ Adds \/ Removes \/ ChangesMonitors
  <2>1. \A u \in PublisherUrls :
           Binds(u) \/ Registers(u) \/ Ends(u) \/ Publishes(u) \/ Resends(u)
           \/ Rejects(u) \/ Takes(u) => NodeKept
    BY DEF Binds, Registers, Ends, Ended, Publishes, Resends, Rejects, Takes
  <2>2. (\E unreg \in unregistrations : Removed(unreg)) => NodeKept
    BY DEF Removed
  <2>3. JoinsUpdates \/ TakesUpdate \/ Idles => NodeKept
    BY DEF JoinsUpdates, TakesUpdate, Idles
  <2>4. QED BY <2>1, <2>2, <2>3 DEF AnyStep
<1>7. QED BY <1>2, <1>3, <1>4, <1>5, <1>6


\* Updates that wait say what was told before or what is listed.
LEMMA UpdatesTold ==
    ASSUME SystemType, SystemType', AnyStep
    PROVE  \A k \in 1 .. Len(Pending') : \A p \in Pending'[k] :
              p \in Told \/ p \in Listing'
<1>1. /\ Pending \in Seq(SUBSET Infos) /\ Len(Pending) \in Nat
      /\ Listing \in SUBSET Infos /\ Listing' \in SUBSET Infos
      /\ subscription.updates \in UpdatesType
  BY DetailsParts, ToldTypes DEF SystemType, NodeType, DirectoryInv
<1>2. \A k \in 1 .. Len(Pending) : \A p \in Pending[k] : p \in Told
  BY ToldTypes
<1>3. ASSUME NEW x \in SUBSET Infos, Pending' = Append(Pending, x)
      PROVE  \A k \in 1 .. Len(Pending') : \A p \in Pending'[k] :
                p \in Told \/ p \in x
  <2>1. /\ Len(Pending') = Len(Pending) + 1 /\ Pending'[Len(Pending) + 1] = x
        /\ \A k \in 1 .. Len(Pending) : Pending'[k] = Pending[k]
    BY <1>1, <1>3, SeqFacts
  <2>2. QED BY <1>1, <1>2, <2>1
<1>4. CASE UNCHANGED subscription.updates
  <2>1. Pending' = Pending
    BY <1>4 DEF Pending
  <2>2. QED BY <1>2, <2>1
<1>5. CASE subscription'.updates \in {UpdateSocket, NoUpdateSocket}
  <2>1. Pending' = <<>>
    BY <1>5, EmptyDetails DEF Pending
  <2>2. Len(Pending') = 0
    BY <2>1
  <2>3. QED BY <2>2
<1>6. CASE ChangesUpdates(UpdatesNext)
  <2>1. CASE subscription.updates.joined /\ Listing' # Listing
    <3>1. Pending' = Append(Pending, Listing')
      BY <1>1, <1>6, <2>1 DEF ChangesUpdates, UpdatesNext, UpdatesType, Pending
    <3>2. QED BY <1>1, <1>3, <3>1
  <2>2. CASE ~(subscription.updates.joined /\ Listing' # Listing)
    BY <1>4, <1>6, <2>2 DEF ChangesUpdates, UpdatesNext
  <2>3. QED BY <2>1, <2>2
<1>7. CASE JoinsUpdates
  <2>1. Pending' = Pending \/ Pending' = Append(Pending, Listing)
    BY <1>7 DEF JoinsUpdates
  <2>2. \A p \in Listing : p \in Told
    BY ToldTypes
  <2>3. QED BY <1>1, <1>2, <1>3, <2>1, <2>2
<1>8. CASE TakesUpdate
  <2>1. Pending # <<>> /\ Pending' = Tail(Pending)
    BY <1>8 DEF TakesUpdate
  <2>2. /\ Len(Pending') = Len(Pending) - 1
        /\ \A k \in 1 .. Len(Pending) - 1 : Pending'[k] = Pending[k + 1]
    BY <1>1, <2>1, SeqFacts
  <2>3. ASSUME NEW k \in 1 .. Len(Pending'), NEW p \in Pending'[k]
        PROVE  p \in Told
    BY <1>1, <1>2, <2>2, <2>3
  <2>4. QED BY <2>3
<1>9. QED BY <1>4, <1>5, <1>6, <1>7, <1>8, UpdateSteps

\* A socket is opened for an entry that was told.
LEMMA SocketsTold ==
    ASSUME SystemType, SystemType', AnyStep, NEW u \in PublisherUrls
    PROVE  \/ /\ Socket(u)'.open = Socket(u).open
              /\ Socket(u)'.regTime = Socket(u).regTime
           \/ ~Socket(u)'.open /\ Socket(u)' \in {NoSocket, ClosedSocket}
           \/ \E p \in Told : p.url = u /\ Socket(u)' = NewSocket(p.registration_time)
<1>1. u \in Urls
  BY DEF PublisherUrls
<1>2. CASE Socket(u)' = Socket(u)
  BY <1>2 DEF Socket
<1>3. CASE Socket(u)' \in {NoSocket, ClosedSocket}
  BY <1>3, EmptySockets
<1>4. CASE Ended(u) \/ Publishes(u) \/ Resends(u) \/ Takes(u)
  BY <1>4, EndedParts, PublishesParts, ResendsParts, TakesParts
<1>5. ASSUME NEW v \in PublisherUrls,
             Binds(v) \/ Registers(v) \/ Ends(v) \/ Publishes(v) \/ Resends(v)
             \/ Rejects(v) \/ Takes(v)
      PROVE  \/ Socket(u)' = Socket(u)
             \/ Ended(u) \/ Publishes(u) \/ Resends(u) \/ Takes(u)
             \/ Socket(u)' = NoSocket
  <2>1. CASE Binds(v) \/ Registers(v)
    BY <1>1, <2>1 DEF Binds, Registers, ChangesUpdates, Socket
  <2>2. CASE v # u /\ ~Binds(v) /\ ~Registers(v)
    BY <1>1, <1>5, <2>2 DEF Ends, Ended, Publishes, Resends, Rejects, Takes,
                            ChangesSocket
  <2>3. CASE v = u /\ ~Binds(v) /\ ~Registers(v)
    BY <1>5, <2>3 DEF Ends, Rejects, ChangesSocket
  <2>4. QED BY <2>1, <2>2, <2>3
<1>6. ASSUME NEW unreg \in unregistrations, Removed(unreg)
      PROVE  Socket(u)' = Socket(u)
  BY <1>1, <1>6 DEF Removed, ChangesUpdates
<1>7. JoinsUpdates \/ Looks \/ Sends \/ Idles => Socket(u)' = Socket(u)
  BY <1>1 DEF JoinsUpdates, Looks, Sends, Idles, Socket
<1>8. CASE TakesUpdate
  <2>1. \A p \in Pending[1] : p \in Told
    <3>1. Pending \in Seq(SUBSET Infos) /\ Pending # <<>>
      BY <1>8, DetailsParts DEF SystemType, NodeType, TakesUpdate
    <3>2. 1 \in 1 .. Len(Pending)
      BY <3>1, SeqFacts
    <3>3. QED BY <3>2, ToldTypes
  <2>2. \/ Socket(u)' \in {NoSocket} \/ Socket(u)' = Socket(u)
        \/ \E p \in Pending[1] :
              p.url = u /\ Socket(u)' = NewSocket(p.registration_time)
    BY <1>1, <1>8 DEF TakesUpdate
  <2>3. QED BY <1>2, <1>3, <2>1, <2>2
<1>9. CASE Adds
  <2>1. \A p \in commands[1].found : p \in Told
    <3>1. commands \in Seq(CommandType) /\ commands # <<>>
      BY <1>9 DEF SystemType, NodeType, Adds, Commanded
    <3>2. 1 \in 1 .. Len(commands)
      BY <3>1, SeqFacts
    <3>3. QED BY <3>2, ToldTypes
  <2>2. \/ Socket(u)' = Socket(u)
        \/ \E p \in commands[1].found :
              p.url = u /\ Socket(u)' = NewSocket(p.registration_time)
    BY <1>1, <1>9 DEF Adds
  <2>3. QED BY <1>2, <2>1, <2>2
<1>10. CASE Removes
  BY <1>1, <1>2, <1>3, <1>10 DEF Removes
<1>11. CASE ChangesMonitors
  <2>1. Socket(u)' = Socket(u) \/ subscription' = NoDetails
    BY <1>1, <1>11 DEF ChangesMonitors
  <2>2. subscription' = NoDetails => Socket(u)' = NoSocket
    BY <1>1, NoDetailsSockets
  <2>3. QED BY <1>2, <1>3, <2>1, <2>2
<1>12. QED
  BY <1>2, <1>3, <1>4, <1>5, <1>6, <1>7, <1>8, <1>9, <1>10, <1>11 DEF AnyStep

\* What is told after a step was told before, or has just been registered.
LEMMA ToldStep ==
    ASSUME SystemType, SystemType', AnyStep, NEW p \in Told'
    PROVE  \/ p \in Told
           \/ \E u \in PublisherUrls :
                 Registers(u) /\ p = EntryOf(u) /\ bound[u].id = SubscribedID
<1>1. /\ p \in Infos /\ p.url \in PublisherUrls /\ p.registration_time \in Times
      /\ \/ p \in Listing' \/ p \in call'.found
         \/ \E k \in 1 .. Len(commands') : p \in commands'[k].found
         \/ \E k \in 1 .. Len(Pending') : p \in Pending'[k]
         \/ Socket(p.url)'.open /\ Socket(p.url)'.regTime = p.registration_time
  BY DEF Told, Infos
<1>2. CASE p \in Listing'
  <2>1. CASE p \in Listing
    BY <2>1, ToldTypes
  <2>2. CASE p \notin Listing
    <3>1. Listing' # Listing
      BY <1>2, <2>2
    <3>2. PICK u \in PublisherUrls : Registers(u)
      <4>1. \A u \in PublisherUrls :
               Binds(u) \/ Ends(u) \/ Publishes(u) \/ Resends(u) \/ Rejects(u)
               \/ Takes(u) => Listing' = Listing
        BY DEF Binds, Ends, Ended, Publishes, Resends, Rejects, Takes
      <4>2. \A unreg \in unregistrations : ~Removed(unreg)
        BY <1>2, <2>2 DEF Removed
      <4>3. JoinsUpdates \/ TakesUpdate \/ Looks \/ Sends \/ Adds \/ Removes
            \/ ChangesMonitors \/ Idles => Listing' = Listing
        BY DEF JoinsUpdates, TakesUpdate, Looks, Sends, Adds, Removes,
               ChangesMonitors, Idles, Commanded, WorldKept
      <4>4. QED BY <3>1, <4>1, <4>2, <4>3 DEF AnyStep
    <3>3. QED BY <1>2, <2>2, <3>2 DEF Registers
  <2>3. QED BY <2>1, <2>2
<1>3. CASE p \in call'.found \/ \E k \in 1 .. Len(commands') : p \in commands'[k].found
  BY <1>3, CallsTold
<1>4. CASE \E k \in 1 .. Len(Pending') : p \in Pending'[k]
  BY <1>2, <1>4, UpdatesTold
<1>5. CASE Socket(p.url)'.open /\ Socket(p.url)'.regTime = p.registration_time
  <2> DEFINE u == p.url
  <2>1. CASE Socket(u)'.open = Socket(u).open /\ Socket(u)'.regTime = Socket(u).regTime
    BY <1>1, <1>5, <2>1 DEF Told
  <2>2. ASSUME NEW q \in Told, q.url = u,
               Socket(u)' = NewSocket(q.registration_time)
        PROVE  p \in Told
    <3>1. q \in Infos /\ q.registration_time \in Times
      BY ToldTypes
    <3>2. Socket(u)'.regTime = q.registration_time
      BY <2>2, <3>1, EmptySockets
    <3>3. p = q
      BY <1>1, <1>5, <2>2, <3>1, <3>2 DEF Infos
    <3>4. QED BY <3>3
  <2>3. QED BY <1>1, <1>5, <2>1, <2>2, SocketsTold
<1>6. QED BY <1>1, <1>2, <1>3, <1>4, <1>5


\* A publisher runs at the URL.
Running(u) == bound[u] # Nobody

\* The registration time of the publisher that was bound to the URL last, and
\* the ports where each was bound with a later one than those before.
Latest(u) == Secs(latest[u])
Clear == PublisherUrls \ overtaken

\* What was told of a port that is clear is not of the future, and if the
\* publisher with this time runs, it is registered for the product.
ToldInv ==
    \A p \in Told : p.url \in Clear =>
        /\ p.registration_time <= Latest(p.url)
        /\ Running(p.url) /\ RegTime(p.url) = p.registration_time =>
              bound[p.url].id = SubscribedID /\ bound[p.url].state = "registered"

\* What a publisher has cached it has published itself.
PublishersInv ==
    \A u \in PublisherUrls : lastCached[u] # NoMessage =>
        Running(u) /\ lastCached[u].regTime \in {0, RegTime(u)}

\* Publishers change when they start, register and end.
LEMMA BoundSteps ==
    ASSUME AnyStep
    PROVE  \/ UNCHANGED <<bound, latest, overtaken>>
           \/ \E u \in PublisherUrls : Binds(u)
           \/ \E u \in PublisherUrls :
                 (Registers(u) \/ Ended(u)) /\ UNCHANGED <<latest, overtaken>>
<1>1. \A u \in PublisherUrls :
         Publishes(u) \/ Resends(u) \/ Rejects(u) \/ Takes(u)
             => UNCHANGED <<bound, latest, overtaken>>
  BY DEF Publishes, Resends, Rejects, Takes
<1>2. \A u \in PublisherUrls :
         /\ Ends(u) => Ended(u) /\ UNCHANGED <<latest, overtaken>>
         /\ Registers(u) => UNCHANGED <<latest, overtaken>>
  BY DEF Ends, Ended, Registers
<1>3. \A unreg \in unregistrations :
         Removed(unreg) => UNCHANGED <<bound, latest, overtaken>>
  BY DEF Removed
<1>4. JoinsUpdates \/ TakesUpdate \/ Looks \/ Sends \/ Adds \/ Removes
      \/ ChangesMonitors \/ Idles => UNCHANGED <<bound, latest, overtaken>>
  BY DEF JoinsUpdates, TakesUpdate, Looks, Sends, Adds, Removes,
         ChangesMonitors, Idles, Commanded, WorldKept
<1>5. QED BY <1>1, <1>2, <1>3, <1>4 DEF AnyStep

\* The time of a publisher that runs, and what it publishes and is listed with.
LEMMA OwnTimes ==
    ASSUME SystemType, NEW u \in PublisherUrls
    PROVE  /\ Latest(u) \in Nat
           /\ Running(u) =>
                 /\ RegTime(u) = Latest(u) /\ RegTime(u) > 0
                 /\ EntryOf(u).url = u
                 /\ EntryOf(u).registration_time = RegTime(u)
                 /\ NewMessage(u).regTime \in {0, RegTime(u)}
                 /\ bound[u].state # "bound" => NewMessage(u).regTime = RegTime(u)
                 /\ NewMessage(u).id = bound[u].id /\ NewMessage(u).url = u
                 /\ NewMessage(u).value = published + 1
<1>1. latest[u] \in Nat
  BY TimeAssumption DEF SystemType, PublishersType, Timestamps
<1>2. Latest(u) \in Nat
  BY <1>1, SecsMonotone DEF Latest
<1>3. Running(u) => RegTime(u) = Latest(u) /\ RegTime(u) > 0
  BY DEF SystemType, PublishersType, Running, RegTime, Latest
<1>4. QED BY <1>2, <1>3 DEF EntryOf, NewMessage

\* Time goes on at a port that is clear, and so do the numbers of messages.
LEMMA Forward ==
    ASSUME SystemType, SystemType', AnyStep
    PROVE  /\ published \in Nat /\ published' \in Nat /\ published <= published'
           /\ \A u \in Clear' : /\ u \in Clear
                                /\ Latest(u) \in Nat /\ Latest(u)' \in Nat
                                /\ Latest(u) <= Latest(u)'
<1>1. published \in Nat /\ published' \in Nat
  BY DEF SystemType, PublishersType
<1>2. published <= published'
  <2>1. published' = published \/ published' = published + 1
    <3>1. Quiet => published' = published
      BY DEF Quiet
    <3>2. QED
      BY <3>1, MessageSteps, EndedParts, PublishesParts, ResendsParts,
         TakesParts
  <2>2. QED BY <1>1, <2>1
<1>3. ASSUME NEW u \in Clear'
      PROVE  /\ u \in Clear /\ Latest(u) \in Nat /\ Latest(u)' \in Nat
             /\ Latest(u) <= Latest(u)'
  <2>1. u \in PublisherUrls /\ u \notin overtaken'
    BY DEF Clear
  <2>2. Latest(u) \in Nat /\ Latest(u)' \in Nat
    <3>1. Latest(u) \in Nat
      BY <2>1, OwnTimes
    <3>2. latest'[u] \in Nat
      BY <2>1, TimeAssumption DEF SystemType, PublishersType, Timestamps
    <3>3. Secs(latest'[u]) \in Nat
      BY <3>2, SecsMonotone
    <3>4. QED BY <3>1, <3>3 DEF Latest
  <2>3. overtaken \subseteq overtaken'
    BY BoundSteps DEF Binds
  <2>4. latest'[u] = latest[u] \/ Secs(latest[u]) < Secs(latest'[u])
    BY <2>1, BoundSteps DEF Binds
  <2>5. QED BY <2>1, <2>2, <2>3, <2>4 DEF Clear, Latest
<1>4. QED BY <1>1, <1>2, <1>3

\* A publisher that runs after a step ran before, with the same time, or has
\* just been started.
LEMMA RunningStep ==
    ASSUME SystemType, SystemType', AnyStep, NEW u \in PublisherUrls,
           Running(u)'
    PROVE  /\ RegTime(u)' \in Nat /\ RegTime(u)' > 0 /\ RegTime(u)' = Latest(u)'
           /\ \/ /\ Binds(u) /\ ~Running(u)
                 /\ u \in Clear' => Latest(u) < RegTime(u)'
              \/ /\ Running(u) /\ RegTime(u)' = RegTime(u)
                 /\ bound'[u].id = bound[u].id
                 /\ bound[u].state = "registered" => bound'[u].state = "registered"
<1>1. /\ Running(u) => bound[u].timestamp = latest[u]
      /\ bound'[u].timestamp = latest'[u] /\ Secs(latest'[u]) > 0
      /\ latest'[u] \in Nat
  BY TimeAssumption DEF SystemType, PublishersType, Running, Timestamps
<1>2. RegTime(u)' \in Nat /\ RegTime(u)' > 0 /\ RegTime(u)' = Latest(u)'
  <2>1. Secs(latest'[u]) \in Nat
    BY <1>1, SecsMonotone
  <2>2. QED BY <1>1, <2>1 DEF RegTime, Latest
<1>3. CASE UNCHANGED <<bound, latest, overtaken>>
  BY <1>2, <1>3 DEF Running, RegTime
<1>4. CASE \E v \in PublisherUrls : Binds(v)
  <2>1. PICK v \in PublisherUrls : Binds(v)
    BY <1>4
  <2>2. CASE v = u
    <3>1. /\ ~Running(u)
          /\ u \in Clear' => Secs(latest[u]) < Secs(latest'[u])
      BY <2>1, <2>2 DEF Binds, Running, Clear
    <3>2. QED BY <1>1, <1>2, <2>1, <2>2, <3>1 DEF Latest, RegTime
  <2>3. CASE v # u
    <3>1. bound'[u] = bound[u]
      BY <2>1, <2>3 DEF Binds
    <3>2. QED BY <1>2, <3>1 DEF Running, RegTime
  <2>4. QED BY <2>2, <2>3
<1>5. ASSUME NEW v \in PublisherUrls, Registers(v) \/ Ended(v)
      PROVE  /\ Running(u) /\ RegTime(u)' = RegTime(u)
             /\ bound'[u].id = bound[u].id
             /\ bound[u].state = "registered" => bound'[u].state = "registered"
  <2>1. CASE v = u
    <3>1. Registers(u)
      BY <1>5, <2>1 DEF Ended, Running
    <3>2. QED BY <3>1 DEF Registers, Running, RegTime
  <2>2. CASE v # u
    <3>1. bound'[u] = bound[u]
      BY <1>5, <2>2 DEF Registers, Ended
    <3>2. QED BY <3>1 DEF Running, RegTime
  <2>3. QED BY <2>1, <2>2
<1>6. QED BY <1>2, <1>3, <1>4, <1>5, BoundSteps

\* A publisher that runs goes on, or ends.
LEMMA RunningKept ==
    ASSUME AnyStep, NEW u \in PublisherUrls, Running(u)
    PROVE  Running(u)' \/ Ended(u)
<1>1. CASE \E v \in PublisherUrls : Binds(v)
  BY <1>1 DEF Binds, Running
<1>2. CASE \E v \in PublisherUrls : Registers(v)
  BY <1>2 DEF Registers, Running
<1>3. CASE \E v \in PublisherUrls : Ended(v)
  BY <1>3 DEF Ended, Running
<1>4. QED BY <1>1, <1>2, <1>3, BoundSteps DEF Running

\* What is cached changes when something is published, and is lost when the
\* publisher ends.
LEMMA CachedSteps ==
    ASSUME SystemType, AnyStep, NEW u \in PublisherUrls
    PROVE  \/ lastCached'[u] = lastCached[u]
           \/ Ended(u) /\ lastCached'[u] = NoMessage
           \/ Publishes(u) /\ lastCached'[u] = NewMessage(u)
<1>1. CASE Quiet
  BY <1>1 DEF Quiet
<1>2. ASSUME NEW v \in PublisherUrls, OthersKept(v),
             Ended(v) \/ Publishes(v) \/ Resends(v) \/ Takes(v)
      PROVE  \/ lastCached'[u] = lastCached[u]
             \/ Ended(u) /\ lastCached'[u] = NoMessage
             \/ Publishes(u) /\ lastCached'[u] = NewMessage(u)
  <2>1. CASE v # u
    BY <1>2, <2>1 DEF OthersKept
  <2>2. CASE v = u
    BY <1>2, <2>2, EndedParts, PublishesParts, ResendsParts, TakesParts
  <2>3. QED BY <2>1, <2>2
<1>3. Quiet \/ \E v \in PublisherUrls : OthersKept(v) /\
         (Ended(v) \/ Publishes(v) \/ Resends(v) \/ Takes(v))
  BY MessageSteps, EndedParts, PublishesParts, ResendsParts, TakesParts
<1>4. QED BY <1>1, <1>2, <1>3

\* What publishers have cached stays their own.
LEMMA PublishersInvStep ==
    ASSUME SystemType, SystemType', AnyStep, PublishersInv
    PROVE  PublishersInv'
<1> SUFFICES ASSUME NEW u \in PublisherUrls, lastCached'[u] # NoMessage
             PROVE  Running(u)' /\ lastCached'[u].regTime \in {0, RegTime(u)'}
  BY DEF PublishersInv
<1>1. CASE Publishes(u) /\ lastCached'[u] = NewMessage(u)
  <2>1. Running(u) /\ bound'[u] = bound[u]
    BY <1>1 DEF Publishes, Running
  <2>2. Running(u)' /\ RegTime(u)' = RegTime(u)
    BY <2>1 DEF Running, RegTime
  <2>3. QED BY <1>1, <2>1, <2>2, OwnTimes
<1>2. CASE lastCached'[u] = lastCached[u]
  <2>1. Running(u) /\ lastCached[u].regTime \in {0, RegTime(u)}
    BY <1>2 DEF PublishersInv
  <2>2. Running(u)'
    BY <2>1, RunningKept DEF Ended
  <2>3. RegTime(u)' = RegTime(u)
    BY <2>1, <2>2, RunningStep
  <2>4. QED BY <1>2, <2>1, <2>2, <2>3
<1>3. QED BY <1>1, <1>2, CachedSteps

\* What is told keeps naming one publisher of its port.
LEMMA ToldInvStep ==
    ASSUME SystemType, SystemType', AnyStep, ToldInv
    PROVE  ToldInv'
<1> SUFFICES ASSUME NEW p \in Told', p.url \in Clear'
             PROVE  /\ p.registration_time <= Latest(p.url)'
                    /\ Running(p.url)' /\ RegTime(p.url)' = p.registration_time =>
                          /\ bound'[p.url].id = SubscribedID
                          /\ bound'[p.url].state = "registered"
  BY DEF ToldInv, Clear
<1> DEFINE u == p.url
<1>1. /\ u \in PublisherUrls /\ u \in Clear
      /\ Latest(u) \in Nat /\ Latest(u)' \in Nat /\ Latest(u) <= Latest(u)'
  BY Forward DEF Clear
<1> HIDE DEF u
<1>2. CASE p \in Told
  <2>1. /\ p.registration_time \in Nat /\ p.registration_time <= Latest(u)
        /\ Running(u) /\ RegTime(u) = p.registration_time =>
              bound[u].id = SubscribedID /\ bound[u].state = "registered"
    BY <1>1, <1>2, ToldTypes DEF ToldInv, Times, u
  <2>2. p.registration_time <= Latest(u)'
    BY <1>1, <2>1
  <2>3. ASSUME Running(u)', RegTime(u)' = p.registration_time
        PROVE  bound'[u].id = SubscribedID /\ bound'[u].state = "registered"
    <3>1. u \in Clear'
      BY DEF u
    <3>2. /\ Running(u) /\ RegTime(u)' = RegTime(u) /\ bound'[u].id = bound[u].id
          /\ bound[u].state = "registered" => bound'[u].state = "registered"
      BY <1>1, <2>1, <2>3, <3>1, RunningStep
    <3>3. QED BY <2>1, <2>3, <3>2
  <2>4. QED BY <2>2, <2>3 DEF u
<1>3. CASE p \notin Told
  <2>1. PICK v \in PublisherUrls :
           Registers(v) /\ p = EntryOf(v) /\ bound[v].id = SubscribedID
    BY <1>3, ToldStep
  <2>2. Running(v) /\ bound'[v].id = SubscribedID /\ bound'[v].state = "registered"
    BY <2>1 DEF Registers, Running
  <2>3. u = v /\ p.registration_time = Latest(v)
    BY <2>1, <2>2, OwnTimes DEF u
  <2>4. QED BY <1>1, <2>2, <2>3 DEF u
<1>4. QED BY <1>2, <1>3

\* A message at a port that is clear and that carries a registration time was
\* published by the publisher with this time: one of the product, if the time
\* was told.
MessagesInv ==
    /\ \A u \in PublisherUrls : \A m \in At(u) : m.url = u
    /\ \A u \in Clear : \A m \in At(u) :
          /\ m.regTime <= Latest(u)
          /\ Running(u) /\ m.regTime = RegTime(u) =>
                m.id = bound[u].id /\ lastCached[u] # NoMessage
          /\ \A p \in Told : p.url = u /\ m.regTime = p.registration_time =>
                m.id = SubscribedID
    /\ \A u \in PublisherUrls : Socket(u).last # NoMessage =>
          Socket(u).last.regTime = Socket(u).regTime

\* The message taken last from a socket is one of the publisher it is for.
LEMMA LastsVerified ==
    ASSUME SystemType, SystemType', AnyStep, NEW u \in PublisherUrls,
           Socket(u).last # NoMessage => Socket(u).last.regTime = Socket(u).regTime,
           Socket(u)'.last # NoMessage
    PROVE  Socket(u)'.last.regTime = Socket(u)'.regTime
<1>1. u \in Urls
  BY DEF PublisherUrls
<1>2. CASE Takes(u)
  <2>1. Queue(u)[1].regTime = Socket(u).regTime
    BY <1>2 DEF Takes
  <2>2. QED BY <1>2, <2>1, TakesParts
<1>3. CASE Socket(u)' = Socket(u) \/ Empty(Socket(u)')
  BY <1>3 DEF Empty
<1>4. CASE Ended(u) \/ Publishes(u) \/ Resends(u)
  BY <1>4, EndedParts, PublishesParts, ResendsParts
<1>5. Quiet \/ \E v \in PublisherUrls : OthersKept(v) /\
         (Ended(v) \/ Publishes(v) \/ Resends(v) \/ Takes(v))
  BY MessageSteps, EndedParts, PublishesParts, ResendsParts, TakesParts
<1>6. QED BY <1>1, <1>2, <1>3, <1>4, <1>5 DEF Quiet, OthersKept

\* Messages keep the ID and the time of their publisher.
LEMMA MessagesInvStep ==
    ASSUME SystemType, SystemType', AnyStep, ToldInv, MessagesInv
    PROVE  MessagesInv'
<1>1. \A u \in PublisherUrls : \A m \in At(u) : m.regTime \in Nat
  BY AtTypes DEF Message, Times
<1>2. ASSUME NEW u \in PublisherUrls, Publishes(u)
      PROVE  /\ Running(u) /\ bound' = bound /\ RegTime(u)' = RegTime(u)
             /\ Latest(u)' = Latest(u) /\ RegTime(u) = Latest(u) /\ RegTime(u) > 0
             /\ Latest(u) \in Nat
             /\ NewMessage(u).regTime \in {0, RegTime(u)}
             /\ NewMessage(u).id = bound[u].id /\ NewMessage(u).url = u
             /\ lastCached'[u] # NoMessage
  <2>1. Running(u) /\ bound' = bound /\ latest' = latest
    BY <1>2 DEF Publishes, Running
  <2>2. lastCached'[u] # NoMessage
    <3>1. lastCached'[u] = NewMessage(u) /\ NewMessage(u) \in Message
      BY <1>2 DEF Publishes
    <3>2. QED BY <3>1, AtTypes
  <2>3. RegTime(u)' = RegTime(u) /\ Latest(u)' = Latest(u)
    BY <2>1 DEF RegTime, Latest
  <2>4. QED BY <2>1, <2>2, <2>3, OwnTimes
<1>3. ASSUME NEW u \in PublisherUrls, NEW m \in At(u)'
      PROVE  \/ \E n \in At(u) :
                   n.regTime = m.regTime /\ n.id = m.id /\ n.url = m.url
             \/ Publishes(u) /\ m = NewMessage(u)
  BY <1>3, AtStep DEF Same
<1>4. ASSUME NEW u \in PublisherUrls, NEW m \in At(u)'
      PROVE  m.url = u
  BY <1>2, <1>3, <1>4 DEF MessagesInv
<1>5. ASSUME NEW u \in Clear', NEW m \in At(u)'
      PROVE  /\ m.regTime <= Latest(u)'
             /\ Running(u)' /\ m.regTime = RegTime(u)' =>
                   m.id = bound'[u].id /\ lastCached'[u] # NoMessage
             /\ \A p \in Told' : p.url = u /\ m.regTime = p.registration_time =>
                   m.id = SubscribedID
  <2>1. /\ u \in PublisherUrls /\ u \in Clear
        /\ Latest(u) \in Nat /\ Latest(u)' \in Nat /\ Latest(u) <= Latest(u)'
    BY Forward DEF Clear
  <2>2. m.regTime <= Latest(u)'
    <3>1. CASE \E n \in At(u) : n.regTime = m.regTime
      BY <1>1, <2>1, <3>1 DEF MessagesInv
    <3>2. CASE Publishes(u) /\ m = NewMessage(u)
      BY <1>2, <2>1, <3>2
    <3>3. QED BY <1>3, <1>5, <2>1, <3>1, <3>2
  <2>3. ASSUME Running(u)', m.regTime = RegTime(u)'
        PROVE  m.id = bound'[u].id /\ lastCached'[u] # NoMessage
    <3>1. CASE Publishes(u) /\ m = NewMessage(u)
      BY <1>2, <2>1, <3>1
    <3>2. ASSUME NEW n \in At(u), n.regTime = m.regTime, n.id = m.id
          PROVE  m.id = bound'[u].id /\ lastCached'[u] # NoMessage
      <4>1. n.regTime <= Latest(u) /\ n.regTime \in Nat
        BY <1>1, <2>1, <3>2 DEF MessagesInv
      <4>2. /\ Running(u) /\ RegTime(u)' = RegTime(u)
            /\ bound'[u].id = bound[u].id
        BY <1>5, <2>1, <2>3, <3>2, <4>1, RunningStep
      <4>3. n.id = bound[u].id /\ lastCached[u] # NoMessage
        BY <2>1, <2>3, <3>2, <4>2 DEF MessagesInv
      <4>4. ~Ended(u)
        BY <2>3 DEF Ended, Running
      <4>5. lastCached'[u] # NoMessage
        BY <1>2, <2>1, <4>3, <4>4, CachedSteps
      <4>6. QED BY <3>2, <4>2, <4>3, <4>5
    <3>3. QED BY <1>3, <1>5, <2>1, <3>1, <3>2
  <2>4. ASSUME NEW p \in Told', p.url = u, m.regTime = p.registration_time
        PROVE  m.id = SubscribedID
    <3>1. CASE p \in Told
      <4>1. p.registration_time \in Nat /\ p.registration_time # 0
        BY <3>1, ToldTypes DEF Times
      <4>2. CASE \E n \in At(u) : n.regTime = m.regTime /\ n.id = m.id
        BY <2>1, <2>4, <3>1, <4>2 DEF MessagesInv
      <4>3. CASE Publishes(u) /\ m = NewMessage(u)
        <5>1. Running(u) /\ RegTime(u) = p.registration_time
          BY <1>2, <2>1, <2>4, <4>1, <4>3
        <5>2. bound[u].id = SubscribedID
          BY <2>1, <2>4, <3>1, <5>1 DEF ToldInv
        <5>3. QED BY <1>2, <2>1, <4>3, <5>2
      <4>4. QED BY <1>3, <1>5, <2>1, <4>2, <4>3
    <3>2. CASE p \notin Told
      <4>1. PICK v \in PublisherUrls :
               Registers(v) /\ p = EntryOf(v) /\ bound[v].id = SubscribedID
        BY <2>4, <3>2, ToldStep
      <4>2. Running(v) /\ bound'[v] # Nobody /\ bound'[v].id = SubscribedID
            /\ bound'[v].timestamp = bound[v].timestamp
        BY <4>1 DEF Registers, Running
      <4>3. Running(v)' /\ RegTime(v)' = RegTime(v)
        BY <4>2 DEF Running, RegTime
      <4>4. v = u /\ p.registration_time = RegTime(v)
        BY <2>4, <4>1, <4>2, OwnTimes
      <4>5. QED BY <2>3, <2>4, <4>2, <4>3, <4>4
    <3>3. QED BY <3>1, <3>2
  <2>5. QED BY <2>2, <2>3, <2>4
<1>6. ASSUME NEW u \in PublisherUrls, Socket(u)'.last # NoMessage
      PROVE  Socket(u)'.last.regTime = Socket(u)'.regTime
  BY <1>6, LastsVerified DEF MessagesInv
<1>7. QED BY <1>4, <1>5, <1>6 DEF MessagesInv


-----------------------------------------------------------------------------
(***************************************************************************)
(* What subscribers receive.                                               *)
(***************************************************************************)

\* The last messages of the sockets are given to a subscriber that comes late.
LateGiven(s, late) ==
    /\ s \notin subscription.subscribers /\ late \in Seq(Message)
    /\ received'[s] = received[s] \o late
    /\ Ordered(late, Len(late))
    /\ \A k \in 1 .. Len(late) : late[k] \in Lasts(subscription.pollItemMap)

\* What happens to what a subscriber has received.
LEMMA ReceivedSteps ==
    ASSUME SystemType, SystemType', AnyStep, ValuesInv, NEW s \in Subscribers
    PROVE  /\ received[s] \in Seq(Message)
           /\ \/ received'[s] = received[s] \/ received'[s] = <<>>
              \/ \E u \in PublisherUrls :
                    /\ Takes(u) /\ s \in subscription.subscribers
                    /\ Socket(u).last.value < Queue(u)[1].value
                    /\ received'[s] = Append(received[s], Queue(u)[1])
              \/ \E late : LateGiven(s, late)
<1>1. received[s] \in Seq(Message)
  BY DEF SystemType, NodeType
<1>2. ASSUME NEW u \in PublisherUrls, Takes(u)
      PROVE  \/ received'[s] = received[s]
             \/ /\ s \in subscription.subscribers
                /\ Socket(u).last.value < Queue(u)[1].value
                /\ received'[s] = Append(received[s], Queue(u)[1])
  BY <1>2 DEF Takes
<1>3. CASE SameMembers /\ UNCHANGED received
  BY <1>1, <1>3
<1>4. CASE Removes
  BY <1>1, <1>4 DEF Removes
<1>5. CASE ChangesMonitors
  BY <1>1, <1>5 DEF ChangesMonitors
<1>6. CASE Adds
  <2> DEFINE items == subscription'.pollItemMap
             late == LateValues(s, items)
  <2>1. CASE s # commands[1].who
    BY <1>1, <1>6, <2>1 DEF Adds
  <2>2. CASE s = commands[1].who
    <3>1. received'[s] = received[s] \o late
      BY <1>6, <2>2 DEF Adds
    <3>2. CASE late = <<>>
      BY <1>1, <3>1, <3>2, ConcatEmptySeq
    <3>3. CASE late # <<>>
      <4>1. s \notin subscription.subscribers /\ late = LastValues(items)
        BY <3>3 DEF LateValues
      <4>2. items \in [Urls -> SocketType]
        BY DEF SystemType, NodeType, DetailsType
      <4>3. /\ Lasts(items) = Lasts(subscription.pollItemMap)
            /\ Distinct(Lasts(items))
        BY <1>6, LastsDistinct DEF Adds
      <4>4. /\ late \in Seq(Message) /\ Ordered(late, Len(late))
            /\ \A k \in 1 .. Len(late) : late[k] \in Lasts(items)
        BY <4>1, <4>2, <4>3, LastValuesInOrder
      <4> HIDE DEF late
      <4>5. LateGiven(s, late)
        BY <3>1, <4>1, <4>3, <4>4 DEF LateGiven
      <4>6. QED BY <1>1, <4>5
    <3>4. QED BY <3>2, <3>3
  <2>3. QED BY <2>1, <2>2
<1>7. QED BY <1>1, <1>2, <1>3, <1>4, <1>5, <1>6, MemberSteps

\* A message that is received next is one at a URL, that the socket there
\* expects and that no message waiting there is older than.
Expected(u, m) ==
    /\ m \in At(u) /\ Socket(u).open /\ m.regTime = Socket(u).regTime
    /\ \A k \in 1 .. Len(Queue(u)) : m.value <= Queue(u)[k].value

\* The message that is taken from a socket is such a one,
LEMMA TakesExpected ==
    ASSUME SystemType, OrderInv, NEW u \in PublisherUrls, Takes(u)
    PROVE  Expected(u, Queue(u)[1])
<1>1. /\ Queue(u) # <<>> /\ Socket(u).open
      /\ Queue(u)[1].regTime = Socket(u).regTime
  BY DEF Takes
<1>2. Len(Queue(u)) \in Nat /\ Len(Queue(u)) > 0
  BY <1>1, AtTypes
<1>3. Queue(u)[1] \in At(u) /\ Queue(u)[1].value \in Nat
  BY <1>2, AtTypes
<1>4. \A k \in 1 .. Len(Queue(u)) : Queue(u)[1].value <= Queue(u)[k].value
  BY <1>2, <1>3 DEF OrderInv
<1>5. QED BY <1>1, <1>3, <1>4 DEF Expected

\* and so is each that was taken last.
LEMMA LastsExpected ==
    ASSUME SystemType, OrderInv, MessagesInv,
           NEW m \in Lasts(subscription.pollItemMap)
    PROVE  \E u \in PublisherUrls : Expected(u, m) /\ m = Socket(u).last
<1>1. PICK u \in Urls : m = Socket(u).last /\ m # NoMessage
  BY DEF Lasts, Socket
<1>2. u \in PublisherUrls
  BY <1>1, EmptySockets DEF SystemType, SocketsInv, PublisherUrls
<1>3. m \in At(u) /\ Socket(u).open /\ m.regTime = Socket(u).regTime
  BY <1>1, <1>2, AtTypes, OpenSockets DEF MessagesInv
<1>4. QED BY <1>1, <1>2, <1>3 DEF Expected, OrderInv

\* It is of the product, if the port is clear.
LEMMA ExpectedProduct ==
    ASSUME SystemType, MessagesInv, NEW u \in PublisherUrls, NEW m, Expected(u, m)
    PROVE  /\ m.url = u /\ m.regTime \in Nat /\ m.regTime > 0
           /\ u \in Clear => m.id = SubscribedID
<1>1. Socket(u).open /\ m.regTime = Socket(u).regTime /\ m \in At(u)
  BY DEF Expected
<1>2. u \in Urls /\ Socket(u).regTime \in Times
  BY <1>1 DEF SystemType, SocketsInv, PublisherUrls
<1> DEFINE p == [url |-> u, registration_time |-> Socket(u).regTime]
<1>3. p \in Told /\ p.registration_time = m.regTime /\ p.url = u
  BY <1>1, ToldTypes
<1> HIDE DEF p
<1>4. u \in Clear => m.id = SubscribedID
  BY <1>1, <1>3 DEF MessagesInv
<1>5. m.url = u
  BY <1>1 DEF MessagesInv
<1>6. QED BY <1>1, <1>2, <1>4, <1>5 DEF Times


\* A message that was received is of the past: nothing that its publisher has
\* cached, or that waits at the socket for it, is older.
Reached(r) ==
    /\ r.regTime \in Nat /\ r.regTime > 0 /\ r.regTime <= Latest(r.url)
    /\ r.value \in Nat /\ r.value <= published
    /\ Running(r.url) /\ r.regTime = RegTime(r.url) =>
          lastCached[r.url] # NoMessage /\ r.value <= lastCached[r.url].value
    /\ \A k \in 1 .. Len(Queue(r.url)) :
          Queue(r.url)[k].regTime = r.regTime => r.value <= Queue(r.url)[k].value

\* No socket for the publisher of r took an older message last.
Passed(r) ==
    Socket(r.url).last # NoMessage /\ Socket(r.url).last.regTime = r.regTime
        => r.value <= Socket(r.url).last.value

\* What holds of a message once it has been received.
Delivered(r) ==
    /\ r.url \in PublisherUrls
    /\ r.url \in Clear => r.id = SubscribedID /\ Reached(r) /\ Passed(r)

\* It holds of all that subscribers have received.
ReceivedInv ==
    \A s \in Subscribers :
        /\ s \notin subscription.subscribers => received[s] = <<>>
        /\ \A i \in 1 .. Len(received[s]) : Delivered(received[s][i])

\* What a socket has waiting after a step waited there before, is new, or was
\* cached.
LEMMA QueueSteps ==
    ASSUME SystemType, SystemType', AnyStep, NEW u \in PublisherUrls,
           NEW k \in 1 .. Len(Queue(u)')
    PROVE  \/ \E i \in 1 .. Len(Queue(u)) : Queue(u)'[k] = Queue(u)[i]
           \/ Publishes(u) /\ Queue(u)'[k] = NewMessage(u)
           \/ lastCached[u] # NoMessage /\ Same(Queue(u)'[k], lastCached[u])
<1>1. Len(Queue(u)) \in Nat /\ u \in Urls
  BY AtTypes DEF PublisherUrls
<1>2. ASSUME NEW m, Appended(u, m)
      PROVE  Queue(u)'[k] = m \/ \E i \in 1 .. Len(Queue(u)) : Queue(u)'[k] = Queue(u)[i]
  BY <1>1, <1>2 DEF Appended
<1>3. CASE Queue(u)' = Queue(u)
  BY <1>3
<1>4. CASE Empty(Socket(u)')
  <2>1. Queue(u)' = <<>>
    BY <1>4 DEF Empty, Queue, Socket
  <2>2. Len(Queue(u)') = 0
    BY <2>1
  <2>3. QED BY <2>2
<1>5. CASE Ended(u)
  BY <1>3, <1>5, EndedParts
<1>6. CASE Publishes(u)
  BY <1>2, <1>3, <1>6, PublishesParts
<1>7. CASE Resends(u)
  <2>1. CASE lastCached[u] = NoMessage
    BY <1>3, <1>7, <2>1, ResendsParts
  <2>2. CASE lastCached[u] # NoMessage
    <3>1. PICK m \in Message : Appended(u, m) /\ Same(m, lastCached[u])
      BY <1>7, <2>2, ResendsParts
    <3>2. QED BY <1>2, <2>2, <3>1
  <2>3. QED BY <2>1, <2>2
<1>8. CASE Takes(u)
  BY <1>1, <1>8, TakesParts
<1>9. CASE Socket(u)' = Socket(u)
  BY <1>3, <1>9 DEF Queue, Socket
<1>10. Quiet \/ \E v \in PublisherUrls : OthersKept(v) /\
          (Ended(v) \/ Publishes(v) \/ Resends(v) \/ Takes(v))
  BY MessageSteps, EndedParts, PublishesParts, ResendsParts, TakesParts
<1>11. QED
  BY <1>1, <1>4, <1>5, <1>6, <1>7, <1>8, <1>9, <1>10 DEF Quiet, OthersKept

\* What was reached stays reached: newer messages come later.
LEMMA ReachedStep ==
    ASSUME SystemType, SystemType', AnyStep, PublishersInv,
           NEW u \in Clear', NEW r, r.url = u, Reached(r)
    PROVE  Reached(r)'
<1>1. /\ u \in PublisherUrls /\ published \in Nat /\ published' \in Nat
      /\ published <= published'
      /\ Latest(u) \in Nat /\ Latest(u)' \in Nat /\ Latest(u) <= Latest(u)'
  BY Forward DEF Clear
<1>2. /\ r.regTime \in Nat /\ r.regTime > 0 /\ r.regTime <= Latest(u)
      /\ r.value \in Nat /\ r.value <= published
  BY DEF Reached
<1>3. r.regTime <= Latest(u)' /\ r.value <= published'
  BY <1>1, <1>2
<1>4. ASSUME Running(u)', r.regTime = RegTime(u)'
      PROVE  lastCached'[u] # NoMessage /\ r.value <= lastCached'[u].value
  <2>1. Running(u) /\ RegTime(u)' = RegTime(u)
    BY <1>1, <1>2, <1>4, RunningStep
  <2>2. lastCached[u] # NoMessage /\ r.value <= lastCached[u].value
    BY <1>4, <2>1 DEF Reached
  <2>3. CASE lastCached'[u] = lastCached[u]
    BY <2>2, <2>3
  <2>4. CASE Publishes(u) /\ lastCached'[u] = NewMessage(u)
    <3>1. NewMessage(u) # NoMessage /\ NewMessage(u).value = published + 1
      BY <1>1, <2>4, PublishesParts, AtTypes
    <3>2. QED BY <1>1, <1>2, <2>4, <3>1
  <2>5. ~Ended(u)
    BY <1>4 DEF Ended, Running
  <2>6. QED BY <1>1, <2>3, <2>4, <2>5, CachedSteps
<1>5. ASSUME NEW k \in 1 .. Len(Queue(u)'), Queue(u)'[k].regTime = r.regTime
      PROVE  r.value <= Queue(u)'[k].value
  <2>1. CASE \E i \in 1 .. Len(Queue(u)) : Queue(u)'[k] = Queue(u)[i]
    BY <1>5, <2>1 DEF Reached
  <2>2. CASE Publishes(u) /\ Queue(u)'[k] = NewMessage(u)
    <3>1. NewMessage(u).value = published + 1
      BY <1>1, <2>2, PublishesParts
    <3>2. QED BY <1>1, <1>2, <2>2, <3>1
  <2>3. CASE lastCached[u] # NoMessage /\ Same(Queue(u)'[k], lastCached[u])
    <3>1. /\ lastCached[u].regTime = r.regTime
          /\ Queue(u)'[k].value = lastCached[u].value
      BY <1>5, <2>3 DEF Same
    <3>2. Running(u) /\ r.regTime = RegTime(u)
      BY <1>1, <1>2, <2>3, <3>1 DEF PublishersInv
    <3>3. QED BY <3>1, <3>2 DEF Reached
  <2>4. QED BY <1>1, <2>1, <2>2, <2>3, QueueSteps
<1>6. QED BY <1>2, <1>3, <1>4, <1>5 DEF Reached

\* Sockets move on to newer messages only.
LEMMA PassedStep ==
    ASSUME SystemType, SystemType', AnyStep, NEW u \in PublisherUrls,
           NEW r, r.url = u, Reached(r), Passed(r)
    PROVE  Passed(r)'
<1> SUFFICES ASSUME Socket(u)'.last # NoMessage,
                    Socket(u)'.last.regTime = r.regTime
             PROVE  r.value <= Socket(u)'.last.value
  BY DEF Passed
<1>1. CASE Socket(u)'.last = Socket(u).last
  BY <1>1 DEF Passed
<1>2. CASE Takes(u) /\ Socket(u)'.last = Queue(u)[1]
  <2>1. 1 \in 1 .. Len(Queue(u))
    BY <1>2, TakesParts, AtTypes
  <2>2. QED BY <1>2, <2>1 DEF Reached
<1>3. QED BY <1>1, <1>2, LastsKept, TakesParts

\* A message that is received next has been reached by all the others.
LEMMA ExpectedReached ==
    ASSUME SystemType, ValuesInv, OrderInv, MessagesInv,
           NEW u \in Clear, NEW m, Expected(u, m)
    PROVE  Reached(m)
<1>1. /\ u \in PublisherUrls /\ m \in At(u) /\ m.url = u
      /\ m.regTime \in Nat /\ m.regTime > 0
  BY ExpectedProduct DEF Expected, Clear
<1>2. m \in Message /\ m.value \in Nat
  BY <1>1, AtTypes
<1>3. m.regTime <= Latest(u) /\ m.value <= published
  BY <1>1 DEF MessagesInv, ValuesInv
<1>4. ASSUME Running(u), m.regTime = RegTime(u)
      PROVE  lastCached[u] # NoMessage /\ m.value <= lastCached[u].value
  <2>1. lastCached[u] # NoMessage
    BY <1>1, <1>4 DEF MessagesInv
  <2>2. QED BY <1>1, <2>1 DEF OrderInv
<1>5. \A k \in 1 .. Len(Queue(u)) : m.value <= Queue(u)[k].value
  BY DEF Expected
<1>6. QED BY <1>1, <1>2, <1>3, <1>4, <1>5 DEF Reached

\* What was delivered stays so, and so is what a step delivers.
LEMMA DeliveredStep ==
    ASSUME SystemType, SystemType', AnyStep, ValuesInv, OrderInv,
           PublishersInv, MessagesInv, NEW r,
           \/ Delivered(r)
           \/ r \in Lasts(subscription.pollItemMap)
           \/ \E u \in PublisherUrls : Takes(u) /\ r = Queue(u)[1]
    PROVE  Delivered(r)'
<1>1. CASE Delivered(r)
  <2>1. r.url \in PublisherUrls
    BY <1>1 DEF Delivered
  <2>2. ASSUME r.url \in Clear'
        PROVE  r.id = SubscribedID /\ Reached(r)' /\ Passed(r)'
    <3>1. r.url \in Clear
      BY <2>2, Forward
    <3>2. r.id = SubscribedID /\ Reached(r) /\ Passed(r)
      BY <1>1, <3>1 DEF Delivered
    <3>3. QED BY <2>1, <2>2, <3>2, ReachedStep, PassedStep
  <2>3. QED BY <2>1, <2>2 DEF Delivered
<1>2. CASE r \in Lasts(subscription.pollItemMap)
  <2>1. PICK u \in PublisherUrls : Expected(u, r) /\ r = Socket(u).last
    BY <1>2, LastsExpected
  <2>2. r.url = u /\ r.value \in Nat
    BY <2>1, AtTypes, ExpectedProduct DEF Expected
  <2>3. Passed(r)
    BY <2>1, <2>2 DEF Passed
  <2>4. ASSUME u \in Clear'
        PROVE  r.id = SubscribedID /\ Reached(r)' /\ Passed(r)'
    <3>1. u \in Clear
      BY <2>4, Forward
    <3>2. r.id = SubscribedID /\ Reached(r)
      BY <2>1, <3>1, ExpectedProduct, ExpectedReached
    <3>3. QED BY <2>2, <2>3, <2>4, <3>2, ReachedStep, PassedStep
  <2>5. QED BY <2>2, <2>4 DEF Delivered
<1>3. ASSUME NEW u \in PublisherUrls, Takes(u), r = Queue(u)[1]
      PROVE  Delivered(r)'
  <2>1. Expected(u, r)
    BY <1>3, TakesExpected
  <2>2. r.url = u
    BY <2>1, ExpectedProduct
  <2>3. ASSUME u \in Clear'
        PROVE  r.id = SubscribedID /\ Reached(r)' /\ Passed(r)'
    <3>1. u \in Clear
      BY <2>3, Forward
    <3>2. r.id = SubscribedID /\ Reached(r)
      BY <2>1, <3>1, ExpectedProduct, ExpectedReached
    <3>3. Reached(r)'
      BY <2>2, <2>3, <3>2, ReachedStep
    <3>4. Passed(r)'
      <4>1. /\ Socket(u)'.last = IF Socket(u).last.value < r.value
                                 THEN r ELSE Socket(u).last
        BY <1>3, TakesParts
      <4>2. r.value \in Nat /\ Socket(u).last.value \in Nat
        BY <2>1, AtTypes DEF Expected
      <4>3. r.value <= Socket(u)'.last.value
        BY <4>1, <4>2
      <4>4. QED BY <2>2, <4>3 DEF Passed
    <3>5. QED BY <3>2, <3>3, <3>4
  <2>4. QED BY <2>2, <2>3 DEF Delivered
<1>4. QED BY <1>1, <1>2, <1>3

\* What is received is of the product, and newer than what was.
LEMMA ReceivedStep ==
    ASSUME SystemType, SystemType', AnyStep, ValuesInv, OrderInv,
           PublishersInv, MessagesInv, ReceivedInv
    PROVE  ReceivedInv'
<1>1. ASSUME NEW s \in Subscribers, NEW i \in 1 .. Len(received'[s])
      PROVE  Delivered(received[s][i])'
  <2>1. received[s] \in Seq(Message) /\ Len(received[s]) \in Nat
    BY SeqFacts DEF SystemType, NodeType
  <2>2. SUFFICES ASSUME NEW r, r = received'[s][i] PROVE Delivered(r)'
    BY DEF Delivered, Reached, Passed, Clear
  <2>3. ASSUME NEW k \in 1 .. Len(received[s]), r = received[s][k]
        PROVE  Delivered(r)
    BY <2>3 DEF ReceivedInv
  <2>4. CASE received'[s] = received[s]
    BY <2>2, <2>3, <2>4, DeliveredStep
  <2>5. received'[s] # <<>>
    BY <1>1
  <2>6. ASSUME NEW u \in PublisherUrls, Takes(u),
               received'[s] = Append(received[s], Queue(u)[1])
        PROVE  Delivered(r)'
    <3>1. Queue(u)[1] \in Message
      BY <2>6, TakesParts
    <3>2. \/ \E k \in 1 .. Len(received[s]) : r = received[s][k]
          \/ r = Queue(u)[1]
      BY <1>1, <2>1, <2>2, <2>6, <3>1, SeqFacts
    <3>3. QED BY <2>3, <2>6, <3>2, DeliveredStep
  <2>7. ASSUME NEW late, LateGiven(s, late) PROVE Delivered(r)'
    <3>1. late \in Seq(Message) /\ received'[s] = received[s] \o late
      BY <2>7 DEF LateGiven
    <3>2. \/ \E k \in 1 .. Len(received[s]) : r = received[s][k]
          \/ \E k \in 1 .. Len(late) : r = late[k]
      <4> DEFINE q == received[s]
                 t == received'[s]
      <4>0. late \in Seq(Message)
        BY <3>1
      <4>1. q \in Seq(Message) /\ t = q \o late /\ r = t[i] /\ i \in 1 .. Len(t)
        BY <1>1, <2>1, <2>2, <3>1
      <4> HIDE DEF q, t
      <4>2. \/ \E k \in 1 .. Len(q) : i = k /\ t[i] = q[k]
            \/ \E k \in 1 .. Len(late) : i = Len(q) + k /\ t[i] = late[k]
        BY <4>0, <4>1, ConcatParts
      <4>3. \/ \E k \in 1 .. Len(q) : r = q[k]
            \/ \E k \in 1 .. Len(late) : r = late[k]
        BY <4>1, <4>2
      <4>4. QED BY <4>3 DEF q
    <3>3. QED BY <2>3, <2>7, <3>2, DeliveredStep DEF LateGiven
  <2>8. QED BY <2>4, <2>5, <2>6, <2>7, ReceivedSteps
<1>2. ASSUME NEW s \in Subscribers, s \notin subscription'.subscribers
      PROVE  received'[s] = <<>>
  <2>1. s \notin subscription.subscribers => received[s] = <<>>
    BY DEF ReceivedInv
  <2>2. CASE SameMembers /\ UNCHANGED received
    BY <1>2, <2>1, <2>2 DEF SameMembers
  <2>3. CASE \E u \in PublisherUrls : Takes(u)
    <3>1. s \notin subscription.subscribers
      BY <1>2, <2>3 DEF Takes, ChangesSocket, SameMembers
    <3>2. received'[s] = received[s]
      BY <2>3, <3>1 DEF Takes
    <3>3. QED BY <2>1, <3>1, <3>2
  <2>4. CASE Adds
    <3>1. s \notin subscription.subscribers /\ s # commands[1].who
      BY <1>2, <2>4 DEF Adds
    <3>2. received'[s] = received[s]
      BY <2>4, <3>1 DEF Adds
    <3>3. QED BY <2>1, <3>1, <3>2
  <2>5. CASE Removes
    <3>1. s \notin subscription.subscribers \/ s = commands[1].who
      BY <1>2, <2>5 DEF Removes
    <3>2. QED BY <2>1, <2>5, <3>1 DEF Removes
  <2>6. CASE ChangesMonitors
    BY <1>2, <2>1, <2>6 DEF ChangesMonitors
  <2>7. QED BY <2>2, <2>3, <2>4, <2>5, <2>6, MemberSteps
<1>3. QED BY <1>1, <1>2 DEF ReceivedInv


\* The inductive invariant behind the two theorems on what is delivered.
TimesInv ==
    DeliveryInv /\ PublishersInv /\ ToldInv /\ MessagesInv /\ ReceivedInv

\* It holds at first,
LEMMA TimesInitial ==
    ASSUME SystemInit
    PROVE  TimesInv
<1>1. DeliveryInv
  BY DeliveryInitial
<1>2. PublishersInv
  BY NoMessages DEF PublishersInv, Running
<1>3. Told = {}
  <2>1. Len(<<>>) = 0 /\ NoCall.found = {}
    BY DEF NoCall
  <2>2. \A p \in Infos : ~Socket(p.url).open
    BY NoMessages, EmptySockets DEF Infos, PublisherUrls
  <2>3. QED BY <2>1, <2>2, NoMessages DEF Told
<1>4. ToldInv
  BY <1>3 DEF ToldInv
<1>5. MessagesInv
  <2>1. \A u \in PublisherUrls : At(u) = {} /\ Socket(u).last = NoMessage
    BY NoMessages
  <2>2. \A u \in Clear : At(u) = {}
    BY <2>1 DEF Clear
  <2>3. QED BY <2>1, <2>2 DEF MessagesInv
<1>6. ReceivedInv
  <2>1. Len(<<>>) = 0
    OBVIOUS
  <2>2. QED BY <2>1, NoMessages DEF ReceivedInv
<1>7. QED BY <1>1, <1>2, <1>4, <1>5, <1>6 DEF TimesInv

\* and every step keeps it.
LEMMA TimesStep ==
    ASSUME TimesInv, [SystemNext]_systemVars
    PROVE  TimesInv' /\ AnyStep
<1>1. DeliveryInv' /\ AnyStep
  BY DeliveryStep DEF TimesInv
<1>2. SystemType /\ SystemType' /\ ValuesInv /\ OrderInv
  BY <1>1 DEF TimesInv, DeliveryInv
<1>3. PublishersInv' /\ MessagesInv' /\ ReceivedInv'
  BY <1>1, <1>2, PublishersInvStep, MessagesInvStep, ReceivedStep DEF TimesInv
<1>4. ToldInv'
  BY <1>1, <1>2, <1>3, ToldInvStep DEF TimesInv
<1>5. QED BY <1>1, <1>3, <1>4 DEF TimesInv

\* Subscribers get data of the product they subscribed to and of no other,
\* whoever binds the port of a publisher that has gone, as long as it registers
\* in a later second than those before it at this port: the registration time
\* is all that a message is verified by, and it is in seconds.
THEOREM DeliversSubscribedProductHolds ==
    SystemSpec => []DeliversSubscribedProduct
<1>1. ASSUME TimesInv PROVE DeliversSubscribedProduct
  <2> SUFFICES ASSUME NEW s \in Subscribers, NEW i \in DOMAIN received[s]
               PROVE  \/ received[s][i].id = SubscribedID
                      \/ received[s][i].url \in overtaken
    BY DEF DeliversSubscribedProduct
  <2>1. received[s] \in Seq(Message)
    BY <1>1 DEF TimesInv, DeliveryInv, SystemType, NodeType
  <2>2. i \in 1 .. Len(received[s])
    BY <2>1, SeqFacts
  <2>3. QED BY <1>1, <2>2 DEF TimesInv, ReceivedInv, Delivered, Clear
<1>2. TimesInv /\ [SystemNext]_systemVars => TimesInv'
  BY TimesStep
<1>3. QED
  BY <1>1, <1>2, TimesInitial, PTL DEF SystemSpec

\* A step that delivers anything delivers what is newer than all that the
\* subscriber has of the registration, or again what it has, as the first
\* message of a new socket.
LEMMA DeliversNew ==
    ASSUME TimesInv, [SystemNext]_systemVars
    PROVE  StepDeliversNew
<1>1. /\ AnyStep /\ SystemType /\ SystemType' /\ ValuesInv /\ OrderInv
      /\ MessagesInv /\ ReceivedInv
  BY TimesStep DEF TimesInv, DeliveryInv
<1> SUFFICES ASSUME NEW s \in Subscribers,
                    NEW j \in DOMAIN received'[s] \ DOMAIN received[s],
                    NEW i \in 1 .. j - 1,
                    received'[s][i].url = received'[s][j].url,
                    received'[s][i].regTime = received'[s][j].regTime,
                    received'[s][j].url \notin overtaken
             PROVE  \/ received'[s][i].value < received'[s][j].value
                    \/ /\ received'[s][i].value = received'[s][j].value
                       /\ Socket(received'[s][j].url).last = NoMessage
                       /\ subscription'.pollItemMap[received'[s][j].url].last
                             = received'[s][j]
  BY DEF StepDeliversNew, Socket
<1>2. received[s] \in Seq(Message) /\ received'[s] \in Seq(Message)
  BY <1>1 DEF SystemType, NodeType
<1>3. /\ Len(received[s]) \in Nat /\ Len(received'[s]) \in Nat
      /\ j \in 1 .. Len(received'[s]) /\ j \notin 1 .. Len(received[s])
      /\ \A k \in 1 .. Len(received[s]) : received[s][k] \in Message
      /\ received[s] = <<>> => Len(received[s]) = 0
  BY <1>2, SeqFacts
<1>4. ASSUME NEW u \in PublisherUrls, Takes(u),
             Socket(u).last.value < Queue(u)[1].value,
             received'[s] = Append(received[s], Queue(u)[1])
      PROVE  \/ received'[s][i].value < received'[s][j].value
             \/ /\ received'[s][i].value = received'[s][j].value
                /\ received'[s][j].url = u
                /\ Socket(u).last = NoMessage
                /\ Socket(u)'.last = received'[s][j]
  <2> DEFINE m == Queue(u)[1]
             old == received[s][i]
  <2>1. m \in Message /\ m.value \in Nat /\ Socket(u).last.value \in Nat
    BY <1>1, <1>4, TakesParts, AtTypes
  <2>2. received'[s][j] = m /\ i \in 1 .. Len(received[s]) /\ received'[s][i] = old
    BY <1>2, <1>3, <1>4, <2>1, SeqFacts
  <2>0. m.url = u /\ old.url = u /\ u \in Clear
    <3>1. m.url = u
      BY <1>1, <1>4, TakesExpected, ExpectedProduct
    <3>2. QED BY <2>2, <3>1 DEF Clear
  <2>3. Reached(old) /\ Passed(old) /\ old.value \in Nat
    BY <1>1, <2>0, <2>2 DEF ReceivedInv, Delivered, Reached
  <2>4. /\ Socket(u).regTime = m.regTime /\ old.regTime = m.regTime
        /\ 1 \in 1 .. Len(Queue(u))
    <3>1. Socket(u).regTime = m.regTime
      BY <1>4 DEF Takes
    <3>2. 1 \in 1 .. Len(Queue(u))
      BY <1>1, <1>4, TakesParts, AtTypes
    <3>3. QED BY <2>2, <3>1, <3>2
  <2>5. old.value <= m.value
    BY <2>0, <2>3, <2>4 DEF Reached
  <2>6. CASE Socket(u).last # NoMessage
    <3>1. Socket(u).last.regTime = old.regTime
      BY <1>1, <2>4, <2>6 DEF MessagesInv
    <3>2. old.value <= Socket(u).last.value
      BY <2>0, <2>3, <2>6, <3>1 DEF Passed
    <3>3. old.value < m.value
      BY <1>4, <2>1, <2>3, <3>2
    <3>4. QED BY <2>2, <3>3
  <2>7. CASE Socket(u).last = NoMessage
    <3>1. Socket(u)'.last = m
      BY <1>1, <1>4, TakesParts
    <3>2. old.value < m.value \/ old.value = m.value
      BY <2>1, <2>3, <2>5
    <3>3. QED BY <2>0, <2>2, <2>4, <2>7, <3>1, <3>2
  <2>8. QED BY <2>6, <2>7
<1>5. ASSUME NEW late, LateGiven(s, late)
      PROVE  received'[s][i].value < received'[s][j].value
  <2>1. received[s] = <<>> /\ received'[s] = received[s] \o late
        /\ late \in Seq(Message)
    BY <1>1, <1>5 DEF ReceivedInv, LateGiven
  <2>2. received'[s] = late
    BY <2>1, ConcatEmptySeq
  <2>3. i \in 1 .. Len(late) /\ j \in 1 .. Len(late) /\ i < j
    BY <1>3, <2>2
  <2>4. Ordered(late, Len(late))
    BY <1>5 DEF LateGiven
  <2>5. QED BY <2>2, <2>3, <2>4 DEF Ordered
<1>6. received'[s] # received[s] /\ received'[s] # <<>>
  BY <1>3
<1>7. QED BY <1>1, <1>4, <1>5, <1>6, ReceivedSteps DEF Socket

\* So what a registration publishes is delivered in order and once, but for the
\* value a publisher has cached, which a socket that is opened again for it gets
\* again; a port bound twice in one second is excepted.
THEOREM SocketsDeliverOnceHolds == SystemSpec => SocketsDeliverOnce
<1>1. TimesInv /\ [SystemNext]_systemVars =>
         TimesInv' /\ [StepDeliversNew]_systemVars
  BY TimesStep, DeliversNew
<1>2. QED
  BY <1>1, TimesInitial, PTL DEF SystemSpec, SocketsDeliverOnce


-----------------------------------------------------------------------------
(***************************************************************************)
(* Verifying publishers harms none that is registered.                     *)
(***************************************************************************)

\* The directory has no later registration of a port that is clear than that of
\* the publisher bound to it last.
InstancesInv ==
    \A u \in Clear : registrationInstanceMap[u] <= latest[u]

\* What a request to the directory does to the registration of a URL.
LEMMA InstanceSteps ==
    ASSUME SystemType, [SystemNext]_systemVars, NEW u \in PublisherUrls
    PROVE  \/ registrationInstanceMap'[u] = registrationInstanceMap[u]
           \/ registrationInstanceMap'[u] \in {0, NoInstance}
           \/ /\ Running(u) /\ UNCHANGED <<latest, overtaken>>
              /\ registrationInstanceMap'[u] = bound[u].timestamp
<1>1. u \in Urls /\ registrationInstanceMap \in [Urls -> {NoInstance, 0} \cup Timestamps]
  BY DEF PublisherUrls, SystemType, DirectoryInv, TypeOK
<1>2. \A f, S : Touched(f, S)[u] \in {f[u], 0}
  BY <1>1 DEF Touched
<1>3. ASSUME NEW v \in PublisherUrls, RegisterAtDirectory(v)
      PROVE  \/ registrationInstanceMap'[u] = registrationInstanceMap[u]
             \/ registrationInstanceMap'[u] \in {0, NoInstance}
             \/ /\ Running(u) /\ UNCHANGED <<latest, overtaken>>
                /\ registrationInstanceMap'[u] = bound[u].timestamp
  <2> DEFINE reg == Registration(v)
             recorded == [registrationInstanceMap EXCEPT ![v] = bound[v].timestamp]
  <2>1. /\ Running(v) /\ UNCHANGED <<latest, overtaken>>
        /\ reg.url = v /\ reg.timestamp = bound[v].timestamp
        /\ \/ RegisterDuplicate(reg) \/ RegisterPublisher(reg) \/ UNCHANGED vars
    BY <1>3 DEF RegisterAtDirectory, Registration, Running, Nobody, timeVars
  <2>2. \/ recorded[u] = registrationInstanceMap[u]
        \/ u = v /\ recorded[u] = bound[u].timestamp
    BY <1>1
  <2> HIDE DEF reg
  <2>3. CASE UNCHANGED vars
    BY <2>3 DEF vars, mapVars
  <2>4. CASE RegisterDuplicate(reg)
    <3>1. \/ registrationInstanceMap' = recorded
          \/ \E S : registrationInstanceMap' = Touched(recorded, S)
      BY <2>1, <2>4 DEF RegisterDuplicate
    <3> HIDE DEF recorded
    <3>2. registrationInstanceMap'[u] \in {recorded[u], 0}
      BY <1>2, <3>1
    <3>3. QED BY <2>1, <2>2, <3>2
  <2>5. CASE RegisterPublisher(reg)
    <3> DEFINE own == OwnUrls(dataProductMap', serviceMap)
               purged == PurgedInstances(recorded, reg.id, v, own)
    <3>1. \/ registrationInstanceMap' = purged
          \/ registrationInstanceMap' = Touched(purged, own)
      BY <2>1, <2>5 DEF RegisterPublisher
    <3>2. \/ purged = recorded
          \/ purged = [Touched(recorded, own) EXCEPT ![v] = NoInstance]
      BY DEF PurgedInstances
    <3> HIDE DEF purged, own, recorded
    <3>3. purged[u] \in {recorded[u], 0, NoInstance}
      <4>1. Touched(recorded, own)[u] \in {recorded[u], 0}
        BY <1>2
      <4>2. DOMAIN Touched(recorded, own) = Urls
        BY DEF Touched
      <4>3. QED BY <1>1, <3>2, <4>1, <4>2
    <3>4. registrationInstanceMap'[u] \in {recorded[u], 0, NoInstance}
      BY <1>2, <3>1, <3>3
    <3>5. QED BY <2>1, <2>2, <3>4
  <2>6. QED BY <2>1, <2>3, <2>4, <2>5
<1>4. ASSUME NEW unreg \in unregistrations, TakeUnregistration(unreg)
      PROVE  \/ registrationInstanceMap'[u] = registrationInstanceMap[u]
             \/ registrationInstanceMap'[u] \in {0, NoInstance}
  <2>1. UnregisterPublisher(unreg) \/ UNCHANGED vars
    BY <1>4 DEF TakeUnregistration
  <2>2. CASE UNCHANGED vars
    BY <2>2 DEF vars, mapVars
  <2>3. CASE UnregisterPublisher(unreg)
    <3>1. PICK f : /\ registrationInstanceMap' = [f EXCEPT ![unreg.url] = NoInstance]
                   /\ \/ f = registrationInstanceMap
                      \/ \E S : f = Touched(registrationInstanceMap, S)
      BY <2>3 DEF UnregisterPublisher
    <3>2. DOMAIN f = Urls /\ f[u] \in {registrationInstanceMap[u], 0}
      BY <1>1, <1>2, <3>1 DEF Touched
    <3>3. QED BY <1>1, <3>1, <3>2
  <2>4. QED BY <2>1, <2>2, <2>3
<1>5. CASE UNCHANGED vars
  BY <1>5 DEF vars, mapVars
<1>6. \/ UNCHANGED vars
      \/ \E v \in PublisherUrls : RegisterAtDirectory(v)
      \/ \E unreg \in unregistrations : TakeUnregistration(unreg)
  <2>1. ASSUME NEW v \in PublisherUrls,
               \/ \E id \in ProductIDs \ {RegisteredPublishersID},
                     state \in {"bound", "elsewhere"}, t \in Timestamps :
                     BindPublisher(v, id, state, t)
               \/ UnregisterDataProduct(v) \/ Crash(v) \/ Publish(v)
               \/ JoinPublisher(v) \/ OtherNodeJoins(v) \/ RejectMessage(v)
               \/ TakeMessage(v)
        PROVE  UNCHANGED vars
    BY <2>1 DEF BindPublisher, UnregisterDataProduct, Crash, Publish,
       JoinPublisher, OtherNodeJoins, RejectMessage, TakeMessage
  <2>2. ASSUME \/ JoinUpdates \/ TakeUpdate
               \/ \E s \in Subscribers : SubscribeLookup(s) \/ Unsubscribe(s)
               \/ \E m \in Monitors : SetMonitor(m) \/ ClearMonitor(m)
               \/ SubscribeSend \/ AddSubscription \/ RemoveSubscription
               \/ SetTimeoutMonitor \/ ClearTimeoutMonitor
               \/ UNCHANGED systemVars
        PROVE  UNCHANGED vars
    BY <2>2 DEF JoinUpdates, TakeUpdate, SubscribeLookup, Unsubscribe,
       SetMonitor, ClearMonitor, SubscribeSend, AddSubscription,
       RemoveSubscription, SetTimeoutMonitor, ClearTimeoutMonitor, Command,
       systemVars
  <2>3. QED BY <2>1, <2>2 DEF SystemNext
<1>7. QED BY <1>3, <1>4, <1>5, <1>6

\* The directory never gets ahead of a port that is clear,
LEMMA InstancesStep ==
    ASSUME SystemType, SystemType', AnyStep, [SystemNext]_systemVars,
           InstancesInv
    PROVE  InstancesInv'
<1> SUFFICES ASSUME NEW u \in Clear'
             PROVE  registrationInstanceMap'[u] <= latest'[u]
  BY DEF InstancesInv
<1>1. u \in PublisherUrls /\ u \in Clear /\ u \in Urls /\ u \notin overtaken'
  BY Forward DEF Clear, PublisherUrls
<1>2. /\ latest[u] \in Nat /\ latest'[u] \in Nat
      /\ registrationInstanceMap[u] \in Int
  BY <1>1, TimeAssumption
     DEF SystemType, PublishersType, DirectoryInv, TypeOK, NoInstance,
         Timestamps
<1>3. latest[u] <= latest'[u]
  <2>1. CASE latest'[u] = latest[u]
    BY <1>2, <2>1
  <2>2. CASE Secs(latest[u]) < Secs(latest'[u])
    <3>1. ASSUME latest'[u] < latest[u] PROVE FALSE
      <4>1. /\ Secs(latest'[u]) <= Secs(latest[u])
            /\ Secs(latest'[u]) \in Nat /\ Secs(latest[u]) \in Nat
        BY <1>2, <3>1, SecsMonotone
      <4>2. QED BY <2>2, <4>1
    <3>2. QED BY <1>2, <3>1
  <2>3. QED BY <1>1, <2>1, <2>2, BoundSteps DEF Binds
<1>4. registrationInstanceMap[u] <= latest[u]
  BY <1>1 DEF InstancesInv
<1>5. CASE registrationInstanceMap'[u] = registrationInstanceMap[u]
  BY <1>2, <1>3, <1>4, <1>5
<1>6. CASE registrationInstanceMap'[u] \in {0, NoInstance}
  BY <1>2, <1>6 DEF NoInstance
<1>7. CASE Running(u) /\ registrationInstanceMap'[u] = bound[u].timestamp
  <2>1. bound[u].timestamp = latest[u]
    BY <1>1, <1>7 DEF SystemType, PublishersType, Running
  <2>2. QED BY <1>2, <1>3, <1>7, <2>1
<1>8. QED BY <1>1, <1>5, <1>6, <1>7, InstanceSteps

\* so it accepts what is registered there.
LEMMA ClearAccepted ==
    ASSUME SystemType, InstancesInv, NEW u \in Clear, Running(u)
    PROVE  Accepted(Registration(u))
<1>1. /\ u \in PublisherUrls /\ Registration(u).url = u
      /\ Registration(u).timestamp = latest[u]
  BY DEF Clear, SystemType, PublishersType, Running, Registration
<1>2. latest[u] \in Nat /\ latest[u] # 0
  <2>1. bound[u] \in PublisherType /\ bound[u].timestamp = latest[u]
    BY <1>1 DEF SystemType, PublishersType, Running
  <2>2. QED BY <2>1, TimeAssumption DEF PublisherType, Timestamps
<1>3. registrationInstanceMap[u] <= latest[u]
  BY DEF InstancesInv
<1>4. registrationInstanceMap[u] \in Int
  <2>1. u \in Urls /\ registrationInstanceMap \in [Urls -> {NoInstance, 0} \cup Timestamps]
    BY <1>1 DEF SystemType, DirectoryInv, TypeOK, PublisherUrls
  <2>2. QED BY <2>1, TimeAssumption DEF NoInstance, Timestamps
<1>5. QED BY <1>1, <1>2, <1>3, <1>4 DEF Accepted

\* No request to unregister a publisher that runs is on its way, because what
\* waits at the socket that is for it was published by it: at a port that is
\* clear, if it published nothing before it was registered.
StaleInv ==
    /\ \A unreg \in unregistrations : unreg.url \in Clear =>
          /\ unreg.registration_time <= Latest(unreg.url)
          /\ Running(unreg.url) /\ unreg.url \notin early =>
                unreg.registration_time # RegTime(unreg.url)
    /\ \A u \in Clear :
          Running(u) /\ u \notin early /\ Socket(u).regTime = RegTime(u) =>
              \A k \in 1 .. Len(Queue(u)) : Queue(u)[k].regTime = RegTime(u)
    /\ \A u \in PublisherUrls : lastCached[u] # NoMessage /\ u \notin early =>
          lastCached[u].regTime = RegTime(u)

\* A publisher that has published early stays one while it runs.
LEMMA EarlySteps ==
    ASSUME AnyStep, NEW u \in PublisherUrls, Running(u)', u \notin early'
    PROVE  /\ u \notin early
           /\ Publishes(u) => bound[u].state # "bound"
<1>1. \A v \in PublisherUrls : Publishes(v) =>
         /\ early \subseteq early'
         /\ bound[v].state = "bound" => v \in early'
  BY DEF Publishes
<1>2. \A v \in PublisherUrls : Ends(v) => v # u /\ early' = early \ {v}
  BY DEF Ends, Ended, Running
<1>3. \A v \in PublisherUrls :
         Binds(v) \/ Registers(v) \/ Resends(v) \/ Rejects(v) \/ Takes(v)
             => early' = early
  BY DEF Binds, Registers, Resends, Rejects, Takes
<1>4. \A unreg \in unregistrations : Removed(unreg) => early' = early
  BY DEF Removed
<1>5. JoinsUpdates \/ TakesUpdate \/ Looks \/ Sends \/ Adds \/ Removes
      \/ ChangesMonitors \/ Idles => early' = early
  BY DEF JoinsUpdates, TakesUpdate, Looks, Sends, Adds, Removes,
         ChangesMonitors, Idles, Commanded, WorldKept
<1>6. QED BY <1>1, <1>2, <1>3, <1>4, <1>5 DEF AnyStep

\* What requests there are.
LEMMA RequestSteps ==
    ASSUME SystemType, AnyStep, NEW unreg \in unregistrations'
    PROVE  \/ unreg \in unregistrations
           \/ \E u \in PublisherUrls :
                 /\ unreg.url = u
                 /\ \/ /\ Ended(u) /\ Running(u)
                       /\ unreg.registration_time = RegTime(u)
                    \/ Rejects(u) /\ unreg.registration_time = Socket(u).regTime
<1>1. \A id, url, time : /\ Unregistration(id, url, time).url = url
                         /\ Unregistration(id, url, time).registration_time = time
  BY DEF Unregistration
<1>2. ASSUME NEW u \in PublisherUrls, Ends(u), unreg \notin unregistrations
      PROVE  /\ unreg.url = u /\ Ended(u) /\ Running(u)
             /\ unreg.registration_time = RegTime(u)
  <2>1. /\ Ended(u) /\ Running(u)
        /\ unreg = Unregistration(bound[u].id, u, RegTime(u))
    BY <1>2 DEF Ends, Running
  <2>2. QED BY <1>1, <2>1
<1>3. ASSUME NEW u \in PublisherUrls, Rejects(u), unreg \notin unregistrations
      PROVE  unreg.url = u /\ unreg.registration_time = Socket(u).regTime
  BY <1>1, <1>3 DEF Rejects
<1>4. \A u \in PublisherUrls :
         Binds(u) \/ Registers(u) \/ Publishes(u) \/ Resends(u) \/ Takes(u)
             => unregistrations' = unregistrations
  BY DEF Binds, Registers, Publishes, Resends, Takes
<1>5. \A r \in unregistrations : Removed(r) => unregistrations' \subseteq unregistrations
  BY DEF Removed
<1>6. JoinsUpdates \/ TakesUpdate \/ Looks \/ Sends \/ Adds \/ Removes
      \/ ChangesMonitors \/ Idles => unregistrations' = unregistrations
  BY DEF JoinsUpdates, TakesUpdate, Looks, Sends, Adds, Removes,
         ChangesMonitors, Idles, Commanded, WorldKept
<1>7. QED BY <1>2, <1>3, <1>4, <1>5, <1>6 DEF AnyStep

\* No step asks for the removal of a publisher that runs.
LEMMA StaleStep ==
    ASSUME SystemType, SystemType', AnyStep, PublishersInv, ToldInv, StaleInv
    PROVE  StaleInv'
<1>1. ASSUME NEW u \in Clear, Socket(u).open
      PROVE  Socket(u).regTime <= Latest(u) /\ Socket(u).regTime \in Nat
  <2> DEFINE p == [url |-> u, registration_time |-> Socket(u).regTime]
  <2>1. p \in Told /\ p.url = u /\ p.registration_time = Socket(u).regTime
    BY <1>1, ToldTypes DEF Clear
  <2> HIDE DEF p
  <2>2. QED BY <1>1, <2>1, ToldTypes DEF ToldInv, Times
<1>2. ASSUME NEW u \in PublisherUrls, Publishes(u), u \notin early'
      PROVE  NewMessage(u).regTime = RegTime(u)' /\ bound' = bound
  <2>1. Running(u) /\ bound' = bound
    BY <1>2 DEF Publishes, Running
  <2>2. Running(u)' /\ RegTime(u)' = RegTime(u)
    BY <2>1 DEF Running, RegTime
  <2>3. bound[u].state # "bound"
    BY <1>2, <2>2, EarlySteps
  <2>4. QED BY <2>1, <2>2, <2>3, OwnTimes
<1>3. ASSUME NEW unreg \in unregistrations', unreg.url \in Clear'
      PROVE  /\ unreg.registration_time <= Latest(unreg.url)'
             /\ Running(unreg.url)' /\ unreg.url \notin early' =>
                   unreg.registration_time # RegTime(unreg.url)'
  <2> DEFINE u == unreg.url
  <2>1. /\ u \in PublisherUrls /\ u \in Clear /\ u \in Clear'
        /\ Latest(u) \in Nat /\ Latest(u)' \in Nat /\ Latest(u) <= Latest(u)'
    BY <1>3, Forward DEF Clear
  <2> HIDE DEF u
  <2>2. CASE unreg \in unregistrations
    <3>1. /\ unreg.registration_time \in Nat
          /\ unreg.registration_time <= Latest(u)
          /\ Running(u) /\ u \notin early => unreg.registration_time # RegTime(u)
      BY <2>1, <2>2, TimeCarried, SecsType
         DEF SystemType, RequestsType, DataUnregistration, StaleInv, u
    <3>2. unreg.registration_time <= Latest(u)'
      BY <2>1, <3>1
    <3>3. ASSUME Running(u)', u \notin early'
          PROVE  unreg.registration_time # RegTime(u)'
      <4>1. CASE Latest(u) < RegTime(u)'
        BY <2>1, <3>1, <3>3, <4>1, RunningStep
      <4>2. CASE Running(u) /\ RegTime(u)' = RegTime(u)
        BY <2>1, <3>1, <3>3, <4>2, EarlySteps
      <4>3. QED BY <2>1, <3>3, <4>1, <4>2, RunningStep
    <3>4. QED BY <3>2, <3>3 DEF u
  <2>3. CASE Ended(u) /\ Running(u) /\ unreg.registration_time = RegTime(u)
    <3>1. ~Running(u)' /\ Latest(u)' = Latest(u) /\ RegTime(u) = Latest(u)
      BY <2>1, <2>3, OwnTimes DEF Ended, Running, Latest
    <3>2. QED BY <2>1, <2>3, <3>1 DEF u
  <2>4. CASE Rejects(u) /\ unreg.registration_time = Socket(u).regTime
    <3>1. /\ Socket(u).open /\ Queue(u) # <<>> /\ bound' = bound
          /\ Queue(u)[1].regTime # Socket(u).regTime /\ early' = early
      BY <2>4 DEF Rejects
    <3>2. Running(u) /\ u \notin early => Socket(u).regTime # RegTime(u)
      <4>1. 1 \in 1 .. Len(Queue(u))
        BY <2>1, <3>1, AtTypes
      <4>2. QED BY <2>1, <3>1, <4>1 DEF StaleInv
    <3>3. (Running(u)' <=> Running(u)) /\ RegTime(u)' = RegTime(u)
      BY <3>1 DEF Running, RegTime
    <3>4. unreg.registration_time <= Latest(u)'
      BY <1>1, <2>1, <2>4, <3>1
    <3>5. QED BY <2>4, <3>1, <3>2, <3>3, <3>4 DEF u
  <2>5. QED BY <2>2, <2>3, <2>4, RequestSteps DEF u
<1>4. ASSUME NEW u \in Clear', Running(u)', u \notin early',
             Socket(u)'.regTime = RegTime(u)', NEW k \in 1 .. Len(Queue(u)')
      PROVE  Queue(u)'[k].regTime = RegTime(u)'
  <2>0. u \in PublisherUrls /\ u \in Urls /\ u \in Clear /\ Latest(u) \in Nat
    BY Forward DEF Clear, PublisherUrls
  <2>1. RegTime(u)' \in Nat /\ RegTime(u)' > 0
    BY <1>4, <2>0, RunningStep
  <2>2. Queue(u)' # <<>>
    BY <1>4
  <2>3. ~(Socket(u)' \in {NoSocket, ClosedSocket})
    BY <2>2, EmptySockets DEF Queue, Socket
  <2>4. ASSUME NEW p \in Told, Socket(u)' = NewSocket(p.registration_time)
        PROVE  FALSE
    <3>1. p.registration_time \in Times
      BY ToldTypes
    <3>2. QED BY <2>2, <2>4, <3>1, EmptySockets DEF Queue, Socket
  <2>5. /\ Socket(u)'.open = Socket(u).open
        /\ Socket(u)'.regTime = Socket(u).regTime
    BY <2>0, <2>3, <2>4, SocketsTold
  <2>6. Socket(u)'.open
    BY <2>0, <2>3 DEF SystemType, SocketsInv
  <2>7. Socket(u).regTime <= Latest(u) /\ Socket(u).regTime \in Nat
    BY <1>1, <2>0, <2>5, <2>6
  <2>8. Running(u) /\ RegTime(u)' = RegTime(u) /\ u \notin early
    <3>1. ~(Latest(u) < RegTime(u)')
      BY <1>4, <2>0, <2>5, <2>7
    <3>2. QED BY <1>4, <2>0, <3>1, RunningStep, EarlySteps
  <2>9. CASE \E i \in 1 .. Len(Queue(u)) : Queue(u)'[k] = Queue(u)[i]
    BY <1>4, <2>0, <2>5, <2>8, <2>9 DEF StaleInv
  <2>10. CASE Publishes(u) /\ Queue(u)'[k] = NewMessage(u)
    BY <1>2, <1>4, <2>0, <2>10
  <2>11. CASE lastCached[u] # NoMessage /\ Same(Queue(u)'[k], lastCached[u])
    BY <2>0, <2>8, <2>11 DEF StaleInv, Same
  <2>12. QED BY <2>0, <2>9, <2>10, <2>11, QueueSteps
<1>5. ASSUME NEW u \in PublisherUrls, lastCached'[u] # NoMessage,
             u \notin early'
      PROVE  lastCached'[u].regTime = RegTime(u)'
  <2>1. CASE lastCached'[u] = lastCached[u]
    <3>1. Running(u)
      BY <1>5, <2>1 DEF PublishersInv
    <3>2. Running(u)'
      BY <1>5, <3>1, RunningKept DEF Ended
    <3>3. RegTime(u)' = RegTime(u) /\ u \notin early
      BY <1>5, <3>1, <3>2, RunningStep, EarlySteps
    <3>4. QED BY <1>5, <2>1, <3>3 DEF StaleInv
  <2>2. CASE Publishes(u) /\ lastCached'[u] = NewMessage(u)
    BY <1>2, <1>5, <2>2
  <2>3. QED BY <1>5, <2>1, <2>2, CachedSteps
<1>6. QED BY <1>3, <1>4, <1>5 DEF StaleInv

\* So the entry of a registered publisher stays.
LEMMA ListedStep ==
    ASSUME SystemType, SystemType', AnyStep, InstancesInv, StaleInv,
           RegisteredStaysListed
    PROVE  RegisteredStaysListed'
<1> SUFFICES ASSUME NEW u \in PublisherUrls, u \notin early', u \in Clear',
                    bound'[u].state = "registered"
             PROVE  EntryOf(u)' \in dataProductMap'[OwnDomain][bound'[u].id]
  BY DEF RegisteredStaysListed, EntryOf, Clear
<1>0. u \in Clear /\ u \notin early
  <2>1. Running(u)'
    BY DEF Running, Nobody
  <2>2. QED BY <2>1, Forward, EarlySteps
<1>1. ASSUME bound[u].state = "registered", bound'[u] = bound[u]
      PROVE  /\ EntryOf(u)' = EntryOf(u) /\ EntryOf(u).url = u
             /\ EntryOf(u) \in dataProductMap[OwnDomain][bound'[u].id]
             /\ bound'[u].id \in ProductIDs /\ Running(u)
  <2>1. EntryOf(u)' = EntryOf(u) /\ EntryOf(u).url = u
    BY <1>1 DEF EntryOf, RegTime
  <2>2. EntryOf(u) \in dataProductMap[OwnDomain][bound'[u].id]
    BY <1>0, <1>1 DEF RegisteredStaysListed, EntryOf, Clear
  <2>3. Running(u)
    BY <1>1 DEF Running, Nobody
  <2>4. bound'[u].id \in ProductIDs
    BY <1>1, <2>3 DEF SystemType, PublishersType, Running, PublisherType
  <2>5. QED BY <2>1, <2>2, <2>3, <2>4
<1>2. CASE UNCHANGED dataProductMap /\ bound'[u] = bound[u]
  BY <1>1, <1>2
<1>3. ASSUME NEW v \in PublisherUrls, Registers(v)
      PROVE  EntryOf(u)' \in dataProductMap'[OwnDomain][bound'[u].id]
  <2>1. CASE u = v
    <3>1. bound'[u].timestamp = bound[u].timestamp /\ bound'[u].id = bound[u].id
      BY <1>3, <2>1 DEF Registers
    <3>2. EntryOf(u)' = EntryOf(u)
      BY <3>1 DEF EntryOf, RegTime
    <3>3. Accepted(Registration(u))
      BY <1>0, <1>3, <2>1, ClearAccepted DEF Registers, Running
    <3>4. QED BY <1>3, <2>1, <3>1, <3>2, <3>3 DEF Registers
  <2>2. CASE u # v
    <3>1. bound'[u] = bound[u]
      BY <1>3, <2>2 DEF Registers
    <3>2. QED BY <1>1, <1>3, <2>2, <3>1 DEF Registers
  <2>3. QED BY <2>1, <2>2
<1>4. ASSUME NEW unreg \in unregistrations, Removed(unreg)
      PROVE  EntryOf(u)' \in dataProductMap'[OwnDomain][bound'[u].id]
  <2>1. bound' = bound
    BY <1>4 DEF Removed
  <2>2. ~(unreg.url = u /\ EntryOf(u).registration_time = unreg.registration_time)
    BY <1>0, <1>1, <2>1, OwnTimes DEF StaleInv
  <2>3. QED BY <1>1, <1>4, <2>1, <2>2 DEF Removed
<1>5. ASSUME NEW v \in PublisherUrls,
             Binds(v) \/ Ends(v) \/ Publishes(v) \/ Resends(v) \/ Rejects(v)
             \/ Takes(v)
      PROVE  UNCHANGED dataProductMap /\ bound'[u] = bound[u]
  <2>1. CASE Binds(v)
    BY <2>1 DEF Binds
  <2>2. CASE Ends(v)
    <3>1. v # u
      BY <2>2 DEF Ends, Ended, Nobody
    <3>2. QED BY <2>2, <3>1 DEF Ends, Ended
  <2>3. CASE Publishes(v) \/ Resends(v) \/ Rejects(v) \/ Takes(v)
    BY <2>3 DEF Publishes, Resends, Rejects, Takes
  <2>4. QED BY <1>5, <2>1, <2>2, <2>3
<1>6. JoinsUpdates \/ TakesUpdate \/ Looks \/ Sends \/ Adds \/ Removes
      \/ ChangesMonitors \/ Idles => UNCHANGED <<dataProductMap, bound>>
  BY DEF JoinsUpdates, TakesUpdate, Looks, Sends, Adds, Removes,
         ChangesMonitors, Idles, Commanded, WorldKept
<1>7. QED BY <1>2, <1>3, <1>4, <1>5, <1>6 DEF AnyStep

\* The inductive invariant behind RegisteredStaysListed.
ListedInv == TimesInv /\ InstancesInv /\ StaleInv /\ RegisteredStaysListed

\* A publisher that is registered and runs stays listed, whatever subscribers
\* report as stale, but for two cases.  A request to remove a publisher that has
\* gone also names one registered at its port in the same second, and a
\* registration older than one that the directory has is ignored.  A message
\* sent with the time 0, before the product is registered, makes subscribers ask
\* the directory to remove the publisher they wait for.
THEOREM RegisteredStaysListedHolds == SystemSpec => []RegisteredStaysListed
<1>1. ASSUME SystemInit PROVE ListedInv
  <2>1. TimesInv
    BY <1>1, TimesInitial
  <2>2. StaleInv
    BY <1>1, NoMessages DEF StaleInv, Running, Clear
  <2>3. RegisteredStaysListed
    BY <1>1, NoMessages DEF RegisteredStaysListed, Nobody
  <2>4. InstancesInv
    BY <1>1, SubscriptionAssumption
       DEF InstancesInv, SystemInit, Clear, PublisherUrls, NoInstance
  <2>5. QED BY <2>1, <2>2, <2>3, <2>4 DEF ListedInv
<1>2. ASSUME ListedInv, [SystemNext]_systemVars
      PROVE  ListedInv'
  <2>1. TimesInv' /\ AnyStep
    BY <1>2, TimesStep DEF ListedInv
  <2>2. SystemType /\ SystemType' /\ PublishersInv /\ ToldInv
    BY <1>2, <2>1 DEF ListedInv, TimesInv, DeliveryInv
  <2>3. InstancesInv' /\ StaleInv' /\ RegisteredStaysListed'
    BY <1>2, <2>1, <2>2, InstancesStep, StaleStep, ListedStep DEF ListedInv
  <2>4. QED BY <2>1, <2>3 DEF ListedInv
<1>3. ListedInv => RegisteredStaysListed
  BY DEF ListedInv
<1>4. QED
  BY <1>1, <1>2, <1>3, PTL DEF SystemSpec
=============================================================================
