----------------------------- MODULE DomainSync -----------------------------
(***************************************************************************)
(* ServiceDirectorySynchronizer: how the directory of one domain, the      *)
(* follower, copies what the directory of another, the leader, has         *)
(* registered.  For every change the leader publishes a DomainDetails      *)
(* message with its whole map and the change.  The synchronizer looks the  *)
(* publisher of that product up in the leader, subscribes, registers the   *)
(* whole map of the first message and the changes of the others with its   *)
(* own directory, one request at a time.  The leader may crash and start   *)
(* again, on the same ports; the commands Add, Update and Remove follow    *)
(* what DomainDiscovery shows of them.                                     *)
(***************************************************************************)
EXTENDS Integers, Sequences, SequencesExt

CONSTANTS
    Products,       \* IDs of the data products of the leader's domain
    Services,       \* IDs of its services
    Urls,           \* URLs the components of the domain can bind
    DetailsID, DetailsUrl,      \* the DomainDetails product of the leader
    DirectoryID, DirectoryUrl,  \* the DirectoryService of the leader
    NoUrl,          \* a service without a provider
    TicksPerSecond, \* timestamps per second of registration time
    Orderly,        \* components unregister before they end
    MaxTime,            \* bound on the clock
    MaxIncarnations,    \* bound on the starts of the leader
    MaxRemoves,         \* bound on the Remove commands
    MaxSyncCommands     \* bound on the commands that are on their way

ASSUME DomainSyncAssumption ==
    /\ DetailsID \notin Products /\ DirectoryID \notin Services
    /\ {DetailsUrl, DirectoryUrl} \cap Urls = {} /\ DetailsUrl # DirectoryUrl
    /\ NoUrl \notin Urls \cup {DetailsUrl, DirectoryUrl}
    /\ TicksPerSecond \in Nat \ {0} /\ Orderly \in BOOLEAN
    /\ MaxTime \in Nat /\ MaxIncarnations \in Nat /\ MaxRemoves \in Nat
    /\ MaxSyncCommands \in Nat \ {0}

VARIABLES
    now,            \* the clock the timestamps are taken from
    apps,           \* what the components of the domain have registered
    phase,          \* the leader: "down", "up", "details" (DomainDetails is
                    \* listed), "timed" (its node knows the registration
                    \* time), "ready" (DirectoryService is listed)
    incarnation,    \* starts of the leader so far
    leader,         \* the maps of the leader for its own domain
    cache,          \* the DomainDetails message cached by its PublishManager
    heard,          \* incarnation the UDP receiver has last reported, or 0
    removes,        \* Remove commands so far
    commands,       \* commands on their way to the synchronizer
    sync,           \* syncMap[domain]
    lookup,         \* the request on details->socket, when it is a REQ
    attached,       \* the subscription has reached the leader
    wire,           \* messages on details->socket, when it is a SUB
    registrationUpdates,
    pendingResponse,    \* the request the own directory has not answered
    local           \* the maps of the follower for the leader's domain

leaderVars == <<now, apps, phase, incarnation, leader, cache>>
commandVars == <<heard, removes, commands>>
socketVars == <<lookup, attached, wire>>
queueVars == <<registrationUpdates, pendingResponse>>
syncVars == <<leaderVars, commandVars, sync, socketVars, queueVars, local>>

AllProducts == Products \cup {DetailsID}
AllServices == Services \cup {DirectoryID}
AllUrls == Urls \cup {DetailsUrl, DirectoryUrl}

\* static_cast<uint32_t>(timestamp / 1e6)
Secs(timestamp) == timestamp \div TicksPerSecond

\* ServiceDirectoryRegistrationPB, ServiceDirectoryUnregistrationPB and the
\* entries of a ServiceDirectoryMapPB.
Registration(type, id, url, timestamp) ==
    [type |-> type, id |-> id, url |-> url, timestamp |-> timestamp]

-----------------------------------------------------------------------------
(***************************************************************************)
(* The maps of a directory for the leader's domain: publishers, providers  *)
(* and registrationInstanceMap, where 0 stands for no instance.            *)
(***************************************************************************)

EmptyMaps == [data |-> {}, service |-> [s \in AllServices |-> NoUrl],
              instance |-> [u \in AllUrls |-> 0]]

Publisher(id, url, secs) ==
    [id |-> id, url |-> url, registration_time |-> secs]

\* The maps as ServiceDirectoryMapPB holds them.
Entries(maps) ==
    {Registration("DATA", p.id, p.url, maps.instance[p.url]) : p \in maps.data}
    \cup {Registration("SERVICE", s, maps.service[s],
                       maps.instance[maps.service[s]])
             : s \in {t \in AllServices : maps.service[t] # NoUrl}}

\* handleRegister: older registrations of the URL are ignored.
Accepted(maps, r) == r.timestamp >= maps.instance[r.url]

\* The publishers of other products that purgeObsoletePublishers removes.
Obsolete(maps, r) == {p \in maps.data : p.url = r.url /\ p.id # r.id}

\* The maps with the publisher entered or its time updated, or with the
\* provider overwritten.
Entered(maps, r) ==
    IF r.type = "DATA"
    THEN [maps EXCEPT
            !.data = {p \in @ : p.id # r.id \/ p.url # r.url}
                        \cup {Publisher(r.id, r.url, Secs(r.timestamp))},
            !.instance[r.url] = r.timestamp]
    ELSE [maps EXCEPT !.service[r.id] = r.url]

Instanced(maps, r, timestamp) == [maps EXCEPT !.instance[r.url] = timestamp]

\* handleUnregister finds the entry: the publisher with the registration
\* time, or a provider and an instance of the URL with that time.
Unlisted(maps, r, secs) ==
    IF r.type = "DATA" THEN Publisher(r.id, r.url, secs) \in maps.data
    ELSE /\ r.id \in AllServices /\ maps.service[r.id] # NoUrl
         /\ maps.instance[r.url] # 0 /\ Secs(maps.instance[r.url]) = secs

\* The maps without the entry, before its instance is erased.
Removed(maps, r, secs) ==
    IF r.type = "DATA"
    THEN [maps EXCEPT !.data = @ \ {Publisher(r.id, r.url, secs)}]
    ELSE [maps EXCEPT !.service[r.id] = NoUrl]

-----------------------------------------------------------------------------
(***************************************************************************)
(* The leader                                                              *)
(***************************************************************************)

\* GravityNode::publish stamps a message with dataRegistrationTimeMap, which
\* registerDataProduct fills in after the response of the directory.
DetailsTime == IF phase \in {"timed", "ready"}
               THEN Secs(leader.instance[DetailsUrl]) ELSE 0

\* updateProductLocations
Message(maps, r, timestamp, changeType) ==
    [registration_time |-> DetailsTime, map |-> Entries(maps),
     change_type |-> changeType,
     change |-> Registration(r.type, r.id, r.url, timestamp)]

\* GravityPublishManager caches the last message and sends them all to the
\* subscribers.  Before DomainDetails is bound there is nobody to send to.
Publish(messages) ==
    /\ cache' = <<messages[Len(messages)]>>
    /\ wire' = IF attached THEN wire \o messages ELSE wire

\* handleRegister at the leader, with the purge of obsolete publishers: a
\* purge is announced with the instance of the URL, and erases it.
Register(r) ==
    LET entered == Entered(leader, r)
        obsolete == Obsolete(leader, r)
        dup == r.type = "DATA"
                  /\ Publisher(r.id, r.url, Secs(r.timestamp)) \in leader.data
        purged == [entered EXCEPT !.data = @ \ obsolete]
        final == IF r.type = "SERVICE" THEN Instanced(purged, r, r.timestamp)
                 ELSE IF obsolete = {} THEN purged ELSE Instanced(purged, r, 0)
        added(maps) == Message(maps, r, r.timestamp, "ADD")
        removed(p) == Message(purged, Registration("DATA", p.id, p.url, 0),
                              purged.instance[p.url], "REMOVE")
    IN  /\ Accepted(leader, r)
        /\ IF dup
           THEN leader' = entered /\ Publish(<<added(entered)>>)
           ELSE /\ leader' = final
                /\ Publish([k \in DOMAIN SetToSeq(obsolete) |->
                               removed(SetToSeq(obsolete)[k])]
                           \o <<added(final)>>)

\* handleUnregister at the leader, announced with the instance of the URL.
Unregister(r) ==
    LET secs == Secs(r.timestamp)
        removed == Removed(leader, r, secs)
    IN  IF Unlisted(leader, r, secs)
        THEN /\ leader' = Instanced(removed, r, 0)
             /\ Publish(<<Message(removed, r, leader.instance[r.url], "REMOVE")>>)
        ELSE UNCHANGED <<leader, cache, wire>>

\* main(), start(): broadcasts begin before anything is registered.  A start
\* takes more than a second.
StartLeader ==
    /\ phase = "down" /\ incarnation < MaxIncarnations
    /\ phase' = "up" /\ incarnation' = incarnation + 1
    /\ now' = (Secs(now) + 1) * TicksPerSecond
    /\ UNCHANGED <<apps, leader, cache, commandVars, sync, socketVars,
                   queueVars, local>>

\* registration(): the DomainDetails product.
RegisterDetails ==
    /\ phase = "up" /\ phase' = "details"
    /\ Register(Registration("DATA", DetailsID, DetailsUrl, now))
    /\ UNCHANGED <<now, apps, incarnation, commandVars, sync, lookup, attached,
                   queueVars, local>>

\* registerDataProductInternal has the response of the directory.
RecordTime ==
    /\ phase = "details" /\ phase' = "timed"
    /\ UNCHANGED <<now, apps, incarnation, leader, cache, commandVars, sync,
                   socketVars, queueVars, local>>

\* registration(): the DirectoryService.
RegisterDirectory ==
    /\ phase = "timed" /\ phase' = "ready"
    /\ Register(Registration("SERVICE", DirectoryID, DirectoryUrl, now))
    /\ UNCHANGED <<now, apps, incarnation, commandVars, sync, lookup, attached,
                   queueVars, local>>

\* The leader ends.  A lookup it had received is lost, one that was not
\* sent yet waits for the next incarnation.
Crash ==
    /\ phase # "down" /\ incarnation < MaxIncarnations
    /\ phase' = "down" /\ leader' = EmptyMaps /\ cache' = <<>>
    /\ attached' = FALSE
    /\ lookup' \in {lookup} \cup
          IF lookup.state = "sent" THEN {[state |-> "lost", time |-> 0]} ELSE {}
    /\ UNCHANGED <<now, apps, incarnation, commandVars, sync, wire, queueVars,
                   local>>

\* A component registers at a URL that no component has bound, a service only
\* when it has no provider.  The leader may list another product there when
\* its component ended without unregistering.
AppRegister(type, id, url) ==
    /\ phase # "down" /\ now < MaxTime
    /\ \A a \in apps : a.url # url /\ (a.id = id => type = "DATA")
    /\ LET r == Registration(type, id, url, now + 1)
       IN  Register(r) /\ apps' = apps \cup {r}
    /\ now' = now + 1
    /\ UNCHANGED <<phase, incarnation, commandVars, sync, lookup, attached,
                   queueVars, local>>

\* A component ends.  It forgets its registration also when the leader does
\* not answer.
AppEnd(a) ==
    /\ apps' = apps \ {a}
    /\ IF Orderly /\ phase # "down" THEN Unregister(a)
       ELSE UNCHANGED <<leader, cache, wire>>
    /\ UNCHANGED <<now, phase, incarnation, commandVars, sync, lookup, attached,
                   queueVars, local>>

\* ServiceDirectoryReregister: what a new incarnation does not list yet, with
\* the timestamp of the first registration.
AppReregister(a) ==
    /\ phase # "down" /\ a \notin Entries(leader)
    /\ Register(a)
    /\ UNCHANGED <<now, apps, phase, incarnation, commandVars, sync, lookup,
                   attached, queueVars, local>>

-----------------------------------------------------------------------------
(***************************************************************************)
(* Discovery: the commands of the UDP receiver, see DomainDiscovery.       *)
(***************************************************************************)

Hear ==
    /\ phase # "down" /\ heard # incarnation /\ Len(commands) < MaxSyncCommands
    /\ heard' = incarnation
    /\ commands' = Append(commands, IF heard = 0 THEN "Add" ELSE "Update")
    /\ UNCHANGED <<leaderVars, removes, sync, socketVars, queueVars, local>>

\* Too many broadcasts were missed: the leader is down, or they were lost.
Miss ==
    /\ heard # 0 /\ removes < MaxRemoves /\ Len(commands) < MaxSyncCommands
    /\ heard' = 0 /\ removes' = removes + 1
    /\ commands' = Append(commands, "Remove")
    /\ UNCHANGED <<leaderVars, sync, socketVars, queueVars, local>>

-----------------------------------------------------------------------------
(***************************************************************************)
(* The synchronizer.  Every turn of its loop ends by sending the next      *)
(* request to the own directory, unless one is pending.                    *)
(***************************************************************************)

\* The domain is not in syncMap.
NoDetails == [socket |-> "none", initialized |-> FALSE, registrationTime |-> 0,
              map |-> {}, type |-> "DATA"]

\* The end of a turn that leaves the requests in the queue.
EndTurn(requests, pending) ==
    IF pending # <<>> \/ requests = <<>>
    THEN registrationUpdates' = requests /\ pendingResponse' = pending
    ELSE /\ registrationUpdates' = Tail(requests)
         /\ pendingResponse' = <<Head(requests)>>

\* createRegistrationRequest for each entry, the services first.
RegistrationRequests(entries) ==
    LET requests(type) == SetToSeq({[kind |-> "register", entry |-> e]
                              : e \in {f \in entries : f.type = type}})
    IN  requests("SERVICE") \o requests("DATA")

\* createUnregistrationRequest
UnregistrationRequest(type, e, secs) ==
    [kind |-> "unregister", secs |-> secs,
     entry |-> Registration(type, e.id, e.url, 0)]

\* A REQ socket to the leader, with a lookup of the DomainDetails publisher.
LookUp == /\ lookup' = [state |-> "sent", time |-> 0]
          /\ attached' = FALSE /\ wire' = <<>>

\* "Add": a domain that is in syncMap stays as it is.
AddDomain ==
    /\ commands # <<>> /\ Head(commands) = "Add" /\ commands' = Tail(commands)
    /\ IF sync.socket # "none" THEN UNCHANGED <<sync, socketVars>>
       ELSE sync' = [NoDetails EXCEPT !.socket = "lookup"] /\ LookUp
    /\ EndTurn(registrationUpdates, pendingResponse)
    /\ UNCHANGED <<leaderVars, heard, removes, local>>

\* "Update": a new lookup; the map of the last message and the registration
\* time stay.
UpdateDomain ==
    /\ commands # <<>> /\ Head(commands) = "Update" /\ commands' = Tail(commands)
    /\ sync' = [sync EXCEPT !.socket = "lookup", !.initialized = FALSE]
    /\ LookUp
    /\ EndTurn(registrationUpdates, pendingResponse)
    /\ UNCHANGED <<leaderVars, heard, removes, local>>

\* "Remove": the entries of the last map are unregistered, with the type of
\* the last change and the registration time of DomainDetails.
RemoveDomain ==
    LET requests == SetToSeq({UnregistrationRequest(sync.type, e,
                                 sync.registrationTime) : e \in sync.map})
    IN  /\ commands # <<>> /\ Head(commands) = "Remove"
        /\ commands' = Tail(commands)
        /\ sync' = NoDetails
        /\ lookup' = [state |-> "none", time |-> 0]
        /\ attached' = FALSE /\ wire' = <<>>
        /\ EndTurn(registrationUpdates \o requests, pendingResponse)
        /\ UNCHANGED <<leaderVars, heard, removes, local>>

\* The leader answers the lookup: handleLookup, addPublishers.
Lookup ==
    /\ phase # "down" /\ lookup.state = "sent"
    /\ lookup' = IF \E p \in leader.data : p.id = DetailsID
          THEN [state |-> "found",
                time |-> (CHOOSE p \in leader.data :
                             p.id = DetailsID).registration_time]
          ELSE [state |-> "empty", time |-> 0]
    /\ UNCHANGED <<leaderVars, commandVars, sync, attached, wire, queueVars,
                   local>>

\* Mutant of EmptyReply: the lookup is not repeated.
EmptyReplyDropped ==
    /\ lookup.state = "empty"
    /\ lookup' = [state |-> "none", time |-> 0]
    /\ EndTurn(registrationUpdates, pendingResponse)
    /\ UNCHANGED <<leaderVars, commandVars, sync, attached, wire, local>>

\* DomainDetails was not registered yet: after 500 ms the lookup is repeated.
\* It names the empty domain, for which the leader looks in its own.
EmptyReply ==
    /\ lookup.state = "empty"
    /\ lookup' = [state |-> "sent", time |-> 0]
    /\ EndTurn(registrationUpdates, pendingResponse)
    /\ UNCHANGED <<leaderVars, commandVars, sync, attached, wire, local>>

\* The REQ socket is replaced by a SUB socket to the publisher.
Reply ==
    /\ lookup.state = "found"
    /\ lookup' = [state |-> "none", time |-> 0]
    /\ sync' = [sync EXCEPT !.socket = "sub", !.initialized = FALSE,
                            !.registrationTime = lookup.time]
    /\ EndTurn(registrationUpdates, pendingResponse)
    /\ UNCHANGED <<leaderVars, commandVars, attached, wire, local>>

\* The subscription reaches the publisher, also one of a later incarnation
\* at the same port, which sends the message it has cached.
Attach ==
    /\ sync.socket = "sub" /\ ~attached
    /\ phase \in {"details", "timed", "ready"}
    /\ attached' = TRUE /\ wire' = wire \o cache
    /\ UNCHANGED <<leaderVars, commandVars, sync, lookup, queueVars, local>>

\* Mutant of Requests: the first message is taken for a change like another.
RequestsOfChange(m, initialized) ==
    IF m.change_type = "ADD"
    THEN <<[kind |-> "register", entry |-> m.change]>>
    ELSE <<UnregistrationRequest(m.change.type, m.change,
                                 Secs(m.change.timestamp))>>

\* Mutant of Requests: the removed publisher has the time of DomainDetails.
RequestsWrongTime(m, initialized) ==
    IF ~initialized THEN RegistrationRequests(m.map)
    ELSE IF m.change_type = "ADD"
    THEN <<[kind |-> "register", entry |-> m.change]>>
    ELSE <<UnregistrationRequest(m.change.type, m.change,
                                 sync.registrationTime)>>

\* The requests a message of the leader leads to.
Requests(m, initialized) ==
    IF ~initialized THEN RegistrationRequests(m.map)
    ELSE IF m.change_type = "ADD"
    THEN <<[kind |-> "register", entry |-> m.change]>>
    ELSE <<UnregistrationRequest(m.change.type, m.change,
                                 Secs(m.change.timestamp))>>

\* A message of another incarnation of the publisher, or one that was
\* published before its node knew the registration time.
IgnoreMessage ==
    /\ wire # <<>> /\ Head(wire).registration_time # sync.registrationTime
    /\ wire' = Tail(wire)
    /\ EndTurn(registrationUpdates, pendingResponse)
    /\ UNCHANGED <<leaderVars, commandVars, sync, lookup, attached, local>>

TakeMessage ==
    LET m == Head(wire)
    IN  /\ wire # <<>> /\ m.registration_time = sync.registrationTime
        /\ wire' = Tail(wire)
        /\ sync' = [sync EXCEPT !.initialized = TRUE, !.map = m.map,
                                !.type = m.change.type]
        /\ EndTurn(registrationUpdates \o Requests(m, sync.initialized),
                   pendingResponse)
        /\ UNCHANGED <<leaderVars, commandVars, lookup, attached, local>>

\* The own directory handles a request for the leader's domain: no change is
\* announced, and obsolete publishers are purged from the own domain only.
\* Its response lets the synchronizer send the next request.
Response ==
    LET r == pendingResponse[1].entry
        secs == pendingResponse[1].secs
    IN  /\ pendingResponse # <<>>
        /\ local' =
              IF pendingResponse[1].kind = "register"
              THEN IF Accepted(local, r)
                   THEN Instanced(Entered(local, r), r, r.timestamp) ELSE local
              ELSE IF Unlisted(local, r, secs)
                   THEN Instanced(Removed(local, r, secs), r, 0)
                   ELSE local
        /\ EndTurn(registrationUpdates, <<>>)
        /\ UNCHANGED <<leaderVars, commandVars, sync, socketVars>>

-----------------------------------------------------------------------------
SyncInit ==
    /\ now = 0 /\ apps = {} /\ phase = "down" /\ incarnation = 0
    /\ leader = EmptyMaps /\ cache = <<>>
    /\ heard = 0 /\ removes = 0 /\ commands = <<>>
    /\ sync = NoDetails
    /\ lookup = [state |-> "none", time |-> 0]
    /\ attached = FALSE /\ wire = <<>>
    /\ registrationUpdates = <<>> /\ pendingResponse = <<>>
    /\ local = EmptyMaps

Boot == RegisterDetails \/ RecordTime \/ RegisterDirectory

Applications ==
    \/ \E id \in Products \cup Services, url \in Urls :
          AppRegister(IF id \in Products THEN "DATA" ELSE "SERVICE", id, url)
    \/ \E a \in apps : AppEnd(a)

Reregister == \E a \in apps : AppReregister(a)

Synchronizer ==
    \/ AddDomain \/ UpdateDomain \/ RemoveDomain \/ EmptyReply \/ Reply
    \/ IgnoreMessage \/ TakeMessage \/ Response

SyncNext ==
    \/ StartLeader \/ Crash \/ Boot \/ Applications \/ Reregister
    \/ Hear \/ Miss
    \/ Synchronizer \/ Lookup \/ Attach

\* The threads and the network go on; nobody has to start, end or register.
Fairness ==
    /\ WF_syncVars(Boot) /\ WF_syncVars(Reregister) /\ WF_syncVars(Hear)
    /\ WF_syncVars(Synchronizer) /\ WF_syncVars(Lookup) /\ WF_syncVars(Attach)

SyncSpec == SyncInit /\ [][SyncNext]_syncVars /\ Fairness
-----------------------------------------------------------------------------
Registrations ==
    [type : {"DATA"}, id : AllProducts, url : AllUrls, timestamp : Nat]
    \cup [type : {"SERVICE"}, id : AllServices, url : AllUrls, timestamp : Nat]

IsMaps(maps) ==
    /\ maps.data \subseteq [id : AllProducts, url : AllUrls,
                            registration_time : Nat]
    /\ maps.service \in [AllServices -> AllUrls \cup {NoUrl}]
    /\ maps.instance \in [AllUrls -> Nat]

IsRequest(r) ==
    IF r.kind = "register" THEN r.entry \in Registrations
    ELSE r.kind = "unregister" /\ r.secs \in Nat /\ r.entry.url \in AllUrls

\* Type invariant: the maps of both directories, the details of the domain
\* and the requests of the synchronizer, at most one of which is with the own
\* directory.
SyncTypeOK ==
    /\ now \in Nat /\ apps \subseteq Registrations
    /\ phase \in {"down", "up", "details", "timed", "ready"}
    /\ incarnation \in 0 .. MaxIncarnations
    /\ IsMaps(leader) /\ IsMaps(local)
    /\ heard \in 0 .. incarnation /\ removes \in 0 .. MaxRemoves
    /\ \A k \in DOMAIN commands : commands[k] \in {"Add", "Update", "Remove"}
    /\ sync.socket \in {"none", "lookup", "sub"}
    /\ sync.map \subseteq Registrations
    /\ lookup.state \in {"none", "sent", "lost", "empty", "found"}
    /\ \A k \in DOMAIN registrationUpdates : IsRequest(registrationUpdates[k])
    /\ Len(pendingResponse) <= 1
    /\ \A k \in DOMAIN pendingResponse : IsRequest(pendingResponse[k])

\* What a directory lists of the domain: IDs, URLs and registration times.
Listing(maps) ==
    <<maps.data, {<<s, maps.service[s], Secs(maps.instance[maps.service[s]])>>
                     : s \in {t \in AllServices : maps.service[t] # NoUrl}}>>

\* The follower lists every publisher and provider that the leader lists, with
\* the registration times that subscribers compare messages with.
HasAll == \A k \in {1, 2} : Listing(leader)[k] \subseteq Listing(local)[k]

\* Nothing is on its way between the leader and the maps of the follower.
Settled ==
    /\ phase = "ready" /\ heard = incarnation /\ commands = <<>>
    /\ sync.socket = "sub" /\ attached /\ wire = <<>>
    /\ registrationUpdates = <<>> /\ pendingResponse = <<>>

\* Whatever the order of the leader's starts and crashes, of the commands, of
\* the lookups and of the messages with a wrong registration time, a follower
\* that has handled everything misses nothing of what the leader lists.  It
\* rests on the first message that is taken being applied as a whole, and on
\* one request at a time being with the own directory, as SyncTypeOK says.
SettledFollowerHasAll == SyncTypeOK /\ (Settled => HasAll)

\* As long as the leader has not restarted and the domain was not removed, a
\* follower that has handled everything lists exactly what the leader lists:
\* each change carries the time the entry was registered with.
SettledFollowerIsExact ==
    Settled /\ incarnation = 1 /\ removes = 0
        => Listing(leader) = Listing(local)

\* When the leader stays up, the follower gets to list all it lists, for good:
\* no lookup is lost for ever, and no request stays in the queue.
FollowerCatchesUp == <>[](phase = "ready") => <>[]HasAll

\* ServiceDirectorySynchronizer.cpp on Remove: "Clear all domain data from
\* Service Directory".  When the domain is not in syncMap and all requests
\* are handled, the own directory lists nothing of it.
RemovedIsCleared ==
    sync.socket = "none" /\ registrationUpdates = <<>> /\ pendingResponse = <<>>
        => Listing(local) = <<{}, {}>>
=============================================================================
