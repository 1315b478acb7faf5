-------------------------- MODULE ServiceDirectory --------------------------
(***************************************************************************)
(* The Gravity Service Directory: the process in which every GravityNode   *)
(* registers the data products it publishes and the services it provides,  *)
(* and which answers lookups.  Modelled from                               *)
(* src/src/components/cpp/ServiceDirectory/ServiceDirectory.cpp.           *)
(*                                                                         *)
(* A step is one iteration of the main loop of start(): the request read   *)
(* from the REP socket is handled to the end, under the lock, pending      *)
(* RegisteredPublishers updates are flushed, and the lock is released.     *)
(* The requests themselves are arbitrary: who sends them, and how often or *)
(* how late they arrive, is left to the modules that compose this one.     *)
(*                                                                         *)
(* Abstractions.  A publisher list holds at most one entry per URL and its *)
(* order is never used, so it is a set; an absent list and an empty list   *)
(* are the same set.  A PublisherInfoPB keeps its URL and its registration *)
(* time in seconds.  Component names and addresses are left out.           *)
(***************************************************************************)
EXTENDS Integers

CONSTANTS
    Domains,                \* the domains the directory knows of
    OwnDomain,              \* the domain this directory serves
    ProductIDs,             \* data product IDs
    RegisteredPublishersID, \* REGISTERED_PUBLISHERS_DPID
    ServiceIDs,             \* service IDs
    Urls,                   \* URLs publishers and services are bound to
    NoUrl,                  \* no provider
    SyncBeforeReady,        \* may a foreign domain be synchronized before the
                            \* own RegisteredPublishers product is registered?
    MaxTime,                \* last registration timestamp (a bound for TLC)
    TicksPerSecond          \* timestamp units in a second: 10^6 in the code

ASSUME DomainAssumption == OwnDomain \in Domains
ASSUME ProductAssumption == RegisteredPublishersID \in ProductIDs
ASSUME UrlAssumption == NoUrl \notin Urls
ASSUME SyncAssumption == SyncBeforeReady \in BOOLEAN
ASSUME TimeAssumption == MaxTime \in Nat /\ TicksPerSecond \in Nat \ {0}

VARIABLES
    dataProductMap,            \* domain -> product ID -> publishers
    serviceMap,                \* domain -> service ID -> URL
    registrationInstanceMap,   \* URL -> timestamp of its registration
    registeredPublishersBound, \* does the own GravityNode publish the product?
    registeredPublishersReady, \* may RegisteredPublishers be published to?
    registeredPublishersProcessed, \* have pending updates been flushed?
    registerUpdatesToSend,     \* IDs with an update that is still to be sent
    publishedUpdates,  \* domain -> ID -> last RegisteredPublishers update sent
    cachedUpdates,     \* ID -> {domain of the last update sent for the ID}
    details            \* DomainDetails changes sent by the last request

mapVars == <<dataProductMap, serviceMap, registrationInstanceMap>>
updateVars == <<registeredPublishersReady, registeredPublishersProcessed,
                registerUpdatesToSend, publishedUpdates, cachedUpdates>>
vars == <<mapVars, registeredPublishersBound, updateVars, details>>

-----------------------------------------------------------------------------
Timestamps == 1 .. MaxTime

\* static_cast<uint32_t>(timestamp / 1e6)
Secs(timestamp) == timestamp \div TicksPerSecond

\* A URL that registrationInstanceMap has no entry for.
NoInstance == -1

\* PublisherInfoPB
PublisherInfo == [url : Urls, registration_time : Nat]

\* ServiceDirectoryRegistrationPB; timestamp 0 stands for an unset timestamp.
DataRegistration ==
    [type : {"DATA"}, id : ProductIDs, url : Urls, domain : Domains,
     timestamp : Timestamps \cup {0}]

ServiceRegistration ==
    [type : {"SERVICE"}, id : ServiceIDs, url : Urls, domain : Domains,
     timestamp : Timestamps \cup {0}]

\* ServiceDirectoryUnregistrationPB
DataUnregistration ==
    [type : {"DATA"}, id : ProductIDs, url : Urls, domain : Domains,
     registration_time : 0 .. Secs(MaxTime)]

ServiceUnregistration ==
    [type : {"SERVICE"}, id : ServiceIDs, url : Urls, domain : Domains,
     registration_time : 0 .. Secs(MaxTime)]

\* ProductChange
Change(id, url, timestamp, changeType, registrationType) ==
    [product_id |-> id, url |-> url, timestamp |-> timestamp,
     change_type |-> changeType, registration_type |-> registrationType]

ProductChange ==
    [product_id : ProductIDs \cup ServiceIDs, url : Urls,
     timestamp : Timestamps \cup {0}, change_type : {"ADD", "REMOVE"},
     registration_type : {"DATA", "SERVICE"}]

-----------------------------------------------------------------------------
\* URLs the own-domain maps mention.  updateProductLocations reads
\* registrationInstanceMap[url] for each of them.
OwnUrls(dpMap, sMap) ==
    {u \in Urls : \/ \E i \in ProductIDs : \E p \in dpMap[OwnDomain][i] : p.url = u
                  \/ \E s \in ServiceIDs : sMap[OwnDomain][s] = u}

\* std::map::operator[] on a missing key inserts the value 0.
Touched(instances, urls) ==
    [u \in Urls |-> IF u \in urls /\ instances[u] = NoInstance
                    THEN 0 ELSE instances[u]]

\* Mutant of Instance: a missing key is not turned into 0.
InstanceUninserted(instances, url) == instances[url]

\* The value operator[] yields.
Instance(instances, url) ==
    IF instances[url] = NoInstance THEN 0 ELSE instances[url]

\* Mutant of ObsoleteIDs: the product that is being registered is not skipped.
ObsoleteIDsAll(id, url) ==
    {i \in ProductIDs : \E p \in dataProductMap[OwnDomain][i] : p.url = url}

\* Own-domain products other than id that a publisher at url is listed for:
\* what purgeObsoletePublishers(id, url) removes the publisher from.
ObsoleteIDs(id, url) ==
    {i \in ProductIDs \ {id} :
        \E p \in dataProductMap[OwnDomain][i] : p.url = url}

\* dpMap after purgeObsoletePublishers(id, url).
Purged(dpMap, id, url) ==
    [d \in Domains |-> [i \in ProductIDs |->
        IF d = OwnDomain /\ i # id
        THEN {p \in dpMap[d][i] : p.url # url}
        ELSE dpMap[d][i]]]

\* registrationInstanceMap after purgeObsoletePublishers(id, url): with each
\* publisher removed, the instance of the URL is erased.
PurgedInstances(instances, id, url, ownUrls) ==
    IF ObsoleteIDs(id, url) = {}
    THEN instances
    ELSE [Touched(instances, ownUrls) EXCEPT ![url] = NoInstance]

\* Mutant of PurgeChanges: obsolete publishers are purged silently.
PurgeUnannounced(instances, id, url) == {}

\* The REMOVE changes purgeObsoletePublishers(id, url) publishes.
PurgeChanges(instances, id, url) ==
    {Change(i, url, Instance(instances, url), "REMOVE", "DATA")
        : i \in ObsoleteIDs(id, url)}

(***************************************************************************)
(* RegisteredPublishers updates of a request that changed the publishers   *)
(* of the pairs in changed, a set of <<domain, id>>.  Once the product is  *)
(* ready an update is sent at once; before, its ID is remembered.  The end *)
(* of the main loop's locked block then flushes the remembered IDs, with   *)
(* the publishers the own domain has for them.  PublishManager caches the  *)
(* last update sent for each filter text, which is the product ID, and     *)
(* drops what is published to a product it does not know.                  *)
(***************************************************************************)

\* Mutant of Flushed: the pending updates are forgotten.
FlushedNothing(ready) == {}

\* The remembered IDs that are flushed, once.
Flushed(ready) ==
    IF ready /\ ~registeredPublishersProcessed THEN registerUpdatesToSend
                                               ELSE {}

\* The pairs <<domain, id>> an update reaches the PublishManager for.
Sent(changed, ready) ==
    IF registeredPublishersBound
    THEN {c \in changed : ready} \cup ({OwnDomain} \X Flushed(ready))
    ELSE {}

SentFor(id, changed, ready) ==
    {d \in Domains : <<d, id>> \in Sent(changed, ready)}

PublishUpdates(changed, ready) ==
    /\ registeredPublishersReady' = ready
    /\ registeredPublishersProcessed' = (registeredPublishersProcessed \/ ready)
    /\ registerUpdatesToSend' =
          IF ready THEN registerUpdatesToSend \ Flushed(ready)
          ELSE registerUpdatesToSend \cup
                  {i \in ProductIDs : \E d \in Domains : <<d, i>> \in changed}
    /\ publishedUpdates' = [d \in Domains |-> [i \in ProductIDs |->
          IF d \in SentFor(i, changed, ready)
          THEN dataProductMap'[d][i] ELSE publishedUpdates[d][i]]]
    /\ cachedUpdates' = [i \in ProductIDs |->
          IF SentFor(i, changed, ready) = {} THEN cachedUpdates[i]
          ELSE SentFor(i, changed, ready)]

-----------------------------------------------------------------------------
\* main(), start(): an empty directory that has registered nothing yet.
Init ==
    /\ dataProductMap = [d \in Domains |-> [i \in ProductIDs |-> {}]]
    /\ serviceMap = [d \in Domains |-> [s \in ServiceIDs |-> NoUrl]]
    /\ registrationInstanceMap = [u \in Urls |-> NoInstance]
    /\ registeredPublishersBound = FALSE
    /\ registeredPublishersReady = FALSE
    /\ registeredPublishersProcessed = FALSE
    /\ registerUpdatesToSend = {}
    /\ publishedUpdates = [d \in Domains |-> [i \in ProductIDs |-> {}]]
    /\ cachedUpdates = [i \in ProductIDs |-> {}]
    /\ details = {}

\* registration(), on its own thread: GravityNode::registerDataProduct makes
\* the PublishManager of the own node bind the product before it sends the
\* registration request to the directory.
BindRegisteredPublishers ==
    /\ ~registeredPublishersBound
    /\ registeredPublishersBound' = TRUE
    /\ details' = {}
    /\ UNCHANGED <<mapVars, updateVars>>

\* The requests the directory can receive.  Only the own node registers
\* RegisteredPublishers in the own domain, once it is bound; foreign domains
\* are registered by the synchronizer.
Receivable(reg) ==
    /\ reg.domain = OwnDomain /\ reg.id = RegisteredPublishersID
          => registeredPublishersBound
    /\ reg.domain # OwnDomain
          => SyncBeforeReady \/ registeredPublishersProcessed

\* Mutant of Accepted: an old registration is applied like any other.
AcceptedAnyTime(reg) == reg.timestamp # 0

\* handleRegister applies a registration with a timestamp that is not older
\* than the one recorded for the URL; it ignores any other.
Accepted(reg) ==
    /\ reg.timestamp # 0
    /\ \/ registrationInstanceMap[reg.url] = NoInstance
       \/ reg.timestamp >= registrationInstanceMap[reg.url]

\* The publisher is already listed, with the same registration time.
Listed(reg) ==
    [url |-> reg.url, registration_time |-> Secs(reg.timestamp)]
        \in dataProductMap[reg.domain][reg.id]

\* Mutant of Entered: the entry with the old registration time stays.
EnteredTwice(reg) ==
    [dataProductMap EXCEPT ![reg.domain][reg.id] =
        @ \cup {[url |-> reg.url, registration_time |-> Secs(reg.timestamp)]}]

\* The entry for the URL is added, or its registration time is updated.
Entered(reg) ==
    [dataProductMap EXCEPT ![reg.domain][reg.id] =
        {p \in @ : p.url # reg.url} \cup
        {[url |-> reg.url, registration_time |-> Secs(reg.timestamp)]}]

ReadyAfter(reg) ==
    registeredPublishersReady \/ reg.id = RegisteredPublishersID

\* handleRegister, DATA: a new publisher, or a new registration of a known
\* one.  The instance of the URL is recorded before obsolete publishers are
\* purged, so a purge erases it again.
RegisterPublisher(reg) ==
    LET recorded == [registrationInstanceMap EXCEPT ![reg.url] = reg.timestamp]
        announced == /\ reg.domain = OwnDomain
                     /\ reg.id # RegisteredPublishersID
        ownUrls == OwnUrls(dataProductMap', serviceMap)
        purged == PurgedInstances(recorded, reg.id, reg.url, ownUrls)
    IN  /\ Receivable(reg) /\ Accepted(reg) /\ ~Listed(reg)
        /\ dataProductMap' = Purged(Entered(reg), reg.id, reg.url)
        /\ registrationInstanceMap' =
              IF announced THEN Touched(purged, ownUrls) ELSE purged
        /\ PublishUpdates({<<reg.domain, reg.id>>} \cup
                             ({OwnDomain} \X ObsoleteIDs(reg.id, reg.url)),
                          ReadyAfter(reg))
        /\ details' = PurgeChanges(recorded, reg.id, reg.url) \cup
              IF announced
              THEN {Change(reg.id, reg.url, reg.timestamp, "ADD", "DATA")}
              ELSE {}
        /\ UNCHANGED <<serviceMap, registeredPublishersBound>>

\* handleRegister, DATA: the publisher is already listed (foundDup).
RegisterDuplicate(reg) ==
    LET recorded == [registrationInstanceMap EXCEPT ![reg.url] = reg.timestamp]
    IN  /\ Receivable(reg) /\ Accepted(reg) /\ Listed(reg)
        /\ registrationInstanceMap' =
              IF reg.domain = OwnDomain
              THEN Touched(recorded, OwnUrls(dataProductMap, serviceMap))
              ELSE recorded
        /\ details' = IF reg.domain = OwnDomain
              THEN {Change(reg.id, reg.url, reg.timestamp, "ADD", "DATA")}
              ELSE {}
        /\ UNCHANGED <<dataProductMap, serviceMap, registeredPublishersBound>>
        /\ PublishUpdates({}, ReadyAfter(reg))

\* handleRegister, SERVICE: overwrites any existing provider.  The instance
\* of the URL is recorded after the purge.
RegisterService(reg) ==
    LET ownUrls == OwnUrls(dataProductMap', serviceMap')
        purged == PurgedInstances(registrationInstanceMap, reg.id, reg.url,
                                  ownUrls)
        recorded == [purged EXCEPT ![reg.url] = reg.timestamp]
    IN  /\ Receivable(reg) /\ Accepted(reg)
        /\ serviceMap' = [serviceMap EXCEPT ![reg.domain][reg.id] = reg.url]
        /\ dataProductMap' = Purged(dataProductMap, reg.id, reg.url)
        /\ registrationInstanceMap' =
              IF reg.domain = OwnDomain THEN Touched(recorded, ownUrls)
              ELSE recorded
        /\ PublishUpdates({OwnDomain} \X ObsoleteIDs(reg.id, reg.url),
                          registeredPublishersReady)
        /\ details' =
              PurgeChanges(registrationInstanceMap, reg.id, reg.url) \cup
              IF reg.domain = OwnDomain
              THEN {Change(reg.id, reg.url, reg.timestamp, "ADD", "SERVICE")}
              ELSE {}
        /\ UNCHANGED registeredPublishersBound

\* handleUnregister finds an entry with the URL and the registration time.
RegisteredPublisher(unreg) ==
    [url |-> unreg.url, registration_time |-> unreg.registration_time]
        \in dataProductMap[unreg.domain][unreg.id]

\* Mutant of RegisteredService: the registration time is not compared.
RegisteredServiceAnyTime(unreg) ==
    /\ serviceMap[unreg.domain][unreg.id] # NoUrl
    /\ registrationInstanceMap[unreg.url] # NoInstance

\* handleUnregister finds a provider of the service, and an instance of the
\* URL in the request with the registration time in the request.  The URL
\* registered for the service is not compared.
RegisteredService(unreg) ==
    /\ serviceMap[unreg.domain][unreg.id] # NoUrl
    /\ registrationInstanceMap[unreg.url] # NoInstance
    /\ Secs(registrationInstanceMap[unreg.url]) = unreg.registration_time

\* handleUnregister, DATA: the entry and the instance of the URL are removed.
UnregisterPublisher(unreg) ==
    LET entry == [url |-> unreg.url,
                  registration_time |-> unreg.registration_time]
        announced == unreg.domain = OwnDomain
        instances == IF announced
            THEN Touched(registrationInstanceMap,
                         OwnUrls(dataProductMap', serviceMap))
            ELSE registrationInstanceMap
    IN  /\ RegisteredPublisher(unreg)
        /\ dataProductMap' =
              [dataProductMap EXCEPT ![unreg.domain][unreg.id] = @ \ {entry}]
        /\ registrationInstanceMap' =
              [instances EXCEPT ![unreg.url] = NoInstance]
        /\ PublishUpdates({<<unreg.domain, unreg.id>>},
                          registeredPublishersReady)
        /\ details' = IF announced
              THEN {Change(unreg.id, unreg.url,
                           Instance(registrationInstanceMap, unreg.url),
                           "REMOVE", "DATA")}
              ELSE {}
        /\ UNCHANGED <<serviceMap, registeredPublishersBound>>

\* handleUnregister, SERVICE: the service ID and the instance of the URL are
\* removed.
UnregisterService(unreg) ==
    LET announced == unreg.domain = OwnDomain
        instances == IF announced
            THEN Touched(registrationInstanceMap,
                         OwnUrls(dataProductMap, serviceMap'))
            ELSE registrationInstanceMap
    IN  /\ RegisteredService(unreg)
        /\ serviceMap' = [serviceMap EXCEPT ![unreg.domain][unreg.id] = NoUrl]
        /\ registrationInstanceMap' =
              [instances EXCEPT ![unreg.url] = NoInstance]
        /\ details' = IF announced
              THEN {Change(unreg.id, unreg.url,
                           registrationInstanceMap[unreg.url],
                           "REMOVE", "SERVICE")}
              ELSE {}
        /\ UNCHANGED <<dataProductMap, registeredPublishersBound>>
        /\ PublishUpdates({}, registeredPublishersReady)

\* handleLookup, SERVICE: reads the instance of the provider's URL with
\* operator[].
LookupService(domain, id) ==
    /\ serviceMap[domain][id] # NoUrl
    /\ registrationInstanceMap' =
          Touched(registrationInstanceMap, {serviceMap[domain][id]})
    /\ details' = {}
    /\ UNCHANGED <<dataProductMap, serviceMap, registeredPublishersBound,
                   updateVars>>

\* request(serviceID, ...), GetProviders: reads the instances of all URLs in
\* all domains with operator[].
GetProviders ==
    /\ registrationInstanceMap' = Touched(registrationInstanceMap,
          {u \in Urls : \E d \in Domains :
              \/ \E i \in ProductIDs : \E p \in dataProductMap[d][i] : p.url = u
              \/ \E s \in ServiceIDs : serviceMap[d][s] = u})
    /\ details' = {}
    /\ UNCHANGED <<dataProductMap, serviceMap, registeredPublishersBound,
                   updateVars>>

\* The registrations handleRegister ignores, the unregistrations it answers
\* with NOT_REGISTERED and the lookups of data products change nothing.
Next ==
    \/ BindRegisteredPublishers
    \/ \E reg \in DataRegistration :
          RegisterPublisher(reg) \/ RegisterDuplicate(reg)
    \/ \E reg \in ServiceRegistration : RegisterService(reg)
    \/ \E unreg \in DataUnregistration : UnregisterPublisher(unreg)
    \/ \E unreg \in ServiceUnregistration : UnregisterService(unreg)
    \/ \E d \in Domains, s \in ServiceIDs : LookupService(d, s)
    \/ GetProviders

Spec == Init /\ [][Next]_vars

-----------------------------------------------------------------------------
(* Properties *)

\* Each map of the directory has the shape ServiceDirectory.h declares.
TypeOK ==
    /\ dataProductMap \in [Domains -> [ProductIDs -> SUBSET PublisherInfo]]
    /\ serviceMap \in [Domains -> [ServiceIDs -> Urls \cup {NoUrl}]]
    /\ registrationInstanceMap \in [Urls -> {NoInstance, 0} \cup Timestamps]
    /\ registeredPublishersBound \in BOOLEAN
    /\ registeredPublishersReady \in BOOLEAN
    /\ registeredPublishersProcessed \in BOOLEAN
    /\ registerUpdatesToSend \in SUBSET ProductIDs
    /\ publishedUpdates \in [Domains -> [ProductIDs -> SUBSET PublisherInfo]]
    /\ cachedUpdates \in [ProductIDs -> SUBSET Domains]
    /\ details \in SUBSET ProductChange

\* In the own domain a URL is listed for one data product at a time, and
\* once: whoever registers at a URL has bound it, so purgeObsoletePublishers
\* must have removed every other product listed there, and a registration
\* with a new time must have replaced the old entry.
OneProductPerUrl ==
    \A i, j \in ProductIDs :
        \A p \in dataProductMap[OwnDomain][i] :
            \A q \in dataProductMap[OwnDomain][j] :
                p.url = q.url => i = j /\ p = q

\* No change of a publisher list is withheld from subscribers: the last
\* RegisteredPublishers update sent for a product of a domain says what the
\* directory has, unless the product is one of the own domain and its update
\* waits for RegisteredPublishers to be ready.  The updates deferred until
\* then (registerUpdatesToSend) must all be flushed.
NoLostUpdate ==
    \A d \in Domains, i \in ProductIDs :
        \/ publishedUpdates[d][i] = dataProductMap[d][i]
        \/ /\ d = OwnDomain /\ i \in registerUpdatesToSend
           /\ ~registeredPublishersReady

\* The same for the own domain alone.  It is what the comment in
\* handleRegister promises of the moment RegisteredPublishers becomes ready:
\* from then on it is safe to publish to it.
OwnUpdatesNotLost ==
    \A i \in ProductIDs :
        \/ publishedUpdates[OwnDomain][i] = dataProductMap[OwnDomain][i]
        \/ i \in registerUpdatesToSend /\ ~registeredPublishersReady

\* A subscriber that joins late is sent the cached update of the product.
\* Whatever domain that update is for, it is up to date for that domain.
CachedUpdateCurrent ==
    \A i \in ProductIDs : \A d \in cachedUpdates[i] :
        /\ cachedUpdates[i] = {d}
        /\ publishedUpdates[d][i] = dataProductMap[d][i]

\* A publisher of the product is listed at the URL in the own domain.
ListedAt(id, url) == \E p \in dataProductMap[OwnDomain][id] : p.url = url

\* The last request sent such a change on ServiceDirectory_DomainDetails.
Announced(id, url, changeType, registrationType) ==
    \E c \in details : /\ c.product_id = id /\ c.url = url
                       /\ c.change_type = changeType
                       /\ c.registration_type = registrationType

\* A step adds and removes what the changes it publishes say.
StepAnnounced ==
    /\ \A i \in ProductIDs \ {RegisteredPublishersID}, u \in Urls :
          ListedAt(i, u)' <=> \/ Announced(i, u, "ADD", "DATA")'
                              \/ /\ ListedAt(i, u)
                                 /\ ~Announced(i, u, "REMOVE", "DATA")'
    /\ \A s \in ServiceIDs, u \in Urls :
          serviceMap[OwnDomain][s] # u /\ serviceMap'[OwnDomain][s] = u =>
             Announced(s, u, "ADD", "SERVICE")'
    /\ \A s \in ServiceIDs :
          serviceMap[OwnDomain][s] # NoUrl /\ serviceMap'[OwnDomain][s] = NoUrl
             => \E u \in Urls : Announced(s, u, "REMOVE", "SERVICE")'

\* A directory that follows ServiceDirectory_DomainDetails from change to
\* change (updateProductLocations, purgeObsoletePublishers) knows the own
\* domain's providers, RegisteredPublishers itself excepted, which is never
\* announced when it is added.
DetailsTrackDirectory == [][StepAnnounced]_vars
=============================================================================
