----------------------- MODULE ServiceDirectoryProofs -----------------------
(***************************************************************************)
(* Proofs about the Service Directory, for any sets of domains, products,  *)
(* services and URLs, and any request at any time.                         *)
(***************************************************************************)
EXTENDS ServiceDirectory, TLAPS

(***************************************************************************)
(* Type correctness.                                                       *)
(***************************************************************************)

\* A timestamp in seconds is a natural number.
LEMMA SecsType ==
    \A t \in Timestamps \cup {0} : Secs(t) \in Nat
  BY TimeAssumption DEF Secs, Timestamps

\* A registration time is not larger than a later one.
LEMMA SecsMonotone ==
    ASSUME NEW s \in Nat, NEW t \in Nat, s <= t
    PROVE  Secs(s) \in Nat /\ Secs(t) \in Nat /\ Secs(s) <= Secs(t)
<1> DEFINE k == TicksPerSecond
           x == s \div k
           y == t \div k
<1>1. k \in Nat /\ k > 0
  BY TimeAssumption
<1>2. x \in Nat /\ y \in Nat
  BY <1>1
<1>3. k * x <= s /\ t < k * y + k
  BY <1>1
<1> HIDE DEF x, y, k
<1>4. ASSUME y < x PROVE FALSE
  <2>1. PICK d \in Nat : x = y + 1 + d
    <3>1. x - y - 1 \in Nat /\ x = y + 1 + (x - y - 1)
      BY <1>2, <1>4
    <3>2. QED BY <3>1
  <2>2. k * x = k * y + k + k * d
    BY <1>1, <1>2, <2>1
  <2>3. k * d \in Nat /\ k * y \in Nat
    BY <1>1, <1>2, <2>1
  <2>4. QED BY <1>1, <1>2, <1>3, <2>2, <2>3
<1>5. x <= y
  BY <1>2, <1>4
<1>6. QED BY <1>2, <1>5 DEF x, y, k, Secs

\* The registration time of a registration after the first second is not 0.
LEMMA SecsPositive ==
    ASSUME NEW t \in Nat, TicksPerSecond <= t
    PROVE  Secs(t) \in Nat /\ Secs(t) # 0
<1>1. Secs(TicksPerSecond) = 1
  BY TimeAssumption DEF Secs
<1>2. QED BY <1>1, TimeAssumption, SecsMonotone

\* The registration time of a timestamp is one a request may carry.
LEMMA TimeCarried ==
    \A t \in Timestamps \cup {0} : Secs(t) \in 0 .. Secs(MaxTime)
  BY SecsMonotone, TimeAssumption DEF Timestamps

DPMapType == [Domains -> [ProductIDs -> SUBSET PublisherInfo]]
InstancesType == [Urls -> {NoInstance, 0} \cup Timestamps]

\* Purging keeps the shape of the publisher lists.
LEMMA PurgedType ==
    ASSUME NEW dpMap \in DPMapType, NEW id, NEW url
    PROVE  Purged(dpMap, id, url) \in DPMapType
  BY DEF Purged, DPMapType

\* Reading through operator[] keeps the shape of the instance map.
LEMMA TouchedType ==
    ASSUME NEW instances \in InstancesType, NEW urls
    PROVE  Touched(instances, urls) \in InstancesType
  BY DEF Touched, InstancesType

\* So does a purge.
LEMMA PurgedInstancesType ==
    ASSUME NEW instances \in InstancesType, NEW id, NEW url \in Urls, NEW own
    PROVE  PurgedInstances(instances, id, url, own) \in InstancesType
  BY TouchedType DEF PurgedInstances, InstancesType

\* The changes a purge publishes are changes of products.
LEMMA PurgeChangesType ==
    ASSUME NEW instances \in InstancesType, NEW id, NEW url \in Urls
    PROVE  PurgeChanges(instances, id, url) \in SUBSET ProductChange
  BY DEF PurgeChanges, ObsoleteIDs, Change, ProductChange, Instance,
         InstancesType

\* Publishing keeps the shape of what has been published.
LEMMA PublishUpdatesType ==
    ASSUME TypeOK, dataProductMap' \in DPMapType,
           NEW changed \in SUBSET (Domains \X ProductIDs),
           NEW ready \in BOOLEAN,
           PublishUpdates(changed, ready)
    PROVE  /\ registeredPublishersReady' \in BOOLEAN
           /\ registeredPublishersProcessed' \in BOOLEAN
           /\ registerUpdatesToSend' \in SUBSET ProductIDs
           /\ publishedUpdates' \in DPMapType
           /\ cachedUpdates' \in [ProductIDs -> SUBSET Domains]
<1>1. registeredPublishersReady' \in BOOLEAN
      /\ registeredPublishersProcessed' \in BOOLEAN
  BY DEF PublishUpdates, TypeOK
<1>2. registerUpdatesToSend' \in SUBSET ProductIDs
  BY DEF PublishUpdates, Flushed, TypeOK
<1>3. publishedUpdates' \in DPMapType
  BY DEF PublishUpdates, TypeOK, DPMapType
<1>4. cachedUpdates' \in [ProductIDs -> SUBSET Domains]
  BY DEF PublishUpdates, TypeOK, SentFor
<1>5. QED BY <1>1, <1>2, <1>3, <1>4

\* A request of each kind keeps every map in shape.
LEMMA RegisterPublisherType ==
    ASSUME TypeOK, NEW reg \in DataRegistration, RegisterPublisher(reg)
    PROVE  TypeOK'
<1> DEFINE recorded ==
              [registrationInstanceMap EXCEPT ![reg.url] = reg.timestamp]
           ownUrls == OwnUrls(dataProductMap', serviceMap)
           changed == {<<reg.domain, reg.id>>} \cup
                         ({OwnDomain} \X ObsoleteIDs(reg.id, reg.url))
<1>1. /\ reg.id \in ProductIDs /\ reg.url \in Urls /\ reg.domain \in Domains
      /\ reg.timestamp \in Timestamps /\ Secs(reg.timestamp) \in Nat
  BY SecsType DEF RegisterPublisher, Accepted, DataRegistration
<1>2. Entered(reg) \in DPMapType
  BY <1>1 DEF Entered, DPMapType, TypeOK, PublisherInfo
<1>3. dataProductMap' \in DPMapType
  BY <1>2, PurgedType DEF RegisterPublisher
<1>4. recorded \in InstancesType
  BY <1>1 DEF InstancesType, TypeOK
<1>5. PurgedInstances(recorded, reg.id, reg.url, ownUrls) \in InstancesType
  BY <1>1, <1>4, PurgedInstancesType
<1>6. registrationInstanceMap' \in InstancesType
  BY <1>5, TouchedType DEF RegisterPublisher
<1>7. changed \in SUBSET (Domains \X ProductIDs)
  BY <1>1, DomainAssumption DEF ObsoleteIDs
<1>8. ReadyAfter(reg) \in BOOLEAN
  BY DEF ReadyAfter, TypeOK
<1>9. PublishUpdates(changed, ReadyAfter(reg))
  BY DEF RegisterPublisher
<1>10. details' \in SUBSET ProductChange
  <2>1. PurgeChanges(recorded, reg.id, reg.url) \in SUBSET ProductChange
    BY <1>1, <1>4, PurgeChangesType
  <2>2. Change(reg.id, reg.url, reg.timestamp, "ADD", "DATA") \in ProductChange
    BY <1>1 DEF Change, ProductChange
  <2>3. QED BY <2>1, <2>2 DEF RegisterPublisher
<1>11. UNCHANGED <<serviceMap, registeredPublishersBound>>
  BY DEF RegisterPublisher
<1>12. QED
  BY <1>3, <1>6, <1>7, <1>8, <1>9, <1>10, <1>11, PublishUpdatesType
  DEF TypeOK, DPMapType, InstancesType

LEMMA RegisterDuplicateType ==
    ASSUME TypeOK, NEW reg \in DataRegistration, RegisterDuplicate(reg)
    PROVE  TypeOK'
<1> DEFINE recorded ==
              [registrationInstanceMap EXCEPT ![reg.url] = reg.timestamp]
<1>1. /\ reg.id \in ProductIDs /\ reg.url \in Urls
      /\ reg.timestamp \in Timestamps
  BY DEF RegisterDuplicate, Accepted, DataRegistration
<1>2. recorded \in InstancesType
  BY <1>1 DEF InstancesType, TypeOK
<1>3. registrationInstanceMap' \in InstancesType
  BY <1>2, TouchedType DEF RegisterDuplicate
<1>4. ReadyAfter(reg) \in BOOLEAN
  BY DEF ReadyAfter, TypeOK
<1>5. details' \in SUBSET ProductChange
  <2>1. Change(reg.id, reg.url, reg.timestamp, "ADD", "DATA") \in ProductChange
    BY <1>1 DEF Change, ProductChange
  <2>2. QED BY <2>1 DEF RegisterDuplicate
<1>6. /\ UNCHANGED <<dataProductMap, serviceMap, registeredPublishersBound>>
      /\ PublishUpdates({}, ReadyAfter(reg))
  BY DEF RegisterDuplicate
<1>7. dataProductMap' \in DPMapType
  BY <1>6 DEF TypeOK, DPMapType
<1>8. QED
  BY <1>3, <1>4, <1>5, <1>6, <1>7, PublishUpdatesType
  DEF TypeOK, DPMapType, InstancesType

LEMMA RegisterServiceType ==
    ASSUME TypeOK, NEW reg \in ServiceRegistration, RegisterService(reg)
    PROVE  TypeOK'
<1> DEFINE ownUrls == OwnUrls(dataProductMap', serviceMap')
           purged == PurgedInstances(registrationInstanceMap, reg.id, reg.url,
                                     ownUrls)
           recorded == [purged EXCEPT ![reg.url] = reg.timestamp]
           changed == {OwnDomain} \X ObsoleteIDs(reg.id, reg.url)
<1>1. /\ reg.id \in ServiceIDs /\ reg.url \in Urls /\ reg.domain \in Domains
      /\ reg.timestamp \in Timestamps
  BY DEF RegisterService, Accepted, ServiceRegistration
<1>2. dataProductMap' \in DPMapType
  BY PurgedType DEF RegisterService, TypeOK, DPMapType
<1>3. serviceMap' \in [Domains -> [ServiceIDs -> Urls \cup {NoUrl}]]
  BY <1>1 DEF RegisterService, TypeOK
<1>4. registrationInstanceMap \in InstancesType
  BY DEF TypeOK, InstancesType
<1>5. purged \in InstancesType
  BY <1>1, <1>4, PurgedInstancesType
<1> HIDE DEF purged
<1>6. recorded \in InstancesType
  BY <1>1, <1>5 DEF InstancesType
<1> USE DEF purged
<1>7. registrationInstanceMap' \in InstancesType
  BY <1>6, TouchedType DEF RegisterService
<1>8. changed \in SUBSET (Domains \X ProductIDs)
  BY DomainAssumption DEF ObsoleteIDs
<1>9. /\ PublishUpdates(changed, registeredPublishersReady)
      /\ UNCHANGED registeredPublishersBound
  BY DEF RegisterService
<1>10. details' \in SUBSET ProductChange
  <2>1. PurgeChanges(registrationInstanceMap, reg.id, reg.url)
            \in SUBSET ProductChange
    BY <1>1, <1>4, PurgeChangesType
  <2>2. Change(reg.id, reg.url, reg.timestamp, "ADD", "SERVICE")
            \in ProductChange
    BY <1>1 DEF Change, ProductChange
  <2>3. QED BY <2>1, <2>2 DEF RegisterService
<1>11. registeredPublishersReady \in BOOLEAN
  BY DEF TypeOK
<1>12. QED
  BY <1>2, <1>3, <1>7, <1>8, <1>9, <1>10, <1>11, PublishUpdatesType
  DEF TypeOK, DPMapType, InstancesType

LEMMA UnregisterPublisherType ==
    ASSUME TypeOK, NEW unreg \in DataUnregistration, UnregisterPublisher(unreg)
    PROVE  TypeOK'
<1> DEFINE touched == Touched(registrationInstanceMap,
                              OwnUrls(dataProductMap', serviceMap))
<1>1. /\ unreg.id \in ProductIDs /\ unreg.url \in Urls
      /\ unreg.domain \in Domains
  BY DEF DataUnregistration
<1>2. dataProductMap' \in DPMapType
  BY <1>1 DEF UnregisterPublisher, TypeOK, DPMapType
<1>3. registrationInstanceMap \in InstancesType
  BY DEF TypeOK, InstancesType
<1>4. touched \in InstancesType
  BY <1>3, TouchedType
<1>5. registrationInstanceMap' \in InstancesType
  <2>1. \A f \in InstancesType : [f EXCEPT ![unreg.url] = NoInstance]
                                    \in InstancesType
    BY DEF InstancesType
  <2>2. QED BY <1>3, <1>4, <2>1 DEF UnregisterPublisher
<1>6. {<<unreg.domain, unreg.id>>} \in SUBSET (Domains \X ProductIDs)
  BY <1>1
<1>7. /\ PublishUpdates({<<unreg.domain, unreg.id>>}, registeredPublishersReady)
      /\ UNCHANGED <<serviceMap, registeredPublishersBound>>
  BY DEF UnregisterPublisher
<1>8. details' \in SUBSET ProductChange
  <2>1. Change(unreg.id, unreg.url,
               Instance(registrationInstanceMap, unreg.url), "REMOVE", "DATA")
            \in ProductChange
    BY <1>1, <1>3 DEF Change, ProductChange, Instance, InstancesType
  <2>2. QED BY <2>1 DEF UnregisterPublisher
<1>9. registeredPublishersReady \in BOOLEAN
  BY DEF TypeOK
<1>10. QED
  BY <1>2, <1>5, <1>6, <1>7, <1>8, <1>9, PublishUpdatesType
  DEF TypeOK, DPMapType, InstancesType

LEMMA UnregisterServiceType ==
    ASSUME TypeOK, NEW unreg \in ServiceUnregistration,
           UnregisterService(unreg)
    PROVE  TypeOK'
<1> DEFINE touched == Touched(registrationInstanceMap,
                              OwnUrls(dataProductMap, serviceMap'))
<1>1. /\ unreg.id \in ServiceIDs /\ unreg.url \in Urls
      /\ unreg.domain \in Domains
  BY DEF ServiceUnregistration
<1>2. serviceMap' \in [Domains -> [ServiceIDs -> Urls \cup {NoUrl}]]
  BY <1>1 DEF UnregisterService, TypeOK
<1>3. registrationInstanceMap \in InstancesType
  BY DEF TypeOK, InstancesType
<1>4. touched \in InstancesType
  BY <1>3, TouchedType
<1>5. registrationInstanceMap' \in InstancesType
  <2>1. \A f \in InstancesType : [f EXCEPT ![unreg.url] = NoInstance]
                                    \in InstancesType
    BY DEF InstancesType
  <2>2. QED BY <1>3, <1>4, <2>1 DEF UnregisterService
<1>6. /\ PublishUpdates({}, registeredPublishersReady)
      /\ UNCHANGED <<dataProductMap, registeredPublishersBound>>
  BY DEF UnregisterService
<1>7. details' \in SUBSET ProductChange
  <2>1. registrationInstanceMap[unreg.url] \in Timestamps \cup {0}
    BY <1>1, <1>3 DEF UnregisterService, RegisteredService, InstancesType
  <2>2. Change(unreg.id, unreg.url, registrationInstanceMap[unreg.url],
               "REMOVE", "SERVICE") \in ProductChange
    BY <1>1, <2>1 DEF Change, ProductChange
  <2>3. QED BY <2>2 DEF UnregisterService
<1>8. /\ dataProductMap' \in DPMapType
      /\ registeredPublishersReady \in BOOLEAN
  BY <1>6 DEF TypeOK, DPMapType
<1>9. QED
  BY <1>2, <1>5, <1>6, <1>7, <1>8, PublishUpdatesType
  DEF TypeOK, DPMapType, InstancesType

\* Every request keeps the maps in shape.
LEMMA TypeStep == TypeOK /\ [Next]_vars => TypeOK'
<1> SUFFICES ASSUME TypeOK, [Next]_vars PROVE TypeOK'
  OBVIOUS
<1>1. CASE BindRegisteredPublishers
  BY <1>1 DEF BindRegisteredPublishers, TypeOK, mapVars, updateVars
<1>2. ASSUME NEW reg \in DataRegistration,
             RegisterPublisher(reg) \/ RegisterDuplicate(reg)
      PROVE  TypeOK'
  BY <1>2, RegisterPublisherType, RegisterDuplicateType
<1>3. ASSUME NEW reg \in ServiceRegistration, RegisterService(reg)
      PROVE  TypeOK'
  BY <1>3, RegisterServiceType
<1>4. ASSUME NEW unreg \in DataUnregistration, UnregisterPublisher(unreg)
      PROVE  TypeOK'
  BY <1>4, UnregisterPublisherType
<1>5. ASSUME NEW unreg \in ServiceUnregistration, UnregisterService(unreg)
      PROVE  TypeOK'
  BY <1>5, UnregisterServiceType
<1>6. \A urls : Touched(registrationInstanceMap, urls) \in InstancesType
  BY TouchedType DEF TypeOK, InstancesType
<1>7. ASSUME NEW d \in Domains, NEW s \in ServiceIDs, LookupService(d, s)
      PROVE  TypeOK'
  BY <1>6, <1>7 DEF LookupService, TypeOK, updateVars, InstancesType
<1>8. CASE GetProviders
  BY <1>6, <1>8 DEF GetProviders, TypeOK, updateVars, InstancesType
<1>9. CASE UNCHANGED vars
  BY <1>9 DEF vars, mapVars, updateVars, TypeOK
<1>10. QED
  BY <1>1, <1>2, <1>3, <1>4, <1>5, <1>7, <1>8, <1>9 DEF Next

\* The maps of the directory keep the shape they are declared with.
THEOREM TypeCorrect == Spec => []TypeOK
<1>1. Init => TypeOK
  <2> SUFFICES ASSUME Init PROVE TypeOK
    OBVIOUS
  <2>1. QED BY DEF Init, TypeOK
<1>2. QED
  BY <1>1, TypeStep, PTL DEF Spec


(***************************************************************************)
(* One product per URL.                                                    *)
(***************************************************************************)

\* Each step keeps URLs apart.
LEMMA OneProductStep ==
    TypeOK /\ OneProductPerUrl /\ [Next]_vars => OneProductPerUrl'
<1> SUFFICES ASSUME TypeOK, OneProductPerUrl, [Next]_vars
             PROVE  OneProductPerUrl'
  OBVIOUS
<1>1. CASE UNCHANGED dataProductMap
  BY <1>1 DEF OneProductPerUrl
<1>2. ASSUME NEW reg \in DataRegistration, RegisterPublisher(reg)
      PROVE  OneProductPerUrl'
  <2> DEFINE entry == [url |-> reg.url,
                       registration_time |-> Secs(reg.timestamp)]
  <2>1. reg.id \in ProductIDs /\ reg.domain \in Domains
    BY DEF DataRegistration
  <2>2. dataProductMap' = Purged(Entered(reg), reg.id, reg.url)
    BY <1>2 DEF RegisterPublisher
  <2>3. \A i \in ProductIDs : \A p \in dataProductMap'[OwnDomain][i] :
           \/ p \in dataProductMap[OwnDomain][i]
              /\ (i # reg.id => p.url # reg.url)
              /\ (reg.domain = OwnDomain => p.url # reg.url)
           \/ p = entry /\ i = reg.id /\ reg.domain = OwnDomain
    BY <2>1, <2>2, DomainAssumption DEF Purged, Entered, TypeOK
  <2>4. entry.url = reg.url
    OBVIOUS
  <2> HIDE DEF entry
  <2>5. QED
    BY <2>3, <2>4 DEF OneProductPerUrl
<1>3. ASSUME NEW reg \in ServiceRegistration, RegisterService(reg)
      PROVE  OneProductPerUrl'
  <2>1. \A i \in ProductIDs :
           dataProductMap'[OwnDomain][i] \subseteq dataProductMap[OwnDomain][i]
    BY <1>3, DomainAssumption DEF RegisterService, Purged, TypeOK
  <2>2. QED BY <2>1 DEF OneProductPerUrl
<1>4. ASSUME NEW unreg \in DataUnregistration, UnregisterPublisher(unreg)
      PROVE  OneProductPerUrl'
  <2>1. \A i \in ProductIDs :
           dataProductMap'[OwnDomain][i] \subseteq dataProductMap[OwnDomain][i]
    BY <1>4, DomainAssumption
    DEF UnregisterPublisher, DataUnregistration, TypeOK
  <2>2. QED BY <2>1 DEF OneProductPerUrl
<1>5. QED
  BY <1>1, <1>2, <1>3, <1>4
  DEF Next, BindRegisteredPublishers, RegisterDuplicate, UnregisterService,
      LookupService, GetProviders, vars, mapVars

\* In the own domain a URL is listed for one data product at a time, and
\* once, whatever requests arrive.
THEOREM OneProductPerUrlInvariant == Spec => []OneProductPerUrl
<1>1. Init => OneProductPerUrl
  BY DomainAssumption DEF Init, OneProductPerUrl
<1>2. QED
  BY <1>1, OneProductStep, TypeCorrect, PTL DEF Spec


(***************************************************************************)
(* RegisteredPublishers updates.  NoLostUpdate is not inductive: it needs  *)
(* that pending updates are flushed when, and only when, the product       *)
(* becomes ready, that it is bound by then, and that no foreign product is *)
(* listed before.                                                          *)
(***************************************************************************)

ReadyInv ==
    /\ registeredPublishersProcessed = registeredPublishersReady
    /\ registeredPublishersReady => registeredPublishersBound
    /\ ~registeredPublishersReady =>
          \A d \in Domains \ {OwnDomain} : \A i \in ProductIDs :
             dataProductMap[d][i] = {}

UpdateInv == ReadyInv /\ NoLostUpdate

\* A request that changes the publishers of the pairs in changed.
Changes(changed) ==
    \A d \in Domains, i \in ProductIDs :
        <<d, i>> \notin changed => dataProductMap'[d][i] = dataProductMap[d][i]

\* Publishing after a change leaves no update behind.
LEMMA PublishKeepsUpdates ==
    ASSUME UpdateInv, NEW changed \in SUBSET (Domains \X ProductIDs),
           NEW ready \in BOOLEAN, PublishUpdates(changed, ready),
           Changes(changed), UNCHANGED registeredPublishersBound,
           registeredPublishersReady => ready,
           ready => registeredPublishersBound,
           ~ready => \A d \in Domains, i \in ProductIDs :
                        <<d, i>> \in changed => d = OwnDomain
    PROVE  UpdateInv'
<1>1. registeredPublishersReady' = ready
  BY DEF PublishUpdates
<1>2. registeredPublishersProcessed' = registeredPublishersReady'
  BY DEF PublishUpdates, UpdateInv, ReadyInv
<1>3. registeredPublishersReady' => registeredPublishersBound'
  BY <1>1
<1>4. ~registeredPublishersReady' =>
         \A d \in Domains \ {OwnDomain} : \A i \in ProductIDs :
            dataProductMap'[d][i] = {}
  BY <1>1 DEF Changes, UpdateInv, ReadyInv
<1>5. ASSUME NEW d \in Domains, NEW i \in ProductIDs
      PROVE  \/ publishedUpdates'[d][i] = dataProductMap'[d][i]
             \/ /\ d = OwnDomain /\ i \in registerUpdatesToSend'
                /\ ~registeredPublishersReady'
  <2>1. CASE ready
    <3>1. CASE <<d, i>> \in changed
      <4>1. d \in SentFor(i, changed, ready)
        BY <2>1, <3>1 DEF SentFor, Sent
      <4>2. QED BY <4>1 DEF PublishUpdates
    <3>2. CASE d = OwnDomain /\ i \in Flushed(ready)
      <4>1. d \in SentFor(i, changed, ready)
        BY <2>1, <3>2 DEF SentFor, Sent
      <4>2. QED BY <4>1 DEF PublishUpdates
    <3>3. CASE /\ <<d, i>> \notin changed
               /\ ~(d = OwnDomain /\ i \in Flushed(ready))
      <4>1. d \notin SentFor(i, changed, ready)
        BY <3>3 DEF SentFor, Sent
      <4>2. publishedUpdates'[d][i] = publishedUpdates[d][i]
        BY <4>1 DEF PublishUpdates
      <4>3. dataProductMap'[d][i] = dataProductMap[d][i]
        BY <3>3 DEF Changes
      <4>4. publishedUpdates[d][i] = dataProductMap[d][i]
        BY <2>1, <3>3 DEF UpdateInv, ReadyInv, NoLostUpdate, Flushed
      <4>5. QED BY <4>2, <4>3, <4>4
    <3>4. QED BY <3>1, <3>2, <3>3
  <2>2. CASE ~ready
    <3>1. d \notin SentFor(i, changed, ready)
      BY <2>2 DEF SentFor, Sent, Flushed
    <3>2. publishedUpdates'[d][i] = publishedUpdates[d][i]
      BY <3>1 DEF PublishUpdates
    <3>3. CASE <<d, i>> \in changed
      <4>1. d = OwnDomain
        BY <2>2, <3>3
      <4>2. i \in {j \in ProductIDs : \E e \in Domains : <<e, j>> \in changed}
        BY <3>3
      <4>3. i \in registerUpdatesToSend'
        BY <2>2, <4>2 DEF PublishUpdates
      <4>4. QED BY <1>1, <2>2, <4>1, <4>3
    <3>4. CASE <<d, i>> \notin changed
      <4>1. dataProductMap'[d][i] = dataProductMap[d][i]
        BY <3>4 DEF Changes
      <4>2. registerUpdatesToSend \subseteq registerUpdatesToSend'
        BY <2>2 DEF PublishUpdates
      <4>3. QED
        BY <2>2, <1>1, <3>2, <4>1, <4>2 DEF UpdateInv, NoLostUpdate
    <3>5. QED BY <3>3, <3>4
  <2>3. QED BY <2>1, <2>2
<1>6. QED
  BY <1>2, <1>3, <1>4, <1>5 DEF UpdateInv, ReadyInv, NoLostUpdate

\* The pairs a registration of a publisher changes, and those of a service.
PublisherChanges(reg) ==
    {<<reg.domain, reg.id>>} \cup
       ({OwnDomain} \X ObsoleteIDs(reg.id, reg.url))

ServiceChanges(reg) == {OwnDomain} \X ObsoleteIDs(reg.id, reg.url)

\* Every list a request changes is one it publishes an update for.
LEMMA ChangesCovered ==
    ASSUME TypeOK
    PROVE  /\ \A reg \in DataRegistration : RegisterPublisher(reg) =>
                 /\ Changes(PublisherChanges(reg))
                 /\ PublisherChanges(reg) \in SUBSET (Domains \X ProductIDs)
           /\ \A reg \in ServiceRegistration : RegisterService(reg) =>
                 /\ Changes(ServiceChanges(reg))
                 /\ ServiceChanges(reg) \in SUBSET (Domains \X ProductIDs)
           /\ \A unreg \in DataUnregistration : UnregisterPublisher(unreg) =>
                 Changes({<<unreg.domain, unreg.id>>})
<1>1. ASSUME NEW reg \in DataRegistration, RegisterPublisher(reg)
      PROVE  /\ Changes(PublisherChanges(reg))
             /\ PublisherChanges(reg) \in SUBSET (Domains \X ProductIDs)
  <2>1. reg.id \in ProductIDs /\ reg.domain \in Domains
    BY DEF DataRegistration
  <2>2. dataProductMap' = Purged(Entered(reg), reg.id, reg.url)
    BY <1>1 DEF RegisterPublisher
  <2>3. ASSUME NEW d \in Domains, NEW i \in ProductIDs,
               <<d, i>> \notin PublisherChanges(reg)
        PROVE  dataProductMap'[d][i] = dataProductMap[d][i]
    <3>1. Entered(reg)[d][i] = dataProductMap[d][i]
      BY <2>1, <2>3 DEF Entered, PublisherChanges, TypeOK
    <3>2. CASE d = OwnDomain /\ i # reg.id
      <4>1. \A p \in dataProductMap[d][i] : p.url # reg.url
        BY <2>3, <3>2 DEF PublisherChanges, ObsoleteIDs
      <4>2. QED BY <2>2, <3>1, <3>2, <4>1 DEF Purged, TypeOK
    <3>3. CASE ~(d = OwnDomain /\ i # reg.id)
      BY <2>2, <3>1, <3>3 DEF Purged
    <3>4. QED BY <3>2, <3>3
  <2>4. QED
    BY <2>1, <2>3, DomainAssumption DEF Changes, PublisherChanges, ObsoleteIDs
<1>2. ASSUME NEW reg \in ServiceRegistration, RegisterService(reg)
      PROVE  /\ Changes(ServiceChanges(reg))
             /\ ServiceChanges(reg) \in SUBSET (Domains \X ProductIDs)
  <2>1. dataProductMap' = Purged(dataProductMap, reg.id, reg.url)
    BY <1>2 DEF RegisterService
  <2>2. ASSUME NEW d \in Domains, NEW i \in ProductIDs,
               <<d, i>> \notin ServiceChanges(reg)
        PROVE  dataProductMap'[d][i] = dataProductMap[d][i]
    <3>1. CASE d = OwnDomain /\ i # reg.id
      <4>1. \A p \in dataProductMap[d][i] : p.url # reg.url
        BY <2>2, <3>1 DEF ServiceChanges, ObsoleteIDs
      <4>2. QED BY <2>1, <3>1, <4>1 DEF Purged, TypeOK
    <3>2. CASE ~(d = OwnDomain /\ i # reg.id)
      BY <2>1, <3>2 DEF Purged
    <3>3. QED BY <3>1, <3>2
  <2>3. QED
    BY <2>2, DomainAssumption DEF Changes, ServiceChanges, ObsoleteIDs
<1>3. ASSUME NEW unreg \in DataUnregistration, UnregisterPublisher(unreg)
      PROVE  Changes({<<unreg.domain, unreg.id>>})
  BY <1>3 DEF UnregisterPublisher, DataUnregistration, Changes, TypeOK
<1>4. QED BY <1>1, <1>2, <1>3

\* Without early synchronization no step leaves an update behind.
LEMMA UpdateStep ==
    ASSUME SyncBeforeReady = FALSE
    PROVE  TypeOK /\ UpdateInv /\ [Next]_vars => UpdateInv'
<1> SUFFICES ASSUME TypeOK, UpdateInv, [Next]_vars PROVE UpdateInv'
  OBVIOUS
<1>1. CASE UNCHANGED <<dataProductMap, updateVars>>
           /\ (registeredPublishersBound => registeredPublishersBound')
  BY <1>1 DEF UpdateInv, ReadyInv, NoLostUpdate, updateVars
<1>2. ASSUME NEW reg \in DataRegistration, RegisterPublisher(reg)
      PROVE  UpdateInv'
  <2>1. PublishUpdates(PublisherChanges(reg), ReadyAfter(reg))
        /\ UNCHANGED registeredPublishersBound /\ Receivable(reg)
    BY <1>2 DEF RegisterPublisher, PublisherChanges
  <2>2. ReadyAfter(reg) \in BOOLEAN
    BY DEF ReadyAfter, TypeOK
  <2>3. ReadyAfter(reg) => registeredPublishersBound
    BY <2>1 DEF ReadyAfter, Receivable, UpdateInv, ReadyInv
  <2>4. registeredPublishersReady => ReadyAfter(reg)
    BY DEF ReadyAfter
  <2>5. ~ReadyAfter(reg) => \A d \in Domains, i \in ProductIDs :
                 <<d, i>> \in PublisherChanges(reg) => d = OwnDomain
    BY <2>1 DEF ReadyAfter, Receivable, PublisherChanges, UpdateInv, ReadyInv
  <2>6. QED
    BY <1>2, <2>1, <2>2, <2>3, <2>4, <2>5, ChangesCovered, PublishKeepsUpdates
<1>3. ASSUME NEW reg \in DataRegistration, RegisterDuplicate(reg)
      PROVE  UpdateInv'
  <2>1. /\ PublishUpdates({}, ReadyAfter(reg))
        /\ UNCHANGED <<dataProductMap, registeredPublishersBound>>
        /\ Receivable(reg)
    BY <1>3 DEF RegisterDuplicate
  <2>2. ReadyAfter(reg) \in BOOLEAN
    BY DEF ReadyAfter, TypeOK
  <2>3. ReadyAfter(reg) => registeredPublishersBound
    BY <2>1 DEF ReadyAfter, Receivable, UpdateInv, ReadyInv
  <2>4. registeredPublishersReady => ReadyAfter(reg)
    BY DEF ReadyAfter
  <2>5. Changes({})
    BY <2>1 DEF Changes
  <2>6. QED
    BY <2>1, <2>2, <2>3, <2>4, <2>5, PublishKeepsUpdates
<1>4. ASSUME NEW reg \in ServiceRegistration, RegisterService(reg)
      PROVE  UpdateInv'
  <2>1. /\ PublishUpdates(ServiceChanges(reg), registeredPublishersReady)
        /\ UNCHANGED registeredPublishersBound
    BY <1>4 DEF RegisterService, ServiceChanges
  <2>2. /\ registeredPublishersReady \in BOOLEAN
        /\ registeredPublishersReady => registeredPublishersBound
    BY DEF TypeOK, UpdateInv, ReadyInv
  <2>3. \A d \in Domains, i \in ProductIDs :
           <<d, i>> \in ServiceChanges(reg) => d = OwnDomain
    BY DEF ServiceChanges
  <2>4. QED
    BY <1>4, <2>1, <2>2, <2>3, ChangesCovered, PublishKeepsUpdates
<1>5. ASSUME NEW unreg \in DataUnregistration, UnregisterPublisher(unreg)
      PROVE  UpdateInv'
  <2>1. /\ PublishUpdates({<<unreg.domain, unreg.id>>},
                          registeredPublishersReady)
        /\ UNCHANGED registeredPublishersBound
    BY <1>5 DEF UnregisterPublisher
  <2>2. /\ registeredPublishersReady \in BOOLEAN
        /\ registeredPublishersReady => registeredPublishersBound
    BY DEF TypeOK, UpdateInv, ReadyInv
  <2>3. unreg.domain \in Domains /\ unreg.id \in ProductIDs
    BY DEF DataUnregistration
  <2>4. ~registeredPublishersReady => unreg.domain = OwnDomain
    BY <1>5, <2>3
    DEF UnregisterPublisher, RegisteredPublisher, UpdateInv, ReadyInv
  <2>5. QED
    BY <1>5, <2>1, <2>2, <2>3, <2>4, ChangesCovered, PublishKeepsUpdates
<1>6. ASSUME NEW unreg \in ServiceUnregistration, UnregisterService(unreg)
      PROVE  UpdateInv'
  <2>1. /\ PublishUpdates({}, registeredPublishersReady)
        /\ UNCHANGED <<dataProductMap, registeredPublishersBound>>
    BY <1>6 DEF UnregisterService
  <2>2. /\ registeredPublishersReady \in BOOLEAN
        /\ registeredPublishersReady => registeredPublishersBound
    BY DEF TypeOK, UpdateInv, ReadyInv
  <2>3. Changes({})
    BY <2>1 DEF Changes
  <2>4. QED
    BY <2>1, <2>2, <2>3, PublishKeepsUpdates
<1>7. CASE BindRegisteredPublishers
  BY <1>1, <1>7 DEF BindRegisteredPublishers, mapVars
<1>8. CASE GetProviders
  BY <1>1, <1>8 DEF GetProviders
<1>9. ASSUME NEW d \in Domains, NEW s \in ServiceIDs, LookupService(d, s)
      PROVE  UpdateInv'
  BY <1>1, <1>9 DEF LookupService
<1>10. CASE UNCHANGED vars
  BY <1>1, <1>10 DEF vars, mapVars
<1>11. QED
  BY <1>2, <1>3, <1>4, <1>5, <1>6, <1>7, <1>8, <1>9, <1>10 DEF Next

\* No change of a publisher list is withheld from the subscribers of
\* RegisteredPublishers, provided no foreign domain is synchronized before
\* that product is ready.
THEOREM NoLostUpdateInvariant ==
    ASSUME SyncBeforeReady = FALSE
    PROVE  Spec => []NoLostUpdate
<1>1. Init => UpdateInv
  BY DEF Init, UpdateInv, ReadyInv, NoLostUpdate
<1>2. TypeOK /\ UpdateInv /\ [Next]_vars => UpdateInv'
  BY UpdateStep
<1>3. UpdateInv => NoLostUpdate
  BY DEF UpdateInv
<1>4. QED
  BY <1>1, <1>2, <1>3, TypeCorrect, PTL DEF Spec

(***************************************************************************)
(* The cache of RegisteredPublishers updates.  CachedUpdateCurrent needs   *)
(* NoLostUpdate, and that the cache holds one update per product ID and    *)
(* none before the product is ready.                                       *)
(***************************************************************************)

CacheInv ==
    /\ ~registeredPublishersReady => \A i \in ProductIDs : cachedUpdates[i] = {}
    /\ \A i \in ProductIDs : \A d, e \in cachedUpdates[i] : d = e

\* A request changes the publishers of a product ID in one domain, and in the
\* own domain if it makes RegisteredPublishers ready.
OneDomainEach(changed, ready) ==
    /\ \A d, e \in Domains, i \in ProductIDs :
          <<d, i>> \in changed /\ <<e, i>> \in changed => d = e
    /\ ready /\ ~registeredPublishersReady =>
          \A d \in Domains, i \in ProductIDs :
             <<d, i>> \in changed => d = OwnDomain

\* Publishing after such a request keeps one update per product ID.
LEMMA PublishKeepsCache ==
    ASSUME UpdateInv, CacheInv, NEW changed, NEW ready \in BOOLEAN,
           PublishUpdates(changed, ready), OneDomainEach(changed, ready),
           registeredPublishersReady => ready
    PROVE  CacheInv'
<1>1. registeredPublishersReady' = ready
  BY DEF PublishUpdates
<1>2. \A i \in ProductIDs : cachedUpdates'[i] =
         IF SentFor(i, changed, ready) = {} THEN cachedUpdates[i]
         ELSE SentFor(i, changed, ready)
  BY DEF PublishUpdates
<1>3. ASSUME NEW i \in ProductIDs, ~ready
      PROVE  cachedUpdates'[i] = {}
  <2>1. SentFor(i, changed, ready) = {}
    BY <1>3 DEF SentFor, Sent, Flushed
  <2>2. QED BY <1>2, <1>3, <2>1 DEF CacheInv
<1>4. ASSUME NEW i \in ProductIDs, NEW d \in SentFor(i, changed, ready),
             NEW e \in SentFor(i, changed, ready)
      PROVE  d = e
  <2>1. CASE registeredPublishersReady
    <3>1. Flushed(ready) = {}
      BY <2>1 DEF Flushed, UpdateInv, ReadyInv
    <3>2. QED BY <3>1 DEF SentFor, Sent, OneDomainEach
  <2>2. CASE ~registeredPublishersReady
    <3>1. ready
      BY DEF SentFor, Sent, Flushed
    <3>2. d = OwnDomain
      BY <2>2, <3>1 DEF SentFor, Sent, OneDomainEach
    <3>3. e = OwnDomain
      BY <2>2, <3>1 DEF SentFor, Sent, OneDomainEach
    <3>4. QED BY <3>2, <3>3
  <2>3. QED BY <2>1, <2>2
<1>5. ASSUME NEW i \in ProductIDs, NEW d \in cachedUpdates'[i],
             NEW e \in cachedUpdates'[i]
      PROVE  d = e
  BY <1>2, <1>4 DEF CacheInv
<1>6. QED BY <1>1, <1>3, <1>5 DEF CacheInv

\* Every step keeps the cache consistent.
LEMMA CacheStep ==
    ASSUME SyncBeforeReady = FALSE
    PROVE  TypeOK /\ UpdateInv /\ CacheInv /\ [Next]_vars => CacheInv'
<1> SUFFICES ASSUME TypeOK, UpdateInv, CacheInv, [Next]_vars PROVE CacheInv'
  OBVIOUS
<1>1. CASE UNCHANGED updateVars
  BY <1>1 DEF CacheInv, updateVars
<1>2. ASSUME NEW reg \in DataRegistration, RegisterPublisher(reg)
      PROVE  CacheInv'
  <2>1. PublishUpdates(PublisherChanges(reg), ReadyAfter(reg))
        /\ Receivable(reg)
    BY <1>2 DEF RegisterPublisher, PublisherChanges
  <2>2. ReadyAfter(reg) \in BOOLEAN
    BY DEF ReadyAfter, TypeOK
  <2>3. registeredPublishersReady => ReadyAfter(reg)
    BY DEF ReadyAfter
  <2>4. ~registeredPublishersReady => reg.domain = OwnDomain
    BY <2>1 DEF Receivable, UpdateInv, ReadyInv
  <2>5. OneDomainEach(PublisherChanges(reg), ReadyAfter(reg))
    BY <2>4 DEF OneDomainEach, PublisherChanges, ObsoleteIDs
  <2>6. QED
    BY <2>1, <2>2, <2>3, <2>5, PublishKeepsCache
<1>3. ASSUME NEW reg \in DataRegistration, RegisterDuplicate(reg)
      PROVE  CacheInv'
  <2>1. PublishUpdates({}, ReadyAfter(reg))
    BY <1>3 DEF RegisterDuplicate
  <2>2. ReadyAfter(reg) \in BOOLEAN
    BY DEF ReadyAfter, TypeOK
  <2>3. registeredPublishersReady => ReadyAfter(reg)
    BY DEF ReadyAfter
  <2>4. OneDomainEach({}, ReadyAfter(reg))
    BY DEF OneDomainEach
  <2>5. QED BY <2>1, <2>2, <2>3, <2>4, PublishKeepsCache
<1>4. ASSUME NEW reg \in ServiceRegistration, RegisterService(reg)
      PROVE  CacheInv'
  <2>1. PublishUpdates(ServiceChanges(reg), registeredPublishersReady)
    BY <1>4 DEF RegisterService, ServiceChanges
  <2>2. OneDomainEach(ServiceChanges(reg), registeredPublishersReady)
    BY DEF OneDomainEach, ServiceChanges
  <2>3. QED BY <2>1, <2>2, PublishKeepsCache DEF TypeOK
<1>5. ASSUME NEW unreg \in DataUnregistration, UnregisterPublisher(unreg)
      PROVE  CacheInv'
  <2>1. PublishUpdates({<<unreg.domain, unreg.id>>}, registeredPublishersReady)
    BY <1>5 DEF UnregisterPublisher
  <2>2. OneDomainEach({<<unreg.domain, unreg.id>>}, registeredPublishersReady)
    BY DEF OneDomainEach
  <2>3. QED BY <2>1, <2>2, PublishKeepsCache DEF TypeOK
<1>6. ASSUME NEW unreg \in ServiceUnregistration, UnregisterService(unreg)
      PROVE  CacheInv'
  <2>1. PublishUpdates({}, registeredPublishersReady)
    BY <1>6 DEF UnregisterService
  <2>2. OneDomainEach({}, registeredPublishersReady)
    BY DEF OneDomainEach
  <2>3. QED BY <2>1, <2>2, PublishKeepsCache DEF TypeOK
<1>7. CASE BindRegisteredPublishers
  BY <1>1, <1>7 DEF BindRegisteredPublishers
<1>8. CASE GetProviders
  BY <1>1, <1>8 DEF GetProviders
<1>9. ASSUME NEW d \in Domains, NEW s \in ServiceIDs, LookupService(d, s)
      PROVE  CacheInv'
  BY <1>1, <1>9 DEF LookupService
<1>10. CASE UNCHANGED vars
  BY <1>1, <1>10 DEF vars
<1>11. QED
  BY <1>2, <1>3, <1>4, <1>5, <1>6, <1>7, <1>8, <1>9, <1>10 DEF Next

\* What a late subscriber of RegisteredPublishers is sent from the cache is
\* what the directory has for the domain named in it, provided no foreign
\* domain is synchronized before the product is ready.
THEOREM CachedUpdateCurrentInvariant ==
    ASSUME SyncBeforeReady = FALSE
    PROVE  Spec => []CachedUpdateCurrent
<1>1. Init => UpdateInv /\ CacheInv
  BY DEF Init, UpdateInv, ReadyInv, NoLostUpdate, CacheInv
<1>2. TypeOK /\ UpdateInv /\ CacheInv /\ [Next]_vars => UpdateInv' /\ CacheInv'
  BY UpdateStep, CacheStep
<1>3. TypeOK /\ UpdateInv /\ CacheInv => CachedUpdateCurrent
  <2> SUFFICES ASSUME TypeOK, UpdateInv, CacheInv,
                      NEW i \in ProductIDs, NEW d \in cachedUpdates[i]
               PROVE  /\ cachedUpdates[i] = {d}
                      /\ publishedUpdates[d][i] = dataProductMap[d][i]
    BY DEF CachedUpdateCurrent
  <2>1. cachedUpdates[i] = {d}
    BY DEF CacheInv
  <2>2. d \in Domains /\ registeredPublishersReady
    BY DEF CacheInv, TypeOK
  <2>3. QED BY <2>1, <2>2 DEF UpdateInv, NoLostUpdate
<1>4. QED
  BY <1>1, <1>2, <1>3, TypeCorrect, PTL DEF Spec
(***************************************************************************)
(* The changes announced to other directories.                             *)
(***************************************************************************)

\* What a change record says.
LEMMA ChangeFields ==
    ASSUME NEW i, NEW u, NEW t, NEW ct, NEW rt
    PROVE  /\ Change(i, u, t, ct, rt).product_id = i
           /\ Change(i, u, t, ct, rt).url = u
           /\ Change(i, u, t, ct, rt).change_type = ct
           /\ Change(i, u, t, ct, rt).registration_type = rt
BY DEF Change

\* The purge announces the removal of the URL from the products it removes
\* the URL from, and nothing else.
LEMMA PurgeAnnounced ==
    ASSUME NEW instances, NEW id, NEW url, NEW c
    PROVE  /\ c \in PurgeChanges(instances, id, url) =>
                /\ c.product_id \in ObsoleteIDs(id, url) /\ c.url = url
                /\ c.change_type = "REMOVE" /\ c.registration_type = "DATA"
           /\ \A i \in ObsoleteIDs(id, url) :
                \E r \in PurgeChanges(instances, id, url) :
                   /\ r.product_id = i /\ r.url = url
                   /\ r.change_type = "REMOVE" /\ r.registration_type = "DATA"
<1>1. ASSUME c \in PurgeChanges(instances, id, url)
      PROVE  /\ c.product_id \in ObsoleteIDs(id, url) /\ c.url = url
             /\ c.change_type = "REMOVE" /\ c.registration_type = "DATA"
  <2>1. PICK i \in ObsoleteIDs(id, url) :
           c = Change(i, url, Instance(instances, url), "REMOVE", "DATA")
    BY <1>1 DEF PurgeChanges
  <2>2. QED BY <2>1, ChangeFields
<1>2. ASSUME NEW i \in ObsoleteIDs(id, url)
      PROVE  \E r \in PurgeChanges(instances, id, url) :
                /\ r.product_id = i /\ r.url = url
                /\ r.change_type = "REMOVE" /\ r.registration_type = "DATA"
  <2> DEFINE r == Change(i, url, Instance(instances, url), "REMOVE", "DATA")
  <2>1. r \in PurgeChanges(instances, id, url)
    BY DEF PurgeChanges
  <2>2. /\ r.product_id = i /\ r.url = url
        /\ r.change_type = "REMOVE" /\ r.registration_type = "DATA"
    BY ChangeFields
  <2>3. QED BY <2>1, <2>2
<1>3. QED BY <1>1, <1>2

\* Each step publishes the changes it makes to the own domain.
LEMMA AnnounceStep ==
    TypeOK /\ OneProductPerUrl /\ [Next]_vars => [StepAnnounced]_vars
<1> SUFFICES ASSUME TypeOK, OneProductPerUrl, Next PROVE StepAnnounced
  OBVIOUS
<1> USE DomainAssumption, UrlAssumption
<1>1. ASSUME UNCHANGED <<dataProductMap, serviceMap>>, details' = {}
      PROVE  StepAnnounced
  BY <1>1 DEF StepAnnounced, ListedAt, Announced
<1>2. ASSUME NEW reg \in DataRegistration, RegisterPublisher(reg)
      PROVE  StepAnnounced
  <2> DEFINE recorded == [registrationInstanceMap EXCEPT ![reg.url] = reg.timestamp]
             purge == PurgeChanges(recorded, reg.id, reg.url)
             add == Change(reg.id, reg.url, reg.timestamp, "ADD", "DATA")
  <2>1. /\ dataProductMap' = Purged(Entered(reg), reg.id, reg.url)
        /\ serviceMap' = serviceMap
        /\ details' = purge \cup
              IF reg.domain = OwnDomain /\ reg.id # RegisteredPublishersID
              THEN {add} ELSE {}
    BY <1>2 DEF RegisterPublisher
  <2>2. /\ reg.id \in ProductIDs /\ reg.domain \in Domains /\ reg.url \in Urls
    BY DEF DataRegistration
  <2>3. /\ add.product_id = reg.id /\ add.url = reg.url
        /\ add.change_type = "ADD" /\ add.registration_type = "DATA"
    BY ChangeFields
  <2>4. \A c \in purge : /\ c.product_id \in ObsoleteIDs(reg.id, reg.url)
                         /\ c.url = reg.url /\ c.change_type = "REMOVE"
                         /\ c.registration_type = "DATA"
    BY PurgeAnnounced
  <2>5. \A i \in ObsoleteIDs(reg.id, reg.url) : \E c \in purge :
           /\ c.product_id = i /\ c.url = reg.url
           /\ c.change_type = "REMOVE" /\ c.registration_type = "DATA"
    BY PurgeAnnounced
  <2> HIDE DEF purge, add
  <2>6. ASSUME NEW i \in ProductIDs \ {RegisteredPublishersID}, NEW u \in Urls
        PROVE  ListedAt(i, u)' <=> \/ Announced(i, u, "ADD", "DATA")'
                                   \/ /\ ListedAt(i, u)
                                      /\ ~Announced(i, u, "REMOVE", "DATA")'
    <3>1. Announced(i, u, "ADD", "DATA")' <=>
             reg.domain = OwnDomain /\ i = reg.id /\ u = reg.url
      BY <2>1, <2>2, <2>3, <2>4 DEF Announced
    <3>2. Announced(i, u, "REMOVE", "DATA")' <=>
             i \in ObsoleteIDs(reg.id, reg.url) /\ u = reg.url
      BY <2>1, <2>2, <2>3, <2>4, <2>5 DEF Announced
    <3>3. CASE i = reg.id /\ reg.domain = OwnDomain
      <4>1. dataProductMap'[OwnDomain][i] =
               {p \in dataProductMap[OwnDomain][i] : p.url # reg.url} \cup
               {[url |-> reg.url, registration_time |-> Secs(reg.timestamp)]}
        BY <2>1, <2>2, <3>3 DEF Purged, Entered, TypeOK
      <4>2. i \notin ObsoleteIDs(reg.id, reg.url)
        BY <3>3 DEF ObsoleteIDs
      <4>3. ListedAt(i, u)' <=> ListedAt(i, u) \/ u = reg.url
        <5>1. CASE u = reg.url
          <6> DEFINE new == [url |-> reg.url,
                             registration_time |-> Secs(reg.timestamp)]
          <6>1. new \in dataProductMap'[OwnDomain][i]
            BY <4>1
          <6>2. new.url = reg.url
            OBVIOUS
          <6> HIDE DEF new
          <6>3. QED BY <5>1, <6>1, <6>2 DEF ListedAt
        <5>2. CASE u # reg.url
          BY <4>1, <5>2 DEF ListedAt
        <5>3. QED BY <5>1, <5>2
      <4>4. QED BY <3>1, <3>2, <3>3, <4>2, <4>3
    <3>4. CASE i = reg.id /\ reg.domain # OwnDomain
      <4>1. dataProductMap'[OwnDomain][i] = dataProductMap[OwnDomain][i]
        BY <2>1, <2>2, <3>4 DEF Purged, Entered, TypeOK
      <4>2. i \notin ObsoleteIDs(reg.id, reg.url)
        BY <3>4 DEF ObsoleteIDs
      <4>3. QED BY <3>1, <3>2, <3>4, <4>1, <4>2 DEF ListedAt
    <3>5. CASE i # reg.id
      <4>1. dataProductMap'[OwnDomain][i] =
               {p \in dataProductMap[OwnDomain][i] : p.url # reg.url}
        BY <2>1, <2>2, <3>5 DEF Purged, Entered, TypeOK
      <4>2. i \in ObsoleteIDs(reg.id, reg.url) <=> ListedAt(i, reg.url)
        BY <3>5 DEF ListedAt, ObsoleteIDs
      <4>3. ListedAt(i, u)' <=> ListedAt(i, u) /\ u # reg.url
        BY <4>1 DEF ListedAt
      <4>4. QED BY <3>1, <3>2, <3>5, <4>2, <4>3
    <3>6. QED BY <3>3, <3>4, <3>5
  <2>7. QED BY <2>1, <2>6 DEF StepAnnounced
<1>3. ASSUME NEW reg \in DataRegistration, RegisterDuplicate(reg)
      PROVE  StepAnnounced
  <2> DEFINE add == Change(reg.id, reg.url, reg.timestamp, "ADD", "DATA")
  <2>1. /\ UNCHANGED <<dataProductMap, serviceMap>>
        /\ details' = IF reg.domain = OwnDomain THEN {add} ELSE {}
        /\ Listed(reg)
    BY <1>3 DEF RegisterDuplicate
  <2>2. /\ add.product_id = reg.id /\ add.url = reg.url
        /\ add.change_type = "ADD" /\ add.registration_type = "DATA"
    BY ChangeFields
  <2> HIDE DEF add
  <2>3. reg.domain = OwnDomain => ListedAt(reg.id, reg.url)
    BY <2>1 DEF Listed, ListedAt
  <2>4. QED BY <2>1, <2>2, <2>3 DEF StepAnnounced, Announced, ListedAt
<1>4. ASSUME NEW reg \in ServiceRegistration, RegisterService(reg)
      PROVE  StepAnnounced
  <2> DEFINE purge == PurgeChanges(registrationInstanceMap, reg.id, reg.url)
             add == Change(reg.id, reg.url, reg.timestamp, "ADD", "SERVICE")
  <2>1. /\ dataProductMap' = Purged(dataProductMap, reg.id, reg.url)
        /\ serviceMap' = [serviceMap EXCEPT ![reg.domain][reg.id] = reg.url]
        /\ details' = purge \cup IF reg.domain = OwnDomain THEN {add} ELSE {}
    BY <1>4 DEF RegisterService
  <2>2. /\ reg.id \in ServiceIDs /\ reg.domain \in Domains /\ reg.url \in Urls
    BY DEF ServiceRegistration
  <2>3. /\ add.product_id = reg.id /\ add.url = reg.url
        /\ add.change_type = "ADD" /\ add.registration_type = "SERVICE"
    BY ChangeFields
  <2>4. \A c \in purge : /\ c.product_id \in ObsoleteIDs(reg.id, reg.url)
                         /\ c.url = reg.url /\ c.change_type = "REMOVE"
                         /\ c.registration_type = "DATA"
    BY PurgeAnnounced
  <2>5. \A i \in ObsoleteIDs(reg.id, reg.url) : \E c \in purge :
           /\ c.product_id = i /\ c.url = reg.url
           /\ c.change_type = "REMOVE" /\ c.registration_type = "DATA"
    BY PurgeAnnounced
  <2> HIDE DEF purge, add
  <2>6. ASSUME NEW i \in ProductIDs, NEW u \in Urls
        PROVE  ListedAt(i, u)' <=> \/ Announced(i, u, "ADD", "DATA")'
                                   \/ /\ ListedAt(i, u)
                                      /\ ~Announced(i, u, "REMOVE", "DATA")'
    <3>1. ~Announced(i, u, "ADD", "DATA")'
      BY <2>1, <2>3, <2>4 DEF Announced
    <3>2. Announced(i, u, "REMOVE", "DATA")' <=>
             i \in ObsoleteIDs(reg.id, reg.url) /\ u = reg.url
      BY <2>1, <2>3, <2>4, <2>5 DEF Announced
    <3>3. CASE i = reg.id
      <4>1. dataProductMap'[OwnDomain][i] = dataProductMap[OwnDomain][i]
        BY <2>1, <3>3 DEF Purged, TypeOK
      <4>2. i \notin ObsoleteIDs(reg.id, reg.url)
        BY <3>3 DEF ObsoleteIDs
      <4>3. QED BY <3>1, <3>2, <4>1, <4>2 DEF ListedAt
    <3>4. CASE i # reg.id
      <4>1. dataProductMap'[OwnDomain][i] =
               {p \in dataProductMap[OwnDomain][i] : p.url # reg.url}
        BY <2>1, <3>4 DEF Purged, TypeOK
      <4>2. QED BY <3>1, <3>2, <3>4, <4>1 DEF ListedAt, ObsoleteIDs
    <3>5. QED BY <3>3, <3>4
  <2>7. ASSUME NEW s \in ServiceIDs,
               serviceMap'[OwnDomain][s] # serviceMap[OwnDomain][s]
        PROVE  /\ serviceMap'[OwnDomain][s] = reg.url
               /\ Announced(s, reg.url, "ADD", "SERVICE")'
    <3>1. reg.domain = OwnDomain /\ reg.id = s
      BY <2>1, <2>2, <2>7 DEF TypeOK
    <3>2. QED BY <2>1, <2>2, <2>3, <3>1 DEF Announced, TypeOK
  <2>8. QED BY <2>2, <2>6, <2>7 DEF StepAnnounced
<1>5. ASSUME NEW unreg \in DataUnregistration, UnregisterPublisher(unreg)
      PROVE  StepAnnounced
  <2> DEFINE entry == [url |-> unreg.url,
                       registration_time |-> unreg.registration_time]
             remove == Change(unreg.id, unreg.url,
                              Instance(registrationInstanceMap, unreg.url),
                              "REMOVE", "DATA")
  <2>1. /\ dataProductMap' =
              [dataProductMap EXCEPT ![unreg.domain][unreg.id] = @ \ {entry}]
        /\ serviceMap' = serviceMap
        /\ details' = IF unreg.domain = OwnDomain THEN {remove} ELSE {}
        /\ entry \in dataProductMap[unreg.domain][unreg.id]
    BY <1>5 DEF UnregisterPublisher, RegisteredPublisher
  <2>2. /\ unreg.id \in ProductIDs /\ unreg.domain \in Domains
        /\ unreg.url \in Urls
    BY DEF DataUnregistration
  <2>3. /\ remove.product_id = unreg.id /\ remove.url = unreg.url
        /\ remove.change_type = "REMOVE" /\ remove.registration_type = "DATA"
    BY ChangeFields
  <2>4. entry.url = unreg.url
    OBVIOUS
  <2> HIDE DEF entry, remove
  <2>5. ASSUME NEW i \in ProductIDs, NEW u \in Urls
        PROVE  ListedAt(i, u)' <=> \/ Announced(i, u, "ADD", "DATA")'
                                   \/ /\ ListedAt(i, u)
                                      /\ ~Announced(i, u, "REMOVE", "DATA")'
    <3>1. ~Announced(i, u, "ADD", "DATA")'
      BY <2>1, <2>3 DEF Announced
    <3>2. Announced(i, u, "REMOVE", "DATA")' <=>
             unreg.domain = OwnDomain /\ i = unreg.id /\ u = unreg.url
      BY <2>1, <2>3 DEF Announced
    <3>3. CASE unreg.domain = OwnDomain /\ i = unreg.id
      <4>1. dataProductMap'[OwnDomain][i] = dataProductMap[OwnDomain][i] \ {entry}
        BY <2>1, <2>2, <3>3 DEF TypeOK
      <4>2. \A p \in dataProductMap[OwnDomain][i] :
               p.url = unreg.url => p = entry
        BY <2>1, <2>4, <3>3 DEF OneProductPerUrl
      <4>3. QED BY <2>4, <3>1, <3>2, <3>3, <4>1, <4>2 DEF ListedAt
    <3>4. CASE ~(unreg.domain = OwnDomain /\ i = unreg.id)
      <4>1. dataProductMap'[OwnDomain][i] = dataProductMap[OwnDomain][i]
        BY <2>1, <2>2, <3>4 DEF TypeOK
      <4>2. QED BY <3>1, <3>2, <3>4, <4>1 DEF ListedAt
    <3>5. QED BY <3>3, <3>4
  <2>6. QED BY <2>1, <2>5 DEF StepAnnounced
<1>6. ASSUME NEW unreg \in ServiceUnregistration, UnregisterService(unreg)
      PROVE  StepAnnounced
  <2> DEFINE remove == Change(unreg.id, unreg.url,
                              registrationInstanceMap[unreg.url],
                              "REMOVE", "SERVICE")
  <2>1. /\ dataProductMap' = dataProductMap
        /\ serviceMap' = [serviceMap EXCEPT ![unreg.domain][unreg.id] = NoUrl]
        /\ details' = IF unreg.domain = OwnDomain THEN {remove} ELSE {}
    BY <1>6 DEF UnregisterService
  <2>2. /\ unreg.id \in ServiceIDs /\ unreg.domain \in Domains
        /\ unreg.url \in Urls
    BY DEF ServiceUnregistration
  <2>3. /\ remove.product_id = unreg.id /\ remove.url = unreg.url
        /\ remove.change_type = "REMOVE" /\ remove.registration_type = "SERVICE"
    BY ChangeFields
  <2> HIDE DEF remove
  <2>4. ASSUME NEW i \in ProductIDs, NEW u \in Urls
        PROVE  /\ ListedAt(i, u)' <=> ListedAt(i, u)
               /\ ~Announced(i, u, "ADD", "DATA")'
               /\ ~Announced(i, u, "REMOVE", "DATA")'
    BY <2>1, <2>3 DEF ListedAt, Announced
  <2>5. ASSUME NEW s \in ServiceIDs,
               serviceMap'[OwnDomain][s] # serviceMap[OwnDomain][s]
        PROVE  /\ serviceMap'[OwnDomain][s] = NoUrl
               /\ Announced(s, unreg.url, "REMOVE", "SERVICE")'
    <3>1. unreg.domain = OwnDomain /\ unreg.id = s
      BY <2>1, <2>2, <2>5 DEF TypeOK
    <3>2. QED BY <2>1, <2>2, <2>3, <3>1 DEF Announced, TypeOK
  <2>6. QED BY <2>2, <2>4, <2>5 DEF StepAnnounced
<1>7. CASE BindRegisteredPublishers
  BY <1>1, <1>7 DEF BindRegisteredPublishers, mapVars
<1>8. CASE GetProviders
  BY <1>1, <1>8 DEF GetProviders
<1>9. ASSUME NEW d \in Domains, NEW s \in ServiceIDs, LookupService(d, s)
      PROVE  StepAnnounced
  BY <1>1, <1>9 DEF LookupService
<1>10. QED
  BY <1>2, <1>3, <1>4, <1>5, <1>6, <1>7, <1>8, <1>9 DEF Next

\* Every change of the own domain's providers is announced on
\* ServiceDirectory_DomainDetails by the step that makes it, and nothing is
\* announced that did not happen.
THEOREM DetailsTrackDirectoryHolds == Spec => DetailsTrackDirectory
<1>1. TypeOK /\ OneProductPerUrl /\ [Next]_vars => [StepAnnounced]_vars
  BY AnnounceStep
<1>2. QED
  BY <1>1, TypeCorrect, OneProductPerUrlInvariant, PTL
  DEF Spec, DetailsTrackDirectory
=============================================================================
