-------------------------- MODULE ReregisterProofs --------------------------
(***************************************************************************)
(* Proofs about re-registration, for any nodes, offers and subscribers and *)
(* any number of restarts and operations.                                  *)
(***************************************************************************)
EXTENDS Reregister, TLAPS

Times == 0..MaxOperations
Regs == [type : {"DATA", "SERVICE"}, id : {o.id : o \in Offer}, time : Times]
Entries == [node : Nodes, reg : Regs]
Publisher == [node : Nodes, time : Times]
Messages == [start : Int, url : DirectoryUrls \cup {NoUrl}]
Places == {"listen", "update", "publish", "service", "subscribe",
           "waitPublish", "waitService", "waitSubscribe"}

(***************************************************************************)
(* Types.                                                                  *)
(***************************************************************************)

DirectoryTyped ==
    /\ directory \in [up : BOOLEAN, start : Int, url : DirectoryUrls,
                      updates : UpdatesUrls, listed : SUBSET Entries,
                      cache : {NoUpdate} \cup SUBSET Publisher]
    /\ starts \in 1..MaxStarts /\ (~directory.up => starts < MaxStarts)
    /\ clock \in Times

NodesTyped ==
    /\ datagrams \in [Nodes -> SUBSET [start : Int, url : DirectoryUrls]]
    /\ heard \in [Nodes -> SUBSET DirectoryUrls]
    /\ initSucceeded \in [Nodes -> BOOLEAN]
    /\ serviceDirectoryNode \in [Nodes -> DirectoryUrls \cup {NoUrl}]
    /\ offers \in [Nodes -> SUBSET Regs]
    /\ subscriptionList \in [Nodes -> Nat]

Details ==
    [update : UpdatesUrls \cup {NoUrl}, known : SUBSET Publisher, joined : BOOLEAN,
     waiting : {NoUpdate} \cup SUBSET Publisher]

ManagerTyped == manager \in [Nodes -> Details]

Listeners ==
    [pc : Places, seen : Int, todo : SUBSET (Regs \cup Nat), message : Messages]

TodoTyped(l) ==
    IF l.pc = "subscribe" THEN l.todo \subseteq Nat ELSE l.todo \subseteq Regs

ListenerTyped ==
    listener \in [Nodes -> Listeners] /\ \A n \in Nodes : TodoTyped(listener[n])

\* A call of node n, and a thread of its application.
CallTyped(n, c) ==
    /\ c.op \in {"register", "unregister", "subscribe", "unsubscribe"}
    /\ c.op = "register" => c.offer \in OffersOf[n]
    /\ c.lock = IF c.op \in {"register", "unregister"}
                THEN LockOf(c.offer.type) ELSE "subscribe"

ThreadTyped(n, a) ==
    /\ a.pc \in {"idle", "wait", "send", "done"}
    /\ a.pc = "idle" => a = Idle
    /\ a.pc = "wait" => CallTyped(n, a.call) /\ a.lock = a.call.lock
    /\ a.pc = "send" => a.op \in {"register", "unregister", "subscribe"}
    /\ a.pc = "done" => a.op \in {"register", "subscribe"}
    /\ a.pc \in {"send", "done"} =>
         IF a.op = "subscribe" THEN a.lock = "subscribe"
         ELSE a.reg \in Regs /\ a.lock = LockOf(a.reg.type)
    /\ a.pc = "done" /\ a.op = "subscribe" =>
         a.found.publishers \subseteq Publisher /\ a.found.updates \in UpdatesUrls

AppTyped == DOMAIN app = Nodes /\ \A n \in Nodes : ThreadTyped(n, app[n])

Typed == DirectoryTyped /\ NodesTyped /\ ManagerTyped /\ ListenerTyped /\ AppTyped

LEMMA Names ==
    /\ Locks = {"publish", "service", "subscribe"}
    /\ Waiting["publish"] = "waitPublish" /\ Waiting["service"] = "waitService"
    /\ Waiting["subscribe"] = "waitSubscribe"
    /\ After["publish"] = "service" /\ After["service"] = "subscribe"
    /\ {Waiting[l] : l \in Locks} = {"waitPublish", "waitService", "waitSubscribe"}
<1>1. Locks = {"publish", "service", "subscribe"}
  BY DEF Locks, Waiting
<1>. QED
  BY <1>1 DEF Waiting, After

LEMMA TypedIsTypeOK == Typed => TypeOK
<1> SUFFICES ASSUME Typed PROVE TypeOK
  OBVIOUS
<1>1. /\ directory.up \in BOOLEAN /\ directory.start \in Int
      /\ directory.url \in DirectoryUrls /\ directory.updates \in UpdatesUrls
      /\ directory.listed \subseteq Entries
      /\ directory.cache = NoUpdate \/ directory.cache \subseteq Publisher
      /\ starts \in 1..MaxStarts /\ clock \in Times
  BY DEF Typed, DirectoryTyped
<1>2. /\ initSucceeded \in [Nodes -> BOOLEAN]
      /\ serviceDirectoryNode \in [Nodes -> DirectoryUrls \cup {NoUrl}]
      /\ subscriptionList \in [Nodes -> Nat]
  BY DEF Typed, NodesTyped
<1>3. ASSUME NEW n \in Nodes
      PROVE  /\ datagrams[n] \subseteq [start : Int, url : DirectoryUrls]
             /\ heard[n] \subseteq DirectoryUrls
             /\ offers[n] \subseteq Regs
  BY DEF Typed, NodesTyped
<1>4. ASSUME NEW n \in Nodes
      PROVE  /\ manager[n].update \in UpdatesUrls \cup {NoUrl}
             /\ manager[n].known \subseteq Publisher /\ manager[n].joined \in BOOLEAN
             /\ manager[n].waiting = NoUpdate \/ manager[n].waiting \subseteq Publisher
  <2>1. manager[n] \in Details
    BY DEF Typed, ManagerTyped
  <2>. QED
    BY <2>1 DEF Details
<1>5. ASSUME NEW n \in Nodes
      PROVE  /\ listener[n].pc \in {"listen", "update"} \cup Locks
                                     \cup {Waiting[l] : l \in Locks}
             /\ listener[n].seen \in Int /\ listener[n].message \in Messages
             /\ IF listener[n].pc = "subscribe" THEN listener[n].todo \subseteq Nat
                ELSE listener[n].todo \subseteq Regs
  <2>1. listener[n] \in Listeners
    BY DEF Typed, ListenerTyped
  <2>2. listener[n].pc \in Places /\ listener[n].seen \in Int
        /\ listener[n].message \in Messages
    BY <2>1 DEF Listeners
  <2>3. IF listener[n].pc = "subscribe" THEN listener[n].todo \subseteq Nat
        ELSE listener[n].todo \subseteq Regs
    BY DEF Typed, ListenerTyped, TodoTyped
  <2>. QED
    BY <2>2, <2>3, Names DEF Places
<1>6. ASSUME NEW n \in Nodes
      PROVE  /\ app[n].pc \in {"idle", "wait", "send", "done"}
             /\ app[n].pc # "idle" => app[n].lock \in Locks
  BY Names DEF Typed, AppTyped, ThreadTyped, CallTyped, LockOf
<1>. QED
  BY <1>1, <1>2, <1>3, <1>4, <1>5, <1>6
  DEF TypeOK, Times, Regs, Entries, Publisher, Messages

(***************************************************************************)
(* The registry.                                                           *)
(***************************************************************************)

LEMMA PublishersTyped ==
    ASSUME NEW listed \in SUBSET Entries
    PROVE  Publishers(listed) \subseteq Publisher
  BY DEF Publishers, Publisher, Entries, Regs

\* Changing what is listed changes nothing else but what is published of it.
LEMMA Relisted ==
    ASSUME DirectoryTyped, ManagerTyped, NEW listed \in SUBSET Entries, Relist(listed),
           UNCHANGED <<starts, clock>>
    PROVE  /\ DirectoryTyped' /\ ManagerTyped'
           /\ directory'.listed = listed
           /\ directory'.up = directory.up /\ directory'.start = directory.start
           /\ directory'.url = directory.url
<1> DEFINE D == [up : BOOLEAN, start : Int, url : DirectoryUrls,
                 updates : UpdatesUrls, listed : SUBSET Entries,
                 cache : {NoUpdate} \cup SUBSET Publisher]
<1>1. directory \in D /\ manager \in [Nodes -> Details]
  BY DEF DirectoryTyped, ManagerTyped
<1>2. Publishers(listed) \in {NoUpdate} \cup SUBSET Publisher
  BY PublishersTyped
<1>3. CASE directory' = [directory EXCEPT !.listed = listed] /\ UNCHANGED manager
  <2>1. directory' \in D /\ directory'.listed = listed
        /\ directory'.up = directory.up /\ directory'.start = directory.start
        /\ directory'.url = directory.url
    BY <1>1, <1>3
  <2>. QED
    BY <1>3, <2>1 DEF DirectoryTyped, ManagerTyped
<1>4. CASE PublishUpdate(listed)
  <2>1. directory' = [directory EXCEPT !.listed = listed, !.cache = Publishers(listed)]
    BY <1>4 DEF PublishUpdate
  <2>2. directory' \in D /\ directory'.listed = listed
        /\ directory'.up = directory.up /\ directory'.start = directory.start
        /\ directory'.url = directory.url
    BY <1>1, <1>2, <2>1
  <2>3. ASSUME NEW n \in Nodes
        PROVE  (IF manager[n].joined
                THEN [manager[n] EXCEPT !.waiting = Publishers(listed)]
                ELSE manager[n]) \in Details
    <3>1. manager[n] \in Details
      BY <1>1
    <3>. QED
      BY <1>2, <3>1 DEF Details
  <2>4. manager' \in [Nodes -> Details]
    BY <1>4, <2>3 DEF PublishUpdate
  <2>. QED
    BY <2>2, <2>4 DEF DirectoryTyped, ManagerTyped
<1>. QED
  BY <1>3, <1>4 DEF Relist

\* The entry of a registration, and the ones it replaces.
Entry(n, reg) == [node |-> n, reg |-> reg]

Alike(reg, other) == reg.type = other.type /\ reg.id = other.id

LEMMA Registered ==
    ASSUME DirectoryTyped, ManagerTyped, NEW n \in Nodes, NEW reg \in Regs,
           HandleRegister(n, reg), UNCHANGED <<starts, clock>>
    PROVE  /\ DirectoryTyped' /\ ManagerTyped'
           /\ directory'.up = directory.up /\ directory'.start = directory.start
           /\ directory'.url = directory.url
           /\ \A e \in directory'.listed : e \in directory.listed \/ e = Entry(n, reg)
           /\ \A e \in directory.listed :
                e \in directory'.listed \/ (e.node = n /\ Alike(e.reg, reg))
           /\ \/ Entry(n, reg) \in directory'.listed
              \/ \E e \in directory.listed :
                    e.node = n /\ Alike(e.reg, reg) /\ e.reg.time > reg.time
<1> DEFINE same == {e \in directory.listed : e.node = n /\ Alike(e.reg, reg)}
           listed == (directory.listed \ same) \cup {Entry(n, reg)}
<1>1. CASE UNCHANGED <<directory, manager>> /\ \E e \in same : e.reg.time > reg.time
  <2>1. DirectoryTyped' /\ ManagerTyped'
    BY <1>1 DEF DirectoryTyped, ManagerTyped
  <2>. QED
    BY <1>1, <2>1 DEF Alike
<1>2. CASE Relist(listed)
  <2>1. directory.listed \subseteq Entries
    BY DEF DirectoryTyped
  <2>2. listed \in SUBSET Entries
    BY <2>1 DEF Entries, Entry
  <2>3. /\ \A e \in listed : e \in directory.listed \/ e = Entry(n, reg)
        /\ \A e \in directory.listed : e \in listed \/ (e.node = n /\ Alike(e.reg, reg))
        /\ Entry(n, reg) \in listed
    BY DEF Alike
  <2> HIDE DEF listed, same
  <2>4. /\ DirectoryTyped' /\ ManagerTyped'
        /\ directory'.listed = listed
        /\ directory'.up = directory.up /\ directory'.start = directory.start
        /\ directory'.url = directory.url
    BY <1>2, <2>2, Relisted
  <2>. QED
    BY <2>3, <2>4
<1>. QED
  BY <1>1, <1>2 DEF HandleRegister, Alike, Entry

LEMMA Unregistered ==
    ASSUME DirectoryTyped, ManagerTyped, NEW n \in Nodes, NEW reg \in Regs,
           HandleUnregister(n, reg), UNCHANGED <<starts, clock>>
    PROVE  /\ DirectoryTyped' /\ ManagerTyped'
           /\ directory'.up = directory.up /\ directory'.start = directory.start
           /\ directory'.url = directory.url
           /\ directory'.listed = directory.listed \ {Entry(n, reg)}
<1>1. directory.listed \ {Entry(n, reg)} \in SUBSET Entries
  BY DEF DirectoryTyped
<1>. QED
  BY <1>1, Relisted DEF HandleUnregister, Entry

(***************************************************************************)
(* The threads of a node.                                                  *)
(***************************************************************************)

LEMMA ListenerAt ==
    ASSUME ListenerTyped, NEW n \in Nodes, NEW l \in Listeners, TodoTyped(l),
           listener' = [listener EXCEPT ![n] = l]
    PROVE  /\ ListenerTyped' /\ listener'[n] = l
           /\ \A m \in Nodes \ {n} : listener'[m] = listener[m]
  BY DEF ListenerTyped

LEMMA ThreadAt ==
    ASSUME AppTyped, NEW n \in Nodes, NEW a, ThreadTyped(n, a),
           app' = [app EXCEPT ![n] = a]
    PROVE  /\ AppTyped' /\ app'[n] = a
           /\ \A m \in Nodes \ {n} : app'[m] = app[m]
<1>1. /\ DOMAIN app' = Nodes /\ app'[n] = a
      /\ \A m \in Nodes \ {n} : app'[m] = app[m]
  BY DEF AppTyped
<1>2. ASSUME NEW m \in Nodes PROVE ThreadTyped(m, app'[m])
  <2>1. CASE m = n
    BY <1>1, <2>1
  <2>2. CASE m # n
    BY <1>1, <2>2 DEF AppTyped
  <2>. QED
    BY <2>1, <2>2
<1>. QED
  BY <1>1, <1>2 DEF AppTyped

LEMMA IdleTyped == \A n : ThreadTyped(n, Idle)
  BY DEF ThreadTyped, Idle

LEMMA DetailsAt ==
    ASSUME ManagerTyped, NEW n \in Nodes, NEW d \in Details,
           manager' = [manager EXCEPT ![n] = d]
    PROVE  ManagerTyped'
  BY DEF ManagerTyped

\* The listener enters a stage, or waits to do so.
LEMMA Entering ==
    ASSUME NodesTyped, NEW n \in Nodes, NEW l \in Listeners, NEW lock \in Locks
    PROVE  LET e == EnterStage(n, l, lock)
           IN  /\ e \in Listeners /\ TodoTyped(e)
               /\ e.seen = l.seen /\ e.message = l.message
               /\ \/ MustWait(n, lock) /\ e.pc = Waiting[lock] /\ e.todo = {}
                  \/ ~MustWait(n, lock) /\ e.pc = lock /\ e.todo = StageItems(n, lock)
<1>1. CASE MustWait(n, lock)
  <2>1. EnterStage(n, l, lock) = [l EXCEPT !.pc = Waiting[lock], !.todo = {}]
    BY <1>1 DEF EnterStage
  <2>2. Waiting[lock] \in Places \ {"subscribe"}
    BY Names DEF Places
  <2>. QED
    BY <1>1, <2>1, <2>2 DEF Listeners, TodoTyped
<1>2. CASE ~MustWait(n, lock)
  <2>1. EnterStage(n, l, lock) = [l EXCEPT !.pc = lock, !.todo = StageItems(n, lock)]
    BY <1>2 DEF EnterStage
  <2>2. lock \in Places
    BY Names DEF Places
  <2>3. /\ StageItems(n, lock) \in SUBSET (Regs \cup Nat)
        /\ IF lock = "subscribe" THEN StageItems(n, lock) \subseteq Nat
           ELSE StageItems(n, lock) \subseteq Regs
    BY DEF StageItems, NodesTyped
  <2> DEFINE e == EnterStage(n, l, lock)
  <2>4. /\ e \in Listeners /\ e.seen = l.seen /\ e.message = l.message
        /\ e.pc = lock /\ e.todo = StageItems(n, lock)
    BY <2>1, <2>2, <2>3 DEF Listeners
  <2> HIDE DEF e
  <2>5. TodoTyped(e)
    BY <2>3, <2>4 DEF TodoTyped
  <2>. QED
    BY <1>2, <2>4, <2>5 DEF e
<1>. QED
  BY <1>1, <1>2

(***************************************************************************)
(* Every step keeps the types.                                             *)
(***************************************************************************)

LEMMA InitTyped == ASSUME Init PROVE Typed
<1>1. DirectoryTyped
  <2>1. PICK url \in DirectoryUrls, updates \in UpdatesUrls :
           directory = Started(1, url, updates)
    BY DEF Init
  <2>. QED
    BY <2>1, ReregisterAssumption DEF Init, DirectoryTyped, Started, Times
<1>2. NodesTyped
  <2>1. directory.url \in DirectoryUrls
    BY <1>1 DEF DirectoryTyped
  <2>. QED
    BY <2>1 DEF Init, NodesTyped
<1>3. ManagerTyped
  BY DEF Init, ManagerTyped, NoDetails, Details
<1>4. ListenerTyped
  <2> DEFINE l(n) == [pc |-> "listen", seen |-> IF n \in Fresh THEN 0 ELSE 1,
                      todo |-> {}, message |-> [start |-> 0, url |-> NoUrl]]
  <2>1. ASSUME NEW n \in Nodes PROVE l(n) \in Listeners /\ TodoTyped(l(n))
    BY DEF Listeners, TodoTyped, Places, Messages
  <2>2. listener = [n \in Nodes |-> l(n)]
    BY DEF Init
  <2> HIDE DEF l
  <2>. QED
    BY <2>1, <2>2 DEF ListenerTyped
<1>5. AppTyped
  BY IdleTyped DEF Init, AppTyped
<1>. QED
  BY <1>1, <1>2, <1>3, <1>4, <1>5 DEF Typed

LEMMA DirectoryStepTyped == ASSUME Typed, Crash \/ Restart PROVE Typed'
<1> USE DEF Typed
<1>1. CASE Crash
  <2>1. DirectoryTyped'
    BY <1>1 DEF Crash, DirectoryTyped
  <2>2. ASSUME NEW n \in Nodes PROVE [manager[n] EXCEPT !.joined = FALSE] \in Details
    <3>1. manager[n] \in Details
      BY DEF ManagerTyped
    <3>. QED
      BY <3>1 DEF Details
  <2>3. ManagerTyped'
    BY <1>1, <2>2 DEF Crash, ManagerTyped
  <2>. QED
    BY <1>1, <2>1, <2>3 DEF Crash, nodeVars, NodesTyped, ListenerTyped, AppTyped
<1>2. CASE Restart
  <2>1. PICK step \in StartSteps, url \in DirectoryUrls, updates \in UpdatesUrls :
           directory' = Started(directory.start + step, url, updates)
    BY <1>2 DEF Restart
  <2>2. step \in Int /\ directory.start \in Int
    BY ReregisterAssumption DEF DirectoryTyped
  <2>3. starts' \in 1..MaxStarts
    BY <1>2, ReregisterAssumption DEF Restart, DirectoryTyped
  <2>4. DirectoryTyped'
    BY <1>2, <2>1, <2>2, <2>3 DEF Restart, DirectoryTyped, Started
  <2>. QED
    BY <1>2, <2>4 DEF Restart, nodeVars, NodesTyped, ManagerTyped, ListenerTyped, AppTyped
<1>. QED
  BY <1>1, <1>2

LEMMA BroadcastTyped ==
    ASSUME Typed, NEW n \in Nodes, Broadcast(n) \/ InitNode(n)
    PROVE  Typed'
<1> USE DEF Typed
<1>1. CASE Broadcast(n)
  <2>1. Broadcasted(directory) \in [start : Int, url : DirectoryUrls]
    BY DEF Broadcasted, DirectoryTyped
  <2>2. NodesTyped'
    BY <1>1, <2>1 DEF Broadcast, NodesTyped, nodeVars
  <2>. QED
    BY <1>1, <2>2 DEF Broadcast, DirectoryTyped, ManagerTyped, ListenerTyped, AppTyped
<1>2. CASE InitNode(n)
  <2>1. PICK url \in heard[n] :
          /\ serviceDirectoryNode' = [serviceDirectoryNode EXCEPT ![n] = url]
          /\ initSucceeded' = [initSucceeded EXCEPT ![n] =
                                directory.up /\ directory.url = url]
    BY <1>2 DEF InitNode, DomainUrls
  <2>2. url \in DirectoryUrls
    BY DEF NodesTyped
  <2>3. (directory.up /\ directory.url = url) \in BOOLEAN
    BY DEF DirectoryTyped
  <2>4. heard' \in [Nodes -> SUBSET DirectoryUrls]
    BY <1>2 DEF InitNode, NodesTyped
  <2>5. NodesTyped'
    BY <1>2, <2>1, <2>2, <2>3, <2>4 DEF InitNode, NodesTyped
  <2>. QED
    BY <1>2, <2>5 DEF InitNode, DirectoryTyped, ManagerTyped, ListenerTyped, AppTyped
<1>. QED
  BY <1>1, <1>2

LEMMA CallsTyped ==
    ASSUME Typed, NEW n \in Nodes, NEW call \in Operations(n)
    PROVE  CallTyped(n, call)
<1>1. CASE \E o \in OffersOf[n] :
             call = [op |-> "register", lock |-> LockOf(o.type), offer |-> o]
  BY <1>1 DEF CallTyped
<1>2. CASE \E r \in offers[n] :
             call = [op |-> "unregister", lock |-> LockOf(r.type), offer |-> OfferOf(r)]
  BY <1>2 DEF CallTyped, OfferOf
<1>3. CASE call = [op |-> "subscribe", lock |-> "subscribe"]
  BY <1>3 DEF CallTyped
<1>4. CASE call = [op |-> "unsubscribe", lock |-> "subscribe"]
  BY <1>4 DEF CallTyped
<1>. QED
  BY <1>1, <1>2, <1>3, <1>4 DEF Operations

\* The time of an operation that gets its lock.
LEMMA LockTaken ==
    ASSUME Typed, NEW n \in Nodes, NEW call, TakesLock(n, call)
    PROVE  /\ clock' \in Times /\ clock \in Times /\ clock <= clock'
           /\ app[n] = Idle \/ app[n].pc = "wait"
           /\ app[n] = Idle => initSucceeded[n]
           /\ DirectoryTyped' /\ ListenerTyped'
<1>1. clock \in Times /\ clock' \in Times /\ clock <= clock'
  BY ReregisterAssumption DEF Typed, DirectoryTyped, TakesLock, Times
<1>2. app[n].pc = "wait" => app[n] # Idle
  BY DEF Idle
<1>. QED
  BY <1>1, <1>2 DEF Typed, DirectoryTyped, ListenerTyped, TakesLock

LEMMA RegistrationTyped ==
    ASSUME NEW n \in Nodes, NEW o \in OffersOf[n], NEW t \in Times
    PROVE  /\ Registration(o, t) \in Regs /\ OfferOf(Registration(o, t)) = o
           /\ Registration(o, t).type = o.type /\ Registration(o, t).time = t
<1>1. o \in Offer
  BY DEF Offer
<1>2. o.type \in {"DATA", "SERVICE"} /\ o = [type |-> o.type, id |-> o.id]
  BY ReregisterAssumption
<1>. QED
  BY <1>1, <1>2 DEF Registration, Regs, OfferOf

\* An operation begins: what its thread becomes, and what the types of the
\* maps are.
LEMMA OperationTyped ==
    ASSUME Typed, NEW n \in Nodes, NEW call, CallTyped(n, call), Operation(n, call)
    PROVE  Typed'
<1>0. DirectoryTyped' /\ ListenerTyped' /\ clock' \in Times /\ TakesLock(n, call)
  BY LockTaken DEF Operation, Register, Unregister, Subscribe, Unsubscribe
<1>1. CASE Register(n, call)
  <2>1. UNCHANGED <<nodeVars, datagrams, manager>>
    BY <1>1 DEF Register, TakesLock, nodeVars
  <2>2. NodesTyped' /\ ManagerTyped'
    BY <2>1 DEF Typed, NodesTyped, ManagerTyped, nodeVars
  <2>3. AppTyped'
    <3>1. CASE app' = [app EXCEPT ![n] = Idle]
      BY <3>1, ThreadAt, IdleTyped DEF Typed
    <3>2. CASE Sends(n, call, Registration(call.offer, clock'))
      <4> DEFINE a == [pc |-> "send", op |-> call.op, lock |-> call.lock,
                       reg |-> Registration(call.offer, clock')]
      <4>1. call.op = "register" /\ call.offer \in OffersOf[n]
            /\ call.lock = LockOf(call.offer.type)
        BY <1>1 DEF Register, CallTyped
      <4>2. /\ Registration(call.offer, clock') \in Regs
            /\ Registration(call.offer, clock').type = call.offer.type
        BY <1>0, <4>1, RegistrationTyped
      <4>3. ThreadTyped(n, a)
        BY <4>1, <4>2 DEF ThreadTyped
      <4>4. app' = [app EXCEPT ![n] = a]
        BY <3>2 DEF Sends
      <4> HIDE DEF a
      <4>. QED
        BY <4>3, <4>4, ThreadAt DEF Typed
    <3>. QED
      BY <1>1, <3>1, <3>2 DEF Register
  <2>. QED
    BY <1>0, <2>2, <2>3 DEF Typed
<1>2. CASE Unregister(n, call)
  <2>1. PICK r \in offers[n] :
          /\ OfferOf(r) = call.offer
          /\ offers' = [offers EXCEPT ![n] = @ \ {r}]
          /\ Sends(n, call, r)
    BY <1>2 DEF Unregister
  <2>2. NodesTyped' /\ ManagerTyped'
    BY <1>2, <2>1 DEF Unregister, TakesLock, Typed, NodesTyped, ManagerTyped
  <2> DEFINE a == [pc |-> "send", op |-> call.op, lock |-> call.lock, reg |-> r]
  <2>3. /\ call.op = "unregister" /\ r \in Regs /\ call.offer.type = r.type
        /\ call.lock = LockOf(r.type)
    BY <1>2, <2>1 DEF Unregister, CallTyped, OfferOf, Typed, NodesTyped
  <2>4. ThreadTyped(n, a)
    BY <2>3 DEF ThreadTyped
  <2>5. app' = [app EXCEPT ![n] = a]
    BY <2>1 DEF Sends
  <2> HIDE DEF a
  <2>6. AppTyped'
    BY <2>4, <2>5, ThreadAt DEF Typed
  <2>. QED
    BY <1>0, <2>2, <2>6 DEF Typed
<1>3. CASE Subscribe(n, call)
  <2>1. NodesTyped' /\ ManagerTyped'
    BY <1>3 DEF Subscribe, TakesLock, Typed, NodesTyped, ManagerTyped
  <2> DEFINE a == [pc |-> "send", op |-> call.op, lock |-> call.lock, reg |-> {}]
  <2>2. ThreadTyped(n, a)
    BY <1>3 DEF Subscribe, CallTyped, ThreadTyped
  <2>3. app' = [app EXCEPT ![n] = a]
    BY <1>3 DEF Subscribe, Sends
  <2> HIDE DEF a
  <2>4. AppTyped'
    BY <2>2, <2>3, ThreadAt DEF Typed
  <2>. QED
    BY <1>0, <2>1, <2>4 DEF Typed
<1>4. CASE Unsubscribe(n, call)
  <2>1. NodesTyped'
    BY <1>4 DEF Unsubscribe, TakesLock, Typed, NodesTyped
  <2>2. NoDetails \in Details
    BY DEF NoDetails, Details
  <2>3. ManagerTyped'
    BY <1>4, <2>2, DetailsAt DEF Unsubscribe, Typed
  <2>4. AppTyped'
    BY <1>4, ThreadAt, IdleTyped DEF Unsubscribe, Typed
  <2>. QED
    BY <1>0, <2>1, <2>3, <2>4 DEF Typed
<1>. QED
  BY <1>1, <1>2, <1>3, <1>4 DEF Operation

LEMMA WaitTyped ==
    ASSUME Typed, NEW n \in Nodes, NEW call, CallTyped(n, call), Wait(n, call)
    PROVE  Typed'
<1> DEFINE a == [pc |-> "wait", call |-> call, lock |-> call.lock]
<1>1. ThreadTyped(n, a)
  BY DEF ThreadTyped
<1>2. app' = [app EXCEPT ![n] = a]
  BY DEF Wait
<1> HIDE DEF a
<1>3. AppTyped'
  BY <1>1, <1>2, ThreadAt DEF Typed
<1>4. DirectoryTyped'
  BY ReregisterAssumption DEF Wait, Typed, DirectoryTyped, Times
<1>. QED
  BY <1>3, <1>4 DEF Wait, Typed, nodeVars, NodesTyped, ManagerTyped, ListenerTyped

LEMMA FoundTyped ==
    ASSUME Typed
    PROVE  Found.publishers \subseteq Publisher /\ Found.updates \in UpdatesUrls
<1>1. directory.listed \in SUBSET Entries /\ directory.updates \in UpdatesUrls
  BY DEF Typed, DirectoryTyped
<1>2. Publishers(directory.listed) \subseteq Publisher
  BY <1>1, PublishersTyped
<1>. QED
  BY <1>1, <1>2 DEF Found

LEMMA AddedTyped ==
    ASSUME NEW d \in Details, NEW found,
           found.publishers \subseteq Publisher, found.updates \in UpdatesUrls
    PROVE  AddedSubscription(d, found) \in Details
<1>1. d.known \cup {p \in found.publishers : \A k \in d.known : k.node # p.node}
        \in SUBSET Publisher
  BY DEF Details
<1>2. (IF d.update = NoUrl THEN found.updates ELSE d.update) \in UpdatesUrls \cup {NoUrl}
  BY DEF Details
<1>. QED
  BY <1>1, <1>2 DEF AddedSubscription, Details

LEMMA RequestTyped ==
    ASSUME Typed, NEW n \in Nodes,
           RequestAnswered(n) \/ RequestFailed(n) \/ Complete(n)
    PROVE  Typed'
<1> DEFINE a == app[n]
<1>0. ThreadTyped(n, a)
  BY DEF Typed, AppTyped
<1>1. CASE RequestFailed(n)
  <2>1. AppTyped'
    BY <1>1, ThreadAt, IdleTyped DEF RequestFailed, Typed
  <2>. QED
    BY <1>1, <2>1
    DEF RequestFailed, Typed, nodeVars, DirectoryTyped, NodesTyped, ManagerTyped,
        ListenerTyped
<1>2. CASE RequestAnswered(n)
  <2>1. /\ a.pc = "send" /\ a.op \in {"register", "unregister", "subscribe"}
        /\ UNCHANGED <<starts, clock, datagrams, nodeVars, listener>>
    BY <1>0, <1>2 DEF RequestAnswered, ThreadTyped
  <2>2. NodesTyped' /\ ListenerTyped'
    BY <2>1 DEF Typed, nodeVars, NodesTyped, ListenerTyped
  <2>3. CASE a.op = "register"
    <3> DEFINE b == [pc |-> "done", op |-> a.op, lock |-> a.lock, reg |-> a.reg]
    <3>1. HandleRegister(n, a.reg) /\ app' = [app EXCEPT ![n] = b]
      BY <1>2, <2>3 DEF RequestAnswered
    <3>2. a.reg \in Regs /\ a.lock = LockOf(a.reg.type)
      BY <1>0, <2>1, <2>3 DEF ThreadTyped
    <3>3. ThreadTyped(n, b)
      BY <2>3, <3>2 DEF ThreadTyped
    <3> HIDE DEF a, b
    <3>4. AppTyped'
      BY <3>1, <3>3, ThreadAt DEF Typed
    <3>5. DirectoryTyped' /\ ManagerTyped'
      BY <2>1, <3>1, <3>2, Registered DEF Typed
    <3>. QED
      BY <2>2, <3>4, <3>5 DEF Typed
  <2>4. CASE a.op = "unregister"
    <3>1. HandleUnregister(n, a.reg) /\ app' = [app EXCEPT ![n] = Idle]
      BY <1>2, <2>4 DEF RequestAnswered
    <3>2. a.reg \in Regs
      BY <1>0, <2>1, <2>4 DEF ThreadTyped
    <3> HIDE DEF a
    <3>3. AppTyped'
      BY <3>1, IdleTyped, ThreadAt DEF Typed
    <3>4. DirectoryTyped' /\ ManagerTyped'
      BY <2>1, <3>1, <3>2, Unregistered DEF Typed
    <3>. QED
      BY <2>2, <3>3, <3>4 DEF Typed
  <2>5. CASE a.op = "subscribe"
    <3> DEFINE b == [pc |-> "done", op |-> a.op, lock |-> a.lock, found |-> Found]
    <3>1. app' = [app EXCEPT ![n] = b] /\ UNCHANGED <<directory, manager>>
      BY <1>2, <2>5 DEF RequestAnswered
    <3>2. a.lock = "subscribe"
      BY <1>0, <2>1, <2>5 DEF ThreadTyped
    <3>3. ThreadTyped(n, b)
      BY <2>5, <3>2, FoundTyped DEF ThreadTyped
    <3> HIDE DEF a, b
    <3>4. AppTyped'
      BY <3>1, <3>3, ThreadAt DEF Typed
    <3>. QED
      BY <2>1, <2>2, <3>1, <3>4 DEF Typed, DirectoryTyped, ManagerTyped
  <2>. QED
    BY <2>1, <2>3, <2>4, <2>5
<1>3. CASE Complete(n)
  <2>1. /\ a.pc = "done" /\ a.op \in {"register", "subscribe"}
        /\ app' = [app EXCEPT ![n] = Idle]
        /\ UNCHANGED <<directory, starts, clock, datagrams, heard, initSucceeded,
                       serviceDirectoryNode, listener>>
    BY <1>0, <1>3 DEF Complete, ThreadTyped
  <2>2. AppTyped'
    BY <2>1, ThreadAt, IdleTyped DEF Typed
  <2>3. DirectoryTyped' /\ ListenerTyped'
    BY <2>1 DEF Typed, DirectoryTyped, ListenerTyped
  <2>4. CASE a.op = "register"
    <3>1. /\ offers' = [offers EXCEPT ![n] = @ \cup {a.reg}]
          /\ UNCHANGED <<subscriptionList, manager>>
      BY <1>3, <2>4 DEF Complete
    <3>2. a.reg \in Regs
      BY <1>0, <2>1, <2>4 DEF ThreadTyped
    <3> HIDE DEF a
    <3>3. NodesTyped' /\ ManagerTyped'
      BY <2>1, <3>1, <3>2 DEF Typed, NodesTyped, ManagerTyped
    <3>. QED
      BY <2>2, <2>3, <3>3 DEF Typed
  <2>5. CASE a.op = "subscribe"
    <3>1. /\ subscriptionList' = [subscriptionList EXCEPT ![n] = @ + 1]
          /\ manager' = [manager EXCEPT ![n] = AddedSubscription(manager[n], a.found)]
          /\ UNCHANGED offers
      BY <1>3, <2>5 DEF Complete
    <3>2. a.found.publishers \subseteq Publisher /\ a.found.updates \in UpdatesUrls
      BY <1>0, <2>1, <2>5 DEF ThreadTyped
    <3> HIDE DEF a
    <3>3. NodesTyped'
      BY <2>1, <3>1 DEF Typed, NodesTyped
    <3>4. AddedSubscription(manager[n], a.found) \in Details
      <4>1. manager[n] \in Details
        BY DEF Typed, ManagerTyped
      <4>. QED
        BY <3>2, <4>1, AddedTyped
    <3>5. ManagerTyped'
      BY <3>1, <3>4, DetailsAt DEF Typed
    <3>. QED
      BY <2>2, <2>3, <3>3, <3>5 DEF Typed
  <2>. QED
    BY <2>1, <2>4, <2>5
<1>. QED
  BY <1>1, <1>2, <1>3

LEMMA ManagerStepTyped ==
    ASSUME Typed, NEW n \in Nodes, ManagerStep(n)
    PROVE  Typed'
<1> DEFINE d == manager[n]
<1>1. d \in Details
  BY DEF Typed, ManagerTyped
<1>2. directory.cache \in {NoUpdate} \cup SUBSET Publisher
  BY DEF Typed, DirectoryTyped
<1>3. CASE JoinUpdates(n)
  <2> DEFINE w == IF directory.cache = NoUpdate THEN d.waiting ELSE directory.cache
  <2>1. w \in {NoUpdate} \cup SUBSET Publisher
    BY <1>1, <1>2 DEF Details
  <2>2. manager' = [manager EXCEPT ![n] = [d EXCEPT !.joined = TRUE, !.waiting = w]]
    BY <1>3 DEF JoinUpdates, Typed, ManagerTyped, Details
  <2> HIDE DEF w, d
  <2>3. [d EXCEPT !.joined = TRUE, !.waiting = w] \in Details
    BY <1>1, <2>1 DEF Details
  <2>4. ManagerTyped'
    BY <2>2, <2>3, DetailsAt DEF Typed
  <2>. QED
    BY <1>3, <2>4
    DEF JoinUpdates, Typed, nodeVars, DirectoryTyped, NodesTyped, ListenerTyped, AppTyped
<1>4. CASE TakeUpdate(n)
  <2>1. manager' = [manager EXCEPT ![n] =
                      [d EXCEPT !.known = d.waiting, !.waiting = NoUpdate]]
    BY <1>4 DEF TakeUpdate, Typed, ManagerTyped, Details
  <2>2. d.waiting \in SUBSET Publisher
    BY <1>1, <1>4 DEF TakeUpdate, Details
  <2> HIDE DEF d
  <2>3. [d EXCEPT !.known = d.waiting, !.waiting = NoUpdate] \in Details
    BY <1>1, <2>2 DEF Details
  <2>4. ManagerTyped'
    BY <2>1, <2>3, DetailsAt DEF Typed
  <2>. QED
    BY <1>4, <2>4
    DEF TakeUpdate, Typed, nodeVars, DirectoryTyped, NodesTyped, ListenerTyped, AppTyped
<1>. QED
  BY <1>3, <1>4 DEF ManagerStep

\* What becomes of the listener in each of its steps.
LEMMA Heard ==
    ASSUME Typed, NEW n \in Nodes, NEW m \in datagrams[n], Hear(n, m)
    PROVE  LET l == listener[n]
           IN  /\ l.pc = "listen" /\ l.seen \in Int /\ m.start \in Int
               /\ m.url \in DirectoryUrls
               /\ ListenerTyped'
               /\ listener'[n].todo = l.todo
               /\ \/ listener'[n] = l /\ m.start <= l.seen
                  \/ /\ l.seen < m.start /\ l.seen = 0
                     /\ listener'[n].seen = m.start
                     /\ listener'[n].pc = "listen" /\ listener'[n].message = l.message
                  \/ /\ l.seen < m.start /\ l.seen # 0
                     /\ listener'[n].seen = l.seen
                     /\ listener'[n].pc = "update" /\ listener'[n].message = m
               /\ \A k \in Nodes \ {n} : listener'[k] = listener[k]
<1> DEFINE l == listener[n]
           e == IF ~Restarted(l, m) THEN l
                ELSE IF l.seen = 0 THEN [l EXCEPT !.seen = m.start]
                ELSE [l EXCEPT !.pc = "update", !.message = m]
<1>1. l \in Listeners /\ TodoTyped(l) /\ l.pc = "listen"
  BY DEF Typed, ListenerTyped, Hear
<1>2. m \in [start : Int, url : DirectoryUrls]
  BY DEF Typed, NodesTyped
<1>3. m \in Messages /\ m.start \in Int /\ m.url \in DirectoryUrls
  BY <1>2 DEF Messages
<1>4. listener' = [listener EXCEPT ![n] = e]
  BY DEF Hear
<1>5. l.seen \in Int
  BY <1>1 DEF Listeners
<1> HIDE DEF l
<1>6. /\ e \in Listeners /\ e.todo = l.todo
      /\ \/ e = l /\ m.start <= l.seen
         \/ /\ l.seen < m.start /\ l.seen = 0
            /\ e.seen = m.start /\ e.pc = "listen" /\ e.message = l.message
         \/ /\ l.seen < m.start /\ l.seen # 0
            /\ e.seen = l.seen /\ e.pc = "update" /\ e.message = m
  <2>1. CASE ~Restarted(l, m)
    BY <1>1, <1>3, <1>5, <2>1 DEF Restarted
  <2>2. CASE Restarted(l, m) /\ l.seen = 0
    BY <1>1, <1>3, <1>5, <2>2 DEF Restarted, Listeners
  <2>3. CASE Restarted(l, m) /\ l.seen # 0
    BY <1>1, <1>3, <1>5, <2>3 DEF Restarted, Listeners, Places
  <2>. QED
    BY <2>1, <2>2, <2>3
<1> HIDE DEF e
<1>7. TodoTyped(e)
  BY <1>1, <1>6 DEF TodoTyped
<1>8. ListenerTyped' /\ listener'[n] = e /\ \A k \in Nodes \ {n} : listener'[k] = listener[k]
  BY <1>4, <1>6, <1>7, ListenerAt DEF Typed
<1>. QED
  BY <1>1, <1>3, <1>5, <1>6, <1>8 DEF l

\* An item of a stage is dealt with.
LEMMA ItemTaken ==
    ASSUME Typed, NEW n \in Nodes, NEW item \in listener[n].todo,
           listener' = [listener EXCEPT ![n].todo = @ \ {item}]
    PROVE  LET l == listener[n]
           IN  /\ ListenerTyped'
               /\ listener'[n].pc = l.pc /\ listener'[n].seen = l.seen
               /\ listener'[n].message = l.message
               /\ listener'[n].todo = l.todo \ {item}
               /\ \A k \in Nodes \ {n} : listener'[k] = listener[k]
<1> DEFINE l == listener[n]
           e == [l EXCEPT !.todo = l.todo \ {item}]
<1>1. l \in Listeners /\ TodoTyped(l)
  BY DEF Typed, ListenerTyped
<1>2. listener' = [listener EXCEPT ![n] = e]
  BY DEF Typed, ListenerTyped, Listeners
<1> HIDE DEF l
<1>3. /\ e \in Listeners /\ e.pc = l.pc /\ e.seen = l.seen /\ e.message = l.message
      /\ e.todo = l.todo \ {item}
  BY <1>1 DEF Listeners
<1> HIDE DEF e
<1>4. TodoTyped(e)
  BY <1>1, <1>3 DEF TodoTyped
<1>5. ListenerTyped' /\ listener'[n] = e /\ \A k \in Nodes \ {n} : listener'[k] = listener[k]
  BY <1>2, <1>3, <1>4, ListenerAt DEF Typed
<1>. QED
  BY <1>3, <1>5 DEF l

\* A stage begins, or is waited for.
LEMMA StageEntered ==
    ASSUME Typed, NEW n \in Nodes, NEW lock \in Locks,
           listener' = [listener EXCEPT ![n] = EnterStage(n, listener[n], lock)]
    PROVE  LET l == listener[n]
           IN  /\ ListenerTyped'
               /\ listener'[n].seen = l.seen /\ listener'[n].message = l.message
               /\ \/ /\ AppHolds(n, lock) /\ listener'[n].pc = Waiting[lock]
                     /\ listener'[n].todo = {}
                  \/ /\ ~AppHolds(n, lock) /\ listener'[n].pc = lock
                     /\ listener'[n].todo = StageItems(n, lock)
               /\ \A k \in Nodes \ {n} : listener'[k] = listener[k]
<1> DEFINE l == listener[n]
           e == EnterStage(n, l, lock)
<1>1. l \in Listeners
  BY DEF Typed, ListenerTyped
<1>2. /\ e \in Listeners /\ TodoTyped(e)
      /\ e.seen = l.seen /\ e.message = l.message
      /\ \/ MustWait(n, lock) /\ e.pc = Waiting[lock] /\ e.todo = {}
         \/ ~MustWait(n, lock) /\ e.pc = lock /\ e.todo = StageItems(n, lock)
  BY <1>1, Entering DEF Typed
<1>3. listener' = [listener EXCEPT ![n] = e]
  OBVIOUS
<1> HIDE DEF e
<1>4. ListenerTyped' /\ listener'[n] = e /\ \A k \in Nodes \ {n} : listener'[k] = listener[k]
  BY <1>2, <1>3, ListenerAt DEF Typed
<1>. QED
  BY <1>2, <1>4 DEF MustWait

\* The last stage is over.
LEMMA ReregistrationEnded ==
    ASSUME Typed, NEW n \in Nodes, LeaveStage(n), listener[n].pc = "subscribe"
    PROVE  LET l == listener[n]
           IN  /\ ListenerTyped'
               /\ listener'[n].seen = l.message.start /\ listener'[n].message = l.message
               /\ listener'[n].pc = "listen" /\ listener'[n].todo = {}
               /\ \A k \in Nodes \ {n} : listener'[k] = listener[k]
<1> DEFINE l == listener[n]
           e == [l EXCEPT !.pc = "listen", !.seen = l.message.start]
<1>1. l \in Listeners /\ l.todo = {}
  BY DEF Typed, ListenerTyped, LeaveStage
<1>2. l.message.start \in Int
  BY <1>1 DEF Listeners, Messages
<1>3. listener' = [listener EXCEPT ![n] = e]
  BY DEF LeaveStage
<1> HIDE DEF l
<1>4. /\ e \in Listeners /\ e.pc = "listen" /\ e.seen = l.message.start
      /\ e.message = l.message /\ e.todo = {}
  BY <1>1, <1>2 DEF Listeners, Places
<1> HIDE DEF e
<1>5. TodoTyped(e)
  BY <1>4 DEF TodoTyped
<1>6. ListenerTyped' /\ listener'[n] = e /\ \A k \in Nodes \ {n} : listener'[k] = listener[k]
  BY <1>3, <1>4, <1>5, ListenerAt DEF Typed
<1>. QED
  BY <1>4, <1>6 DEF l

LEMMA ListenerStepTyped ==
    ASSUME Typed, NEW n \in Nodes, ListenerStep(n)
    PROVE  Typed'
<1>1. ASSUME NEW m \in datagrams[n], Hear(n, m) PROVE Typed'
  <2>1. ListenerTyped' /\ m.url \in DirectoryUrls
    BY <1>1, Heard
  <2>2. NodesTyped'
    BY <1>1, <2>1 DEF Hear, Typed, NodesTyped
  <2>. QED
    BY <1>1, <2>1, <2>2 DEF Hear, Typed, DirectoryTyped, ManagerTyped, AppTyped
<1>2. CASE UpdateServiceDirectoryUrl(n)
  <2>1. ListenerTyped'
    BY <1>2, StageEntered, Names DEF UpdateServiceDirectoryUrl
  <2>2. listener[n].message.url \in DirectoryUrls \cup {NoUrl}
    <3>1. listener[n] \in Listeners
      BY DEF Typed, ListenerTyped
    <3>. QED
      BY <3>1 DEF Listeners, Messages
  <2>3. NodesTyped'
    BY <1>2, <2>2 DEF UpdateServiceDirectoryUrl, Typed, NodesTyped
  <2>. QED
    BY <1>2, <2>1, <2>3
    DEF UpdateServiceDirectoryUrl, Typed, DirectoryTyped, ManagerTyped, AppTyped
<1>3. ASSUME NEW lock \in Locks, LockReleased(n, lock) PROVE Typed'
  <2>1. ListenerTyped'
    BY <1>3, StageEntered DEF LockReleased
  <2>. QED
    BY <1>3, <2>1
    DEF LockReleased, Typed, nodeVars, DirectoryTyped, NodesTyped, ManagerTyped, AppTyped
<1>4. ASSUME NEW item \in listener[n].todo, ItemAnswered(n, item) PROVE Typed'
  <2>1. ListenerTyped'
    BY <1>4, ItemTaken DEF ItemAnswered
  <2>2. UNCHANGED <<starts, clock, datagrams, heard, initSucceeded,
                    serviceDirectoryNode, offers, app>>
    BY <1>4 DEF ItemAnswered
  <2>3. CASE listener[n].pc = "subscribe"
    <3>1. /\ subscriptionList' = [subscriptionList EXCEPT ![n] = @ + 1]
          /\ manager' = [manager EXCEPT ![n] = AddedSubscription(manager[n], Found)]
          /\ UNCHANGED directory
      BY <1>4, <2>3 DEF ItemAnswered
    <3>2. NodesTyped'
      BY <2>2, <3>1 DEF Typed, NodesTyped
    <3>3. AddedSubscription(manager[n], Found) \in Details
      <4>1. manager[n] \in Details
        BY DEF Typed, ManagerTyped
      <4>. QED
        BY <4>1, FoundTyped, AddedTyped
    <3>4. ManagerTyped'
      BY <3>1, <3>3, DetailsAt DEF Typed
    <3>. QED
      BY <2>1, <2>2, <3>1, <3>2, <3>4 DEF Typed, DirectoryTyped, AppTyped
  <2>4. CASE listener[n].pc # "subscribe"
    <3>1. HandleRegister(n, item) /\ UNCHANGED subscriptionList
      BY <1>4, <2>4 DEF ItemAnswered
    <3>2. item \in Regs
      BY <1>4, <2>4 DEF Typed, ListenerTyped, TodoTyped
    <3>3. DirectoryTyped' /\ ManagerTyped'
      BY <2>2, <3>1, <3>2, Registered DEF Typed
    <3>. QED
      BY <2>1, <2>2, <3>1, <3>3 DEF Typed, NodesTyped, AppTyped
  <2>. QED
    BY <2>3, <2>4
<1>5. ASSUME NEW item \in listener[n].todo, ItemGivenUp(n, item) PROVE Typed'
  <2>1. ListenerTyped'
    BY <1>5, ItemTaken DEF ItemGivenUp
  <2>. QED
    BY <1>5, <2>1
    DEF ItemGivenUp, Typed, nodeVars, DirectoryTyped, NodesTyped, ManagerTyped, AppTyped
<1>6. CASE LeaveStage(n)
  <2>1. CASE listener[n].pc = "subscribe"
    BY <1>6, <2>1, ReregistrationEnded
    DEF LeaveStage, Typed, nodeVars, DirectoryTyped, NodesTyped, ManagerTyped, AppTyped
  <2>2. CASE listener[n].pc # "subscribe"
    <3>1. /\ listener' = [listener EXCEPT ![n] =
                            EnterStage(n, listener[n], After[listener[n].pc])]
          /\ After[listener[n].pc] \in Locks
      BY <1>6, <2>2, Names DEF LeaveStage
    <3>2. ListenerTyped'
      BY <3>1, StageEntered
    <3>. QED
      BY <1>6, <3>2
      DEF LeaveStage, Typed, nodeVars, DirectoryTyped, NodesTyped, ManagerTyped, AppTyped
  <2>. QED
    BY <2>1, <2>2
<1>. QED
  BY <1>1, <1>2, <1>3, <1>4, <1>5, <1>6 DEF ListenerStep

LEMMA NextTyped == ASSUME Typed, [Next]_vars PROVE Typed'
<1>1. CASE Crash \/ Restart
  BY <1>1, DirectoryStepTyped
<1>2. ASSUME NEW n \in Nodes, Broadcast(n) \/ InitNode(n) PROVE Typed'
  BY <1>2, BroadcastTyped
<1>3. ASSUME NEW n \in Nodes, NEW call \in Operations(n),
             Wait(n, call) \/ Operation(n, call)
      PROVE  Typed'
  BY <1>3, CallsTyped, WaitTyped, OperationTyped
<1>4. ASSUME NEW n \in Nodes, OperationStep(n) PROVE Typed'
  <2>1. CASE app[n].pc = "wait" /\ Operation(n, app[n].call)
    <3>1. CallTyped(n, app[n].call)
      BY <2>1 DEF Typed, AppTyped, ThreadTyped
    <3>. QED
      BY <2>1, <3>1, OperationTyped
  <2>. QED
    BY <1>4, <2>1, RequestTyped DEF OperationStep
<1>5. ASSUME NEW n \in Nodes, ListenerStep(n) PROVE Typed'
  BY <1>5, ListenerStepTyped
<1>6. ASSUME NEW n \in Nodes, ManagerStep(n) PROVE Typed'
  BY <1>6, ManagerStepTyped
<1>7. CASE UNCHANGED vars
  BY <1>7 DEF vars, nodeVars, Typed, DirectoryTyped, NodesTyped, ManagerTyped,
              ListenerTyped, AppTyped
<1>. QED
  BY <1>1, <1>2, <1>3, <1>4, <1>5, <1>6, <1>7 DEF Next

(***************************************************************************)
(* The locks.                                                              *)
(***************************************************************************)

\* The application and the listener of a node do not hold a lock together,
\* and what the listener still has to do in a stage is there.
Exclusive(n) ==
    /\ ~initSucceeded[n] => app[n] = Idle /\ offers[n] = {}
    /\ \A lock \in Locks : ListenerHolds(n, lock) => ~AppHolds(n, lock)
    /\ listener[n].pc \in {"publish", "service"} =>
         listener[n].todo \subseteq StageItems(n, listener[n].pc)
    /\ listener[n].pc = "subscribe" /\ listener[n].todo # {} => subscriptionList[n] > 0

\* The threads of a node and its maps are left alone.
SameThreads(n) ==
    /\ app'[n] = app[n] /\ listener'[n] = listener[n]
    /\ offers'[n] = offers[n] /\ subscriptionList'[n] = subscriptionList[n]

LEMMA ExclusiveFrame ==
    ASSUME NEW n \in Nodes, Exclusive(n), SameThreads(n), initSucceeded'[n] = initSucceeded[n]
    PROVE  Exclusive(n)'
  BY DEF Exclusive, SameThreads, ListenerHolds, AppHolds, StageItems

LEMMA ExclusiveInit == ASSUME Init, NEW n \in Nodes PROVE Exclusive(n)
  BY Names DEF Init, Exclusive, ListenerHolds, AppHolds, Idle

\* The steps of the application.
LEMMA ExclusiveApp ==
    ASSUME Typed, NEW n \in Nodes, Exclusive(n), NEW call, CallTyped(n, call),
           Wait(n, call) \/ Operation(n, call)
    PROVE  Exclusive(n)'
<1>0. /\ listener' = listener /\ initSucceeded' = initSucceeded
      /\ listener[n].todo \subseteq Regs \/ listener[n].pc = "subscribe"
      /\ DOMAIN app = Nodes /\ offers \in [Nodes -> SUBSET Regs]
      /\ subscriptionList \in [Nodes -> Nat]
  BY DEF Wait, Operation, Register, Unregister, Subscribe, Unsubscribe, TakesLock, nodeVars,
         Typed, ListenerTyped, TodoTyped, AppTyped, NodesTyped
<1>1. initSucceeded[n]
  <2>1. app[n] = Idle \/ app[n].pc = "wait"
    BY DEF Wait, Operation, Register, Unregister, Subscribe, Unsubscribe, TakesLock
  <2>2. app[n] = Idle => initSucceeded[n]
    BY DEF Wait, Operation, Register, Unregister, Subscribe, Unsubscribe, TakesLock, Idle
  <2>3. app[n].pc = "wait" => app[n] # Idle
    BY DEF Idle
  <2>. QED
    BY <2>1, <2>2, <2>3 DEF Exclusive, Typed, NodesTyped
<1>2. CASE Wait(n, call)
  <2>1. app'[n].pc = "wait" /\ UNCHANGED <<offers, subscriptionList>>
    BY <1>0, <1>2 DEF Wait, nodeVars
  <2>. QED
    BY <1>0, <1>1, <2>1 DEF Exclusive, ListenerHolds, AppHolds, StageItems
<1>3. ASSUME ~ListenerHolds(n, call.lock), UNCHANGED <<offers, subscriptionList>>,
             app'[n] = Idle \/ (app'[n].pc = "send" /\ app'[n].lock = call.lock)
      PROVE  Exclusive(n)'
  BY <1>0, <1>1, <1>3 DEF Exclusive, ListenerHolds, AppHolds, StageItems, Idle
<1>4. CASE Register(n, call) \/ Subscribe(n, call)
  BY <1>0, <1>3, <1>4 DEF Register, Subscribe, Sends, TakesLock
<1>5. CASE Unregister(n, call)
  <2>1. PICK r \in offers[n] :
          /\ OfferOf(r) = call.offer
          /\ offers' = [offers EXCEPT ![n] = @ \ {r}]
          /\ Sends(n, call, r)
    BY <1>5 DEF Unregister
  <2>2. call.lock = LockOf(r.type) /\ ~ListenerHolds(n, call.lock)
        /\ UNCHANGED subscriptionList
    BY <1>5, <2>1 DEF Unregister, CallTyped, OfferOf, TakesLock
  <2>3. app'[n].pc = "send" /\ app'[n].lock = call.lock
    BY <1>0, <2>1 DEF Sends
  <2>4. offers'[n] = offers[n] \ {r}
    BY <1>0, <2>1
  <2>. QED
    BY <1>0, <1>1, <2>2, <2>3, <2>4
    DEF Exclusive, ListenerHolds, AppHolds, StageItems
<1>6. CASE Unsubscribe(n, call)
  <2>1. call.lock = "subscribe" /\ ~ListenerHolds(n, "subscribe") /\ UNCHANGED offers
    BY <1>6 DEF Unsubscribe, CallTyped, TakesLock
  <2>2. app'[n] = Idle
    BY <1>0, <1>6 DEF Unsubscribe
  <2>. QED
    BY <1>0, <1>1, <2>1, <2>2
    DEF Exclusive, ListenerHolds, AppHolds, StageItems, Idle
<1>. QED
  BY <1>2, <1>4, <1>5, <1>6 DEF Operation

LEMMA ExclusiveRequest ==
    ASSUME Typed, NEW n \in Nodes, Exclusive(n),
           RequestAnswered(n) \/ RequestFailed(n) \/ Complete(n)
    PROVE  Exclusive(n)'
<1>0. /\ listener' = listener /\ initSucceeded' = initSucceeded
      /\ DOMAIN app = Nodes /\ offers \in [Nodes -> SUBSET Regs]
      /\ subscriptionList \in [Nodes -> Nat]
  BY DEF RequestAnswered, RequestFailed, Complete, nodeVars, Typed, AppTyped, NodesTyped
<1>1. app[n].pc \in {"send", "done"} /\ app[n] # Idle
  <2>1. app[n].pc = "send" \/ app[n].pc = "done"
    <3>1. RequestAnswered(n) => app[n].pc = "send"
      BY DEF RequestAnswered
    <3>2. RequestFailed(n) => app[n].pc = "send"
      BY DEF RequestFailed
    <3>3. Complete(n) => app[n].pc = "done"
      BY DEF Complete
    <3>. QED
      BY <3>1, <3>2, <3>3
  <2>. QED
    BY <2>1 DEF Idle
<1>2. initSucceeded[n]
  BY <1>1 DEF Exclusive, Typed, NodesTyped
<1>3. ThreadTyped(n, app[n])
  BY DEF Typed, AppTyped
<1>4. CASE RequestAnswered(n) \/ RequestFailed(n)
  <2>1. UNCHANGED <<offers, subscriptionList>>
    BY <1>4 DEF RequestAnswered, RequestFailed, nodeVars
  <2>2. app'[n] = Idle \/ app'[n].lock = app[n].lock
    <3>1. CASE RequestFailed(n)
      BY <1>0, <3>1 DEF RequestFailed
    <3>2. CASE RequestAnswered(n)
      <4>1. app[n].op \in {"register", "unregister", "subscribe"}
        BY <1>3, <3>2 DEF RequestAnswered, ThreadTyped
      <4>2. CASE app[n].op = "register"
        BY <1>0, <3>2, <4>2 DEF RequestAnswered
      <4>3. CASE app[n].op = "unregister"
        BY <1>0, <3>2, <4>3 DEF RequestAnswered
      <4>4. CASE app[n].op = "subscribe"
        BY <1>0, <3>2, <4>4 DEF RequestAnswered
      <4>. QED
        BY <4>1, <4>2, <4>3, <4>4
    <3>. QED
      BY <1>4, <3>1, <3>2
  <2>. QED
    BY <1>0, <1>1, <1>2, <2>1, <2>2
    DEF Exclusive, ListenerHolds, AppHolds, StageItems, Idle
<1>5. CASE Complete(n)
  <2>1. app'[n] = Idle
    BY <1>0, <1>5 DEF Complete
  <2>2. offers[n] \subseteq offers'[n] /\ subscriptionList'[n] >= subscriptionList[n]
        /\ subscriptionList'[n] \in Nat /\ subscriptionList[n] \in Nat
    BY <1>0, <1>5 DEF Complete
  <2>. QED
    BY <1>0, <1>2, <2>1, <2>2
    DEF Exclusive, ListenerHolds, AppHolds, StageItems, Idle
<1>. QED
  BY <1>4, <1>5

\* The steps of the listener.
LEMMA ExclusiveListener ==
    ASSUME Typed, NEW n \in Nodes, Exclusive(n), ListenerStep(n)
    PROVE  Exclusive(n)'
<1>0. subscriptionList[n] \in Nat /\ listener[n].pc \in Places
  BY DEF Typed, NodesTyped, ListenerTyped, Listeners
<1>1. ASSUME NEW m \in datagrams[n], Hear(n, m) PROVE Exclusive(n)'
  <2>1. listener'[n].pc \in {"listen", "update"}
    BY <1>1, Heard
  <2>2. UNCHANGED <<app, offers, initSucceeded>>
    BY <1>1 DEF Hear
  <2>. QED
    BY <2>1, <2>2, Names DEF Exclusive, ListenerHolds
<1>2. ASSUME NEW lock \in Locks,
             listener' = [listener EXCEPT ![n] = EnterStage(n, listener[n], lock)],
             UNCHANGED <<app, offers, initSucceeded, subscriptionList>>
      PROVE  Exclusive(n)'
  <2>1. CASE listener'[n].pc = Waiting[lock]
    <3>1. listener'[n].pc \notin Locks
      BY <2>1, Names
    <3>. QED
      BY <1>2, <3>1, Names DEF Exclusive, ListenerHolds
  <2>2. CASE /\ ~AppHolds(n, lock) /\ listener'[n].pc = lock
             /\ listener'[n].todo = StageItems(n, lock)
    <3>1. ~AppHolds(n, lock)' /\ StageItems(n, lock)' = StageItems(n, lock)
      BY <1>2, <2>2 DEF AppHolds, StageItems
    <3>2. lock = "subscribe" /\ StageItems(n, lock) # {} => subscriptionList[n] > 0
      BY <1>0 DEF StageItems
    <3>. QED
      BY <1>2, <2>2, <3>1, <3>2 DEF Exclusive, ListenerHolds
  <2>. QED
    BY <1>2, <2>1, <2>2, StageEntered
<1>3. CASE UpdateServiceDirectoryUrl(n)
  BY <1>2, <1>3, Names DEF UpdateServiceDirectoryUrl
<1>4. ASSUME NEW lock \in Locks, LockReleased(n, lock) PROVE Exclusive(n)'
  BY <1>2, <1>4 DEF LockReleased, nodeVars
<1>5. ASSUME NEW item \in listener[n].todo,
             listener' = [listener EXCEPT ![n].todo = @ \ {item}],
             UNCHANGED <<app, offers, initSucceeded>>,
             subscriptionList'[n] \in Nat, subscriptionList'[n] >= subscriptionList[n]
      PROVE  Exclusive(n)'
  <2>1. listener'[n].pc = listener[n].pc /\ listener'[n].todo = listener[n].todo \ {item}
    BY <1>5, ItemTaken
  <2>2. listener[n].pc \in {"publish", "service"} =>
          StageItems(n, listener[n].pc)' = StageItems(n, listener[n].pc)
    BY <1>5, <2>1 DEF StageItems
  <2>. QED
    BY <1>0, <1>5, <2>1, <2>2 DEF Exclusive, ListenerHolds, AppHolds
<1>6. ASSUME NEW item \in listener[n].todo, ItemAnswered(n, item) PROVE Exclusive(n)'
  <2>1. subscriptionList'[n] \in Nat /\ subscriptionList'[n] >= subscriptionList[n]
    BY <1>6 DEF ItemAnswered, Typed, NodesTyped
  <2>2. /\ listener' = [listener EXCEPT ![n].todo = @ \ {item}]
        /\ UNCHANGED <<app, offers, initSucceeded>>
    BY <1>6 DEF ItemAnswered
  <2>. QED
    BY <1>5, <2>1, <2>2
<1>7. ASSUME NEW item \in listener[n].todo, ItemGivenUp(n, item) PROVE Exclusive(n)'
  <2>1. /\ listener' = [listener EXCEPT ![n].todo = @ \ {item}]
        /\ UNCHANGED <<app, offers, initSucceeded>> /\ subscriptionList' = subscriptionList
    BY <1>7 DEF ItemGivenUp, nodeVars
  <2>2. subscriptionList'[n] \in Nat /\ subscriptionList'[n] >= subscriptionList[n]
    BY <1>0, <2>1
  <2>. QED
    BY <1>5, <2>1, <2>2
<1>8. CASE LeaveStage(n)
  <2>1. UNCHANGED <<app, offers, initSucceeded, subscriptionList>>
    BY <1>8 DEF LeaveStage, nodeVars
  <2>2. CASE listener[n].pc = "subscribe"
    BY <1>8, <2>1, <2>2, ReregistrationEnded, Names DEF Exclusive, ListenerHolds
  <2>3. CASE listener[n].pc # "subscribe"
    <3>1. /\ listener' = [listener EXCEPT ![n] =
                            EnterStage(n, listener[n], After[listener[n].pc])]
          /\ After[listener[n].pc] \in Locks
      BY <1>8, <2>3, Names DEF LeaveStage
    <3>. QED
      BY <1>2, <2>1, <3>1
  <2>. QED
    BY <2>2, <2>3
<1>. QED
  BY <1>1, <1>3, <1>4, <1>6, <1>7, <1>8 DEF ListenerStep

\* The steps of a node.
NodeStep(n) ==
    \/ Broadcast(n)
    \/ InitNode(n)
    \/ \E call \in Operations(n) : Wait(n, call) \/ Operation(n, call)
    \/ OperationStep(n)
    \/ ListenerStep(n)
    \/ ManagerStep(n)

LEMMA NextMeans ==
    [Next]_vars <=> Crash \/ Restart \/ (\E n \in Nodes : NodeStep(n)) \/ UNCHANGED vars
  BY DEF Next, NodeStep

\* A node is left alone.
SameNode(m) ==
    /\ SameThreads(m)
    /\ initSucceeded'[m] = initSucceeded[m] /\ heard'[m] = heard[m]
    /\ datagrams'[m] = datagrams[m]
    /\ serviceDirectoryNode'[m] = serviceDirectoryNode[m]

LEMMA OtherNodes ==
    ASSUME Typed, NEW n \in Nodes, NEW m \in Nodes \ {n}, NodeStep(n)
    PROVE  SameNode(m)
<1> USE DEF SameNode, SameThreads
<1>0. /\ datagrams \in [Nodes -> SUBSET [start : Int, url : DirectoryUrls]]
      /\ heard \in [Nodes -> SUBSET DirectoryUrls]
      /\ initSucceeded \in [Nodes -> BOOLEAN]
      /\ serviceDirectoryNode \in [Nodes -> DirectoryUrls \cup {NoUrl}]
      /\ offers \in [Nodes -> SUBSET Regs]
      /\ subscriptionList \in [Nodes -> Nat]
      /\ listener \in [Nodes -> Listeners] /\ DOMAIN app = Nodes
  BY DEF Typed, NodesTyped, ListenerTyped, AppTyped
<1>1. CASE Broadcast(n)
  BY <1>0, <1>1 DEF Broadcast, nodeVars
<1>2. CASE InitNode(n)
  BY <1>0, <1>2 DEF InitNode
<1>3. ASSUME NEW call, Wait(n, call) PROVE SameNode(m)
  BY <1>0, <1>3 DEF Wait, nodeVars
<1>4. ASSUME NEW call, Operation(n, call) PROVE SameNode(m)
  <2>1. CASE Register(n, call)
    BY <1>0, <2>1 DEF Register, TakesLock, Sends
  <2>2. CASE Unregister(n, call)
    BY <1>0, <2>2 DEF Unregister, TakesLock, Sends
  <2>3. CASE Subscribe(n, call)
    BY <1>0, <2>3 DEF Subscribe, TakesLock, Sends
  <2>4. CASE Unsubscribe(n, call)
    BY <1>0, <2>4 DEF Unsubscribe, TakesLock
  <2>. QED
    BY <1>4, <2>1, <2>2, <2>3, <2>4 DEF Operation
<1>5. CASE RequestAnswered(n)
  <2>1. app'[m] = app[m]
    <3>1. ThreadTyped(n, app[n])
      BY DEF Typed, AppTyped
    <3>2. app[n].op \in {"register", "unregister", "subscribe"}
      BY <1>5, <3>1 DEF RequestAnswered, ThreadTyped
    <3>3. CASE app[n].op = "register"
      BY <1>0, <1>5, <3>3 DEF RequestAnswered
    <3>4. CASE app[n].op = "unregister"
      BY <1>0, <1>5, <3>4 DEF RequestAnswered
    <3>5. CASE app[n].op = "subscribe"
      BY <1>0, <1>5, <3>5 DEF RequestAnswered
    <3>. QED
      BY <3>2, <3>3, <3>4, <3>5
  <2>. QED
    BY <1>5, <2>1 DEF RequestAnswered, nodeVars
<1>6. CASE RequestFailed(n)
  BY <1>0, <1>6 DEF RequestFailed, nodeVars
<1>7. CASE Complete(n)
  BY <1>0, <1>7 DEF Complete
<1>8. CASE ListenerStep(n)
  <2>1. listener'[m] = listener[m]
    <3>1. ASSUME NEW d \in datagrams[n], Hear(n, d) PROVE listener'[m] = listener[m]
      BY <1>0, <3>1 DEF Hear
    <3>2. UpdateServiceDirectoryUrl(n) => listener'[m] = listener[m]
      BY <1>0 DEF UpdateServiceDirectoryUrl
    <3>3. \A lock \in Locks : LockReleased(n, lock) => listener'[m] = listener[m]
      BY <1>0 DEF LockReleased
    <3>4. \A item \in listener[n].todo :
            ItemAnswered(n, item) \/ ItemGivenUp(n, item) => listener'[m] = listener[m]
      BY <1>0 DEF ItemAnswered, ItemGivenUp
    <3>5. LeaveStage(n) => listener'[m] = listener[m]
      BY <1>0 DEF LeaveStage
    <3>. QED
      BY <1>8, <3>1, <3>2, <3>3, <3>4, <3>5 DEF ListenerStep
  <2>2. /\ app'[m] = app[m] /\ offers'[m] = offers[m]
        /\ subscriptionList'[m] = subscriptionList[m]
        /\ initSucceeded'[m] = initSucceeded[m] /\ heard'[m] = heard[m]
        /\ datagrams'[m] = datagrams[m]
        /\ serviceDirectoryNode'[m] = serviceDirectoryNode[m]
    <3>1. ASSUME NEW d \in datagrams[n], Hear(n, d) PROVE <2>2!:
      BY <1>0, <3>1 DEF Hear
    <3>2. CASE UpdateServiceDirectoryUrl(n)
      BY <1>0, <3>2 DEF UpdateServiceDirectoryUrl
    <3>3. ASSUME NEW lock \in Locks, LockReleased(n, lock) PROVE <2>2!:
      BY <3>3 DEF LockReleased, nodeVars
    <3>4. ASSUME NEW item \in listener[n].todo,
                 ItemAnswered(n, item) \/ ItemGivenUp(n, item)
          PROVE  <2>2!:
      BY <1>0, <3>4 DEF ItemAnswered, ItemGivenUp, nodeVars
    <3>5. CASE LeaveStage(n)
      BY <3>5 DEF LeaveStage, nodeVars
    <3>. QED
      BY <1>8, <3>1, <3>2, <3>3, <3>4, <3>5 DEF ListenerStep
  <2>. QED
    BY <2>1, <2>2
<1>9. CASE ManagerStep(n)
  BY <1>9 DEF ManagerStep, JoinUpdates, TakeUpdate, nodeVars
<1>. QED
  BY <1>1, <1>2, <1>3, <1>4, <1>5, <1>6, <1>7, <1>8, <1>9 DEF NodeStep, OperationStep

LEMMA NextExclusive ==
    ASSUME Typed, \A n \in Nodes : Exclusive(n), [Next]_vars
    PROVE  \A n \in Nodes : Exclusive(n)'
<1> SUFFICES ASSUME NEW m \in Nodes PROVE Exclusive(m)'
  OBVIOUS
<1>1. CASE Crash \/ Restart \/ UNCHANGED vars
  BY <1>1, ExclusiveFrame DEF Crash, Restart, vars, nodeVars, SameThreads
<1>2. ASSUME NEW n \in Nodes, NodeStep(n), n # m PROVE Exclusive(m)'
  BY <1>2, OtherNodes, ExclusiveFrame DEF SameNode
<1>3. CASE NodeStep(m)
  <2>1. CASE Broadcast(m) \/ ManagerStep(m)
    BY <2>1, ExclusiveFrame
    DEF Broadcast, ManagerStep, JoinUpdates, TakeUpdate, nodeVars, SameThreads
  <2>2. CASE InitNode(m)
    BY <2>2
    DEF InitNode, Exclusive, ListenerHolds, AppHolds, StageItems
  <2>3. ASSUME NEW call, CallTyped(m, call), Wait(m, call) \/ Operation(m, call)
        PROVE  Exclusive(m)'
    BY <2>3, ExclusiveApp
  <2>4. ASSUME NEW call \in Operations(m), Wait(m, call) \/ Operation(m, call)
        PROVE  Exclusive(m)'
    BY <2>3, <2>4, CallsTyped
  <2>5. CASE OperationStep(m)
    <3>1. CASE app[m].pc = "wait" /\ Operation(m, app[m].call)
      <4>1. CallTyped(m, app[m].call)
        BY <3>1 DEF Typed, AppTyped, ThreadTyped
      <4>. QED
        BY <2>3, <3>1, <4>1
    <3>. QED
      BY <2>5, <3>1, ExclusiveRequest DEF OperationStep
  <2>6. CASE ListenerStep(m)
    BY <2>6, ExclusiveListener
  <2>. QED
    BY <1>3, <2>1, <2>2, <2>4, <2>5, <2>6 DEF NodeStep
<1>. QED
  BY <1>1, <1>2, <1>3, NextMeans

\* The types and the locks, for every behaviour.
Locked == Typed /\ \A n \in Nodes : Exclusive(n)

LEMMA LockedHolds == Spec => []Locked
<1>1. Init => Locked
  BY InitTyped, ExclusiveInit DEF Locked
<1>2. Locked /\ [Next]_vars => Locked'
  BY NextTyped, NextExclusive DEF Locked
<1>. QED
  BY <1>1, <1>2, PTL DEF Spec

\* A subscription that the application has ended is not renewed by a
\* re-registration that is under way, whatever else happens: while the
\* listener subscribes again (GravityNode::ServiceDirectoryReregister), the
\* application cannot empty the list under it.  The mutual exclusion of the
\* two threads, and that a stage with something left to do has an entry in
\* the list, make it inductive.
THEOREM EndedStaysEndedHolds == Spec => EndedStaysEnded
<1>1. ASSUME Locked, [Next]_vars
      PROVE  [\A n \in Nodes :
                subscriptionList[n] = 0 /\ subscriptionList'[n] > 0
                  => app[n].pc = "done" /\ app[n].op = "subscribe"]_vars
  <2> SUFFICES ASSUME NEW m \in Nodes, subscriptionList[m] = 0, subscriptionList'[m] > 0
               PROVE  app[m].pc = "done" /\ app[m].op = "subscribe"
    OBVIOUS
  <2>0. Typed /\ Exclusive(m) /\ ThreadTyped(m, app[m])
    BY <1>1 DEF Locked, Typed, AppTyped
  <2>a. subscriptionList \in [Nodes -> Nat]
    BY <2>0 DEF Typed, NodesTyped
  <2>1. CASE Crash \/ Restart \/ UNCHANGED vars
    BY <2>1 DEF Crash, Restart, vars, nodeVars
  <2>2. ASSUME NEW n \in Nodes, NodeStep(n), n # m PROVE FALSE
    BY <2>0, <2>2, OtherNodes DEF SameNode, SameThreads
  <2>3. CASE NodeStep(m)
    <3>1. CASE Broadcast(m) \/ InitNode(m) \/ ManagerStep(m)
      BY <3>1 DEF Broadcast, InitNode, ManagerStep, JoinUpdates, TakeUpdate, nodeVars
    <3>2. ASSUME NEW call, Wait(m, call) \/ Operation(m, call) PROVE FALSE
      <4>1. CASE Unsubscribe(m, call)
        BY <2>a, <4>1 DEF Unsubscribe
      <4>2. CASE UNCHANGED subscriptionList
        BY <4>2
      <4>. QED
        BY <3>2, <4>1, <4>2
        DEF Wait, Operation, Register, Unregister, Subscribe, nodeVars
    <3>3. CASE RequestAnswered(m) \/ RequestFailed(m)
      <4>1. UNCHANGED <<offers, subscriptionList>>
        BY <3>3 DEF RequestAnswered, RequestFailed, nodeVars
      <4>. QED
        BY <4>1
    <3>4. CASE Complete(m)
      <4>1. app[m].pc = "done"
        BY <3>4 DEF Complete
      <4>2. app[m].op = "register" => UNCHANGED subscriptionList
        BY <3>4 DEF Complete
      <4>. QED
        BY <2>0, <4>1, <4>2 DEF ThreadTyped
    <3>5. CASE ListenerStep(m)
      <4>1. ASSUME NEW item \in listener[m].todo, ItemAnswered(m, item) PROVE FALSE
        BY <2>0, <2>a, <4>1 DEF ItemAnswered, Exclusive
      <4>2. CASE UNCHANGED subscriptionList
        BY <4>2
      <4>. QED
        BY <3>5, <4>1, <4>2
        DEF ListenerStep, Hear, UpdateServiceDirectoryUrl, LockReleased, ItemGivenUp,
            LeaveStage, nodeVars
    <3>. QED
      BY <2>3, <3>1, <3>2, <3>3, <3>4, <3>5 DEF NodeStep, OperationStep
  <2>. QED
    BY <1>1, <2>1, <2>2, <2>3, NextMeans
<1>. QED
  BY <1>1, LockedHolds, PTL DEF Spec, EndedStaysEnded

(***************************************************************************)
(* What a restart must not lose.                                           *)
(***************************************************************************)

\* What the listener has heard is of the directory that is up or of one that
\* was up before, and the start time tells them apart.
Hearing(n) ==
    /\ directory.start >= 1
    /\ \A m \in datagrams[n] :
         m.start \in 1..directory.start /\ (m.start = directory.start => m.url = directory.url)
    /\ listener[n].message.start \in 0..directory.start
    /\ listener[n].message.start = directory.start =>
         listener[n].message.url = directory.url
    /\ listener[n].seen \in 0..directory.start
    /\ listener[n].seen = 0 => heard[n] = {} /\ ~initSucceeded[n]
    /\ listener[n].pc # "listen" => listener[n].message.start # 0

\* reg is registered, or, for Done, about to be entered into the maps, or,
\* for Held, on its way to the directory.
Done(n, reg) ==
    \/ reg \in offers[n]
    \/ app[n].pc = "done" /\ app[n].op = "register" /\ reg = app[n].reg

Held(n, reg) ==
    Done(n, reg) \/ (app[n].pc = "send" /\ app[n].op = "register" /\ reg = app[n].reg)

\* A registration is never older than what is listed for the same offer, so
\* the directory does not ignore it.
Offered(n) ==
    /\ \A r, s \in Regs : Held(n, r) /\ Held(n, s) /\ Alike(r, s) => r = s
    /\ \A r \in Regs : Held(n, r) => r.time <= clock
    /\ \A e \in directory.listed : e.node = n => e.reg.time <= clock
    /\ \A e \in directory.listed : \A r \in Regs :
         e.node = n /\ Held(n, r) /\ Alike(e.reg, r) => e.reg.time <= r.time
    /\ app[n].pc = "send" /\ app[n].op = "unregister" => app[n].reg \notin offers[n]

\* The listener acts on, or has acted on, the start of the directory that is
\* up, and the stage of a lock has been reached.
Current(n) ==
    \/ listener[n].pc = "listen" /\ listener[n].seen = directory.start
    \/ /\ listener[n].pc \notin {"listen", "update"}
       /\ listener[n].message.start = directory.start

Beyond(lock) ==
    IF lock = "publish"
    THEN {"publish", "waitService", "service", "waitSubscribe", "subscribe"}
    ELSE {"service", "waitSubscribe", "subscribe"}

Reached(n, lock) ==
    \/ listener[n].pc = "listen" /\ listener[n].seen = directory.start
    \/ listener[n].pc \in Beyond(lock) /\ listener[n].message.start = directory.start

\* A node that acts on the start of a directory sends its requests there.
AtUrl(n) ==
    initSucceeded[n] /\ directory.up /\ Current(n) =>
        serviceDirectoryNode[n] = directory.url

\* What a stage has gone through is listed.
Covered(n) ==
    directory.up =>
        \A r \in Regs :
            /\ Done(n, r) /\ Reached(n, LockOf(r.type))
            /\ listener[n].pc = LockOf(r.type) => r \notin listener[n].todo
            => Entry(n, r) \in directory.listed

Relists(n) == Hearing(n) /\ Offered(n) /\ AtUrl(n) /\ Covered(n)

\* The directory is the same, and lists the same of a node.
SameDirectory(n) ==
    /\ directory'.up = directory.up /\ directory'.start = directory.start
    /\ directory'.url = directory.url
    /\ \A e \in directory'.listed : e.node = n => e \in directory.listed
    /\ \A e \in directory.listed : e.node = n => e \in directory'.listed

\* What the conjuncts depend on.
LEMMA HearingFrame ==
    ASSUME NEW n \in Nodes, Hearing(n),
           directory'.start = directory.start, directory'.url = directory.url,
           datagrams'[n] \subseteq datagrams[n], listener'[n] = listener[n],
           heard'[n] = heard[n], initSucceeded'[n] = initSucceeded[n]
    PROVE  Hearing(n)'
  BY DEF Hearing

LEMMA AtUrlFrame ==
    ASSUME NEW n \in Nodes, AtUrl(n),
           directory'.up = directory.up, directory'.start = directory.start,
           directory'.url = directory.url, listener'[n] = listener[n],
           initSucceeded'[n] = initSucceeded[n],
           serviceDirectoryNode'[n] = serviceDirectoryNode[n]
    PROVE  AtUrl(n)'
  BY DEF AtUrl, Current

LEMMA OfferedFrame ==
    ASSUME NEW n \in Nodes, Offered(n), SameDirectory(n), Typed, Typed', clock <= clock',
           \A r \in Regs : Held(n, r)' => Held(n, r),
           app'[n].pc = "send" /\ app'[n].op = "unregister" => app'[n].reg \notin offers'[n]
    PROVE  Offered(n)'
<1>1. /\ clock \in Int /\ clock' \in Int
      /\ \A r \in Regs : r.time \in Int
      /\ \A e \in directory.listed : e.reg.time \in Int
      /\ \A e \in directory'.listed : e.reg.time \in Int /\ e \in Entries
  BY DEF Typed, DirectoryTyped, Times, Regs, Entries
<1>2. \A r, s \in Regs : (Held(n, r) /\ Held(n, s) /\ Alike(r, s))' => r = s
  BY DEF Offered, Alike
<1>3. \A r \in Regs : Held(n, r)' => r.time <= clock'
  BY <1>1 DEF Offered
<1>4. \A e \in directory'.listed : e.node = n => e.reg.time <= clock'
  BY <1>1 DEF Offered, SameDirectory
<1>5. \A e \in directory'.listed : \A r \in Regs :
        e.node = n /\ Held(n, r)' /\ Alike(e.reg, r) => e.reg.time <= r.time
  BY DEF Offered, SameDirectory
<1> HIDE DEF Held
<1>. QED
  BY <1>2, <1>3, <1>4, <1>5 DEF Offered

LEMMA CoveredFrame ==
    ASSUME NEW n \in Nodes, Covered(n), SameDirectory(n), listener'[n] = listener[n],
           \A r \in Regs : Done(n, r)' => Done(n, r)
    PROVE  Covered(n)'
<1> SUFFICES ASSUME directory'.up, NEW r \in Regs, Done(n, r)', Reached(n, LockOf(r.type))',
                    listener'[n].pc = LockOf(r.type) => r \notin listener'[n].todo
             PROVE  Entry(n, r) \in directory'.listed
  BY DEF Covered
<1>1. Done(n, r) /\ Reached(n, LockOf(r.type)) /\ directory.up
  BY DEF Reached, SameDirectory
<1>2. Entry(n, r) \in directory.listed
  BY <1>1 DEF Covered
<1>3. Entry(n, r).node = n
  BY DEF Entry
<1>. QED
  BY <1>2, <1>3 DEF SameDirectory

LEMMA RelistsFrame ==
    ASSUME NEW n \in Nodes, Relists(n), SameNode(n), SameDirectory(n), Typed, Typed',
           clock <= clock'
    PROVE  Relists(n)'
<1>1. \A r \in Regs : (Held(n, r)' => Held(n, r)) /\ (Done(n, r)' => Done(n, r))
  BY DEF Held, Done, SameNode, SameThreads
<1>2. Hearing(n)'
  BY HearingFrame DEF Relists, SameNode, SameThreads, SameDirectory
<1>3. AtUrl(n)'
  BY AtUrlFrame DEF Relists, SameNode, SameThreads, SameDirectory
<1>4. Offered(n)'
  <2>1. app'[n].pc = "send" /\ app'[n].op = "unregister" => app'[n].reg \notin offers'[n]
    BY DEF Relists, Offered, SameNode, SameThreads
  <2>. QED
    BY <1>1, <2>1, OfferedFrame DEF Relists
<1>5. Covered(n)'
  BY <1>1, CoveredFrame DEF Relists, SameNode, SameThreads
<1>. QED
  BY <1>2, <1>3, <1>4, <1>5 DEF Relists

\* A step of a node leaves what the directory lists of the other nodes alone.
OthersKept(n) ==
    /\ clock <= clock'
    /\ directory'.up = directory.up /\ directory'.start = directory.start
    /\ directory'.url = directory.url
    /\ \A m \in Nodes \ {n} : SameDirectory(m)

LEMMA OthersListed ==
    ASSUME Typed, NEW n \in Nodes, NodeStep(n)
    PROVE  OthersKept(n)
<1>0. clock \in Int /\ ThreadTyped(n, app[n])
  BY DEF Typed, DirectoryTyped, Times, AppTyped
<1>1. ASSUME UNCHANGED directory, clock' = clock \/ clock' = clock + 1
      PROVE  OthersKept(n)
  BY <1>0, <1>1 DEF OthersKept, SameDirectory
<1>2. ASSUME NEW reg \in Regs, UNCHANGED <<starts, clock>>,
             HandleRegister(n, reg) \/ HandleUnregister(n, reg)
      PROVE  OthersKept(n)
  <2>1. Entry(n, reg).node = n /\ clock <= clock'
    BY <1>0, <1>2 DEF Entry
  <2>2. CASE HandleRegister(n, reg)
    <3>1. /\ directory'.up = directory.up /\ directory'.start = directory.start
          /\ directory'.url = directory.url
          /\ \A e \in directory'.listed : e \in directory.listed \/ e = Entry(n, reg)
          /\ \A e \in directory.listed : e \in directory'.listed \/ e.node = n
      BY <1>2, <2>2, Registered DEF Typed
    <3>. QED
      BY <2>1, <3>1 DEF OthersKept, SameDirectory
  <2>3. CASE HandleUnregister(n, reg)
    <3>1. /\ directory'.up = directory.up /\ directory'.start = directory.start
          /\ directory'.url = directory.url
          /\ directory'.listed = directory.listed \ {Entry(n, reg)}
      BY <1>2, <2>3, Unregistered DEF Typed
    <3>. QED
      BY <2>1, <3>1 DEF OthersKept, SameDirectory
  <2>. QED
    BY <1>2, <2>2, <2>3
<1>3. CASE Broadcast(n) \/ InitNode(n) \/ ManagerStep(n) \/ RequestFailed(n) \/ Complete(n)
  BY <1>1, <1>3
  DEF Broadcast, InitNode, ManagerStep, JoinUpdates, TakeUpdate, RequestFailed, Complete
<1>4. ASSUME NEW call, Wait(n, call) \/ Operation(n, call) PROVE OthersKept(n)
  BY <1>1, <1>4
  DEF Wait, Operation, Register, Unregister, Subscribe, Unsubscribe, TakesLock
<1>5. CASE RequestAnswered(n)
  <2>1. UNCHANGED <<starts, clock>> /\ app[n].pc = "send"
    BY <1>5 DEF RequestAnswered
  <2>2. CASE app[n].op = "register"
    BY <1>0, <1>2, <1>5, <2>1, <2>2 DEF RequestAnswered, ThreadTyped
  <2>3. CASE app[n].op = "unregister"
    BY <1>0, <1>2, <1>5, <2>1, <2>3 DEF RequestAnswered, ThreadTyped
  <2>4. CASE app[n].op = "subscribe"
    BY <1>1, <1>5, <2>1, <2>4 DEF RequestAnswered
  <2>. QED
    BY <1>0, <2>1, <2>2, <2>3, <2>4 DEF ThreadTyped
<1>6. ASSUME NEW item \in listener[n].todo, ItemAnswered(n, item) PROVE OthersKept(n)
  <2>1. UNCHANGED <<starts, clock>>
    BY <1>6 DEF ItemAnswered
  <2>2. CASE listener[n].pc = "subscribe"
    BY <1>1, <1>6, <2>1, <2>2 DEF ItemAnswered
  <2>3. CASE listener[n].pc # "subscribe"
    <3>1. item \in Regs
      BY <1>6, <2>3 DEF Typed, ListenerTyped, TodoTyped
    <3>. QED
      BY <1>2, <1>6, <2>1, <2>3, <3>1 DEF ItemAnswered
  <2>. QED
    BY <2>2, <2>3
<1>7. CASE ListenerStep(n)
  BY <1>1, <1>6, <1>7
  DEF ListenerStep, Hear, UpdateServiceDirectoryUrl, LockReleased, ItemGivenUp, LeaveStage
<1>. QED
  BY <1>3, <1>4, <1>5, <1>7 DEF NodeStep, OperationStep

LEMMA RelistsInit == ASSUME Init, NEW n \in Nodes PROVE Relists(n)
<1>0. PICK url \in DirectoryUrls, updates \in UpdatesUrls :
        directory = Started(1, url, updates)
  BY DEF Init
<1>1. /\ directory.start = 1 /\ directory.url = url /\ directory.listed = {}
      /\ datagrams[n] = {} /\ heard[n] = {} /\ offers[n] = {} /\ app[n] = Idle
      /\ listener[n].pc = "listen" /\ listener[n].seen = (IF n \in Fresh THEN 0 ELSE 1)
      /\ listener[n].message = [start |-> 0, url |-> NoUrl]
      /\ initSucceeded[n] <=> n \notin Fresh
      /\ n \notin Fresh => serviceDirectoryNode[n] = directory.url
  BY <1>0 DEF Init, Started
<1>2. app[n].pc = "idle"
  BY <1>1 DEF Idle
<1>3. Hearing(n) /\ AtUrl(n)
  <2>1. listener[n].message.start = 0
    BY <1>1
  <2>2. CASE n \in Fresh
    BY <1>1, <2>1, <2>2 DEF Hearing, AtUrl
  <2>3. CASE n \notin Fresh
    BY <1>1, <2>1, <2>3 DEF Hearing, AtUrl
  <2>. QED
    BY <2>2, <2>3
<1>4. Offered(n) /\ Covered(n)
  BY <1>1, <1>2 DEF Offered, Covered, Held, Done
<1>. QED
  BY <1>3, <1>4 DEF Relists

\* The directory goes away: it lists nothing.
LEMMA RelistsCrash == ASSUME Typed, NEW n \in Nodes, Relists(n), Crash PROVE Relists(n)'
<1>1. /\ directory'.up = FALSE /\ directory'.listed = {}
      /\ directory'.start = directory.start /\ directory'.url = directory.url
  BY DEF Crash, Typed, DirectoryTyped
<1>2. UNCHANGED <<clock, datagrams, nodeVars, listener, app>>
  BY DEF Crash
<1>3. Hearing(n)'
  BY <1>1, <1>2, HearingFrame DEF Relists, nodeVars
<1>4. AtUrl(n)' /\ Covered(n)'
  BY <1>1 DEF AtUrl, Covered
<1>5. Offered(n)'
  BY <1>1, <1>2 DEF Relists, Offered, Held, Done, nodeVars
<1>. QED
  BY <1>3, <1>4, <1>5 DEF Relists

\* The directory starts again.  Its start time is later than all that was
\* heard before, so no node has acted on it.
LEMMA RelistsRestart ==
    ASSUME Typed, NEW n \in Nodes, Relists(n), Restart, StartSteps \subseteq Nat \ {0}
    PROVE  Relists(n)'
<1>1. PICK step \in StartSteps : \E url \in DirectoryUrls, updates \in UpdatesUrls :
        directory' = Started(directory.start + step, url, updates)
  BY DEF Restart
<1>2. /\ directory'.listed = {} /\ directory'.start \in Int
      /\ directory'.start > directory.start
  <2>1. directory'.listed = {} /\ directory'.start = directory.start + step
    BY <1>1 DEF Started
  <2>2. step \in Nat \ {0} /\ directory.start \in Int
    BY DEF Typed, DirectoryTyped
  <2>. QED
    BY <2>1, <2>2
<1>3. UNCHANGED <<clock, datagrams, nodeVars, listener, app>>
  BY DEF Restart
<1>4. directory.start \in Int
  BY DEF Typed, DirectoryTyped
<1>5. Hearing(n)'
  BY <1>2, <1>3, <1>4 DEF Relists, Hearing, nodeVars
<1>6. ~Current(n)' /\ \A lock : ~Reached(n, lock)'
  BY <1>2, <1>3, <1>4 DEF Relists, Hearing, Current, Reached
<1>7. AtUrl(n)' /\ Covered(n)'
  BY <1>6 DEF AtUrl, Covered
<1>8. Offered(n)'
  BY <1>2, <1>3 DEF Relists, Offered, Held, Done, nodeVars
<1>. QED
  BY <1>5, <1>7, <1>8 DEF Relists

\* The first conjuncts: what the listener hears and where requests go.
LEMMA HearingStep ==
    ASSUME Typed, NEW n \in Nodes, Exclusive(n), Relists(n), NodeStep(n)
    PROVE  Hearing(n)' /\ AtUrl(n)'
<1>0. /\ directory'.up = directory.up /\ directory'.start = directory.start
      /\ directory'.url = directory.url
      /\ Hearing(n) /\ AtUrl(n)
  BY OthersListed DEF OthersKept, Relists
<1>t. /\ datagrams \in [Nodes -> SUBSET [start : Int, url : DirectoryUrls]]
      /\ heard \in [Nodes -> SUBSET DirectoryUrls]
      /\ initSucceeded \in [Nodes -> BOOLEAN]
      /\ serviceDirectoryNode \in [Nodes -> DirectoryUrls \cup {NoUrl}]
      /\ directory.start \in Int /\ directory.up \in BOOLEAN
  BY DEF Typed, NodesTyped, DirectoryTyped
<1>1. ASSUME UNCHANGED <<datagrams, heard, initSucceeded, serviceDirectoryNode, listener>>
      PROVE  Hearing(n)' /\ AtUrl(n)'
  BY <1>0, <1>1, HearingFrame, AtUrlFrame
<1>2. CASE Broadcast(n)
  <2>1. /\ UNCHANGED <<heard, initSucceeded, serviceDirectoryNode, listener>>
        /\ datagrams'[n] = datagrams[n] \cup {Broadcasted(directory)}
    BY <1>2, <1>t DEF Broadcast, nodeVars
  <2>2. Broadcasted(directory).start = directory.start
        /\ Broadcasted(directory).url = directory.url
    BY DEF Broadcasted
  <2>3. AtUrl(n)'
    BY <1>0, <2>1, AtUrlFrame
  <2>. QED
    BY <1>0, <1>t, <2>1, <2>2, <2>3 DEF Hearing
<1>3. CASE InitNode(n)
  <2>1. PICK url \in heard[n] :
          /\ serviceDirectoryNode' = [serviceDirectoryNode EXCEPT ![n] = url]
          /\ initSucceeded' = [initSucceeded EXCEPT ![n] = directory.up /\ directory.url = url]
    BY <1>3 DEF InitNode, DomainUrls
  <2>2. UNCHANGED <<datagrams, listener>>
    BY <1>3 DEF InitNode
  <2>3. serviceDirectoryNode'[n] = url
        /\ (initSucceeded'[n] => directory.up /\ directory.url = url)
    BY <1>t, <2>1
  <2>4. listener[n].seen # 0
    BY <1>0, <2>1 DEF Hearing
  <2>5. Hearing(n)'
    BY <1>0, <2>2, <2>4 DEF Hearing
  <2>6. AtUrl(n)'
    BY <1>0, <2>3 DEF AtUrl
  <2>. QED
    BY <2>5, <2>6
<1>4. ASSUME NEW call, Wait(n, call) \/ Operation(n, call) PROVE Hearing(n)' /\ AtUrl(n)'
  BY <1>1, <1>4
  DEF Wait, Operation, Register, Unregister, Subscribe, Unsubscribe, TakesLock, nodeVars
<1>5. CASE RequestAnswered(n) \/ RequestFailed(n) \/ Complete(n) \/ ManagerStep(n)
  BY <1>1, <1>5
  DEF RequestAnswered, RequestFailed, Complete, ManagerStep, JoinUpdates, TakeUpdate, nodeVars
<1>6. ASSUME NEW m \in datagrams[n], Hear(n, m) PROVE Hearing(n)' /\ AtUrl(n)'
  <2>1. /\ datagrams'[n] = datagrams[n] \ {m}
        /\ UNCHANGED <<initSucceeded, serviceDirectoryNode>>
        /\ initSucceeded[n] => heard'[n] = {}
    BY <1>6, <1>t DEF Hear
  <2>2. /\ m.start \in 1..directory.start
        /\ m.start = directory.start => m.url = directory.url
    BY <1>0 DEF Hearing
  <2>3. CASE listener'[n] = listener[n] /\ m.start <= listener[n].seen
    BY <1>0, <1>t, <2>1, <2>2, <2>3 DEF Hearing, AtUrl, Current
  <2>4. CASE /\ listener[n].seen = 0 /\ listener'[n].seen = m.start
             /\ listener'[n].pc = "listen" /\ listener'[n].message = listener[n].message
    BY <1>0, <1>t, <2>1, <2>2, <2>4 DEF Hearing, AtUrl, Current
  <2>5. CASE /\ listener[n].seen # 0 /\ listener'[n].seen = listener[n].seen
             /\ listener'[n].pc = "update" /\ listener'[n].message = m
    BY <1>0, <1>t, <2>1, <2>2, <2>5 DEF Hearing, AtUrl, Current
  <2>. QED
    BY <1>6, <2>3, <2>4, <2>5, Heard
<1>7. ASSUME UNCHANGED <<datagrams, heard, initSucceeded>>,
             listener'[n].message = listener[n].message,
             listener[n].pc # "listen",
             \/ listener'[n].pc # "listen" /\ listener'[n].seen = listener[n].seen
             \/ listener'[n].seen = listener[n].message.start
      PROVE  Hearing(n)'
  BY <1>0, <1>7 DEF Hearing
<1>8. ASSUME UNCHANGED <<initSucceeded, serviceDirectoryNode>>,
             listener'[n].message = listener[n].message,
             listener[n].pc \notin {"listen", "update"},
             \/ listener'[n].pc # "listen"
             \/ listener'[n].seen = listener[n].message.start
      PROVE  AtUrl(n)'
  BY <1>0, <1>8 DEF AtUrl, Current
<1>9. CASE UpdateServiceDirectoryUrl(n)
  <2>1. /\ listener[n].pc = "update"
        /\ serviceDirectoryNode'[n] = listener[n].message.url
        /\ UNCHANGED <<datagrams, heard, initSucceeded>>
        /\ listener' = [listener EXCEPT ![n] = EnterStage(n, listener[n], "publish")]
    BY <1>9, <1>t DEF UpdateServiceDirectoryUrl
  <2>2. /\ listener'[n].seen = listener[n].seen
        /\ listener'[n].message = listener[n].message /\ listener'[n].pc # "listen"
    BY <2>1, StageEntered, Names
  <2>3. Hearing(n)'
    BY <1>7, <2>1, <2>2
  <2>4. AtUrl(n)'
    BY <1>0, <2>1, <2>2 DEF AtUrl, Current, Hearing
  <2>. QED
    BY <2>3, <2>4
<1>10. ASSUME NEW lock \in Locks, LockReleased(n, lock) PROVE Hearing(n)' /\ AtUrl(n)'
  <2>1. /\ listener[n].pc = Waiting[lock]
        /\ UNCHANGED <<datagrams, heard, initSucceeded, serviceDirectoryNode>>
        /\ listener' = [listener EXCEPT ![n] = EnterStage(n, listener[n], lock)]
    BY <1>10 DEF LockReleased, nodeVars
  <2>2. /\ listener'[n].seen = listener[n].seen
        /\ listener'[n].message = listener[n].message
        /\ listener'[n].pc # "listen" /\ listener[n].pc \notin {"listen", "update"}
    BY <2>1, StageEntered, Names
  <2>. QED
    BY <1>7, <1>8, <2>1, <2>2
<1>11. ASSUME NEW item \in listener[n].todo, ItemAnswered(n, item) \/ ItemGivenUp(n, item)
       PROVE  Hearing(n)' /\ AtUrl(n)'
  <2>1. /\ listener[n].pc \in Locks
        /\ UNCHANGED <<datagrams, heard, initSucceeded, serviceDirectoryNode>>
        /\ listener' = [listener EXCEPT ![n].todo = @ \ {item}]
    BY <1>11 DEF ItemAnswered, ItemGivenUp, nodeVars
  <2>2. /\ listener'[n].seen = listener[n].seen
        /\ listener'[n].message = listener[n].message
        /\ listener'[n].pc = listener[n].pc
    BY <2>1, ItemTaken
  <2>. QED
    BY <1>7, <1>8, <2>1, <2>2, Names
<1>12. CASE LeaveStage(n)
  <2>1. /\ listener[n].pc \in Locks
        /\ UNCHANGED <<datagrams, heard, initSucceeded, serviceDirectoryNode>>
    BY <1>12 DEF LeaveStage, nodeVars
  <2>2. CASE listener[n].pc = "subscribe"
    BY <1>7, <1>8, <1>12, <2>1, <2>2, ReregistrationEnded
  <2>3. CASE listener[n].pc # "subscribe"
    <3>1. /\ listener' = [listener EXCEPT ![n] =
                            EnterStage(n, listener[n], After[listener[n].pc])]
          /\ After[listener[n].pc] \in Locks
      BY <1>12, <2>3, Names DEF LeaveStage
    <3>2. /\ listener'[n].seen = listener[n].seen
          /\ listener'[n].message = listener[n].message /\ listener'[n].pc # "listen"
      BY <3>1, StageEntered, Names
    <3>. QED
      BY <1>7, <1>8, <2>1, <3>2, Names
  <2>. QED
    BY <2>2, <2>3
<1>13. CASE ListenerStep(n)
  BY <1>6, <1>9, <1>10, <1>11, <1>12, <1>13 DEF ListenerStep
<1>. QED
  BY <1>2, <1>3, <1>4, <1>5, <1>13 DEF NodeStep, OperationStep

\* The directory takes a registration of what is held: it is not ignored, and
\* replaces nothing else that is held.
LEMMA RegisteredKeeps ==
    ASSUME Typed, NEW n \in Nodes, Offered(n), NEW reg \in Regs, Held(n, reg),
           HandleRegister(n, reg), UNCHANGED <<starts, clock>>
    PROVE  /\ Entry(n, reg) \in directory'.listed
           /\ \A r \in Regs : Held(n, r) /\ Entry(n, r) \in directory.listed =>
                Entry(n, r) \in directory'.listed
           /\ \A e \in directory'.listed : e.node = n => e.reg.time <= clock
           /\ \A e \in directory'.listed : \A r \in Regs :
                e.node = n /\ Held(n, r) /\ Alike(e.reg, r) => e.reg.time <= r.time
<1>0. /\ clock \in Int /\ \A r \in Regs : r.time \in Int
      /\ \A e \in directory.listed : e \in Entries /\ e.reg \in Regs
  BY DEF Typed, DirectoryTyped, Times, Regs, Entries
<1>1. /\ \A e \in directory'.listed : e \in directory.listed \/ e = Entry(n, reg)
      /\ \A e \in directory.listed :
           e \in directory'.listed \/ (e.node = n /\ Alike(e.reg, reg))
      /\ \/ Entry(n, reg) \in directory'.listed
         \/ \E e \in directory.listed :
               e.node = n /\ Alike(e.reg, reg) /\ e.reg.time > reg.time
  BY Registered DEF Typed
<1>2. \A r : Entry(n, r).node = n /\ Entry(n, r).reg = r
  BY DEF Entry
<1> HIDE DEF Held, Alike, Entry
<1>3. Entry(n, reg) \in directory'.listed
  <2>1. ASSUME NEW e \in directory.listed, e.node = n, Alike(e.reg, reg),
               e.reg.time > reg.time
        PROVE  FALSE
    <3>1. e.reg.time <= reg.time
      BY <2>1 DEF Offered
    <3>. QED
      BY <1>0, <2>1, <3>1
  <2>. QED
    BY <1>1, <2>1
<1>4. ASSUME NEW r \in Regs, Held(n, r), Entry(n, r) \in directory.listed
      PROVE  Entry(n, r) \in directory'.listed
  <2>1. CASE Alike(r, reg)
    <3>1. r = reg
      BY <1>4, <2>1 DEF Offered
    <3>. QED
      BY <1>3, <3>1
  <2>. QED
    BY <1>1, <1>2, <1>4, <2>1
<1>5. ASSUME NEW e \in directory'.listed, e.node = n PROVE e.reg.time <= clock
  BY <1>1, <1>2, <1>5 DEF Offered
<1>6. ASSUME NEW e \in directory'.listed, NEW r \in Regs, e.node = n, Held(n, r),
             Alike(e.reg, r)
      PROVE  e.reg.time <= r.time
  <2>1. CASE e \in directory.listed
    BY <1>6, <2>1 DEF Offered
  <2>2. CASE e = Entry(n, reg)
    <3>1. reg = r
      BY <1>2, <1>6, <2>2 DEF Offered
    <3>. QED
      BY <1>0, <1>2, <2>2, <3>1
  <2>. QED
    BY <1>1, <2>1, <2>2
<1>. QED
  BY <1>3, <1>4, <1>5, <1>6

\* What is unregistered is not held.
LEMMA UnregisteredKeeps ==
    ASSUME Typed, NEW n \in Nodes, NEW reg \in Regs, HandleUnregister(n, reg),
           UNCHANGED <<starts, clock>>
    PROVE  /\ directory'.listed \subseteq directory.listed
           /\ \A r \in Regs : r # reg /\ Entry(n, r) \in directory.listed =>
                Entry(n, r) \in directory'.listed
<1>1. directory'.listed = directory.listed \ {Entry(n, reg)}
  BY Unregistered DEF Typed
<1>2. \A r : Entry(n, r).reg = r
  BY DEF Entry
<1>. QED
  BY <1>1, <1>2

\* The invariant Offered, with the list given.
LEMMA OfferedMeans ==
    ASSUME Typed', NEW n \in Nodes, Offered(n), clock' = clock,
           \A r \in Regs : Held(n, r)' => Held(n, r),
           \A e \in directory'.listed : e.node = n => e.reg.time <= clock,
           \A e \in directory'.listed : \A r \in Regs :
             e.node = n /\ Held(n, r) /\ Alike(e.reg, r) => e.reg.time <= r.time,
           app'[n].pc = "send" /\ app'[n].op = "unregister" => app'[n].reg \notin offers'[n]
    PROVE  Offered(n)'
<1>1. \A r, s \in Regs : (Held(n, r) /\ Held(n, s) /\ Alike(r, s))' => r = s
  BY DEF Offered, Alike
<1>2. \A r \in Regs : Held(n, r)' => r.time <= clock'
  BY DEF Offered
<1>3. \A e \in directory'.listed : e.node = n => e.reg.time <= clock'
  OBVIOUS
<1>4. \A e \in directory'.listed : \A r \in Regs :
        e.node = n /\ Held(n, r)' /\ Alike(e.reg, r) => e.reg.time <= r.time
  OBVIOUS
<1>. QED
  BY <1>1, <1>2, <1>3, <1>4 DEF Offered

\* The application registers: the time is the latest there is.
LEMMA OfferedRegister ==
    ASSUME Typed, Typed', NEW n \in Nodes, Exclusive(n), Offered(n), NEW call,
           CallTyped(n, call), Register(n, call)
    PROVE  Offered(n)'
<1>0. /\ DOMAIN app = Nodes /\ UNCHANGED <<directory, offers>>
      /\ clock \in Int /\ clock' \in Int /\ clock <= clock'
      /\ \A r \in Regs : r.time \in Int
      /\ \A e \in directory.listed : e.reg.time \in Int
  BY DEF Typed, DirectoryTyped, Times, Regs, Entries, AppTyped, Register, TakesLock
<1>1. app[n].pc \in {"idle", "wait"}
  BY DEF Register, TakesLock, Idle
<1>2. SameDirectory(n)
  BY <1>0 DEF SameDirectory
<1>3. \A r : Held(n, r) <=> r \in offers[n]
  BY <1>1 DEF Held, Done
<1>4. CASE app' = [app EXCEPT ![n] = Idle]
  <2>1. app'[n].pc = "idle"
    BY <1>0, <1>4 DEF Idle
  <2>2. \A r : Held(n, r)' => Held(n, r)
    BY <1>0, <1>3, <2>1 DEF Held, Done
  <2>. QED
    BY <1>0, <1>2, <2>1, <2>2, OfferedFrame
<1>5. CASE /\ ~(\E r \in offers[n] : OfferOf(r) = call.offer)
           /\ Sends(n, call, Registration(call.offer, clock'))
  <2> DEFINE reg == Registration(call.offer, clock')
  <2>1. app'[n].pc = "send" /\ app'[n].op = "register" /\ app'[n].reg = reg
    BY <1>0, <1>5 DEF Sends, Register
  <2>2. \A r : Held(n, r)' <=> (r \in offers[n] \/ r = reg)
    BY <1>0, <2>1 DEF Held, Done
  <2>3. call.offer \in OffersOf[n]
    BY DEF CallTyped, Register
  <2>4. ASSUME NEW r \in offers[n] PROVE ~Alike(r, reg) /\ ~Alike(reg, r)
    <3>1. call.offer = [type |-> call.offer.type, id |-> call.offer.id]
      BY <2>3, ReregisterAssumption
    <3>2. OfferOf(r) # call.offer
      BY <1>5
    <3>3. reg.type = call.offer.type /\ reg.id = call.offer.id
      BY DEF Registration
    <3>. QED
      BY <3>1, <3>2, <3>3 DEF OfferOf, Alike
  <2>5. reg.time = clock'
    BY DEF Registration
  <2> HIDE DEF reg
  <2>6. \A r, s \in Regs : (Held(n, r) /\ Held(n, s) /\ Alike(r, s))' => r = s
    BY <1>3, <2>2, <2>4 DEF Offered, Alike
  <2>7. \A r \in Regs : Held(n, r)' => r.time <= clock'
    BY <1>0, <1>3, <2>2, <2>5 DEF Offered
  <2>8. \A e \in directory'.listed : e.node = n => e.reg.time <= clock'
    BY <1>0 DEF Offered
  <2>9. \A e \in directory'.listed : \A r \in Regs :
          e.node = n /\ Held(n, r)' /\ Alike(e.reg, r) => e.reg.time <= r.time
    BY <1>0, <1>3, <2>2, <2>5, <2>8 DEF Offered
  <2>. QED
    BY <2>1, <2>6, <2>7, <2>8, <2>9 DEF Offered
<1>. QED
  BY <1>4, <1>5 DEF Register

\* The other calls of the application hold nothing new, and until a request is
\* answered the directory lists what it listed.
LEMMA OperationKeeps ==
    ASSUME Typed, Typed', NEW n \in Nodes, Exclusive(n), Offered(n), Covered(n), NEW call,
           CallTyped(n, call), Wait(n, call) \/ Operation(n, call)
    PROVE  Offered(n)' /\ Covered(n)'
<1>0. /\ DOMAIN app = Nodes /\ UNCHANGED <<directory, listener>>
      /\ clock \in Int /\ clock' \in Int /\ clock <= clock'
      /\ offers \in [Nodes -> SUBSET Regs]
  BY DEF Typed, DirectoryTyped, NodesTyped, AppTyped, Times, Wait, Operation, Register,
         Unregister, Subscribe, Unsubscribe, TakesLock
<1>1. app[n].pc \in {"idle", "wait"}
  BY DEF Wait, Operation, Register, Unregister, Subscribe, Unsubscribe, TakesLock, Idle
<1>2. SameDirectory(n)
  BY <1>0 DEF SameDirectory
<1>3. \A r : (Held(n, r) <=> r \in offers[n]) /\ (Done(n, r) <=> r \in offers[n])
  BY <1>1 DEF Held, Done
<1>4. ASSUME offers'[n] \subseteq offers[n],
             ~(app'[n].pc \in {"send", "done"} /\ app'[n].op = "register"),
             app'[n].pc = "send" /\ app'[n].op = "unregister" =>
               app'[n].reg \notin offers'[n]
      PROVE  Offered(n)' /\ Covered(n)'
  <2>1. \A r : (Held(n, r)' => Held(n, r)) /\ (Done(n, r)' => Done(n, r))
    BY <1>3, <1>4 DEF Held, Done
  <2>. QED
    BY <1>0, <1>2, <1>4, <2>1, OfferedFrame, CoveredFrame
<1>5. CASE Wait(n, call)
  <2>1. app'[n].pc = "wait" /\ UNCHANGED offers
    BY <1>0, <1>5 DEF Wait, nodeVars
  <2>. QED
    BY <1>4, <2>1
<1>6. CASE Register(n, call)
  <2>1. UNCHANGED offers /\ app'[n].pc # "done"
    BY <1>0, <1>6 DEF Register, Sends, Idle
  <2>2. \A r : Done(n, r)' => Done(n, r)
    BY <2>1 DEF Done
  <2>3. Covered(n)'
    BY <1>0, <1>2, <2>2, CoveredFrame
  <2>. QED
    BY <1>6, <2>3, OfferedRegister
<1>7. CASE Unregister(n, call)
  <2>1. PICK r \in offers[n] :
          offers' = [offers EXCEPT ![n] = @ \ {r}] /\ Sends(n, call, r)
    BY <1>7 DEF Unregister
  <2>2. offers'[n] = offers[n] \ {r} /\ app'[n].op = "unregister" /\ app'[n].reg = r
    BY <1>0, <1>7, <2>1 DEF Sends, Unregister
  <2>. QED
    BY <1>4, <2>2
<1>8. CASE Subscribe(n, call)
  <2>1. UNCHANGED offers /\ app'[n].op = "subscribe"
    BY <1>0, <1>8 DEF Subscribe, Sends
  <2>. QED
    BY <1>4, <2>1
<1>9. CASE Unsubscribe(n, call)
  <2>1. UNCHANGED offers /\ app'[n].pc = "idle"
    BY <1>0, <1>9 DEF Unsubscribe, Idle
  <2>. QED
    BY <1>4, <2>1
<1>. QED
  BY <1>5, <1>6, <1>7, <1>8, <1>9 DEF Operation

\* What was covered and is still listed stays covered.
LEMMA CoveredKeeps ==
    ASSUME NEW n \in Nodes, Covered(n), listener'[n] = listener[n],
           directory'.up = directory.up, directory'.start = directory.start,
           \A r \in Regs : Done(n, r)' =>
             \/ Entry(n, r) \in directory'.listed
             \/ Done(n, r) /\ (Entry(n, r) \in directory.listed =>
                                 Entry(n, r) \in directory'.listed)
    PROVE  Covered(n)'
<1> SUFFICES ASSUME directory'.up, NEW r \in Regs, Done(n, r)', Reached(n, LockOf(r.type))',
                    listener'[n].pc = LockOf(r.type) => r \notin listener'[n].todo
             PROVE  Entry(n, r) \in directory'.listed
  BY DEF Covered
<1>1. Reached(n, LockOf(r.type)) /\ directory.up
  BY DEF Reached
<1>2. Done(n, r) => Entry(n, r) \in directory.listed
  BY <1>1 DEF Covered
<1>. QED
  BY <1>2

\* A request ends: the registration that is answered is listed before the maps
\* have it, and what is unregistered has left them.
LEMMA RequestKeeps ==
    ASSUME Typed, Typed', NEW n \in Nodes, Exclusive(n), Offered(n), Covered(n),
           RequestAnswered(n) \/ RequestFailed(n) \/ Complete(n)
    PROVE  Offered(n)' /\ Covered(n)'
<1>u. UNCHANGED <<listener, clock, starts>>
  <2>1. RequestAnswered(n) => UNCHANGED <<listener, clock, starts>>
    BY DEF RequestAnswered
  <2>2. RequestFailed(n) \/ Complete(n) => UNCHANGED <<listener, clock, starts>>
    BY DEF RequestFailed, Complete
  <2>. QED
    BY <2>1, <2>2
<1>0. /\ DOMAIN app = Nodes /\ UNCHANGED <<listener, clock, starts>>
      /\ clock \in Int /\ offers \in [Nodes -> SUBSET Regs]
  BY <1>u DEF Typed, DirectoryTyped, NodesTyped, AppTyped, Times
<1>1. ThreadTyped(n, app[n])
  BY DEF Typed, AppTyped
<1>2. ASSUME UNCHANGED directory, app'[n].pc # "send",
             \A r : (Held(n, r)' => Held(n, r)) /\ (Done(n, r)' => Done(n, r))
      PROVE  Offered(n)' /\ Covered(n)'
  <2>1. SameDirectory(n)
    BY <1>2 DEF SameDirectory
  <2>. QED
    BY <1>0, <1>2, <2>1, OfferedFrame, CoveredFrame
<1>3. CASE RequestFailed(n)
  <2>1. UNCHANGED <<directory, offers>> /\ app'[n].pc = "idle"
    BY <1>0, <1>3 DEF RequestFailed, nodeVars, Idle
  <2>2. \A r : (Held(n, r)' => Held(n, r)) /\ (Done(n, r)' => Done(n, r))
    BY <2>1 DEF Held, Done
  <2>. QED
    BY <1>2, <2>1, <2>2
<1>4. CASE Complete(n)
  <2>1. UNCHANGED directory /\ app'[n].pc = "idle" /\ app[n].pc = "done"
    BY <1>0, <1>4 DEF Complete, Idle
  <2>2. \A r : r \in offers'[n] => Done(n, r)
    BY <1>0, <1>4 DEF Complete, Done
  <2>3. \A r : (Held(n, r)' => Held(n, r)) /\ (Done(n, r)' => Done(n, r))
    BY <2>1, <2>2 DEF Held, Done
  <2>. QED
    BY <1>2, <2>1, <2>3
<1>5. CASE RequestAnswered(n)
  <2>0. app[n].pc = "send" /\ UNCHANGED offers
    BY <1>5 DEF RequestAnswered, nodeVars
  <2>1. CASE app[n].op = "register"
    <3>1. HandleRegister(n, app[n].reg) /\ app[n].reg \in Regs
      BY <1>1, <1>5, <2>0, <2>1 DEF RequestAnswered, ThreadTyped
    <3>2. app'[n].pc = "done" /\ app'[n].op = "register" /\ app'[n].reg = app[n].reg
      BY <1>0, <1>5, <2>1 DEF RequestAnswered
    <3>3. Held(n, app[n].reg)
      BY <2>0, <2>1 DEF Held
    <3>4. \A r : Held(n, r)' => Held(n, r)
      BY <2>0, <2>1, <3>2 DEF Held, Done
    <3>5. \A r : Done(n, r)' => Done(n, r) \/ r = app[n].reg
      BY <2>0, <3>2 DEF Done
    <3>6. \A r : Done(n, r) => Held(n, r)
      BY DEF Held
    <3>7. /\ Entry(n, app[n].reg) \in directory'.listed
          /\ \A r \in Regs : Held(n, r) /\ Entry(n, r) \in directory.listed =>
               Entry(n, r) \in directory'.listed
          /\ \A e \in directory'.listed : e.node = n => e.reg.time <= clock
          /\ \A e \in directory'.listed : \A r \in Regs :
               e.node = n /\ Held(n, r) /\ Alike(e.reg, r) => e.reg.time <= r.time
      BY <1>0, <3>1, <3>3, RegisteredKeeps
    <3>8. directory'.up = directory.up /\ directory'.start = directory.start
      BY <1>0, <3>1, Registered DEF Typed
    <3>9. Offered(n)'
      BY <1>0, <3>2, <3>4, <3>7, OfferedMeans
    <3>10. Covered(n)'
      BY <1>0, <3>5, <3>6, <3>7, <3>8, CoveredKeeps
    <3>. QED
      BY <3>9, <3>10
  <2>2. CASE app[n].op = "unregister"
    <3>1. HandleUnregister(n, app[n].reg) /\ app[n].reg \in Regs
      BY <1>1, <1>5, <2>0, <2>2 DEF RequestAnswered, ThreadTyped
    <3>2. app'[n].pc = "idle"
      BY <1>0, <1>5, <2>2 DEF RequestAnswered, Idle
    <3>3. \A r : Held(n, r)' => Held(n, r)
      BY <2>0, <3>2 DEF Held, Done
    <3>4. \A r : Done(n, r)' => Done(n, r) /\ r # app[n].reg
      BY <2>0, <2>2, <3>2 DEF Done, Offered
    <3>5. /\ directory'.listed \subseteq directory.listed
          /\ \A r \in Regs : r # app[n].reg /\ Entry(n, r) \in directory.listed =>
               Entry(n, r) \in directory'.listed
      BY <1>0, <3>1, UnregisteredKeeps
    <3>6. directory'.up = directory.up /\ directory'.start = directory.start
      BY <1>0, <3>1, Unregistered DEF Typed
    <3>7. /\ \A e \in directory'.listed : e.node = n => e.reg.time <= clock
          /\ \A e \in directory'.listed : \A r \in Regs :
               e.node = n /\ Held(n, r) /\ Alike(e.reg, r) => e.reg.time <= r.time
      BY <3>5 DEF Offered
    <3>8. Offered(n)'
      BY <1>0, <3>2, <3>3, <3>7, OfferedMeans
    <3>9. Covered(n)'
      BY <1>0, <3>4, <3>5, <3>6, CoveredKeeps
    <3>. QED
      BY <3>8, <3>9
  <2>3. CASE app[n].op = "subscribe"
    <3>1. app'[n].pc = "done" /\ app'[n].op = "subscribe" /\ UNCHANGED directory
      BY <1>0, <1>5, <2>3 DEF RequestAnswered
    <3>2. \A r : (Held(n, r)' => Held(n, r)) /\ (Done(n, r)' => Done(n, r))
      BY <2>0, <3>1 DEF Held, Done
    <3>. QED
      BY <1>2, <3>1, <3>2
  <2>. QED
    BY <1>1, <2>0, <2>1, <2>2, <2>3 DEF ThreadTyped
<1>. QED
  BY <1>3, <1>4, <1>5

\* The listener enters a stage that the application is not in: all that the
\* stage must cover is still to be done.
LEMMA StageCovers ==
    ASSUME Typed, NEW n \in Nodes, Covered(n), NEW lock \in Locks,
           listener' = [listener EXCEPT ![n] = EnterStage(n, listener[n], lock)],
           UNCHANGED <<directory, offers, app>>,
           \A k \in {"publish", "service"} \ {lock} :
             /\ lock \in Beyond(k) \/ Waiting[lock] \in Beyond(k) => listener[n].pc \in Beyond(k)
             /\ listener[n].pc = k => listener[n].todo = {}
    PROVE  Covered(n)'
<1> SUFFICES ASSUME directory'.up, NEW r \in Regs, Done(n, r)', Reached(n, LockOf(r.type))',
                    listener'[n].pc = LockOf(r.type) => r \notin listener'[n].todo
             PROVE  Entry(n, r) \in directory'.listed
  BY DEF Covered
<1>0. Done(n, r) /\ directory.up
  BY DEF Done
<1>1. LockOf(r.type) \in {"publish", "service"}
  BY DEF LockOf
<1>2. /\ listener'[n].message = listener[n].message
      /\ \/ /\ AppHolds(n, lock) /\ listener'[n].pc = Waiting[lock]
         \/ /\ ~AppHolds(n, lock) /\ listener'[n].pc = lock
            /\ listener'[n].todo = StageItems(n, lock)
  BY StageEntered
<1>3. /\ listener'[n].pc \in Beyond(LockOf(r.type))
      /\ listener[n].message.start = directory.start
  BY <1>2, Names DEF Reached
<1>4. CASE LockOf(r.type) = lock
  <2>2. lock # "subscribe"
    BY <1>1, <1>4
  <2>w. Waiting[lock] \notin Beyond(lock)
    BY <2>2, Names DEF Beyond
  <2>1. listener'[n].pc = lock /\ ~AppHolds(n, lock) /\ r \notin StageItems(n, lock)
    BY <1>2, <1>3, <1>4, <2>w
  <2>3. r \notin offers[n]
    BY <1>4, <2>1, <2>2 DEF StageItems
  <2>4. app[n].pc = "done" /\ app[n].op = "register" /\ r = app[n].reg
    BY <1>0, <2>3 DEF Done
  <2>5. app[n].lock = lock
    BY <1>4, <2>4 DEF Typed, AppTyped, ThreadTyped
  <2>. QED
    BY <2>1, <2>4, <2>5 DEF AppHolds
<1>5. CASE LockOf(r.type) # lock
  <2>1. listener[n].pc \in Beyond(LockOf(r.type))
    BY <1>1, <1>2, <1>3, <1>5
  <2>2. Reached(n, LockOf(r.type))
    BY <1>3, <2>1 DEF Reached
  <2>3. listener[n].pc = LockOf(r.type) => r \notin listener[n].todo
    BY <1>1, <1>5
  <2>. QED
    BY <1>0, <2>2, <2>3 DEF Covered
<1>. QED
  BY <1>4, <1>5

\* The steps of the listener.  A request of a stage is not given up while the
\* directory that the stage is for is up.
LEMMA ListenerKeeps ==
    ASSUME Typed, Typed', NEW n \in Nodes, Exclusive(n), Relists(n), ListenerStep(n),
           Slow = FALSE
    PROVE  Offered(n)' /\ Covered(n)'
<1>0. /\ Offered(n) /\ Covered(n) /\ Hearing(n) /\ AtUrl(n)
      /\ clock \in Int /\ initSucceeded[n] \in BOOLEAN /\ directory.up \in BOOLEAN
  BY DEF Relists, Typed, DirectoryTyped, NodesTyped, Times
<1>u. UNCHANGED <<starts, clock, app, offers>>
  BY DEF ListenerStep, Hear, UpdateServiceDirectoryUrl, LockReleased, ItemAnswered,
         ItemGivenUp, LeaveStage, nodeVars
<1>h. \A r : (Held(n, r)' <=> Held(n, r)) /\ (Done(n, r)' <=> Done(n, r))
  BY <1>u DEF Held, Done
<1>d. \A r : Done(n, r) => Held(n, r) /\ initSucceeded[n]
  BY <1>0 DEF Done, Held, Exclusive, Idle
<1>1. ASSUME UNCHANGED directory PROVE Offered(n)'
  <2>1. SameDirectory(n)
    BY <1>1 DEF SameDirectory
  <2>2. app'[n].pc = "send" /\ app'[n].op = "unregister" => app'[n].reg \notin offers'[n]
    BY <1>0, <1>u DEF Offered
  <2>. QED
    BY <1>0, <1>u, <1>h, <2>1, <2>2, OfferedFrame
<1>2. ASSUME NEW m \in datagrams[n], Hear(n, m) PROVE Offered(n)' /\ Covered(n)'
  <2>1. UNCHANGED directory
    BY <1>2 DEF Hear
  <2>2. CASE listener'[n] = listener[n]
    <3>1. SameDirectory(n)
      BY <2>1 DEF SameDirectory
    <3>. QED
      BY <1>0, <1>1, <1>h, <2>1, <2>2, <3>1, CoveredFrame
  <2>3. CASE listener[n].seen = 0
    <3>1. \A r : ~Done(n, r)
      BY <1>0, <1>d, <2>3 DEF Hearing
    <3>. QED
      BY <1>1, <1>h, <2>1, <3>1 DEF Covered
  <2>4. CASE listener'[n].pc = "update"
    <3>1. \A lock : ~Reached(n, lock)'
      BY <2>4 DEF Reached, Beyond
    <3>. QED
      BY <1>1, <2>1, <3>1 DEF Covered
  <2>. QED
    BY <1>2, <2>2, <2>3, <2>4, Heard
<1>3. CASE UpdateServiceDirectoryUrl(n)
  <2>1. /\ listener[n].pc = "update" /\ UNCHANGED directory
        /\ listener' = [listener EXCEPT ![n] = EnterStage(n, listener[n], "publish")]
    BY <1>3 DEF UpdateServiceDirectoryUrl
  <2>2. Covered(n)'
    BY <1>0, <1>u, <2>1, StageCovers, Names DEF Beyond
  <2>. QED
    BY <1>1, <2>1, <2>2
<1>4. ASSUME NEW lock \in Locks, LockReleased(n, lock) PROVE Offered(n)' /\ Covered(n)'
  <2>1. /\ listener[n].pc = Waiting[lock] /\ UNCHANGED directory
        /\ listener' = [listener EXCEPT ![n] = EnterStage(n, listener[n], lock)]
    BY <1>4 DEF LockReleased
  <2>2. \A k \in {"publish", "service"} \ {lock} :
          /\ lock \in Beyond(k) \/ Waiting[lock] \in Beyond(k) => listener[n].pc \in Beyond(k)
          /\ listener[n].pc = k => listener[n].todo = {}
    BY <2>1, Names DEF Beyond
  <2>. QED
    BY <1>0, <1>1, <1>u, <2>1, <2>2, StageCovers
<1>5. ASSUME NEW item \in listener[n].todo,
             listener' = [listener EXCEPT ![n].todo = @ \ {item}],
             directory'.up = directory.up, directory'.start = directory.start,
             \A r \in Regs : Done(n, r) /\ Entry(n, r) \in directory.listed =>
               Entry(n, r) \in directory'.listed,
             /\ item \in Regs /\ Done(n, item) /\ directory.up
             /\ Reached(n, LockOf(item.type))
             => Entry(n, item) \in directory'.listed
      PROVE  Covered(n)'
  <2> SUFFICES ASSUME directory'.up, NEW r \in Regs, Done(n, r)',
                      Reached(n, LockOf(r.type))',
                      listener'[n].pc = LockOf(r.type) => r \notin listener'[n].todo
               PROVE  Entry(n, r) \in directory'.listed
    BY DEF Covered
  <2>1. /\ listener'[n].pc = listener[n].pc /\ listener'[n].seen = listener[n].seen
        /\ listener'[n].message = listener[n].message
        /\ listener'[n].todo = listener[n].todo \ {item}
    BY <1>5, ItemTaken
  <2>2. Done(n, r) /\ directory.up /\ Reached(n, LockOf(r.type))
    BY <1>5, <1>h, <2>1 DEF Reached
  <2>3. CASE r = item
    BY <1>5, <2>2, <2>3
  <2>4. CASE r # item
    <3>1. listener[n].pc = LockOf(r.type) => r \notin listener[n].todo
      BY <2>1, <2>4
    <3>2. Entry(n, r) \in directory.listed
      BY <1>0, <2>2, <3>1 DEF Covered
    <3>. QED
      BY <1>5, <2>2, <3>2
  <2>. QED
    BY <2>3, <2>4
<1>6. ASSUME NEW item \in listener[n].todo, ItemAnswered(n, item)
      PROVE  Offered(n)' /\ Covered(n)'
  <2>1. listener' = [listener EXCEPT ![n].todo = @ \ {item}] /\ listener[n].pc \in Locks
    BY <1>6 DEF ItemAnswered
  <2>2. CASE listener[n].pc = "subscribe"
    <3>1. UNCHANGED directory
      BY <1>6, <2>2 DEF ItemAnswered
    <3>2. listener[n].pc # LockOf(item.type)
      BY <2>2 DEF LockOf
    <3>3. /\ item \in Regs /\ Done(n, item) /\ directory.up
          /\ Reached(n, LockOf(item.type))
          => Entry(n, item) \in directory'.listed
      BY <1>0, <3>1, <3>2 DEF Covered
    <3>. QED
      BY <1>1, <1>5, <2>1, <3>1, <3>3
  <2>3. CASE listener[n].pc # "subscribe"
    <3>1. HandleRegister(n, item)
      BY <1>6, <2>3 DEF ItemAnswered
    <3>2. item \in offers[n] /\ item \in Regs
      <4>1. listener[n].pc \in {"publish", "service"}
        BY <2>1, <2>3, Names
      <4>2. item \in StageItems(n, listener[n].pc)
        BY <4>1 DEF Exclusive
      <4>3. offers[n] \subseteq Regs
        BY DEF Typed, NodesTyped
      <4>. QED
        BY <2>3, <4>2, <4>3 DEF StageItems
    <3>3. Held(n, item)
      BY <3>2 DEF Held, Done
    <3>4. /\ Entry(n, item) \in directory'.listed
          /\ \A r \in Regs : Held(n, r) /\ Entry(n, r) \in directory.listed =>
               Entry(n, r) \in directory'.listed
          /\ \A e \in directory'.listed : e.node = n => e.reg.time <= clock
          /\ \A e \in directory'.listed : \A r \in Regs :
               e.node = n /\ Held(n, r) /\ Alike(e.reg, r) => e.reg.time <= r.time
      BY <1>0, <1>u, <3>1, <3>2, <3>3, RegisteredKeeps
    <3>5. directory'.up = directory.up /\ directory'.start = directory.start
      BY <1>u, <3>1, <3>2, Registered DEF Typed
    <3>6. app'[n].pc = "send" /\ app'[n].op = "unregister" =>
            app'[n].reg \notin offers'[n]
      BY <1>0, <1>u DEF Offered
    <3>7. Offered(n)'
      BY <1>0, <1>u, <1>h, <3>4, <3>6, OfferedMeans
    <3>8. Covered(n)'
      BY <1>5, <1>d, <2>1, <3>4, <3>5
    <3>. QED
      BY <3>7, <3>8
  <2>. QED
    BY <2>2, <2>3
<1>7. ASSUME NEW item \in listener[n].todo, ItemGivenUp(n, item)
      PROVE  Offered(n)' /\ Covered(n)'
  <2>1. /\ listener' = [listener EXCEPT ![n].todo = @ \ {item}]
        /\ listener[n].pc \in Locks /\ UNCHANGED directory /\ ~Reachable(n)
    BY <1>7 DEF ItemGivenUp, MayTimeOut
  <2>2. ASSUME item \in Regs, Done(n, item), directory.up, Reached(n, LockOf(item.type))
        PROVE  FALSE
    <3>1. Current(n) /\ initSucceeded[n]
      BY <1>d, <2>1, <2>2, Names DEF Reached, Current
    <3>2. serviceDirectoryNode[n] = directory.url
      BY <1>0, <2>2, <3>1 DEF AtUrl
    <3>. QED
      BY <2>1, <2>2, <3>2 DEF Reachable
  <2>. QED
    BY <1>1, <1>5, <2>1, <2>2
<1>8. CASE LeaveStage(n)
  <2>1. listener[n].pc \in Locks /\ listener[n].todo = {} /\ UNCHANGED directory
    BY <1>8 DEF LeaveStage
  <2>2. CASE listener[n].pc = "subscribe"
    <3> SUFFICES ASSUME directory'.up, NEW r \in Regs, Done(n, r)',
                        Reached(n, LockOf(r.type))'
                 PROVE  Entry(n, r) \in directory'.listed
      BY <1>1, <2>1 DEF Covered
    <3>1. /\ listener'[n].pc = "listen"
          /\ listener'[n].seen = listener[n].message.start
      BY <1>8, <2>2, ReregistrationEnded
    <3>2. LockOf(r.type) \in {"publish", "service"} /\ Done(n, r) /\ directory.up
      BY <1>h, <2>1 DEF LockOf
    <3>3. Reached(n, LockOf(r.type))
      BY <2>1, <2>2, <3>1, <3>2 DEF Reached, Beyond
    <3>. QED
      BY <1>0, <2>1, <3>2, <3>3 DEF Covered
  <2>3. CASE listener[n].pc # "subscribe"
    <3> DEFINE lock == After[listener[n].pc]
    <3>1. /\ listener' = [listener EXCEPT ![n] = EnterStage(n, listener[n], lock)]
          /\ lock \in Locks
      BY <1>8, <2>3, Names DEF LeaveStage
    <3>2. \A k \in {"publish", "service"} \ {lock} :
            lock \in Beyond(k) \/ Waiting[lock] \in Beyond(k) => listener[n].pc \in Beyond(k)
      <4>1. CASE listener[n].pc = "publish"
        BY <4>1, Names DEF Beyond
      <4>2. CASE listener[n].pc = "service"
        BY <4>2, Names DEF Beyond
      <4>. QED
        BY <2>1, <2>3, <4>1, <4>2, Names
    <3>3. Covered(n)'
      <4> HIDE DEF lock
      <4>. QED
        BY <1>0, <1>u, <2>1, <3>1, <3>2, StageCovers
    <3>. QED
      BY <1>1, <2>1, <3>3
  <2>. QED
    BY <2>2, <2>3
<1>. QED
  BY <1>2, <1>3, <1>4, <1>6, <1>7, <1>8 DEF ListenerStep

LEMMA RelistsStep ==
    ASSUME Locked, Typed', \A n \in Nodes : Relists(n), [Next]_vars,
           Slow = FALSE, StartSteps \subseteq Nat \ {0}
    PROVE  \A n \in Nodes : Relists(n)'
<1> SUFFICES ASSUME NEW m \in Nodes PROVE Relists(m)'
  OBVIOUS
<1>0. Typed /\ Exclusive(m) /\ Relists(m)
  BY DEF Locked
<1>1. CASE Crash
  BY <1>0, <1>1, RelistsCrash
<1>2. CASE Restart
  BY <1>0, <1>2, RelistsRestart
<1>3. ASSUME SameNode(m), SameDirectory(m), clock <= clock' PROVE Relists(m)'
  BY <1>0, <1>3, RelistsFrame
<1>4. CASE UNCHANGED vars
  <2>1. SameNode(m) /\ SameDirectory(m) /\ clock <= clock'
    BY <1>0, <1>4
    DEF vars, nodeVars, SameNode, SameThreads, SameDirectory, Typed, DirectoryTyped, Times
  <2>. QED
    BY <1>3, <2>1
<1>5. ASSUME NEW n \in Nodes, NodeStep(n), n # m PROVE Relists(m)'
  BY <1>0, <1>3, <1>5, OtherNodes, OthersListed DEF OthersKept
<1>6. CASE NodeStep(m)
  <2>1. Hearing(m)' /\ AtUrl(m)'
    BY <1>0, <1>6, HearingStep
  <2>2. Offered(m)' /\ Covered(m)'
    <3>1. CASE Broadcast(m) \/ InitNode(m) \/ ManagerStep(m)
      <4>1. UNCHANGED <<directory, clock, offers, app, listener>>
        BY <3>1 DEF Broadcast, InitNode, ManagerStep, JoinUpdates, TakeUpdate, nodeVars
      <4>2. SameDirectory(m) /\ clock <= clock'
        BY <1>0, <4>1 DEF SameDirectory, Typed, DirectoryTyped, Times
      <4>3. \A r : (Held(m, r)' => Held(m, r)) /\ (Done(m, r)' => Done(m, r))
        BY <4>1 DEF Held, Done
      <4>4. app'[m].pc = "send" /\ app'[m].op = "unregister" =>
              app'[m].reg \notin offers'[m]
        BY <1>0, <4>1 DEF Relists, Offered
      <4>. QED
        BY <1>0, <4>1, <4>2, <4>3, <4>4, OfferedFrame, CoveredFrame DEF Relists
    <3>2. ASSUME NEW call, CallTyped(m, call), Wait(m, call) \/ Operation(m, call)
          PROVE  Offered(m)' /\ Covered(m)'
      BY <1>0, <3>2, OperationKeeps DEF Relists
    <3>3. ASSUME NEW call \in Operations(m), Wait(m, call) \/ Operation(m, call)
          PROVE  Offered(m)' /\ Covered(m)'
      BY <1>0, <3>2, <3>3, CallsTyped
    <3>4. CASE app[m].pc = "wait" /\ Operation(m, app[m].call)
      <4>1. CallTyped(m, app[m].call)
        BY <1>0, <3>4 DEF Typed, AppTyped, ThreadTyped
      <4>. QED
        BY <3>2, <3>4, <4>1
    <3>5. CASE RequestAnswered(m) \/ RequestFailed(m) \/ Complete(m)
      BY <1>0, <3>5, RequestKeeps DEF Relists
    <3>6. CASE ListenerStep(m)
      BY <1>0, <3>6, ListenerKeeps
    <3>. QED
      BY <1>6, <3>1, <3>3, <3>4, <3>5, <3>6 DEF NodeStep, OperationStep
  <2>. QED
    BY <2>1, <2>2 DEF Relists
<1>. QED
  BY <1>1, <1>2, <1>4, <1>5, <1>6, NextMeans

\* A restart loses nothing: what a node that has caught up with the directory
\* has registered, the directory lists.
NothingLost ==
    \A n \in Nodes : Settled(n) => \A r \in offers[n] : Entry(n, r) \in directory.listed

\* ServiceDirectoryReregister loses nothing that the application registered
\* before, while it ran or while the directory was away: it goes through the
\* maps under the locks the application registers under, and the listener
\* starts it again for every start time later than the one it knows.  Any
\* number of restarts, at any URLs.  Two things it rests on: a directory
\* starts at a later time than the ones before it, and one that is up answers
\* (GravityNode gives a request up after three repetitions).  The invariant
\* says of every stage of the re-registration that what it has gone through
\* is listed, and that the times of what a node holds are never older than
\* what is listed for it, or the directory would ignore them.
THEOREM NothingLostHolds ==
    ASSUME Slow = FALSE, StartSteps \subseteq Nat \ {0}
    PROVE  Spec => []NothingLost
<1> DEFINE Inv == \A n \in Nodes : Relists(n)
<1>1. Init => Inv
  BY RelistsInit
<1>2. Locked /\ Locked' /\ Inv /\ [Next]_vars => Inv'
  BY RelistsStep DEF Locked
<1>3. Locked /\ Inv => NothingLost
  <2> SUFFICES ASSUME Locked, Inv, NEW n \in Nodes, Settled(n), NEW r \in offers[n]
               PROVE  Entry(n, r) \in directory.listed
    BY DEF NothingLost
  <2>1. r \in Regs
    BY DEF Locked, Typed, NodesTyped
  <2>2. Done(n, r) /\ Reached(n, LockOf(r.type)) /\ directory.up
    BY DEF Done, Reached, Settled
  <2>3. listener[n].pc # LockOf(r.type)
    BY DEF Settled, LockOf
  <2>. QED
    BY <2>1, <2>2, <2>3 DEF Relists, Covered
<1> HIDE DEF Inv
<1>. QED
  BY <1>1, <1>2, <1>3, LockedHolds, PTL DEF Spec

(***************************************************************************)
(* What a restart must not bring back.                                     *)
(***************************************************************************)

\* reg is in the maps of a node, or in its request, or in what the request
\* has returned.
Known(n, reg) ==
    \/ reg \in offers[n]
    \/ app[n].pc \in {"send", "done"} /\ app[n].op # "subscribe" /\ reg = app[n].reg

\* Nothing else is listed of a node; and it knows a URL to send requests to.
NothingElse(n) ==
    /\ initSucceeded[n] => serviceDirectoryNode[n] \in DirectoryUrls
    /\ listener[n].pc # "listen" => listener[n].message.url \in DirectoryUrls
    /\ \A e \in directory.listed : e.node = n => directory.up /\ Known(n, e.reg)

LEMMA NothingElseInit == ASSUME Init, NEW n \in Nodes PROVE NothingElse(n)
<1>0. PICK url \in DirectoryUrls, updates \in UpdatesUrls :
        directory = Started(1, url, updates)
  BY DEF Init
<1>1. /\ directory.url = url /\ directory.listed = {} /\ listener[n].pc = "listen"
      /\ initSucceeded[n] <=> n \notin Fresh
      /\ n \notin Fresh => serviceDirectoryNode[n] = directory.url
  BY <1>0 DEF Init, Started
<1>. QED
  BY <1>0, <1>1 DEF NothingElse

LEMMA NothingElseDirectory ==
    ASSUME Typed, NEW n \in Nodes, NothingElse(n), Crash \/ Restart
    PROVE  NothingElse(n)'
<1>1. UNCHANGED <<nodeVars, listener, app>>
  BY DEF Crash, Restart
<1>2. directory'.listed = {}
  <2>1. Crash => directory'.listed = {}
    BY DEF Crash, Typed, DirectoryTyped
  <2>2. Restart => directory'.listed = {}
    BY DEF Restart, Started
  <2>. QED
    BY <2>1, <2>2
<1>. QED
  BY <1>1, <1>2 DEF NothingElse, nodeVars

LEMMA NothingElseFrame ==
    ASSUME NEW n \in Nodes, NothingElse(n), SameNode(n), SameDirectory(n)
    PROVE  NothingElse(n)'
<1>1. \A r : Known(n, r)' <=> Known(n, r)
  BY DEF Known, SameNode, SameThreads
<1>2. \A e \in directory'.listed : e.node = n => directory'.up /\ Known(n, e.reg)'
  BY <1>1 DEF NothingElse, SameDirectory
<1> HIDE DEF Known
<1>. QED
  BY <1>2 DEF NothingElse, SameNode, SameThreads

\* Where requests go.
LEMMA UrlStep ==
    ASSUME Typed, NEW n \in Nodes, NothingElse(n), NodeStep(n)
    PROVE  /\ initSucceeded'[n] => serviceDirectoryNode'[n] \in DirectoryUrls
           /\ listener'[n].pc # "listen" => listener'[n].message.url \in DirectoryUrls
<1> DEFINE Goal == /\ initSucceeded'[n] => serviceDirectoryNode'[n] \in DirectoryUrls
                   /\ listener'[n].pc # "listen" =>
                        listener'[n].message.url \in DirectoryUrls
<1>t. /\ heard \in [Nodes -> SUBSET DirectoryUrls]
      /\ serviceDirectoryNode \in [Nodes -> DirectoryUrls \cup {NoUrl}]
      /\ datagrams \in [Nodes -> SUBSET [start : Int, url : DirectoryUrls]]
  BY DEF Typed, NodesTyped
<1>1. ASSUME UNCHANGED <<initSucceeded, serviceDirectoryNode>>,
             \/ listener'[n].pc = "listen"
             \/ /\ listener[n].pc # "listen"
                /\ listener'[n].message = listener[n].message
             \/ listener'[n].message.url \in DirectoryUrls
      PROVE  Goal
  BY <1>1 DEF NothingElse
<1>2. CASE InitNode(n)
  <2>1. serviceDirectoryNode'[n] \in DirectoryUrls /\ UNCHANGED listener
    BY <1>2, <1>t DEF InitNode, DomainUrls
  <2>. QED
    BY <2>1 DEF NothingElse
<1>3. ASSUME UNCHANGED <<initSucceeded, serviceDirectoryNode, listener>> PROVE Goal
  BY <1>3 DEF NothingElse
<1>4. ASSUME NEW call, Wait(n, call) \/ Operation(n, call) PROVE Goal
  BY <1>3, <1>4
  DEF Wait, Operation, Register, Unregister, Subscribe, Unsubscribe, TakesLock, nodeVars
<1>5. CASE Broadcast(n) \/ RequestFailed(n) \/ Complete(n) \/ ManagerStep(n)
  BY <1>3, <1>5
  DEF Broadcast, RequestFailed, Complete, ManagerStep, JoinUpdates, TakeUpdate, nodeVars
<1>6. CASE RequestAnswered(n)
  <2>1. UNCHANGED <<initSucceeded, serviceDirectoryNode, listener>>
    BY <1>6 DEF RequestAnswered, nodeVars
  <2>. QED
    BY <1>3, <2>1
<1>7. ASSUME NEW m \in datagrams[n], Hear(n, m) PROVE Goal
  <2>1. UNCHANGED <<initSucceeded, serviceDirectoryNode>> /\ m.url \in DirectoryUrls
    BY <1>7, <1>t DEF Hear
  <2>2. listener'[n].pc = "listen" \/ listener'[n].message = m
    BY <1>7, Heard
  <2>. QED
    BY <1>1, <2>1, <2>2
<1>8. CASE UpdateServiceDirectoryUrl(n)
  <2>1. /\ listener[n].pc = "update" /\ UNCHANGED initSucceeded
        /\ serviceDirectoryNode'[n] = listener[n].message.url
        /\ listener' = [listener EXCEPT ![n] = EnterStage(n, listener[n], "publish")]
    BY <1>8, <1>t DEF UpdateServiceDirectoryUrl
  <2>2. listener'[n].message = listener[n].message
    BY <2>1, StageEntered, Names
  <2>. QED
    BY <2>1, <2>2 DEF NothingElse
<1>9. ASSUME NEW lock \in Locks, LockReleased(n, lock) PROVE Goal
  <2>1. /\ listener[n].pc = Waiting[lock]
        /\ UNCHANGED <<initSucceeded, serviceDirectoryNode>>
        /\ listener' = [listener EXCEPT ![n] = EnterStage(n, listener[n], lock)]
    BY <1>9 DEF LockReleased, nodeVars
  <2>2. listener'[n].message = listener[n].message /\ listener[n].pc # "listen"
    BY <2>1, StageEntered, Names
  <2>. QED
    BY <1>1, <2>1, <2>2
<1>10. ASSUME NEW item \in listener[n].todo, ItemAnswered(n, item) \/ ItemGivenUp(n, item)
       PROVE  Goal
  <2>1. /\ listener[n].pc \in Locks
        /\ UNCHANGED <<initSucceeded, serviceDirectoryNode>>
        /\ listener' = [listener EXCEPT ![n].todo = @ \ {item}]
    BY <1>10 DEF ItemAnswered, ItemGivenUp, nodeVars
  <2>2. listener'[n].message = listener[n].message /\ listener[n].pc # "listen"
    BY <2>1, ItemTaken, Names
  <2>. QED
    BY <1>1, <2>1, <2>2
<1>11. CASE LeaveStage(n)
  <2>1. listener[n].pc \in Locks /\ UNCHANGED <<initSucceeded, serviceDirectoryNode>>
    BY <1>11 DEF LeaveStage, nodeVars
  <2>2. CASE listener[n].pc = "subscribe"
    BY <1>1, <1>11, <2>1, <2>2, ReregistrationEnded
  <2>3. CASE listener[n].pc # "subscribe"
    <3>1. /\ listener' = [listener EXCEPT ![n] =
                            EnterStage(n, listener[n], After[listener[n].pc])]
          /\ After[listener[n].pc] \in Locks
      BY <1>11, <2>3, Names DEF LeaveStage
    <3>2. listener'[n].message = listener[n].message /\ listener[n].pc # "listen"
      BY <2>1, <3>1, StageEntered, Names
    <3>. QED
      BY <1>1, <2>1, <3>2
  <2>. QED
    BY <2>2, <2>3
<1>12. CASE ListenerStep(n)
  BY <1>7, <1>8, <1>9, <1>10, <1>11, <1>12 DEF ListenerStep
<1>. QED
  BY <1>2, <1>4, <1>5, <1>6, <1>12 DEF NodeStep, OperationStep

\* What is listed.  With one URL, a request that is given up is one for a
\* directory that is gone, and its list with it.
LEMMA KnownStep ==
    ASSUME Typed, NEW n \in Nodes, Exclusive(n), NothingElse(n), NodeStep(n),
           Slow = FALSE, \A u, v \in DirectoryUrls : u = v
    PROVE  \A e \in directory'.listed : e.node = n => directory'.up /\ Known(n, e.reg)'
<1> DEFINE Goal == \A e \in directory'.listed :
                     e.node = n => directory'.up /\ Known(n, e.reg)'
<1>0. /\ DOMAIN app = Nodes /\ ThreadTyped(n, app[n])
      /\ offers \in [Nodes -> SUBSET Regs] /\ initSucceeded[n] \in BOOLEAN
      /\ directory.listed \subseteq Entries /\ directory.url \in DirectoryUrls
      /\ directory.up \in BOOLEAN
  BY DEF Typed, NodesTyped, AppTyped, DirectoryTyped
<1>1. ASSUME UNCHANGED directory, \A r : Known(n, r) => Known(n, r)' PROVE Goal
  BY <1>1 DEF NothingElse
<1>2. ASSUME UNCHANGED <<directory, offers, app>> PROVE Goal
  BY <1>1, <1>2 DEF Known
<1>3. ASSUME UNCHANGED directory, app[n].pc \in {"idle", "wait"}, UNCHANGED offers
      PROVE  Goal
  <2>1. \A r : Known(n, r) => Known(n, r)'
    BY <1>3 DEF Known
  <2>. QED
    BY <1>1, <1>3, <2>1
<1>4. ASSUME NEW call, Wait(n, call) \/ Operation(n, call) PROVE Goal
  <2>1. app[n].pc \in {"idle", "wait"} /\ UNCHANGED directory
    BY <1>4 DEF Wait, Operation, Register, Unregister, Subscribe, Unsubscribe, TakesLock, Idle
  <2>2. CASE Unregister(n, call)
    <3>1. PICK r \in offers[n] :
            offers' = [offers EXCEPT ![n] = @ \ {r}] /\ Sends(n, call, r)
      BY <2>2 DEF Unregister
    <3>2. /\ offers'[n] = offers[n] \ {r} /\ app'[n].reg = r
          /\ app'[n].pc = "send" /\ app'[n].op = "unregister"
      BY <1>0, <2>2, <3>1 DEF Sends, Unregister
    <3>3. \A s : Known(n, s) => Known(n, s)'
      BY <2>1, <3>2 DEF Known
    <3>. QED
      BY <1>1, <2>1, <3>3
  <2>3. CASE UNCHANGED offers
    BY <1>3, <2>1, <2>3
  <2>. QED
    BY <1>4, <2>2, <2>3
    DEF Wait, Operation, Register, Subscribe, Unsubscribe, nodeVars
<1>5. CASE RequestFailed(n)
  <2>1. app[n].pc = "send" /\ ~Reachable(n) /\ UNCHANGED directory
    BY <1>5 DEF RequestFailed, MayTimeOut
  <2>2. initSucceeded[n]
    BY <1>0, <2>1 DEF Exclusive, Idle
  <2>3. ~directory.up
    BY <1>0, <2>1, <2>2 DEF NothingElse, Reachable
  <2>. QED
    BY <2>1, <2>3 DEF NothingElse
<1>6. CASE Complete(n)
  <2>1. app[n].pc = "done" /\ UNCHANGED directory
    BY <1>6 DEF Complete
  <2>2. CASE app[n].op = "register"
    <3>1. offers'[n] = offers[n] \cup {app[n].reg}
      BY <1>0, <1>6, <2>2 DEF Complete
    <3>2. \A r : Known(n, r) => Known(n, r)'
      BY <3>1 DEF Known
    <3>. QED
      BY <1>1, <2>1, <3>2
  <2>3. CASE app[n].op = "subscribe"
    <3>1. UNCHANGED offers
      BY <1>6, <2>3 DEF Complete
    <3>2. \A r : Known(n, r) => Known(n, r)'
      BY <2>3, <3>1 DEF Known
    <3>. QED
      BY <1>1, <2>1, <3>2
  <2>. QED
    BY <1>0, <2>1, <2>2, <2>3 DEF ThreadTyped
<1>7. CASE RequestAnswered(n)
  <2>0. /\ app[n].pc = "send" /\ UNCHANGED <<offers, starts, clock>>
        /\ directory.up /\ Reachable(n)
    BY <1>7 DEF RequestAnswered, Reachable, nodeVars
  <2>1. CASE app[n].op = "register"
    <3>1. HandleRegister(n, app[n].reg) /\ app[n].reg \in Regs
      BY <1>0, <1>7, <2>0, <2>1 DEF RequestAnswered, ThreadTyped
    <3>2. app'[n].pc = "done" /\ app'[n].op = "register" /\ app'[n].reg = app[n].reg
      BY <1>0, <1>7, <2>1 DEF RequestAnswered
    <3>3. /\ directory'.up = directory.up
          /\ \A e \in directory'.listed :
               e \in directory.listed \/ e = Entry(n, app[n].reg)
      BY <2>0, <3>1, Registered DEF Typed
    <3>4. \A r : Known(n, r) => Known(n, r)'
      BY <2>0, <3>2 DEF Known
    <3>5. \A r : r = app[n].reg => Known(n, r)'
      BY <3>2 DEF Known
    <3>6. Entry(n, app[n].reg).reg = app[n].reg
      BY DEF Entry
    <3>. QED
      BY <2>0, <3>3, <3>4, <3>5, <3>6 DEF NothingElse
  <2>2. CASE app[n].op = "unregister"
    <3>1. HandleUnregister(n, app[n].reg) /\ app[n].reg \in Regs
      BY <1>0, <1>7, <2>0, <2>2 DEF RequestAnswered, ThreadTyped
    <3>2. /\ directory'.up = directory.up
          /\ directory'.listed = directory.listed \ {Entry(n, app[n].reg)}
      BY <2>0, <3>1, Unregistered DEF Typed
    <3>3. \A r : Known(n, r) /\ r # app[n].reg => Known(n, r)'
      BY <2>0 DEF Known
    <3>4. ASSUME NEW e \in directory.listed, e.node = n, e.reg = app[n].reg
          PROVE  e = Entry(n, app[n].reg)
      BY <1>0, <3>4 DEF Entries, Entry
    <3>. QED
      BY <2>0, <3>2, <3>3, <3>4 DEF NothingElse
  <2>3. CASE app[n].op = "subscribe"
    <3>1. UNCHANGED directory
      BY <1>7, <2>3 DEF RequestAnswered
    <3>2. \A r : Known(n, r) => Known(n, r)'
      BY <2>0, <2>3 DEF Known
    <3>. QED
      BY <1>1, <3>1, <3>2
  <2>. QED
    BY <1>0, <2>0, <2>1, <2>2, <2>3 DEF ThreadTyped
<1>8. ASSUME NEW item \in listener[n].todo, ItemAnswered(n, item) PROVE Goal
  <2>0. /\ UNCHANGED <<offers, app, starts, clock>> /\ listener[n].pc \in Locks
        /\ directory.up
    BY <1>8 DEF ItemAnswered, Reachable
  <2>1. CASE listener[n].pc = "subscribe"
    BY <1>2, <1>8, <2>0, <2>1 DEF ItemAnswered
  <2>2. CASE listener[n].pc # "subscribe"
    <3>1. HandleRegister(n, item)
      BY <1>8, <2>2 DEF ItemAnswered
    <3>2. item \in offers[n] /\ item \in Regs
      <4>1. listener[n].pc \in {"publish", "service"}
        BY <2>0, <2>2, Names
      <4>2. item \in StageItems(n, listener[n].pc)
        BY <4>1 DEF Exclusive
      <4>. QED
        BY <1>0, <2>2, <4>2 DEF StageItems
    <3>3. /\ directory'.up = directory.up
          /\ \A e \in directory'.listed : e \in directory.listed \/ e = Entry(n, item)
      BY <2>0, <3>1, <3>2, Registered DEF Typed
    <3>4. \A r : Known(n, r) => Known(n, r)'
      BY <2>0 DEF Known
    <3>5. Known(n, item) /\ Entry(n, item).reg = item
      BY <3>2 DEF Known, Entry
    <3>. QED
      BY <2>0, <3>3, <3>4, <3>5 DEF NothingElse
  <2>. QED
    BY <2>1, <2>2
<1>9. CASE Broadcast(n) \/ InitNode(n) \/ ManagerStep(n)
  BY <1>2, <1>9 DEF Broadcast, InitNode, ManagerStep, JoinUpdates, TakeUpdate, nodeVars
<1>10. CASE ListenerStep(n)
  BY <1>2, <1>8, <1>10
  DEF ListenerStep, Hear, UpdateServiceDirectoryUrl, LockReleased, ItemGivenUp, LeaveStage,
      nodeVars
<1>. QED
  BY <1>4, <1>5, <1>6, <1>7, <1>9, <1>10 DEF NodeStep, OperationStep

LEMMA NothingElseStep ==
    ASSUME Locked, \A n \in Nodes : NothingElse(n), [Next]_vars,
           Slow = FALSE, \A u, v \in DirectoryUrls : u = v
    PROVE  \A n \in Nodes : NothingElse(n)'
<1> SUFFICES ASSUME NEW m \in Nodes PROVE NothingElse(m)'
  OBVIOUS
<1>0. Typed /\ Exclusive(m) /\ NothingElse(m)
  BY DEF Locked
<1>1. CASE Crash \/ Restart
  BY <1>0, <1>1, NothingElseDirectory
<1>2. CASE UNCHANGED vars
  <2>1. SameNode(m) /\ SameDirectory(m)
    BY <1>2 DEF vars, nodeVars, SameNode, SameThreads, SameDirectory
  <2>. QED
    BY <1>0, <2>1, NothingElseFrame
<1>3. ASSUME NEW n \in Nodes, NodeStep(n), n # m PROVE NothingElse(m)'
  BY <1>0, <1>3, NothingElseFrame, OtherNodes, OthersListed DEF OthersKept
<1>4. CASE NodeStep(m)
  <2>1. /\ initSucceeded'[m] => serviceDirectoryNode'[m] \in DirectoryUrls
        /\ listener'[m].pc # "listen" => listener'[m].message.url \in DirectoryUrls
    BY <1>0, <1>4, UrlStep
  <2>2. \A e \in directory'.listed : e.node = m => directory'.up /\ Known(m, e.reg)'
    BY <1>0, <1>4, KnownStep
  <2>. QED
    BY <2>1, <2>2 DEF NothingElse
<1>. QED
  BY <1>1, <1>2, <1>3, <1>4, NextMeans

\* What the directory lists of a node that has caught up with it is exactly
\* what the node has registered: ServiceDirectoryReregister also brings back
\* nothing that was unregistered.  It rests on what NothingLostHolds rests
\* on, and on one more thing: the directory starts again at its URL.  If it
\* moves, a listener that acts on an older broadcast sends the requests of
\* the application, an unregistration too, to the URL that nobody answers at.
THEOREM SettledIsListedHolds ==
    ASSUME Slow = FALSE, StartSteps \subseteq Nat \ {0},
           \A u, v \in DirectoryUrls : u = v
    PROVE  Spec => []SettledIsListed
<1> DEFINE Inv == \A n \in Nodes : NothingElse(n)
<1>1. Init => Inv
  BY NothingElseInit
<1>2. Locked /\ Inv /\ [Next]_vars => Inv'
  BY NothingElseStep
<1>3. Locked /\ Inv /\ NothingLost => SettledIsListed
  <2> SUFFICES ASSUME Locked, Inv, NothingLost PROVE SettledIsListed
    OBVIOUS
  <2>1. TypeOK
    BY TypedIsTypeOK DEF Locked
  <2>2. ASSUME NEW n \in Nodes, Settled(n)
        PROVE  {e.reg : e \in {f \in directory.listed : f.node = n}} = offers[n]
    <3>1. app[n].pc = "idle"
      BY <2>2 DEF Settled, Idle
    <3>2. ASSUME NEW e \in directory.listed, e.node = n PROVE e.reg \in offers[n]
      BY <3>1, <3>2 DEF NothingElse, Known
    <3>3. ASSUME NEW r \in offers[n]
          PROVE  \E e \in directory.listed : e.node = n /\ e.reg = r
      <4>1. Entry(n, r) \in directory.listed
        BY <2>2 DEF NothingLost
      <4>2. Entry(n, r).node = n /\ Entry(n, r).reg = r
        BY DEF Entry
      <4>. QED
        BY <4>1, <4>2
    <3>. QED
      BY <3>2, <3>3
  <2>. QED
    BY <2>1, <2>2 DEF SettledIsListed
<1>4. Spec => []NothingLost
  BY NothingLostHolds
<1> HIDE DEF Inv
<1>. QED
  BY <1>1, <1>2, <1>3, <1>4, LockedHolds, PTL DEF Spec


(***************************************************************************)
(* The subscriptions.                                                      *)
(***************************************************************************)

\* What the directory sends to those that join is what it lists.
CacheInv ==
    IF directory.cache = NoUpdate THEN Publishers(directory.listed) = {}
    ELSE directory.cache = Publishers(directory.listed)

\* A subscription has an update socket, and once it has joined, what it is
\* connected to, or will be when it reads its update, is what is listed.
Informed(n) ==
    /\ subscriptionList[n] > 0 => manager[n].update \in UpdatesUrls
    /\ manager[n].joined =>
          Publishers(directory.listed) \subseteq
             IF manager[n].waiting = NoUpdate THEN manager[n].known
             ELSE manager[n].waiting

\* The inductive invariant behind SubscriptionRestored.
AllInformed == CacheInv /\ \A n \in Nodes : Informed(n)

LEMMA NoPublishers == Publishers({}) = {}
  BY DEF Publishers

\* At first nothing is listed and nobody subscribes.
LEMMA InformedInit == ASSUME Init PROVE AllInformed
<1>1. directory.listed = {} /\ directory.cache = NoUpdate
  BY DEF Init, Started
<1>2. ASSUME NEW n \in Nodes PROVE subscriptionList[n] = 0 /\ ~manager[n].joined
  BY DEF Init, NoDetails
<1>3. CacheInv
  BY <1>1, NoPublishers DEF CacheInv
<1>4. ASSUME NEW n \in Nodes PROVE Informed(n)
  <2>1. subscriptionList[n] = 0
    BY <1>2
  <2>2. ~(subscriptionList[n] > 0)
    BY <2>1
  <2>. QED
    BY <1>2, <2>2 DEF Informed
<1>. QED
  BY <1>3, <1>4 DEF AllInformed

LEMMA InformedFrame ==
    ASSUME AllInformed, UNCHANGED <<directory, manager, subscriptionList>>
    PROVE  AllInformed'
  BY DEF AllInformed, CacheInv, Informed

\* The directory crashes, and every connection to it with it, or starts with
\* an empty list.
LEMMA InformedDirectory ==
    ASSUME Typed, AllInformed, Crash \/ Restart
    PROVE  AllInformed'
<1>1. /\ directory'.listed = {} /\ directory'.cache = NoUpdate
      /\ UNCHANGED subscriptionList
  <2>1. CASE Crash
    BY <2>1 DEF Crash, Typed, DirectoryTyped, nodeVars
  <2>2. CASE Restart
    <3>1. PICK step \in StartSteps, url \in DirectoryUrls, updates \in UpdatesUrls :
            directory' = Started(directory.start + step, url, updates)
      BY <2>2 DEF Restart
    <3>. QED
      BY <2>2, <3>1 DEF Restart, Started, nodeVars
  <2>. QED
    BY <2>1, <2>2
<1>2. ASSUME NEW n \in Nodes
      PROVE  manager'[n].update = manager[n].update
  <2>1. manager[n] \in Details
    BY DEF Typed, ManagerTyped
  <2>. QED
    BY <2>1 DEF Crash, Restart, Details
<1>. QED
  BY <1>1, <1>2, NoPublishers DEF AllInformed, CacheInv, Informed

\* Whoever has joined is told of a change of the publishers.
LEMMA InformedRelist ==
    ASSUME DirectoryTyped, ManagerTyped, AllInformed,
           NEW listed \in SUBSET Entries, Relist(listed), UNCHANGED subscriptionList
    PROVE  AllInformed'
<1>1. Publishers(listed) # NoUpdate
  BY PublishersTyped, NoUpdateAssumption DEF Publisher, Times
<1>2. CASE /\ Publishers(listed) = Publishers(directory.listed)
           /\ directory' = [directory EXCEPT !.listed = listed] /\ UNCHANGED manager
  <2>1. directory'.listed = listed /\ directory'.cache = directory.cache
    BY <1>2 DEF DirectoryTyped
  <2>. QED
    BY <1>2, <2>1 DEF AllInformed, CacheInv, Informed
<1>3. CASE PublishUpdate(listed)
  <2>1. directory'.listed = listed /\ directory'.cache = Publishers(listed)
    BY <1>3 DEF PublishUpdate, DirectoryTyped
  <2>2. ASSUME NEW n \in Nodes PROVE Informed(n)'
    <3>1. manager[n] \in Details
      BY DEF ManagerTyped
    <3>2. manager'[n] = IF manager[n].joined
                        THEN [manager[n] EXCEPT !.waiting = Publishers(listed)]
                        ELSE manager[n]
      BY <1>3 DEF PublishUpdate
    <3>3. /\ manager'[n].update = manager[n].update
          /\ manager'[n].joined => manager'[n].waiting = Publishers(listed)
      BY <3>1, <3>2 DEF Details
    <3>. QED
      BY <1>1, <2>1, <3>3 DEF AllInformed, Informed
  <2>. QED
    BY <1>1, <2>1, <2>2 DEF AllInformed, CacheInv
<1>. QED
  BY <1>2, <1>3 DEF Relist

\* handleRegister and handleUnregister change the list, or do nothing.
LEMMA InformedRegister ==
    ASSUME DirectoryTyped, ManagerTyped, AllInformed, NEW n \in Nodes, NEW reg \in Regs,
           HandleRegister(n, reg) \/ HandleUnregister(n, reg), UNCHANGED subscriptionList
    PROVE  AllInformed'
<1> DEFINE same == {e \in directory.listed : /\ e.node = n
                                             /\ e.reg.type = reg.type /\ e.reg.id = reg.id}
           more == (directory.listed \ same) \cup {[node |-> n, reg |-> reg]}
           less == directory.listed \ {[node |-> n, reg |-> reg]}
<1>1. more \in SUBSET Entries /\ less \in SUBSET Entries
  <2>1. directory.listed \subseteq Entries /\ [node |-> n, reg |-> reg] \in Entries
    BY DEF DirectoryTyped, Entries
  <2>. QED
    BY <2>1
<1>2. UNCHANGED <<directory, manager>> \/ Relist(more) \/ Relist(less)
  BY DEF HandleRegister, HandleUnregister
<1> HIDE DEF more, less
<1>. QED
  BY <1>1, <1>2, InformedRelist, InformedFrame

\* addSubscription connects to more publishers and to no fewer, and leaves
\* an update socket that is there.
LEMMA InformedAdded ==
    ASSUME Typed, AllInformed, NEW n \in Nodes, NEW found,
           found.updates \in UpdatesUrls, UNCHANGED directory,
           manager' = [manager EXCEPT ![n] = AddedSubscription(@, found)],
           subscriptionList' = [subscriptionList EXCEPT ![n] = @ + 1]
    PROVE  AllInformed'
<1> SUFFICES ASSUME NEW m \in Nodes PROVE Informed(m)'
  BY DEF AllInformed, CacheInv
<1>1. manager[n] \in Details /\ DOMAIN manager = Nodes /\ DOMAIN subscriptionList = Nodes
  BY DEF Typed, ManagerTyped, NodesTyped
<1>2. CASE m # n
  BY <1>1, <1>2 DEF AllInformed, Informed
<1>3. CASE m = n
  <2>1. manager'[n] = AddedSubscription(manager[n], found)
    BY <1>1
  <2>2. /\ manager'[n].update = IF manager[n].update = NoUrl THEN found.updates
                                ELSE manager[n].update
        /\ manager[n].known \subseteq manager'[n].known
        /\ manager'[n].joined = manager[n].joined
        /\ manager'[n].waiting = manager[n].waiting
    BY <1>1, <2>1 DEF AddedSubscription, Details
  <2>3. manager'[n].update \in UpdatesUrls
    BY <1>1, <2>2 DEF Details
  <2>. QED
    BY <1>3, <2>2, <2>3 DEF AllInformed, Informed
<1>. QED
  BY <1>2, <1>3

\* The sockets of a subscription.
LEMMA InformedManager ==
    ASSUME Typed, AllInformed, NEW n \in Nodes, ManagerStep(n)
    PROVE  AllInformed'
<1>1. UNCHANGED <<directory, subscriptionList>>
  BY DEF ManagerStep, JoinUpdates, TakeUpdate, nodeVars
<1> SUFFICES ASSUME NEW m \in Nodes PROVE Informed(m)'
  BY <1>1 DEF AllInformed, CacheInv
<1>2. manager[n] \in Details /\ DOMAIN manager = Nodes
  BY DEF Typed, ManagerTyped
<1>3. CASE m # n
  <2>1. manager'[m] = manager[m]
    BY <1>2, <1>3 DEF ManagerStep, JoinUpdates, TakeUpdate
  <2>. QED
    BY <1>1, <2>1 DEF AllInformed, Informed
<1>4. CASE m = n /\ JoinUpdates(n)
  <2>1. /\ manager'[n].update = manager[n].update
        /\ manager'[n].known = manager[n].known
        /\ manager'[n].waiting = IF directory.cache = NoUpdate THEN manager[n].waiting
                                 ELSE directory.cache
    BY <1>2, <1>4 DEF JoinUpdates, Details
  <2>. QED
    BY <1>1, <1>4, <2>1 DEF AllInformed, Informed, CacheInv
<1>5. CASE m = n /\ TakeUpdate(n)
  <2>1. /\ manager[n].waiting # NoUpdate
        /\ manager'[n].update = manager[n].update
        /\ manager'[n].known = manager[n].waiting
        /\ manager'[n].waiting = NoUpdate
        /\ manager'[n].joined = manager[n].joined
    BY <1>2, <1>5 DEF TakeUpdate, Details
  <2>. QED
    BY <1>1, <1>5, <2>1 DEF AllInformed, Informed
<1>. QED
  BY <1>3, <1>4, <1>5 DEF ManagerStep

\* Of the calls, only unsubscribe touches the sockets: they are closed.
LEMMA InformedOperation ==
    ASSUME Typed, AllInformed, NEW n \in Nodes, NEW call,
           Wait(n, call) \/ Operation(n, call)
    PROVE  AllInformed'
<1>1. CASE Unsubscribe(n, call)
  <2>1. /\ UNCHANGED directory
        /\ subscriptionList' = [subscriptionList EXCEPT ![n] = 0]
        /\ manager' = [manager EXCEPT ![n] = NoDetails]
    BY <1>1 DEF Unsubscribe, TakesLock
  <2>2. DOMAIN manager = Nodes /\ DOMAIN subscriptionList = Nodes
    BY DEF Typed, ManagerTyped, NodesTyped
  <2>3. subscriptionList'[n] = 0 /\ manager'[n].joined = FALSE
    BY <2>1, <2>2 DEF NoDetails
  <2>4. ASSUME NEW m \in Nodes \ {n}
        PROVE  subscriptionList'[m] = subscriptionList[m] /\ manager'[m] = manager[m]
    BY <2>1, <2>2
  <2>. QED
    BY <2>1, <2>3, <2>4 DEF AllInformed, CacheInv, Informed
<1>2. CASE ~Unsubscribe(n, call)
  <2>1. UNCHANGED <<directory, manager, subscriptionList>>
    BY <1>2 DEF Wait, Operation, Register, Unregister, Subscribe, TakesLock, nodeVars
  <2>. QED
    BY <2>1, InformedFrame
<1>. QED
  BY <1>1, <1>2

\* The requests of the application and what their answers lead to.
LEMMA InformedRequest ==
    ASSUME Typed, AllInformed, NEW n \in Nodes,
           RequestAnswered(n) \/ RequestFailed(n) \/ Complete(n)
    PROVE  AllInformed'
<1>0. ThreadTyped(n, app[n])
  BY DEF Typed, AppTyped
<1>1. CASE RequestFailed(n)
  BY <1>1, InformedFrame DEF RequestFailed, nodeVars
<1>2. CASE RequestAnswered(n)
  <2>0. UNCHANGED subscriptionList /\ app[n].pc = "send"
    BY <1>2 DEF RequestAnswered, nodeVars
  <2>1. CASE app[n].op = "register"
    <3>1. HandleRegister(n, app[n].reg) /\ app[n].reg \in Regs
      BY <1>0, <1>2, <2>0, <2>1 DEF RequestAnswered, ThreadTyped
    <3>. QED
      BY <2>0, <3>1, InformedRegister DEF Typed
  <2>2. CASE app[n].op = "unregister"
    <3>1. HandleUnregister(n, app[n].reg) /\ app[n].reg \in Regs
      BY <1>0, <1>2, <2>0, <2>2 DEF RequestAnswered, ThreadTyped
    <3>. QED
      BY <2>0, <3>1, InformedRegister DEF Typed
  <2>3. CASE app[n].op = "subscribe"
    <3>1. UNCHANGED <<directory, manager>>
      BY <1>2, <2>3 DEF RequestAnswered
    <3>. QED
      BY <2>0, <3>1, InformedFrame
  <2>. QED
    BY <1>0, <2>0, <2>1, <2>2, <2>3 DEF ThreadTyped
<1>3. CASE Complete(n)
  <2>1. UNCHANGED directory /\ app[n].pc = "done"
    BY <1>3 DEF Complete
  <2>2. CASE app[n].op = "register"
    BY <1>3, <2>1, <2>2, InformedFrame DEF Complete
  <2>3. CASE app[n].op = "subscribe"
    <3>1. app[n].found.updates \in UpdatesUrls
      BY <1>0, <2>1, <2>3 DEF ThreadTyped
    <3>2. /\ manager' = [manager EXCEPT ![n] = AddedSubscription(@, app[n].found)]
          /\ subscriptionList' = [subscriptionList EXCEPT ![n] = @ + 1]
      BY <1>3, <2>3 DEF Complete
    <3>. QED
      BY <2>1, <3>1, <3>2, InformedAdded
  <2>. QED
    BY <1>0, <2>1, <2>2, <2>3 DEF ThreadTyped
<1>. QED
  BY <1>1, <1>2, <1>3

\* Registering and subscribing again.
LEMMA InformedListener ==
    ASSUME Typed, AllInformed, NEW n \in Nodes, ListenerStep(n)
    PROVE  AllInformed'
<1>1. ASSUME NEW item \in listener[n].todo, ItemAnswered(n, item) PROVE AllInformed'
  <2>1. CASE listener[n].pc = "subscribe"
    <3>1. /\ UNCHANGED directory
          /\ manager' = [manager EXCEPT ![n] = AddedSubscription(@, Found)]
          /\ subscriptionList' = [subscriptionList EXCEPT ![n] = @ + 1]
      BY <1>1, <2>1 DEF ItemAnswered
    <3>2. Found.updates \in UpdatesUrls
      BY DEF Found, Typed, DirectoryTyped
    <3>. QED
      BY <3>1, <3>2, InformedAdded
  <2>2. CASE listener[n].pc # "subscribe"
    <3>1. HandleRegister(n, item) /\ UNCHANGED subscriptionList
      BY <1>1, <2>2 DEF ItemAnswered
    <3>2. item \in Regs
      BY <1>1, <2>2 DEF Typed, ListenerTyped, TodoTyped
    <3>. QED
      BY <3>1, <3>2, InformedRegister DEF Typed
  <2>. QED
    BY <2>1, <2>2
<1>2. CASE UNCHANGED <<directory, manager, subscriptionList>>
  BY <1>2, InformedFrame
<1>. QED
  BY <1>1, <1>2
  DEF ListenerStep, Hear, UpdateServiceDirectoryUrl, LockReleased, ItemGivenUp, LeaveStage,
      nodeVars

\* Every step keeps the subscriptions informed.
LEMMA InformedStep == ASSUME Typed, AllInformed, [Next]_vars PROVE AllInformed'
<1>1. CASE UNCHANGED vars
  BY <1>1, InformedFrame DEF vars, nodeVars
<1>2. ASSUME NEW n \in Nodes, NodeStep(n) PROVE AllInformed'
  <2>1. CASE Broadcast(n) \/ InitNode(n)
    BY <2>1, InformedFrame DEF Broadcast, InitNode, nodeVars
  <2>2. CASE OperationStep(n)
    BY <2>2, InformedOperation, InformedRequest DEF OperationStep
  <2>. QED
    BY <1>2, <2>1, <2>2, InformedOperation, InformedListener, InformedManager DEF NodeStep
<1>. QED
  BY <1>1, <1>2, InformedDirectory, NextMeans

\* A subscription of a node that has caught up with the directory, and whose
\* updates are read, is connected to every publisher the directory lists, for
\* any number of nodes, restarts and operations, requests that are given up
\* and start times that go back.  RegisteredPublishers has one URL: the update
\* socket is opened once (GravitySubscriptionManager::addSubscription) and
\* would not follow a directory that publishes its updates at another.
THEOREM SubscriptionRestoredHolds ==
    ASSUME \A u, v \in UpdatesUrls : u = v
    PROVE  Spec => []SubscriptionRestored
<1>1. Init => AllInformed
  BY InformedInit
<1>2. Locked /\ AllInformed /\ [Next]_vars => AllInformed'
  BY InformedStep DEF Locked
<1>3. Locked /\ AllInformed => SubscriptionRestored
  <2> SUFFICES ASSUME Locked, AllInformed, NEW n \in Nodes, subscriptionList[n] > 0,
                      manager[n].waiting = NoUpdate,
                      manager[n].update = directory.updates => manager[n].joined
               PROVE  Publishers(directory.listed) \subseteq manager[n].known
    BY DEF SubscriptionRestored
  <2>1. manager[n].update \in UpdatesUrls /\ directory.updates \in UpdatesUrls
    BY DEF AllInformed, Informed, Locked, Typed, DirectoryTyped
  <2>2. manager[n].joined
    BY <2>1
  <2>. QED
    BY <2>2 DEF AllInformed, Informed
<1>. QED
  BY <1>1, <1>2, <1>3, LockedHolds, PTL DEF Spec
=============================================================================
