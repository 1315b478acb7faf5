---------------------- MODULE NodeRegistrationProofs ----------------------
(***************************************************************************)
(* Proofs about the registration of data products and services, for any    *)
(* nodes, offers and ports and any number of attempts, with requests that  *)
(* are delayed, repeated and handled in any order, and nodes that crash.   *)
(***************************************************************************)
EXTENDS NodeRegistration, ServiceDirectoryProofs

(***************************************************************************)
(* Types.                                                                  *)
(***************************************************************************)

OfferOf(r) == [type |-> r.type, id |-> r.id]

\* The registrations node n may make.
RegsOf(n) ==
    {r \in DataRegistration \cup ServiceRegistration :
        /\ OfferOf(r) \in OffersOf[n] /\ r.domain = OwnDomain
        /\ r.timestamp \in Timestamps
        /\ r.url \in UrlsOf[n] \/ (r.type = "SERVICE" /\ r.url = EmptyUrl)}

Phases == {"idle", "stamped", "register", "unregister", "blocked"}
Sending == {"register", "unregister"}

\* What node n has a timestamp for, and no port yet.
Stamped(n) ==
    \E offer \in OffersOf[n], t \in Timestamps :
        t < clock /\ current[n] = Registration(offer, NoUrl, t)

NodesType ==
    /\ clock \in Nat /\ clock > 0
    /\ phase \in [Nodes -> Phases]
    /\ current = [n \in Nodes |-> current[n]]
    /\ attempt \in [Nodes -> Nat]
    /\ registered = [n \in Nodes |-> registered[n]]
    /\ urlInstanceMap \in [Nodes -> [Urls -> {NoInstance} \cup Timestamps]]

OperationType(n) ==
    /\ phase[n] \in {"idle", "blocked"} => current[n] = NoRegistration
    /\ phase[n] = "stamped" => Stamped(n)
    /\ phase[n] \in Sending =>
          current[n] \in RegsOf(n) /\ current[n].timestamp < clock
    /\ \A r \in registered[n] : r \in RegsOf(n) /\ r.timestamp < clock
    /\ \A u \in Urls : urlInstanceMap[n][u] < clock

OperationsType == \A n \in Nodes : OperationType(n)

MessageType(m) ==
    /\ m.node \in Nodes /\ m.kind \in Sending
    /\ m.reg \in RegsOf(m.node) /\ m.reg.timestamp < clock

MessagesType == \A m \in requests : MessageType(m)

SystemType == TypeOK /\ NodesType /\ OperationsType /\ MessagesType

(***************************************************************************)
(* The invariants.                                                         *)
(***************************************************************************)

\* No two nodes can bind the same port.
OwnPorts == \A n, k \in Nodes : UrlsOf[n] \cap UrlsOf[k] # {} => n = k

\* r is bound to its port.
Present(n, r) == r \in registered[n] \/ (phase[n] = "register" /\ r = current[n])

\* A port is bound once, and the one that is being unregistered is not bound.
PortsInv ==
    /\ \A n \in Nodes : \A r, s \in registered[n] :
          r.url = s.url /\ r.url # EmptyUrl => r = s
    /\ \A n \in Nodes : \A r \in registered[n] :
          phase[n] \in Sending /\ r.url = current[n].url => r.url = EmptyUrl

\* Nothing at the port is newer than r, and nothing is as new but the requests
\* to register r.
Newest(r) ==
    /\ registrationInstanceMap[r.url] <= r.timestamp
    /\ \A m \in requests : m.reg.url = r.url =>
          /\ m.reg.timestamp <= r.timestamp
          /\ m.reg.timestamp = r.timestamp => m.kind = "register" /\ m.reg = r

\* Everything at the ports of n is older than t.
Older(n, t) ==
    /\ \A u \in UrlsOf[n] : registrationInstanceMap[u] < t
    /\ \A m \in requests : m.reg.url \in UrlsOf[n] => m.reg.timestamp < t

TimesInv ==
    \A n \in Nodes :
        /\ Older(n, clock)
        /\ phase[n] = "stamped" => Older(n, current[n].timestamp)
        /\ \A r : Present(n, r) /\ r.url # EmptyUrl => Newest(r)

\* A reply is to the attempt its node is polling for.
RepliesInv ==
    \A m \in replies :
        m.node \in Nodes /\ m.kind \in Sending /\ m = Awaited(m.node)

\* The registration of node n has been answered.
Done(n, r) ==
    \/ r \in registered[n]
    \/ phase[n] = "register" /\ r = current[n] /\ Awaited(n) \in replies

\* A node that has one port has nothing but the one service to register.
Sole(n) ==
    \A o \in OffersOf[n] :
        o.type = "SERVICE" => OffersOf[n] = {o} /\ \E u : UrlsOf[n] = {u}

\* A node registers something again only after it has unregistered it.
NotYet ==
    \A n \in Nodes : phase[n] \in {"stamped", "register"} =>
        \A r \in registered[n] : OfferOf(r) # OfferOf(current[n])

(***************************************************************************)
(* What the steps of a node do.                                            *)
(***************************************************************************)

\* The maps of the nodes have an entry for every node.
Shapes ==
    /\ phase = [n \in Nodes |-> phase[n]] /\ current = [n \in Nodes |-> current[n]]
    /\ attempt = [n \in Nodes |-> attempt[n]]
    /\ registered = [n \in Nodes |-> registered[n]]
    /\ urlInstanceMap \in [Nodes -> [Urls -> {NoInstance} \cup Timestamps]]

SameNode(k) ==
    /\ phase'[k] = phase[k] /\ current'[k] = current[k]
    /\ attempt'[k] = attempt[k] /\ registered'[k] = registered[k]
    /\ urlInstanceMap'[k] = urlInstanceMap[k]

Others(n) == Shapes' /\ \A k \in Nodes : k # n => SameNode(k)

\* Setting one entry of a nested function.
LEMMA NestedExcept ==
    ASSUME NEW A, NEW B, NEW C, NEW f \in [A -> [B -> C]], NEW a \in A, NEW b \in B,
           NEW c \in C
    PROVE  LET g == [f EXCEPT ![a][b] = c]
           IN  /\ g \in [A -> [B -> C]] /\ \A k \in A : k # a => g[k] = f[k]
               /\ g[a][b] = c /\ \A d \in B : d # b => g[a][d] = f[a][d]
  OBVIOUS

LEMMA RegistrationFields ==
    ASSUME NEW offer, NEW url, NEW t
    PROVE  LET r == Registration(offer, url, t)
           IN  /\ r.type = offer.type /\ r.id = offer.id /\ r.url = url
               /\ r.domain = OwnDomain /\ r.timestamp = t
               /\ \A u : [r EXCEPT !.url = u] = Registration(offer, u, t)
  BY DEF Registration

\* The operation of n is over.
Ended(n) ==
    phase'[n] = "idle" /\ current'[n] = NoRegistration /\ attempt'[n] = 0

LEMMA FinishEffect ==
    ASSUME Shapes, NEW n \in Nodes, Finish(n)
    PROVE  /\ Ended(n)
           /\ phase' = [k \in Nodes |-> phase'[k]]
           /\ current' = [k \in Nodes |-> current'[k]]
           /\ attempt' = [k \in Nodes |-> attempt'[k]]
           /\ \A k \in Nodes : k # n => /\ phase'[k] = phase[k]
                                        /\ current'[k] = current[k]
                                        /\ attempt'[k] = attempt[k]
  BY DEF Finish, Ended, Shapes

LEMMA StampEffect ==
    ASSUME Shapes, NEW n \in Nodes, NEW offer, Stamp(n, offer)
    PROVE  /\ Others(n) /\ UNCHANGED <<vars, mapsOfNode, requests, replies>>
           /\ phase[n] = "idle" /\ phase'[n] = "stamped"
           /\ clock <= MaxTime /\ clock' = clock + 1
           /\ current'[n] = Registration(offer, NoUrl, clock)
           /\ attempt'[n] = attempt[n] /\ registered'[n] = registered[n]
           /\ \A r \in registered[n] : r.type # offer.type \/ r.id # offer.id
<1>1. /\ UNCHANGED <<vars, attempt, mapsOfNode, requests, replies>>
      /\ phase[n] = "idle" /\ clock <= MaxTime /\ clock' = clock + 1
      /\ phase' = [phase EXCEPT ![n] = "stamped"]
      /\ current' = [current EXCEPT ![n] = Registration(offer, NoUrl, clock)]
      /\ \A r \in registered[n] : r.type # offer.type \/ r.id # offer.id
  BY DEF Stamp
<1>2. /\ phase'[n] = "stamped" /\ current'[n] = Registration(offer, NoUrl, clock)
      /\ \A k \in Nodes : k # n => phase'[k] = phase[k] /\ current'[k] = current[k]
  BY <1>1 DEF Shapes
<1>3. UNCHANGED <<attempt, registered, urlInstanceMap>>
  BY <1>1 DEF mapsOfNode
<1>4. Shapes'
  BY <1>1, <1>3 DEF Shapes
<1>5. Others(n)
  BY <1>2, <1>3, <1>4 DEF Others, SameNode
<1>6. QED BY <1>1, <1>2, <1>3, <1>5

\* A manager thread has returned the URL u.
Started(n, u) ==
    /\ phase[n] = "stamped" /\ phase'[n] = "register"
    /\ current'[n] = [current[n] EXCEPT !.url = u]
    /\ attempt'[n] = 1 /\ registered'[n] = registered[n]
    /\ requests' = requests \cup
          {[kind |-> "register", node |-> n, reg |-> current'[n], attempt |-> 1]}

LEMMA StartEffect ==
    ASSUME Shapes, NEW n \in Nodes, NEW u, phase[n] = "stamped", StartRegister(n, u)
    PROVE  /\ Others(n) /\ UNCHANGED <<vars, clock, mapsOfNode, replies>>
           /\ Started(n, u)
<1>1. /\ UNCHANGED <<vars, clock, mapsOfNode, replies>>
      /\ phase' = [phase EXCEPT ![n] = "register"]
      /\ current' = [current EXCEPT ![n] = [current[n] EXCEPT !.url = u]]
      /\ attempt' = [attempt EXCEPT ![n] = 1]
      /\ requests' = requests \cup {Message("register", n, 1)}
  BY DEF StartRegister
<1>2. /\ phase'[n] = "register" /\ current'[n] = [current[n] EXCEPT !.url = u]
      /\ attempt'[n] = 1
      /\ \A k \in Nodes : k # n => /\ phase'[k] = phase[k]
                                   /\ current'[k] = current[k]
                                   /\ attempt'[k] = attempt[k]
  BY <1>1 DEF Shapes
<1>3. UNCHANGED <<registered, urlInstanceMap>>
  BY <1>1 DEF mapsOfNode
<1>4. Shapes'
  BY <1>1, <1>3 DEF Shapes
<1>5. Others(n)
  BY <1>2, <1>3, <1>4 DEF Others, SameNode
<1>6. requests' = requests \cup
         {[kind |-> "register", node |-> n, reg |-> current'[n], attempt |-> 1]}
  BY <1>1 DEF Message
<1>7. QED BY <1>1, <1>2, <1>3, <1>5, <1>6 DEF Started

\* The unregistration of reg has begun.
Withdrawn(n, reg) ==
    /\ phase[n] = "idle" /\ phase'[n] = "unregister"
    /\ urlInstanceMap[n][reg.url] # NoInstance
    /\ current'[n] = [reg EXCEPT !.timestamp = urlInstanceMap[n][reg.url]]
    /\ attempt'[n] = 1 /\ registered'[n] = registered[n] \ {reg}
    /\ urlInstanceMap'[n][reg.url] = NoInstance
    /\ \A u \in Urls : u # reg.url => urlInstanceMap'[n][u] = urlInstanceMap[n][u]
    /\ requests' = requests \cup
          {[kind |-> "unregister", node |-> n, reg |-> current'[n], attempt |-> 1]}

LEMMA UnregisterStepEffect ==
    ASSUME Shapes, NEW n \in Nodes, NEW reg, reg.url \in Urls, Unregister(n, reg)
    PROVE  /\ Others(n) /\ UNCHANGED <<vars, clock, replies>>
           /\ Withdrawn(n, reg)
<1> DEFINE new == [reg EXCEPT !.timestamp = urlInstanceMap[n][reg.url]]
           none == [urlInstanceMap EXCEPT ![n][reg.url] = NoInstance]
<1>1. /\ UNCHANGED <<vars, clock, replies>> /\ phase[n] = "idle"
      /\ urlInstanceMap[n][reg.url] # NoInstance
      /\ phase' = [phase EXCEPT ![n] = "unregister"]
      /\ current' = [current EXCEPT ![n] = new]
      /\ attempt' = [attempt EXCEPT ![n] = 1]
      /\ registered' = [registered EXCEPT ![n] = registered[n] \ {reg}]
      /\ urlInstanceMap' = none
      /\ requests' = requests \cup {Message("unregister", n, 1)}
  BY DEF Unregister
<1>2. /\ none \in [Nodes -> [Urls -> {NoInstance} \cup Timestamps]]
      /\ \A k \in Nodes : k # n => none[k] = urlInstanceMap[k]
      /\ none[n][reg.url] = NoInstance
      /\ \A u \in Urls : u # reg.url => none[n][u] = urlInstanceMap[n][u]
  BY NestedExcept, NoInstance \in {NoInstance} \cup Timestamps DEF Shapes
<1> HIDE DEF new, none
<1>3. /\ phase'[n] = "unregister" /\ current'[n] = new
      /\ attempt'[n] = 1 /\ registered'[n] = registered[n] \ {reg}
      /\ \A k \in Nodes : k # n => /\ phase'[k] = phase[k]
                                   /\ current'[k] = current[k]
                                   /\ attempt'[k] = attempt[k]
                                   /\ registered'[k] = registered[k]
  BY <1>1 DEF Shapes
<1>4. Shapes'
  BY <1>1, <1>2 DEF Shapes
<1>5. Others(n)
  BY <1>1, <1>2, <1>3, <1>4 DEF Others, SameNode
<1>6. requests' = requests \cup
         {[kind |-> "unregister", node |-> n, reg |-> current'[n], attempt |-> 1]}
  BY <1>1 DEF Message
<1>7. /\ urlInstanceMap'[n][reg.url] = NoInstance
      /\ \A u \in Urls : u # reg.url => urlInstanceMap'[n][u] = urlInstanceMap[n][u]
  BY <1>1, <1>2
<1>8. QED BY <1>1, <1>3, <1>5, <1>6, <1>7 DEF Withdrawn, new

\* The answer has arrived.
Completed(n) ==
    /\ phase[n] \in Sending /\ Awaited(n) \in replies
    /\ replies' = replies \ {Awaited(n)}
    /\ Ended(n)
    /\ registered'[n] = IF phase[n] = "register"
                        THEN registered[n] \cup {current[n]} ELSE registered[n]
    /\ phase[n] = "register" =>
          /\ urlInstanceMap'[n][current[n].url] = current[n].timestamp
          /\ \A u \in Urls : u # current[n].url =>
                urlInstanceMap'[n][u] = urlInstanceMap[n][u]
    /\ phase[n] # "register" => urlInstanceMap'[n] = urlInstanceMap[n]

LEMMA AnsweredEffect ==
    ASSUME Shapes, NEW n \in Nodes,
           phase[n] = "register" =>
               current[n].url \in Urls /\ current[n].timestamp \in Timestamps,
           Answered(n)
    PROVE  /\ Others(n) /\ UNCHANGED <<vars, clock, requests>>
           /\ Completed(n)
<1>1. /\ UNCHANGED <<vars, clock, requests>> /\ phase[n] \in Sending
      /\ Awaited(n) \in replies /\ replies' = replies \ {Awaited(n)} /\ Finish(n)
  BY DEF Answered, Sending
<1>2. CASE phase[n] = "register"
  <2> DEFINE added == registered[n] \cup {current[n]}
             noted == [urlInstanceMap EXCEPT
                          ![n][current[n].url] = current[n].timestamp]
  <2>1. /\ registered' = [registered EXCEPT ![n] = added]
        /\ urlInstanceMap' = noted
    BY <1>2 DEF Answered
  <2>2. /\ noted \in [Nodes -> [Urls -> {NoInstance} \cup Timestamps]]
        /\ \A k \in Nodes : k # n => noted[k] = urlInstanceMap[k]
        /\ noted[n][current[n].url] = current[n].timestamp
        /\ \A u \in Urls : u # current[n].url => noted[n][u] = urlInstanceMap[n][u]
    BY <1>2, NestedExcept, current[n].timestamp \in {NoInstance} \cup Timestamps
    DEF Shapes
  <2> HIDE DEF added, noted
  <2>3. /\ registered' = [k \in Nodes |-> registered'[k]]
        /\ registered'[n] = added
        /\ \A k \in Nodes : k # n => registered'[k] = registered[k]
    BY <2>1 DEF Shapes
  <2>4. Shapes'
    BY <1>1, <2>1, <2>2, <2>3, FinishEffect DEF Shapes
  <2>5. Others(n)
    BY <1>1, <2>1, <2>2, <2>3, <2>4, FinishEffect DEF Others, SameNode
  <2>6. QED BY <1>1, <1>2, <2>1, <2>2, <2>3, <2>5, FinishEffect DEF Completed, added
<1>3. CASE phase[n] # "register"
  <2>1. UNCHANGED <<registered, urlInstanceMap>>
    BY <1>3 DEF Answered
  <2>2. Shapes'
    BY <1>1, <2>1, FinishEffect DEF Shapes
  <2>3. Others(n)
    BY <1>1, <2>1, <2>2, FinishEffect DEF Others, SameNode
  <2>4. QED BY <1>1, <1>3, <2>1, <2>3, FinishEffect DEF Completed
<1>4. QED BY <1>2, <1>3

\* The request is sent again.
SentAgain(n) ==
    /\ phase[n] \in Sending /\ Awaited(n) \notin replies
    /\ phase'[n] = phase[n] /\ current'[n] = current[n]
    /\ attempt'[n] = attempt[n] + 1 /\ registered'[n] = registered[n]
    /\ requests' = requests \cup
          {[kind |-> phase[n], node |-> n, reg |-> current[n],
            attempt |-> attempt[n] + 1]}

LEMMA RetryEffect ==
    ASSUME Shapes, NEW n \in Nodes, Retry(n)
    PROVE  /\ Others(n) /\ UNCHANGED <<vars, clock, mapsOfNode, replies>>
           /\ SentAgain(n)
<1>1. /\ UNCHANGED <<vars, clock, phase, current, mapsOfNode, replies>>
      /\ phase[n] \in Sending /\ Awaited(n) \notin replies
      /\ attempt' = [attempt EXCEPT ![n] = attempt[n] + 1]
      /\ requests' = requests \cup {Message(phase[n], n, attempt[n] + 1)}
  BY DEF Retry, Sending
<1>2. UNCHANGED <<registered, urlInstanceMap>>
  BY <1>1 DEF mapsOfNode
<1>3. /\ attempt'[n] = attempt[n] + 1
      /\ \A k \in Nodes : k # n => attempt'[k] = attempt[k]
  BY <1>1 DEF Shapes
<1>4. Shapes'
  BY <1>1, <1>2 DEF Shapes
<1>5. Others(n)
  BY <1>1, <1>2, <1>3, <1>4 DEF Others, SameNode
<1>6. QED BY <1>1, <1>2, <1>3, <1>5 DEF SentAgain, Message

\* The operation fails: no port is left for a data product, or nobody answers.
LEMMA FailEffect ==
    ASSUME Shapes, NEW n \in Nodes, Finish(n),
           UNCHANGED <<vars, clock, mapsOfNode, requests, replies>>
    PROVE  Others(n) /\ Ended(n) /\ registered'[n] = registered[n]
<1>1. UNCHANGED <<registered, urlInstanceMap>>
  BY DEF mapsOfNode
<1>2. Shapes'
  BY <1>1, FinishEffect DEF Shapes
<1>3. QED BY <1>1, <1>2, FinishEffect DEF Others, SameNode

\* A process ends.
Gone(n) ==
    /\ Ended(n) /\ registered'[n] = {}
    /\ \A u \in Urls : urlInstanceMap'[n][u] = NoInstance
    /\ replies' = {r \in replies : r.node # n}

LEMMA CrashEffect ==
    ASSUME Shapes, NEW n \in Nodes, Crash(n)
    PROVE  Others(n) /\ UNCHANGED <<vars, clock, requests>> /\ Gone(n)
<1> DEFINE none == [u \in Urls |-> NoInstance]
<1>1. /\ UNCHANGED <<vars, clock, requests>> /\ Finish(n)
      /\ registered' = [registered EXCEPT ![n] = {}]
      /\ urlInstanceMap' = [urlInstanceMap EXCEPT ![n] = none]
      /\ replies' = {r \in replies : r.node # n}
  BY DEF Crash
<1>2. none \in [Urls -> {NoInstance} \cup Timestamps]
  OBVIOUS
<1>3. \A u \in Urls : none[u] = NoInstance
  OBVIOUS
<1> HIDE DEF none
<1>4. /\ registered'[n] = {} /\ urlInstanceMap'[n] = none
      /\ \A k \in Nodes : k # n => /\ registered'[k] = registered[k]
                                   /\ urlInstanceMap'[k] = urlInstanceMap[k]
      /\ registered' = [k \in Nodes |-> registered'[k]]
      /\ urlInstanceMap' \in [Nodes -> [Urls -> {NoInstance} \cup Timestamps]]
  BY <1>1, <1>2 DEF Shapes
<1>5. Others(n)
  BY <1>1, <1>4, FinishEffect DEF Others, SameNode, Shapes
<1>6. QED BY <1>1, <1>3, <1>4, <1>5, FinishEffect DEF Gone

\* One of the steps of node n.
SameMaps(n) == registered'[n] = registered[n] /\ urlInstanceMap'[n] = urlInstanceMap[n]

Stamps(n) ==
    /\ phase[n] = "idle" /\ phase'[n] = "stamped"
    /\ clock <= MaxTime /\ clock' = clock + 1
    /\ \E offer \in OffersOf[n] :
          /\ current'[n] = Registration(offer, NoUrl, clock)
          /\ \A r \in registered[n] : r.type # offer.type \/ r.id # offer.id
    /\ attempt'[n] = attempt[n] /\ SameMaps(n) /\ UNCHANGED <<requests, replies>>

Starts(n) ==
    /\ \E u \in Urls :
          /\ Started(n, u)
          /\ \/ u \in UrlsOf[n] \ BoundUrls
             \/ /\ current[n].type = "SERVICE" /\ u = EmptyUrl
                /\ UrlsOf[n] \subseteq BoundUrls
    /\ SameMaps(n) /\ UNCHANGED <<clock, replies>>
    /\ Recorded(current'[n])

Withdraws(n) ==
    /\ \E reg \in registered[n] : Withdrawn(n, reg)
    /\ UNCHANGED <<clock, replies>>

Completes(n) == Completed(n) /\ UNCHANGED <<clock, requests>>

Repeats(n) ==
    /\ "timeout" \in Faults
    /\ SentAgain(n) /\ SameMaps(n) /\ UNCHANGED <<clock, replies>>

Fails(n) ==
    /\ \/ phase[n] = "stamped"
       \/ /\ "timeout" \in Faults
          /\ phase[n] \in Sending /\ Awaited(n) \notin replies
    /\ Ended(n) /\ SameMaps(n) /\ UNCHANGED <<clock, requests, replies>>

Ends(n) == "crash" \in Faults /\ Gone(n) /\ UNCHANGED <<clock, requests>>

Blocks(n) ==
    /\ phase[n] = "idle" /\ phase'[n] = "blocked" /\ current'[n] = current[n]
    /\ attempt'[n] = attempt[n] /\ SameMaps(n)
    /\ UNCHANGED <<clock, requests, replies>>

NodeStep(n) ==
    /\ Others(n)
    /\ \/ Starts(n)
       \/ /\ Stamps(n) \/ Withdraws(n) \/ Completes(n) \/ Repeats(n)
             \/ Fails(n) \/ Ends(n) \/ Blocks(n)
          /\ UNCHANGED history

NodesSame ==
    UNCHANGED <<clock, phase, current, attempt, registered, urlInstanceMap>>

LEMMA TypeShapes ==
    ASSUME SystemType
    PROVE  /\ Shapes
           /\ \A n \in Nodes : /\ \A r \in registered[n] : r.url \in Urls
                               /\ phase[n] \in Sending => current[n].url \in Urls
                               /\ UrlsOf[n] \subseteq Urls /\ EmptyUrl \in Urls
                               /\ EmptyUrl \notin UrlsOf[n]
<1>1. Shapes
  BY DEF SystemType, NodesType, Shapes
<1>2. \A n \in Nodes : \A r \in RegsOf(n) : r.url \in Urls
  BY DEF RegsOf, DataRegistration, ServiceRegistration
<1>3. QED BY <1>1, <1>2, NodeAssumption DEF SystemType, OperationsType, OperationType

LEMMA StepMeans ==
    ASSUME SystemType, [SystemNext]_systemVars
    PROVE  \/ \E n \in Nodes : NodeStep(n) /\ UNCHANGED vars
           \/ \E m \in requests : HandleRegister(m) \/ HandleUnregister(m)
           \/ Lookup
           \/ NodesSame /\ UNCHANGED <<vars, requests, replies, history>>
<1> DEFINE Goal == \/ \E n \in Nodes : NodeStep(n) /\ UNCHANGED vars
                   \/ \E m \in requests : HandleRegister(m) \/ HandleUnregister(m)
                   \/ Lookup
                   \/ NodesSame /\ UNCHANGED <<vars, requests, replies, history>>
<1>0. Shapes
  BY TypeShapes
<1>1. ASSUME NEW n \in Nodes, NEW offer \in OffersOf[n], Stamp(n, offer) PROVE Goal
  <2>1. Others(n) /\ Stamps(n) /\ UNCHANGED vars
    BY <1>0, <1>1, StampEffect DEF Stamps, SameMaps, mapsOfNode
  <2>2. UNCHANGED history
    BY <1>1 DEF Stamp
  <2>3. QED BY <2>1, <2>2 DEF NodeStep
<1>2. ASSUME NEW n \in Nodes, NEW u \in Urls, phase[n] = "stamped",
             StartRegister(n, u),
             \/ u \in UrlsOf[n] \ BoundUrls
             \/ /\ current[n].type = "SERVICE" /\ u = EmptyUrl
                /\ UrlsOf[n] \subseteq BoundUrls
      PROVE  Goal
  <2>1. Others(n) /\ Started(n, u) /\ UNCHANGED <<vars, clock, mapsOfNode, replies>>
    BY <1>0, <1>2, StartEffect
  <2>2. Starts(n)
    BY <1>2, <2>1 DEF Starts, SameMaps, mapsOfNode, StartRegister
  <2>3. QED BY <2>1, <2>2 DEF NodeStep
<1>3. ASSUME NEW n \in Nodes, Finish(n),
             UNCHANGED <<vars, clock, mapsOfNode, requests, replies, history>>,
             \/ phase[n] = "stamped"
             \/ /\ "timeout" \in Faults
                /\ phase[n] \in Sending /\ Awaited(n) \notin replies
      PROVE  Goal
  <2>1. Others(n) /\ Ended(n) /\ registered'[n] = registered[n]
    BY <1>0, <1>3, FailEffect
  <2>2. Fails(n)
    BY <1>3, <2>1 DEF Fails, SameMaps, mapsOfNode
  <2>3. QED BY <1>3, <2>1, <2>2 DEF NodeStep
<1>4. ASSUME NEW n \in Nodes, (\E url \in Urls : Bind(n, url)) \/ NoPortsAvailable(n)
      PROVE  Goal
  <2>1. ASSUME NEW url \in Urls, Bind(n, url) PROVE Goal
    BY <1>2, <2>1 DEF Bind
  <2>2. CASE NoPortsAvailable(n)
    BY <1>2, <1>3, <2>2, TypeShapes DEF NoPortsAvailable
  <2>3. QED BY <1>4, <2>1, <2>2
<1>5. ASSUME NEW n \in Nodes, NEW reg \in registered[n], Unregister(n, reg)
      PROVE  Goal
  <2>1. Others(n) /\ UNCHANGED <<vars, clock, replies>> /\ Withdrawn(n, reg)
    BY <1>0, <1>5, TypeShapes, UnregisterStepEffect
  <2>2. UNCHANGED history
    BY <1>5 DEF Unregister
  <2>3. QED BY <2>1, <2>2 DEF Withdraws, NodeStep
<1>6. ASSUME NEW n \in Nodes, NEW reg \in registered[n], UnregisterConflict(n, reg)
      PROVE  Goal
  BY <1>6 DEF UnregisterConflict, NodesSame
<1>7. ASSUME NEW n \in Nodes, Block(n) PROVE Goal
  <2>1. /\ phase' = [phase EXCEPT ![n] = "blocked"] /\ phase[n] = "idle"
        /\ UNCHANGED <<vars, clock, current, attempt, registered, urlInstanceMap,
                       requests, replies, history>>
    BY <1>7 DEF Block, mapsOfNode
  <2>2. Others(n) /\ Blocks(n)
    BY <1>0, <2>1 DEF Others, SameNode, Shapes, Blocks, SameMaps
  <2>3. QED BY <2>1, <2>2 DEF NodeStep
<1>8. ASSUME NEW n \in Nodes, Answered(n) PROVE Goal
  <2>1. phase[n] = "register" =>
           current[n].url \in Urls /\ current[n].timestamp \in Timestamps
    BY TypeShapes DEF SystemType, OperationsType, OperationType, Sending, RegsOf
  <2>2. Others(n) /\ UNCHANGED <<vars, clock, requests>> /\ Completed(n)
    BY <1>0, <1>8, <2>1, AnsweredEffect
  <2>3. UNCHANGED history
    BY <1>8 DEF Answered
  <2>4. QED BY <2>2, <2>3 DEF Completes, NodeStep
<1>9. ASSUME NEW n \in Nodes, Retry(n) PROVE Goal
  <2>1. Others(n) /\ UNCHANGED <<vars, clock, mapsOfNode, replies>> /\ SentAgain(n)
    BY <1>0, <1>9, RetryEffect
  <2>2. Repeats(n) /\ UNCHANGED history
    BY <1>9, <2>1 DEF Repeats, SameMaps, mapsOfNode, Retry
  <2>3. QED BY <2>1, <2>2 DEF NodeStep
<1>10. ASSUME NEW n \in Nodes, GiveUp(n) PROVE Goal
  BY <1>3, <1>10 DEF GiveUp, Sending
<1>11. ASSUME NEW n \in Nodes, Crash(n) PROVE Goal
  <2>1. Others(n) /\ UNCHANGED <<vars, clock, requests>> /\ Gone(n)
    BY <1>0, <1>11, CrashEffect
  <2>2. QED BY <1>11, <2>1 DEF Ends, NodeStep, Crash
<1>12. ASSUME UNCHANGED systemVars PROVE Goal
  BY <1>12 DEF systemVars, nodeVars, mapsOfNode, NodesSame
<1> HIDE DEF Goal
<1>13. ASSUME \E m \in requests : HandleRegister(m) \/ HandleUnregister(m) PROVE Goal
  BY <1>13 DEF Goal
<1>14. ASSUME Lookup PROVE Goal
  BY <1>14 DEF Goal
<1>15. Goal
  BY <1>1, <1>4, <1>5, <1>6, <1>7, <1>8, <1>9, <1>10, <1>11, <1>12, <1>13, <1>14
  DEF SystemNext
<1>16. QED BY <1>15 DEF Goal

(***************************************************************************)
(* Types, and what is asked of the directory.                              *)
(***************************************************************************)

LEMMA RegFields ==
    ASSUME NEW n \in Nodes, NEW r \in RegsOf(n)
    PROVE  /\ r.url \in Urls /\ r.domain = OwnDomain
           /\ r.timestamp \in Timestamps /\ r.timestamp \in Nat /\ r.timestamp > 0
           /\ OfferOf(r) \in OffersOf[n]
           /\ r.type \in {"DATA", "SERVICE"}
           /\ r.type = "DATA" => /\ r \in DataRegistration /\ r.url \in UrlsOf[n]
                                 /\ r.id \in ProductIDs
                                 /\ r.id # RegisteredPublishersID
           /\ r.type = "SERVICE" => r \in ServiceRegistration /\ r.id \in ServiceIDs
           /\ r.url # EmptyUrl => r.url \in UrlsOf[n]
           /\ r.url \in UrlsOf[n] => r.url # EmptyUrl
<1>1. /\ r \in DataRegistration \cup ServiceRegistration
      /\ OfferOf(r) \in OffersOf[n] /\ r.domain = OwnDomain
      /\ r.timestamp \in Timestamps
      /\ r.url \in UrlsOf[n] \/ (r.type = "SERVICE" /\ r.url = EmptyUrl)
  BY DEF RegsOf
<1>2. /\ r.url \in Urls /\ r.type \in {"DATA", "SERVICE"}
      /\ r.type = "DATA" => r \in DataRegistration /\ r.id \in ProductIDs
      /\ r.type = "SERVICE" => r \in ServiceRegistration /\ r.id \in ServiceIDs
  BY <1>1 DEF DataRegistration, ServiceRegistration
<1>3. r.timestamp \in Nat /\ r.timestamp > 0
  BY <1>1, TimeAssumption DEF Timestamps
<1>4. r.type = "DATA" => r.id # RegisteredPublishersID
  BY <1>1, NodeAssumption DEF OfferOf
<1>5. EmptyUrl \notin UrlsOf[n]
  BY NodeAssumption
<1>6. QED BY <1>1, <1>2, <1>3, <1>4, <1>5

\* What a node registers once it has a URL.
LEMMA RegMade ==
    ASSUME NEW n \in Nodes, NEW offer \in OffersOf[n], NEW t \in Timestamps,
           NEW u, u \in UrlsOf[n] \/ (offer.type = "SERVICE" /\ u = EmptyUrl)
    PROVE  /\ Registration(offer, u, t) \in RegsOf(n)
           /\ OfferOf(Registration(offer, u, t)) = offer
<1>1. u \in Urls
  BY NodeAssumption
<1>2. offer \in [type : {"DATA"}, id : ProductIDs] \cup
               [type : {"SERVICE"}, id : ServiceIDs]
  BY NodeAssumption
<1>3. OfferOf(Registration(offer, u, t)) = offer
  BY <1>2 DEF OfferOf, Registration
<1>4. Registration(offer, u, t) \in DataRegistration \cup ServiceRegistration
  BY <1>1, <1>2, DomainAssumption
  DEF Registration, DataRegistration, ServiceRegistration
<1>5. QED BY <1>3, <1>4, RegistrationFields DEF RegsOf

\* A registration with another time.
LEMMA RegRetimed ==
    ASSUME NEW n \in Nodes, NEW r \in RegsOf(n), NEW t \in Timestamps
    PROVE  LET s == [r EXCEPT !.timestamp = t]
           IN  /\ s \in RegsOf(n) /\ s.timestamp = t /\ s.url = r.url
               /\ s.type = r.type /\ s.id = r.id
<1> DEFINE s == [r EXCEPT !.timestamp = t]
<1>1. /\ s \in DataRegistration \cup ServiceRegistration
      /\ s.timestamp = t /\ s.url = r.url /\ s.domain = r.domain
      /\ s.type = r.type /\ s.id = r.id
  BY DEF RegsOf, DataRegistration, ServiceRegistration
<1> HIDE DEF s
<1>2. s \in RegsOf(n)
  BY <1>1 DEF RegsOf, OfferOf
<1>3. QED BY <1>1, <1>2 DEF s

LEMMA UnregistrationFields ==
    ASSUME NEW n \in Nodes, NEW r \in RegsOf(n)
    PROVE  LET x == Unregistration(r)
           IN  /\ x.id = r.id /\ x.url = r.url /\ x.domain = OwnDomain
               /\ x.registration_time = Secs(r.timestamp)
               /\ r.type = "DATA" => x \in DataUnregistration
               /\ r.type = "SERVICE" => x \in ServiceUnregistration
<1>1. Secs(r.timestamp) \in 0 .. Secs(MaxTime)
  BY RegFields, TimeCarried
<1>2. QED
  BY <1>1, RegFields, DomainAssumption
  DEF Unregistration, DataUnregistration, ServiceUnregistration

\* Every step is a request to the directory, or none.
LEMMA DirectoryStep ==
    ASSUME SystemType, [SystemNext]_systemVars
    PROVE  [Next]_vars
<1>1. ASSUME NEW m \in requests, HandleRegister(m) PROVE [Next]_vars
  <2>1. m.node \in Nodes /\ m.reg \in RegsOf(m.node)
    BY DEF SystemType, MessagesType, MessageType
  <2>2. /\ m.reg.type = "DATA" => m.reg \in DataRegistration
        /\ m.reg.type = "SERVICE" => m.reg \in ServiceRegistration
    BY <2>1, RegFields
  <2>3. QED BY <1>1, <2>2 DEF HandleRegister, Next
<1>2. ASSUME NEW m \in requests, HandleUnregister(m) PROVE [Next]_vars
  <2>1. m.node \in Nodes /\ m.reg \in RegsOf(m.node)
    BY DEF SystemType, MessagesType, MessageType
  <2>2. /\ m.reg.type \in {"DATA", "SERVICE"}
        /\ m.reg.type = "DATA" => Unregistration(m.reg) \in DataUnregistration
        /\ m.reg.type = "SERVICE" => Unregistration(m.reg) \in ServiceUnregistration
    BY <2>1, RegFields, UnregistrationFields
  <2>3. \/ m.reg.type = "DATA" /\ UnregisterPublisher(Unregistration(m.reg))
        \/ m.reg.type = "SERVICE" /\ UnregisterService(Unregistration(m.reg))
        \/ UNCHANGED vars
    BY <1>2, <2>2 DEF HandleUnregister
  <2>4. QED BY <2>2, <2>3 DEF Next
<1>3. CASE Lookup
  BY <1>3, DomainAssumption DEF Lookup, Next
<1>4. QED BY <1>1, <1>2, <1>3, StepMeans

LEMMA SystemTypeInitial == SystemInit => SystemType
<1> SUFFICES ASSUME SystemInit PROVE SystemType
  OBVIOUS
<1>1. TypeOK
  BY DEF SystemInit, Init, TypeOK
<1>2. NodesType
  BY TimeAssumption DEF SystemInit, NodesType, Phases, NoInstance
<1>3. OperationsType
  BY TimeAssumption DEF SystemInit, OperationsType, OperationType, Sending, NoInstance
<1>4. QED BY <1>1, <1>2, <1>3 DEF SystemInit, SystemType, MessagesType

\* The clock does not run back, and is not read beyond its last value.
LEMMA ClockStep ==
    ASSUME NodesType, NEW n, NodeStep(n)
    PROVE  /\ clock \in Nat /\ clock' \in Nat /\ clock <= clock' /\ clock' > 0
           /\ Stamps(n) => clock \in Timestamps
<1>1. clock \in Nat /\ clock > 0
  BY DEF NodesType
<1>2. clock' = clock \/ clock' = clock + 1
  BY DEF NodeStep, Stamps, Starts, Withdraws, Completes, Repeats, Fails, Ends, Blocks
<1>3. Stamps(n) => clock \in Timestamps
  BY <1>1, TimeAssumption DEF Stamps, Timestamps
<1>4. QED BY <1>1, <1>2, <1>3

\* The registration a manager thread has returned the URL of.
LEMMA StartedReg ==
    ASSUME SystemType, NEW n \in Nodes, Starts(n)
    PROVE  /\ current'[n] \in RegsOf(n) /\ current'[n].timestamp < clock
           /\ current'[n].timestamp = current[n].timestamp
           /\ OfferOf(current'[n]) = OfferOf(current[n])
           /\ current'[n].url \in Urls
           /\ \/ current'[n].url \in UrlsOf[n] \ BoundUrls
              \/ current'[n].url = EmptyUrl /\ UrlsOf[n] \subseteq BoundUrls
<1>1. PICK u \in Urls :
         /\ Started(n, u)
         /\ \/ u \in UrlsOf[n] \ BoundUrls
            \/ /\ current[n].type = "SERVICE" /\ u = EmptyUrl
               /\ UrlsOf[n] \subseteq BoundUrls
  BY DEF Starts
<1>2. Stamped(n)
  BY <1>1 DEF Started, SystemType, OperationsType, OperationType
<1>3. PICK offer \in OffersOf[n], t \in Timestamps :
         t < clock /\ current[n] = Registration(offer, NoUrl, t)
  BY <1>2 DEF Stamped
<1>4. /\ current[n].type = offer.type /\ current[n].id = offer.id
      /\ current[n].timestamp = t
      /\ current'[n] = Registration(offer, u, t)
  BY <1>1, <1>3, RegistrationFields DEF Started
<1>5. current'[n] \in RegsOf(n)
  BY <1>1, <1>4, RegMade
<1>6. /\ current'[n].type = offer.type /\ current'[n].id = offer.id
      /\ current'[n].timestamp = t /\ current'[n].url = u
  BY <1>4, RegistrationFields
<1>7. QED BY <1>1, <1>3, <1>4, <1>5, <1>6 DEF OfferOf

\* The unregistration that has begun.
LEMMA WithdrawnReg ==
    ASSUME SystemType, NEW n \in Nodes, NEW reg \in registered[n], Withdrawn(n, reg)
    PROVE  /\ current'[n] \in RegsOf(n) /\ current'[n].timestamp < clock
           /\ current'[n].url = reg.url /\ current'[n].type = reg.type
           /\ current'[n].id = reg.id
           /\ current'[n].timestamp = urlInstanceMap[n][reg.url]
<1>1. reg \in RegsOf(n) /\ reg.url \in Urls
  BY RegFields DEF SystemType, OperationsType, OperationType
<1>2. urlInstanceMap[n][reg.url] \in {NoInstance} \cup Timestamps
  BY <1>1 DEF SystemType, NodesType
<1>3. urlInstanceMap[n][reg.url] \in Timestamps
  BY <1>2 DEF Withdrawn
<1>4. urlInstanceMap[n][reg.url] < clock
  BY <1>1 DEF SystemType, OperationsType, OperationType
<1>5. QED BY <1>1, <1>3, <1>4, RegRetimed DEF Withdrawn

LEMMA NodesTypeStep ==
    ASSUME SystemType, NEW n \in Nodes, NodeStep(n)
    PROVE  NodesType'
<1>1. phase'[n] \in Phases /\ attempt'[n] \in Nat
  <2>1. phase[n] \in Phases /\ attempt[n] \in Nat
    BY DEF SystemType, NodesType
  <2>2. CASE Ended(n)
    BY <2>2 DEF Ended, Phases
  <2>3. CASE Stamps(n) \/ Blocks(n)
    BY <2>1, <2>3 DEF Stamps, Blocks, Phases
  <2>4. CASE Starts(n) \/ Withdraws(n)
    <3>1. phase'[n] \in {"register", "unregister"} /\ attempt'[n] = 1
      BY <2>4 DEF Starts, Started, Withdraws, Withdrawn
    <3>2. QED BY <3>1 DEF Phases
  <2>5. CASE Repeats(n)
    BY <2>1, <2>5 DEF Repeats, SentAgain
  <2>6. QED
    BY <2>2, <2>3, <2>4, <2>5 DEF NodeStep, Completes, Completed, Fails, Ends, Gone
<1>2. Shapes' /\ \A k \in Nodes : k # n => SameNode(k)
  BY DEF NodeStep, Others
<1>3. \A k \in Nodes : phase'[k] \in Phases /\ attempt'[k] \in Nat
  BY <1>1, <1>2 DEF SameNode, SystemType, NodesType
<1>4. phase' \in [Nodes -> Phases] /\ attempt' \in [Nodes -> Nat]
  BY <1>2, <1>3 DEF Shapes
<1>5. clock' \in Nat /\ clock' > 0
  BY ClockStep DEF SystemType
<1>6. QED BY <1>2, <1>4, <1>5 DEF NodesType, Shapes

LEMMA OperationsTypeStep ==
    ASSUME SystemType, NEW n \in Nodes, NodeStep(n)
    PROVE  OperationsType'
<1>1. /\ clock \in Nat /\ clock' \in Nat /\ clock <= clock'
      /\ Stamps(n) => clock \in Timestamps
  BY ClockStep DEF SystemType
<1>2. \A k \in Nodes : OperationType(k)
  BY DEF SystemType, OperationsType
<1>3. ASSUME NEW k \in Nodes
      PROVE  /\ \A r \in RegsOf(k) : r.timestamp < clock => r.timestamp < clock'
             /\ \A u \in Urls : urlInstanceMap[k][u] < clock =>
                                   urlInstanceMap[k][u] < clock'
             /\ \A r \in registered[k] : r \in RegsOf(k) /\ r.timestamp < clock'
             /\ \A u \in Urls : urlInstanceMap[k][u] < clock' /\ NoInstance < clock'
             /\ \A t \in Timestamps : t \in Nat /\ (t < clock => t < clock')
  <2>1. \A r \in RegsOf(k) : r.timestamp \in Nat
    BY RegFields
  <2>2. \A t \in Timestamps : t \in Nat
    BY TimeAssumption DEF Timestamps
  <2>3. \A u \in Urls : urlInstanceMap[k][u] \in Int
    BY <2>2 DEF SystemType, NodesType, NoInstance
  <2>4. \A r \in RegsOf(k) : r.timestamp < clock => r.timestamp < clock'
    BY <1>1, <2>1
  <2>5. \A u \in Urls : urlInstanceMap[k][u] < clock =>
                           urlInstanceMap[k][u] < clock'
    BY <1>1, <2>3
  <2>6. NoInstance < clock'
    BY <1>1 DEF NoInstance
  <2>7. \A t \in Timestamps : t \in Nat /\ (t < clock => t < clock')
    BY <1>1, <2>2
  <2>8. QED BY <1>2, <2>4, <2>5, <2>6, <2>7 DEF OperationType
<1>4. ASSUME NEW k \in Nodes, k # n PROVE OperationType(k)'
  <2>1. SameNode(k)
    BY <1>4 DEF NodeStep, Others
  <2>2. Stamped(k) => Stamped(k)'
    BY <1>3, <2>1 DEF Stamped, SameNode
  <2>3. QED BY <1>2, <1>3, <2>1, <2>2 DEF OperationType, SameNode
<1>5. OperationType(n)'
  <2>1. ASSUME SameMaps(n)
        PROVE  /\ \A r \in registered'[n] : r \in RegsOf(n) /\ r.timestamp < clock'
               /\ \A u \in Urls : urlInstanceMap'[n][u] < clock'
    BY <1>3, <2>1 DEF SameMaps
  <2>2. ASSUME Ended(n),
               \A r \in registered'[n] : r \in RegsOf(n) /\ r.timestamp < clock',
               \A u \in Urls : urlInstanceMap'[n][u] < clock'
        PROVE  OperationType(n)'
    BY <2>2 DEF OperationType, Ended, Sending
  <2>3. CASE Stamps(n)
    <3>1. /\ phase'[n] = "stamped" /\ SameMaps(n) /\ clock' = clock + 1
      BY <2>3 DEF Stamps
    <3>2. PICK offer \in OffersOf[n] : current'[n] = Registration(offer, NoUrl, clock)
      BY <2>3 DEF Stamps
    <3>3. Stamped(n)'
      BY <1>1, <2>3, <3>1, <3>2 DEF Stamped
    <3>4. QED BY <2>1, <3>1, <3>3 DEF OperationType, Sending
  <2>4. CASE Starts(n)
    <3>1. phase'[n] = "register" /\ SameMaps(n) /\ clock' = clock
      BY <2>4 DEF Starts, Started
    <3>2. QED BY <2>1, <2>4, <3>1, StartedReg DEF OperationType, Sending
  <2>5. CASE Withdraws(n)
    <3>1. PICK reg \in registered[n] : Withdrawn(n, reg)
      BY <2>5 DEF Withdraws
    <3>2. /\ phase'[n] = "unregister" /\ registered'[n] \subseteq registered[n]
          /\ clock' = clock
          /\ \A u \in Urls :
                urlInstanceMap'[n][u] \in {NoInstance, urlInstanceMap[n][u]}
      BY <2>5, <3>1 DEF Withdrawn, Withdraws
    <3>3. current'[n] \in RegsOf(n) /\ current'[n].timestamp < clock
      BY <3>1, WithdrawnReg
    <3>4. QED BY <1>3, <3>2, <3>3 DEF OperationType, Sending
  <2>6. CASE Completes(n)
    <3>1. Ended(n) /\ phase[n] \in Sending /\ clock' = clock
      BY <2>6 DEF Completes, Completed
    <3>2. current[n] \in RegsOf(n) /\ current[n].timestamp < clock
      BY <1>2, <3>1 DEF OperationType
    <3>3. \A r \in registered'[n] : r \in registered[n] \/ r = current[n]
      BY <2>6 DEF Completes, Completed
    <3>4. \A u \in Urls : urlInstanceMap'[n][u] < clock'
      <4>1. CASE phase[n] = "register"
        BY <1>3, <2>6, <3>1, <3>2, <4>1 DEF Completes, Completed
      <4>2. CASE phase[n] # "register"
        BY <1>3, <2>6, <4>2 DEF Completes, Completed
      <4>3. QED BY <4>1, <4>2
    <3>5. QED BY <1>3, <2>2, <3>1, <3>2, <3>3, <3>4
  <2>7. CASE Repeats(n)
    <3>1. /\ phase[n] \in Sending /\ phase'[n] = phase[n] /\ current'[n] = current[n]
          /\ SameMaps(n) /\ clock' = clock
      BY <2>7 DEF Repeats, SentAgain
    <3>2. QED BY <1>2, <2>1, <3>1 DEF OperationType, Sending
  <2>8. CASE Fails(n)
    BY <2>1, <2>2, <2>8 DEF Fails
  <2>9. CASE Ends(n)
    BY <1>3, <2>2, <2>9 DEF Ends, Gone
  <2>10. CASE Blocks(n)
    <3>1. /\ phase'[n] = "blocked" /\ current'[n] = NoRegistration /\ SameMaps(n)
      BY <1>2, <2>10 DEF Blocks, OperationType
    <3>2. QED BY <2>1, <3>1 DEF OperationType, Sending
  <2>11. QED
    BY <2>3, <2>4, <2>5, <2>6, <2>7, <2>8, <2>9, <2>10 DEF NodeStep
<1>6. QED BY <1>4, <1>5 DEF OperationsType

\* What a step of a node adds to the requests on their way.
LEMMA RequestsStep ==
    ASSUME SystemType, NEW n \in Nodes, NodeStep(n)
    PROVE  \A m \in requests' \ requests :
              /\ m.node = n /\ m.kind = phase'[n] /\ phase'[n] \in Sending
              /\ m.reg = current'[n] /\ m.reg \in RegsOf(n) /\ m.reg.timestamp < clock'
              /\ m = Awaited(n)'
<1> SUFFICES ASSUME NEW m \in requests' \ requests
             PROVE  /\ m.node = n /\ m.kind = phase'[n] /\ phase'[n] \in Sending
                    /\ m.reg = current'[n] /\ m = Awaited(n)'
  <2>1. OperationsType'
    BY OperationsTypeStep
  <2>2. phase'[n] \in Sending =>
           current'[n] \in RegsOf(n) /\ current'[n].timestamp < clock'
    BY <2>1 DEF OperationsType, OperationType
  <2>3. QED BY <2>2
<1>1. CASE Starts(n)
  <2>1. /\ phase'[n] = "register" /\ attempt'[n] = 1
        /\ m = [kind |-> "register", node |-> n, reg |-> current'[n], attempt |-> 1]
    BY <1>1 DEF Starts, Started
  <2>2. QED BY <2>1 DEF Awaited, Sending
<1>2. CASE Withdraws(n)
  <2>1. /\ phase'[n] = "unregister" /\ attempt'[n] = 1
        /\ m = [kind |-> "unregister", node |-> n, reg |-> current'[n], attempt |-> 1]
    BY <1>2 DEF Withdraws, Withdrawn
  <2>2. QED BY <2>1 DEF Awaited, Sending
<1>3. CASE Repeats(n)
  <2>1. /\ phase'[n] = phase[n] /\ phase[n] \in Sending /\ current'[n] = current[n]
        /\ attempt'[n] = attempt[n] + 1
        /\ m = [kind |-> phase[n], node |-> n, reg |-> current[n],
                attempt |-> attempt[n] + 1]
    BY <1>3 DEF Repeats, SentAgain
  <2>2. QED BY <2>1 DEF Awaited
<1>4. QED
  BY <1>1, <1>2, <1>3 DEF NodeStep, Stamps, Completes, Fails, Ends, Blocks

LEMMA MessagesTypeStep ==
    ASSUME SystemType, NEW n \in Nodes, NodeStep(n)
    PROVE  MessagesType'
<1> SUFFICES ASSUME NEW m \in requests' PROVE MessageType(m)'
  BY DEF MessagesType
<1>1. clock \in Nat /\ clock' \in Nat /\ clock <= clock'
  BY ClockStep DEF SystemType
<1>2. CASE m \in requests
  <2>1. /\ m.node \in Nodes /\ m.kind \in Sending
        /\ m.reg \in RegsOf(m.node) /\ m.reg.timestamp < clock
    BY <1>2 DEF SystemType, MessagesType, MessageType
  <2>2. m.reg.timestamp \in Nat
    BY <2>1, RegFields
  <2>3. QED BY <1>1, <2>1, <2>2 DEF MessageType
<1>3. CASE m \notin requests
  BY <1>3, RequestsStep DEF MessageType
<1>4. QED BY <1>2, <1>3

\* The directory takes a request.
LEMMA HandledMeans ==
    ASSUME NEW m, HandleRegister(m) \/ HandleUnregister(m)
    PROVE  /\ NodesSame /\ requests' = requests \ {m} /\ UNCHANGED history
           /\ replies' = IF m = Awaited(m.node) THEN replies \cup {m} ELSE replies
  BY DEF HandleRegister, HandleUnregister, Handled, NodesSame, nodeVars, mapsOfNode

LEMMA LookupMeans ==
    ASSUME Lookup
    PROVE  /\ NodesSame
           /\ UNCHANGED <<dataProductMap, serviceMap, requests, replies, history>>
           /\ \E urls : registrationInstanceMap' = Touched(registrationInstanceMap, urls)
<1>1. NodesSame /\ UNCHANGED <<requests, replies, history>>
  BY DEF Lookup, NodesSame, nodeVars, mapsOfNode
<1>2. GetProviders \/ \E s \in ServiceIDs : LookupService(OwnDomain, s)
  BY DEF Lookup
<1>3. CASE GetProviders
  BY <1>1, <1>3 DEF GetProviders
<1>4. ASSUME NEW s \in ServiceIDs, LookupService(OwnDomain, s)
      PROVE  /\ UNCHANGED <<dataProductMap, serviceMap>>
             /\ \E urls :
                   registrationInstanceMap' = Touched(registrationInstanceMap, urls)
  BY <1>4 DEF LookupService
<1>5. QED BY <1>1, <1>2, <1>3, <1>4

LEMMA SystemTypeStep == SystemType /\ [SystemNext]_systemVars => SystemType'
<1> SUFFICES ASSUME SystemType, [SystemNext]_systemVars PROVE SystemType'
  OBVIOUS
<1>1. TypeOK'
  BY DirectoryStep, TypeStep DEF SystemType
<1>2. ASSUME NodesSame, requests' \subseteq requests PROVE SystemType'
  <2>1. NodesType'
    BY <1>2 DEF SystemType, NodesType, NodesSame
  <2>2. ASSUME NEW n \in Nodes PROVE OperationType(n)'
    BY <1>2 DEF SystemType, OperationsType, OperationType, Stamped, NodesSame
  <2>3. ASSUME NEW m \in requests' PROVE MessageType(m)'
    BY <1>2 DEF SystemType, MessagesType, MessageType, NodesSame
  <2>4. QED BY <1>1, <2>1, <2>2, <2>3 DEF SystemType, OperationsType, MessagesType
<1>3. ASSUME NEW n \in Nodes, NodeStep(n) PROVE SystemType'
  BY <1>1, <1>3, NodesTypeStep, OperationsTypeStep, MessagesTypeStep DEF SystemType
<1>4. ASSUME NEW m \in requests, HandleRegister(m) \/ HandleUnregister(m)
      PROVE  SystemType'
  BY <1>2, <1>4, HandledMeans
<1>5. CASE Lookup
  BY <1>2, <1>5, LookupMeans
<1>6. QED BY <1>2, <1>3, <1>4, <1>5, StepMeans

\* The directory of the composed system behaves as ServiceDirectory allows:
\* whatever nodes ask of it, in time, late or again, is a request its
\* specification has, so what is proved of that specification holds here.
THEOREM DirectoryImplemented == SystemSpec => Spec
<1>1. SystemInit => Init
  BY DEF SystemInit
<1>2. SystemType /\ [SystemNext]_systemVars => [Next]_vars
  BY DirectoryStep
<1>3. QED
  BY <1>1, <1>2, SystemTypeInitial, SystemTypeStep, PTL DEF SystemSpec, Spec

(***************************************************************************)
(* Ports and replies.                                                      *)
(***************************************************************************)

LEMMA PortsStep ==
    ASSUME SystemType, PortsInv, [SystemNext]_systemVars
    PROVE  PortsInv'
<1> DEFINE Once(k) == \A r, s \in registered[k] :
                         r.url = s.url /\ r.url # EmptyUrl => r = s
           Apart(k) == \A r \in registered[k] :
                          phase[k] \in Sending /\ r.url = current[k].url =>
                             r.url = EmptyUrl
<1>1. \A k \in Nodes : Once(k) /\ Apart(k)
  BY DEF PortsInv
<1>2. SUFFICES \A k \in Nodes : Once(k)' /\ Apart(k)'
  BY <1>2 DEF PortsInv
<1>3. ASSUME NodesSame PROVE \A k \in Nodes : Once(k)' /\ Apart(k)'
  BY <1>1, <1>3 DEF NodesSame
<1>4. ASSUME NEW n \in Nodes, NodeStep(n) PROVE \A k \in Nodes : Once(k)' /\ Apart(k)'
  <2>1. ASSUME NEW k \in Nodes, k # n PROVE Once(k)' /\ Apart(k)'
    <3>1. SameNode(k)
      BY <1>4, <2>1 DEF NodeStep, Others
    <3>2. QED BY <1>1, <3>1 DEF SameNode
  <2> SUFFICES Once(n)' /\ Apart(n)'
    BY <2>1
  <2>2. ASSUME registered'[n] \subseteq registered[n], phase'[n] \notin Sending
        PROVE  Once(n)' /\ Apart(n)'
    BY <1>1, <2>2
  <2>3. CASE Stamps(n) \/ Blocks(n)
    BY <2>2, <2>3 DEF Stamps, Blocks, SameMaps, Sending
  <2>4. CASE Fails(n) \/ Ends(n)
    BY <2>2, <2>4 DEF Fails, Ends, Ended, Gone, SameMaps, Sending
  <2>5. CASE Starts(n)
    <3>1. /\ phase'[n] = "register" /\ registered'[n] = registered[n]
      BY <2>5 DEF Starts, Started
    <3>2. current'[n].url \notin BoundUrls \/ current'[n].url = EmptyUrl
      BY <2>5, StartedReg
    <3>3. ASSUME NEW r \in registered[n] PROVE r.url \in BoundUrls
      BY <3>3, TypeShapes DEF BoundUrls
    <3>4. QED BY <1>1, <3>1, <3>2, <3>3
  <2>6. CASE Withdraws(n)
    <3>1. PICK reg \in registered[n] : Withdrawn(n, reg)
      BY <2>6 DEF Withdraws
    <3>2. registered'[n] = registered[n] \ {reg}
      BY <3>1 DEF Withdrawn
    <3>3. current'[n].url = reg.url
      BY <3>1, WithdrawnReg
    <3>4. QED BY <1>1, <3>2, <3>3
  <2>7. CASE Completes(n)
    <3>1. /\ phase[n] \in Sending /\ phase'[n] = "idle"
          /\ registered'[n] \subseteq registered[n] \cup {current[n]}
      BY <2>7 DEF Completes, Completed, Ended
    <3>2. Apart(n)'
      BY <3>1 DEF Sending
    <3>3. ASSUME NEW r \in registered'[n], NEW s \in registered'[n],
                 r.url = s.url, r.url # EmptyUrl
          PROVE  r = s
      BY <1>1, <3>1, <3>3
    <3>4. QED BY <3>2, <3>3
  <2>8. CASE Repeats(n)
    BY <1>1, <2>8 DEF Repeats, SentAgain
  <2>9. QED
    BY <1>4, <2>3, <2>4, <2>5, <2>6, <2>7, <2>8 DEF NodeStep
<1>5. ASSUME NEW m \in requests, HandleRegister(m) \/ HandleUnregister(m)
      PROVE  \A k \in Nodes : Once(k)' /\ Apart(k)'
  BY <1>3, <1>5, HandledMeans
<1>6. ASSUME Lookup PROVE \A k \in Nodes : Once(k)' /\ Apart(k)'
  BY <1>3, <1>6, LookupMeans
<1> HIDE DEF Once, Apart
<1>7. QED BY <1>3, <1>4, <1>5, <1>6, StepMeans

LEMMA PortsInitial == SystemInit => PortsInv /\ RepliesInv /\ TimesInv
<1> SUFFICES ASSUME SystemInit PROVE PortsInv /\ RepliesInv /\ TimesInv
  OBVIOUS
<1>1. PortsInv /\ RepliesInv
  BY DEF SystemInit, PortsInv, RepliesInv, Sending
<1>2. ASSUME NEW n \in Nodes, NEW r PROVE ~Present(n, r)
  BY DEF SystemInit, Present
<1>3. \A n \in Nodes : Older(n, clock) /\ phase[n] # "stamped"
  BY NodeAssumption, TimeAssumption DEF SystemInit, Init, Older, NoInstance
<1>4. QED BY <1>1, <1>2, <1>3 DEF TimesInv

LEMMA AwaitedFields ==
    ASSUME NEW n
    PROVE  /\ Awaited(n).kind = phase[n] /\ Awaited(n).node = n
           /\ Awaited(n).reg = current[n] /\ Awaited(n).attempt = attempt[n]
  BY DEF Awaited

LEMMA RepliesStep ==
    ASSUME SystemType, RepliesInv, [SystemNext]_systemVars
    PROVE  RepliesInv'
<1> SUFFICES ASSUME NEW m \in replies'
             PROVE  m.node \in Nodes /\ m.kind \in Sending /\ m = Awaited(m.node)'
  BY DEF RepliesInv
<1>1. ASSUME NodesSame, m \in replies
      PROVE  m.node \in Nodes /\ m.kind \in Sending /\ m = Awaited(m.node)'
  BY <1>1 DEF RepliesInv, Awaited, NodesSame
<1>2. ASSUME NEW n \in Nodes, NodeStep(n)
      PROVE  m.node \in Nodes /\ m.kind \in Sending /\ m = Awaited(m.node)'
  <2>1. m \in replies
    BY <1>2 DEF NodeStep, Stamps, Starts, Withdraws, Completes, Completed, Repeats,
                Fails, Ends, Gone, Blocks
  <2>2. m.node \in Nodes /\ m.kind \in Sending /\ m = Awaited(m.node)
    BY <2>1 DEF RepliesInv
  <2>3. m.node # n
    <3> SUFFICES ASSUME m.node = n PROVE FALSE
      OBVIOUS
    <3>1. m = Awaited(n) /\ phase[n] \in Sending
      BY <2>2, AwaitedFields
    <3>2. Awaited(n) \in replies /\ Awaited(n) \in replies'
      BY <2>1, <3>1
    <3>3. ~Stamps(n) /\ ~Blocks(n) /\ ~Starts(n) /\ ~Withdraws(n)
      BY <3>1 DEF Stamps, Blocks, Starts, Started, Withdraws, Withdrawn, Sending
    <3>4. ~Repeats(n) /\ ~Fails(n)
      BY <3>1, <3>2 DEF Repeats, SentAgain, Fails, Sending
    <3>5. ~Completes(n)
      BY <3>2 DEF Completes, Completed
    <3>6. ~Ends(n)
      BY <3>1 DEF Ends, Gone
    <3>7. QED BY <1>2, <3>3, <3>4, <3>5, <3>6 DEF NodeStep
  <2>4. SameNode(m.node)
    BY <1>2, <2>2, <2>3 DEF NodeStep, Others
  <2>5. QED BY <2>2, <2>4 DEF Awaited, SameNode
<1>3. ASSUME NEW h \in requests, HandleRegister(h) \/ HandleUnregister(h)
      PROVE  m.node \in Nodes /\ m.kind \in Sending /\ m = Awaited(m.node)'
  <2>1. NodesSame /\ (m \in replies \/ (m = h /\ h = Awaited(h.node)))
    BY <1>3, HandledMeans
  <2>2. h.node \in Nodes /\ h.kind \in Sending
    BY DEF SystemType, MessagesType, MessageType
  <2>3. h = Awaited(h.node) => h = Awaited(h.node)'
    BY <2>1 DEF NodesSame, Awaited
  <2>4. QED BY <1>1, <2>1, <2>2, <2>3
<1>4. CASE Lookup
  BY <1>1, <1>4, LookupMeans
<1>5. QED BY <1>1, <1>2, <1>3, <1>4, StepMeans

(***************************************************************************)
(* What the directory does with a request.                                 *)
(***************************************************************************)

\* The instance of a URL stays as it is, or operator[] inserts a 0.
SameOrTouched(u) ==
    /\ registrationInstanceMap'[u] \in {registrationInstanceMap[u], 0}
    /\ registrationInstanceMap[u] # NoInstance =>
          registrationInstanceMap'[u] = registrationInstanceMap[u]

LEMMA TouchedAt ==
    ASSUME NEW instances, NEW urls, NEW u \in Urls
    PROVE  /\ Touched(instances, urls)[u] \in {instances[u], 0}
           /\ instances[u] # NoInstance => Touched(instances, urls)[u] = instances[u]
  BY DEF Touched

LEMMA RegisterPublisherEffect ==
    ASSUME TypeOK, NEW reg \in DataRegistration, reg.domain = OwnDomain,
           reg.timestamp \in Timestamps, RegisterPublisher(reg)
    PROVE  /\ \A i \in ProductIDs : dataProductMap'[OwnDomain][i] =
                 {p \in dataProductMap[OwnDomain][i] : p.url # reg.url} \cup
                 {p \in {[url |-> reg.url, registration_time |-> Secs(reg.timestamp)]}
                     : i = reg.id}
           /\ serviceMap' = serviceMap
           /\ \A u \in Urls : u # reg.url => SameOrTouched(u)
           /\ IF ObsoleteIDs(reg.id, reg.url) = {}
              THEN registrationInstanceMap'[reg.url] = reg.timestamp
              ELSE registrationInstanceMap'[reg.url] \in {0, NoInstance}
<1> DEFINE recorded == [registrationInstanceMap EXCEPT ![reg.url] = reg.timestamp]
           ownUrls == OwnUrls(dataProductMap', serviceMap)
           touched == Touched(recorded, ownUrls)
           purged == PurgedInstances(recorded, reg.id, reg.url, ownUrls)
           entry == [url |-> reg.url, registration_time |-> Secs(reg.timestamp)]
<1>1. /\ reg.url \in Urls /\ reg.id \in ProductIDs /\ reg.timestamp # NoInstance
  BY TimeAssumption DEF DataRegistration, Timestamps, NoInstance
<1>2. /\ recorded \in InstancesType /\ recorded[reg.url] = reg.timestamp
      /\ \A u \in Urls : u # reg.url => recorded[u] = registrationInstanceMap[u]
  BY <1>1 DEF TypeOK, InstancesType
<1>3. /\ dataProductMap' = Purged(Entered(reg), reg.id, reg.url)
      /\ serviceMap' = serviceMap
      /\ \/ registrationInstanceMap' = purged
         \/ registrationInstanceMap' = Touched(purged, ownUrls)
  BY DEF RegisterPublisher
<1>4. ASSUME NEW i \in ProductIDs
      PROVE  dataProductMap'[OwnDomain][i] =
                {p \in dataProductMap[OwnDomain][i] : p.url # reg.url} \cup
                {p \in {entry} : i = reg.id}
  <2>1. CASE i = reg.id
    <3>1. Entered(reg)[OwnDomain][i] =
             {p \in dataProductMap[OwnDomain][i] : p.url # reg.url} \cup {entry}
      BY <1>1, <2>1, DomainAssumption DEF Entered, TypeOK
    <3>2. dataProductMap'[OwnDomain][i] = Entered(reg)[OwnDomain][i]
      BY <1>3, <2>1, DomainAssumption DEF Purged
    <3>3. QED BY <2>1, <3>1, <3>2
  <2>2. CASE i # reg.id
    <3>1. Entered(reg)[OwnDomain][i] = dataProductMap[OwnDomain][i]
      BY <1>1, <2>2, DomainAssumption DEF Entered, TypeOK
    <3>2. dataProductMap'[OwnDomain][i] =
             {p \in Entered(reg)[OwnDomain][i] : p.url # reg.url}
      BY <1>3, <2>2, DomainAssumption DEF Purged
    <3>3. QED BY <2>2, <3>1, <3>2
  <2>3. QED BY <2>1, <2>2
<1>5. touched \in InstancesType
  BY <1>2, TouchedType
<1>6. ASSUME NEW u \in Urls, u # reg.url
      PROVE  purged[u] \in {recorded[u], touched[u]}
  <2>1. u # reg.url => [touched EXCEPT ![reg.url] = NoInstance][u] = touched[u]
    BY <1>5 DEF InstancesType
  <2>2. QED BY <1>6, <2>1 DEF PurgedInstances
<1>7. IF ObsoleteIDs(reg.id, reg.url) = {} THEN purged[reg.url] = reg.timestamp
      ELSE purged[reg.url] = NoInstance
  <2>1. [touched EXCEPT ![reg.url] = NoInstance][reg.url] = NoInstance
    BY <1>1, <1>5 DEF InstancesType
  <2>2. QED BY <1>2, <2>1 DEF PurgedInstances
<1> HIDE DEF touched, recorded, purged, ownUrls, entry
<1>8. ASSUME NEW u \in Urls, u # reg.url PROVE SameOrTouched(u)
  <2>1. /\ touched[u] \in {registrationInstanceMap[u], 0}
        /\ registrationInstanceMap[u] # NoInstance =>
              touched[u] = registrationInstanceMap[u]
    BY <1>2, <1>8, TouchedAt DEF touched
  <2>2. /\ purged[u] \in {registrationInstanceMap[u], 0}
        /\ registrationInstanceMap[u] # NoInstance =>
              purged[u] = registrationInstanceMap[u]
    BY <1>2, <1>6, <1>8, <2>1
  <2>3. \/ registrationInstanceMap'[u] = purged[u]
        \/ /\ registrationInstanceMap'[u] \in {purged[u], 0}
           /\ purged[u] # NoInstance => registrationInstanceMap'[u] = purged[u]
    BY <1>3, TouchedAt
  <2>4. QED BY <2>2, <2>3 DEF SameOrTouched
<1>9. IF ObsoleteIDs(reg.id, reg.url) = {}
      THEN registrationInstanceMap'[reg.url] = reg.timestamp
      ELSE registrationInstanceMap'[reg.url] \in {0, NoInstance}
  <2>1. \/ registrationInstanceMap'[reg.url] = purged[reg.url]
        \/ /\ registrationInstanceMap'[reg.url] \in {purged[reg.url], 0}
           /\ purged[reg.url] # NoInstance =>
                 registrationInstanceMap'[reg.url] = purged[reg.url]
    BY <1>1, <1>3, TouchedAt
  <2>2. QED BY <1>1, <1>7, <2>1
<1>10. QED BY <1>3, <1>4, <1>8, <1>9 DEF entry

LEMMA RegisterDuplicateEffect ==
    ASSUME TypeOK, NEW reg \in DataRegistration, reg.domain = OwnDomain,
           reg.timestamp \in Timestamps, RegisterDuplicate(reg)
    PROVE  /\ UNCHANGED <<dataProductMap, serviceMap>>
           /\ \A u \in Urls : u # reg.url => SameOrTouched(u)
           /\ registrationInstanceMap'[reg.url] = reg.timestamp
<1> DEFINE recorded == [registrationInstanceMap EXCEPT ![reg.url] = reg.timestamp]
           ownUrls == OwnUrls(dataProductMap, serviceMap)
<1>1. /\ reg.url \in Urls /\ reg.timestamp # NoInstance
  BY TimeAssumption DEF DataRegistration, Timestamps, NoInstance
<1>2. /\ recorded[reg.url] = reg.timestamp
      /\ \A u \in Urls : u # reg.url => recorded[u] = registrationInstanceMap[u]
  BY <1>1 DEF TypeOK
<1>3. /\ UNCHANGED <<dataProductMap, serviceMap>>
      /\ registrationInstanceMap' = Touched(recorded, ownUrls)
  BY DEF RegisterDuplicate
<1> HIDE DEF recorded, ownUrls
<1>4. QED BY <1>1, <1>2, <1>3, TouchedAt DEF SameOrTouched

LEMMA RegisterServiceEffect ==
    ASSUME TypeOK, NEW reg \in ServiceRegistration, reg.domain = OwnDomain,
           reg.timestamp \in Timestamps, RegisterService(reg)
    PROVE  /\ \A i \in ProductIDs : \A p \in dataProductMap[OwnDomain][i] :
                 p.url # reg.url => p \in dataProductMap'[OwnDomain][i]
           /\ \A i \in ProductIDs :
                 dataProductMap'[OwnDomain][i] \subseteq dataProductMap[OwnDomain][i]
           /\ serviceMap'[OwnDomain][reg.id] = reg.url
           /\ \A s \in ServiceIDs : s # reg.id =>
                 serviceMap'[OwnDomain][s] = serviceMap[OwnDomain][s]
           /\ \A u \in Urls : u # reg.url => SameOrTouched(u)
           /\ registrationInstanceMap'[reg.url] = reg.timestamp
<1> DEFINE ownUrls == OwnUrls(dataProductMap', serviceMap')
           touched == Touched(registrationInstanceMap, ownUrls)
           purged == PurgedInstances(registrationInstanceMap, reg.id, reg.url, ownUrls)
           recorded == [purged EXCEPT ![reg.url] = reg.timestamp]
<1>1. /\ reg.url \in Urls /\ reg.id \in ServiceIDs /\ reg.timestamp # NoInstance
  BY TimeAssumption DEF ServiceRegistration, Timestamps, NoInstance
<1>2. /\ dataProductMap' = Purged(dataProductMap, reg.id, reg.url)
      /\ serviceMap' = [serviceMap EXCEPT ![OwnDomain][reg.id] = reg.url]
      /\ registrationInstanceMap' = Touched(recorded, ownUrls)
  BY DEF RegisterService
<1>3. /\ purged \in InstancesType /\ touched \in InstancesType
  BY <1>1, TouchedType, PurgedInstancesType DEF TypeOK, InstancesType
<1>4. ASSUME NEW u \in Urls, u # reg.url
      PROVE  purged[u] \in {registrationInstanceMap[u], touched[u]}
  <2>1. [touched EXCEPT ![reg.url] = NoInstance][u] = touched[u]
    BY <1>3, <1>4 DEF InstancesType
  <2>2. QED BY <2>1 DEF PurgedInstances
<1>5. /\ recorded[reg.url] = reg.timestamp
      /\ \A u \in Urls : u # reg.url => recorded[u] = purged[u]
  BY <1>1, <1>3 DEF InstancesType
<1>6. \A i \in ProductIDs :
         /\ dataProductMap'[OwnDomain][i] \subseteq dataProductMap[OwnDomain][i]
         /\ \A p \in dataProductMap[OwnDomain][i] :
               p.url # reg.url => p \in dataProductMap'[OwnDomain][i]
  BY <1>2, DomainAssumption DEF Purged
<1>7. /\ serviceMap'[OwnDomain][reg.id] = reg.url
      /\ \A s \in ServiceIDs : s # reg.id =>
            serviceMap'[OwnDomain][s] = serviceMap[OwnDomain][s]
  BY <1>1, <1>2, DomainAssumption DEF TypeOK
<1> HIDE DEF touched, recorded, purged, ownUrls
<1>8. ASSUME NEW u \in Urls, u # reg.url PROVE SameOrTouched(u)
  <2>1. /\ touched[u] \in {registrationInstanceMap[u], 0}
        /\ registrationInstanceMap[u] # NoInstance =>
              touched[u] = registrationInstanceMap[u]
    BY TouchedAt DEF touched
  <2>2. /\ registrationInstanceMap'[u] \in {purged[u], 0}
        /\ purged[u] # NoInstance => registrationInstanceMap'[u] = purged[u]
    BY <1>2, <1>5, <1>8, TouchedAt
  <2>3. QED BY <1>4, <1>8, <2>1, <2>2 DEF SameOrTouched
<1>9. registrationInstanceMap'[reg.url] = reg.timestamp
  BY <1>1, <1>2, <1>5, TouchedAt
<1>10. QED BY <1>6, <1>7, <1>8, <1>9

LEMMA UnregisterEffect ==
    ASSUME TypeOK, NEW unreg, unreg.url \in Urls, unreg.domain = OwnDomain,
           \/ unreg.id \in ProductIDs /\ UnregisterPublisher(unreg)
           \/ unreg.id \in ServiceIDs /\ UnregisterService(unreg)
    PROVE  /\ \A u \in Urls : u # unreg.url => SameOrTouched(u)
           /\ registrationInstanceMap'[unreg.url] = NoInstance
<1>1. PICK urls : registrationInstanceMap' =
                     [Touched(registrationInstanceMap, urls) EXCEPT
                         ![unreg.url] = NoInstance]
  BY DEF UnregisterPublisher, UnregisterService
<1>2. Touched(registrationInstanceMap, urls) \in InstancesType
  BY TouchedType DEF TypeOK, InstancesType
<1>3. /\ registrationInstanceMap'[unreg.url] = NoInstance
      /\ \A u \in Urls : u # unreg.url =>
            registrationInstanceMap'[u] = Touched(registrationInstanceMap, urls)[u]
  BY <1>1, <1>2 DEF InstancesType
<1>4. QED BY <1>3, TouchedAt DEF SameOrTouched

\* What the directory does with a request.
LEMMA HandleCases ==
    ASSUME SystemType, NEW m \in requests, HandleRegister(m) \/ HandleUnregister(m)
    PROVE  LET r == m.reg
           IN  \/ /\ m.kind = "register" /\ r.type = "DATA"
                  /\ RegisterPublisher(r) \/ RegisterDuplicate(r)
               \/ m.kind = "register" /\ r.type = "SERVICE" /\ RegisterService(r)
               \/ m.kind = "register" /\ ~Accepted(r) /\ UNCHANGED vars
               \/ /\ m.kind = "unregister" /\ r.type = "DATA"
                  /\ UnregisterPublisher(Unregistration(r))
               \/ /\ m.kind = "unregister" /\ r.type = "SERVICE"
                  /\ UnregisterService(Unregistration(r))
               \/ m.kind = "unregister" /\ UNCHANGED vars
<1>1. m.node \in Nodes /\ m.reg \in RegsOf(m.node)
  BY DEF SystemType, MessagesType, MessageType
<1>2. m.reg.type \in {"DATA", "SERVICE"}
  BY <1>1, RegFields
<1>3. QED BY <1>2 DEF HandleRegister, HandleUnregister

LEMMA InstancesStep ==
    ASSUME SystemType, NEW m \in requests, HandleRegister(m) \/ HandleUnregister(m)
    PROVE  /\ \A u \in Urls : u # m.reg.url => SameOrTouched(u)
           /\ \/ registrationInstanceMap'[m.reg.url] \in
                    {registrationInstanceMap[m.reg.url], 0, NoInstance}
              \/ /\ m.kind = "register"
                 /\ registrationInstanceMap'[m.reg.url] = m.reg.timestamp
<1> DEFINE r == m.reg
<1>1. m.node \in Nodes /\ r \in RegsOf(m.node)
  BY DEF SystemType, MessagesType, MessageType
<1>2. /\ r.url \in Urls /\ r.domain = OwnDomain /\ r.timestamp \in Timestamps
      /\ r.type = "DATA" => r \in DataRegistration /\ r.id \in ProductIDs
      /\ r.type = "SERVICE" => r \in ServiceRegistration /\ r.id \in ServiceIDs
  BY <1>1, RegFields
<1>3. /\ Unregistration(r).url = r.url /\ Unregistration(r).domain = OwnDomain
      /\ Unregistration(r).id = r.id
  BY <1>1, UnregistrationFields
<1>4. TypeOK
  BY DEF SystemType
<1> HIDE DEF r
<1>5. ASSUME m.kind = "register", r.type = "DATA", RegisterPublisher(r)
      PROVE  /\ \A u \in Urls : u # r.url => SameOrTouched(u)
             /\ \/ registrationInstanceMap'[r.url] \in {0, NoInstance}
                \/ registrationInstanceMap'[r.url] = r.timestamp
  BY <1>2, <1>4, <1>5, RegisterPublisherEffect
<1>6. ASSUME m.kind = "register", r.type = "DATA", RegisterDuplicate(r)
      PROVE  /\ \A u \in Urls : u # r.url => SameOrTouched(u)
             /\ registrationInstanceMap'[r.url] = r.timestamp
  BY <1>2, <1>4, <1>6, RegisterDuplicateEffect
<1>7. ASSUME m.kind = "register", r.type = "SERVICE", RegisterService(r)
      PROVE  /\ \A u \in Urls : u # r.url => SameOrTouched(u)
             /\ registrationInstanceMap'[r.url] = r.timestamp
  BY <1>2, <1>4, <1>7, RegisterServiceEffect
<1>8. ASSUME \/ r.type = "DATA" /\ UnregisterPublisher(Unregistration(r))
             \/ r.type = "SERVICE" /\ UnregisterService(Unregistration(r))
      PROVE  /\ \A u \in Urls : u # r.url => SameOrTouched(u)
             /\ registrationInstanceMap'[r.url] = NoInstance
  BY <1>2, <1>3, <1>4, <1>8, UnregisterEffect
<1>9. ASSUME UNCHANGED vars
      PROVE  /\ \A u \in Urls : u # r.url => SameOrTouched(u)
             /\ registrationInstanceMap'[r.url] = registrationInstanceMap[r.url]
  BY <1>9 DEF vars, mapVars, SameOrTouched
<1>10. \/ /\ m.kind = "register" /\ r.type = "DATA"
          /\ RegisterPublisher(r) \/ RegisterDuplicate(r)
       \/ m.kind = "register" /\ r.type = "SERVICE" /\ RegisterService(r)
       \/ r.type = "DATA" /\ UnregisterPublisher(Unregistration(r))
       \/ r.type = "SERVICE" /\ UnregisterService(Unregistration(r))
       \/ UNCHANGED vars
  BY HandleCases DEF r
<1>11. /\ \A u \in Urls : u # r.url => SameOrTouched(u)
       /\ \/ registrationInstanceMap'[r.url] \in
                {registrationInstanceMap[r.url], 0, NoInstance}
          \/ /\ m.kind = "register"
             /\ registrationInstanceMap'[r.url] = r.timestamp
  BY <1>5, <1>6, <1>7, <1>8, <1>9, <1>10
<1>12. QED BY <1>11 DEF r

(***************************************************************************)
(* The times at a port.                                                    *)
(***************************************************************************)

LEMMA PresentReg ==
    ASSUME SystemType, NEW n \in Nodes, NEW r, Present(n, r)
    PROVE  r \in RegsOf(n) /\ r.timestamp < clock
  BY DEF SystemType, OperationsType, OperationType, Present, Sending

\* A request for a port of a node is a request of that node.
LEMMA OwnRequest ==
    ASSUME OwnPorts, NEW n \in Nodes, NEW k \in Nodes, NEW r \in RegsOf(n),
           r.url \in UrlsOf[k]
    PROVE  n = k
<1>1. r.url \in UrlsOf[n]
  BY RegFields, NodeAssumption
<1>2. QED BY <1>1 DEF OwnPorts

\* A step of the directory makes no port newer than a request was.
LEMMA TimesHandled ==
    ASSUME SystemType, NEW m \in requests, HandleRegister(m) \/ HandleUnregister(m)
    PROVE  /\ \A n \in Nodes, t \in Nat : t > 0 /\ Older(n, t) => Older(n, t)'
           /\ \A n \in Nodes : \A r \in RegsOf(n) : Newest(r) => Newest(r)'
<1>1. /\ \A u \in Urls : u # m.reg.url => SameOrTouched(u)
      /\ \/ registrationInstanceMap'[m.reg.url] \in
               {registrationInstanceMap[m.reg.url], 0, NoInstance}
         \/ registrationInstanceMap'[m.reg.url] = m.reg.timestamp
  BY InstancesStep
<1>2. ASSUME NEW u \in Urls
      PROVE  \/ registrationInstanceMap'[u] \in
                   {registrationInstanceMap[u], 0, NoInstance}
             \/ u = m.reg.url /\ registrationInstanceMap'[u] = m.reg.timestamp
  BY <1>1 DEF SameOrTouched
<1>3. requests' \subseteq requests
  BY HandledMeans
<1>4. ASSUME NEW n \in Nodes, NEW t \in Nat, t > 0, Older(n, t) PROVE Older(n, t)'
  <2>1. ASSUME NEW u \in UrlsOf[n] PROVE registrationInstanceMap'[u] < t
    <3>1. u \in Urls /\ registrationInstanceMap[u] < t
      BY <1>4, NodeAssumption DEF Older
    <3>2. u = m.reg.url => m.reg.timestamp < t
      BY <1>4 DEF Older
    <3>3. NoInstance < t
      BY <1>4 DEF NoInstance
    <3>4. QED BY <1>2, <1>4, <3>1, <3>2, <3>3
  <2>2. QED BY <1>3, <1>4, <2>1 DEF Older
<1>5. ASSUME NEW n \in Nodes, NEW r \in RegsOf(n), Newest(r) PROVE Newest(r)'
  <2>1. r.url \in Urls /\ r.timestamp \in Nat
    BY RegFields
  <2>2. registrationInstanceMap[r.url] <= r.timestamp
    BY <1>5 DEF Newest
  <2>3. r.url = m.reg.url => m.reg.timestamp <= r.timestamp
    BY <1>5 DEF Newest
  <2>4. NoInstance <= r.timestamp /\ 0 <= r.timestamp
    BY <2>1 DEF NoInstance
  <2>5. registrationInstanceMap'[r.url] <= r.timestamp
    BY <1>2, <2>1, <2>2, <2>3, <2>4
  <2>6. QED BY <1>3, <1>5, <2>5 DEF Newest
<1>6. QED BY <1>4, <1>5

\* Whoever is bound after a step of node n was bound before it, or has just been.
LEMMA PresentStep ==
    ASSUME NEW n \in Nodes, NodeStep(n), NEW k \in Nodes, NEW r, Present(k, r)'
    PROVE  Present(k, r) \/ (k = n /\ Starts(n) /\ r = current'[n])
<1>1. CASE k # n
  <2>1. SameNode(k)
    BY <1>1 DEF NodeStep, Others
  <2>2. QED BY <2>1 DEF Present, SameNode
<1>2. CASE k = n
  <2>1. r \in registered'[n] \/ (phase'[n] = "register" /\ r = current'[n])
    BY <1>2 DEF Present
  <2>2. CASE Stamps(n) \/ Blocks(n) \/ Fails(n) \/ Ends(n)
    BY <1>2, <2>1, <2>2 DEF Stamps, Blocks, Fails, Ends, Gone, Ended, SameMaps, Present
  <2>3. CASE Starts(n)
    BY <1>2, <2>1, <2>3 DEF Starts, SameMaps, Present
  <2>4. CASE Withdraws(n)
    BY <1>2, <2>1, <2>4 DEF Withdraws, Withdrawn, Present
  <2>5. CASE Completes(n)
    BY <1>2, <2>1, <2>5 DEF Completes, Completed, Ended, Present
  <2>6. CASE Repeats(n)
    BY <1>2, <2>1, <2>6 DEF Repeats, SentAgain, Present
  <2>7. QED BY <2>2, <2>3, <2>4, <2>5, <2>6 DEF NodeStep
<1>3. QED BY <1>1, <1>2

\* A request a node adds is for another port than that of what is bound, or
\* registers it.
LEMMA AddedRequest ==
    ASSUME SystemType, PortsInv', OwnPorts, NEW n \in Nodes, NodeStep(n),
           NEW m \in requests' \ requests, NEW k \in Nodes, NEW r \in RegsOf(k),
           Present(k, r)', r.url # EmptyUrl, m.reg.url = r.url
    PROVE  m.kind = "register" /\ m.reg = r
<1>1. /\ m.kind = phase'[n] /\ phase'[n] \in Sending
      /\ m.reg = current'[n] /\ m.reg \in RegsOf(n)
  BY RequestsStep
<1>2. r.url \in UrlsOf[k]
  BY RegFields
<1>3. k = n
  BY <1>1, <1>2, OwnRequest
<1>4. r \notin registered'[n]
  BY <1>1 DEF PortsInv
<1>5. phase'[n] = "register" /\ r = current'[n]
  BY <1>3, <1>4 DEF Present
<1>6. QED BY <1>1, <1>5

LEMMA TimesStep ==
    ASSUME SystemType, PortsInv, TimesInv, OwnPorts, [SystemNext]_systemVars
    PROVE  TimesInv'
<1>1. SystemType' /\ PortsInv'
  BY SystemTypeStep, PortsStep
<1>2. ASSUME NodesSame,
             \A n \in Nodes, t \in Nat : t > 0 /\ Older(n, t) => Older(n, t)',
             \A n \in Nodes : \A r \in RegsOf(n) : Newest(r) => Newest(r)'
      PROVE  TimesInv'
  <2>1. ASSUME NEW n \in Nodes PROVE Older(n, clock)'
    <3>1. Older(n, clock) /\ clock \in Nat /\ clock > 0 /\ clock' = clock
      BY <1>2 DEF TimesInv, SystemType, NodesType, NodesSame
    <3>2. QED BY <1>2, <3>1 DEF Older
  <2>2. ASSUME NEW n \in Nodes, phase'[n] = "stamped"
        PROVE  Older(n, current[n].timestamp)'
    <3>1. /\ Older(n, current[n].timestamp) /\ Stamped(n)
          /\ current'[n] = current[n]
      BY <1>2, <2>2 DEF NodesSame, TimesInv, SystemType, OperationsType, OperationType
    <3>2. current[n].timestamp \in Nat /\ current[n].timestamp > 0
      BY <3>1, RegistrationFields, TimeAssumption DEF Stamped, Timestamps
    <3>3. QED BY <1>2, <3>1, <3>2 DEF Older
  <2>3. ASSUME NEW n \in Nodes, NEW r, Present(n, r)', r.url # EmptyUrl
        PROVE  Newest(r)'
    <3>1. Present(n, r) /\ Newest(r)
      BY <1>2, <2>3 DEF NodesSame, Present, TimesInv
    <3>2. QED BY <1>2, <3>1, PresentReg
  <2>4. QED BY <2>1, <2>2, <2>3 DEF TimesInv
<1>3. ASSUME NEW n \in Nodes, NodeStep(n), UNCHANGED vars PROVE TimesInv'
  <2>1. clock \in Nat /\ clock' \in Nat /\ clock <= clock'
    BY <1>3, ClockStep DEF SystemType
  <2>2. registrationInstanceMap' = registrationInstanceMap
    BY <1>3 DEF vars, mapVars
  <2>3. \A m \in requests' \ requests :
           /\ m.node = n /\ m.reg \in RegsOf(n) /\ m.reg.timestamp < clock'
           /\ phase'[n] \in Sending
    BY <1>3, RequestsStep
  <2>4. \A u \in Urls : registrationInstanceMap[u] \in Int
    BY TimeAssumption DEF SystemType, TypeOK, Timestamps, NoInstance
  <2>5. \A m \in requests : m.reg.timestamp \in Nat
    BY RegFields DEF SystemType, MessagesType, MessageType
  <2>6. ASSUME NEW k \in Nodes PROVE Older(k, clock)'
    <3>1. Older(k, clock)
      BY DEF TimesInv
    <3>2. \A u \in UrlsOf[k] : registrationInstanceMap[u] < clock'
      BY <2>1, <2>4, <3>1, NodeAssumption DEF Older
    <3>3. \A m \in requests : m.reg.url \in UrlsOf[k] => m.reg.timestamp < clock'
      BY <2>1, <2>5, <3>1 DEF Older
    <3>4. QED BY <2>2, <2>3, <3>2, <3>3 DEF Older
  <2>7. ASSUME NEW k \in Nodes, phase'[k] = "stamped"
        PROVE  Older(k, current[k].timestamp)'
    <3>1. CASE k # n
      <4>1. SameNode(k)
        BY <1>3, <3>1 DEF NodeStep, Others
      <4>2. Older(k, current[k].timestamp) /\ current'[k] = current[k]
        BY <2>7, <4>1 DEF SameNode, TimesInv
      <4>3. \A m \in requests' \ requests : m.reg.url \notin UrlsOf[k]
        BY <2>3, <3>1, OwnRequest
      <4>4. QED BY <2>2, <4>2, <4>3 DEF Older
    <3>2. CASE k = n
      <4>1. Stamps(n)
        BY <1>3, <2>7, <3>2
        DEF NodeStep, Starts, Started, Withdraws, Withdrawn, Completes, Completed,
            Repeats, SentAgain, Fails, Ends, Gone, Blocks, Ended, Sending
      <4>2. current'[n].timestamp = clock /\ requests' = requests
        BY <4>1, RegistrationFields DEF Stamps
      <4>3. Older(n, clock)
        BY DEF TimesInv
      <4>4. QED BY <2>2, <3>2, <4>2, <4>3 DEF Older
    <3>3. QED BY <3>1, <3>2
  <2>8. ASSUME NEW k \in Nodes, NEW r, Present(k, r)', r.url # EmptyUrl
        PROVE  Newest(r)'
    <3>0. r \in RegsOf(k)
      BY <1>1, <2>8, PresentReg DEF SystemType, OperationsType, OperationType,
         Present, Sending
    <3>1. r.timestamp \in Nat /\ r.url \in UrlsOf[k] /\ r.url \in Urls
      BY <2>8, <3>0, RegFields
    <3>2. ASSUME NEW m \in requests' \ requests, m.reg.url = r.url
          PROVE  /\ m.kind = "register" /\ m.reg = r
                 /\ m.reg.timestamp <= r.timestamp
      <4>1. m.kind = "register" /\ m.reg = r
        BY <1>1, <1>3, <2>8, <3>0, <3>2, AddedRequest
      <4>2. QED BY <3>1, <4>1
    <3>3. CASE Present(k, r)
      <4>1. Newest(r)
        BY <2>8, <3>3 DEF TimesInv
      <4>2. QED BY <2>2, <3>2, <4>1 DEF Newest
    <3>4. CASE k = n /\ Starts(n) /\ r = current'[n]
      <4>1. phase[n] = "stamped" /\ current'[n].timestamp = current[n].timestamp
        BY <3>4, StartedReg DEF Starts, Started
      <4>2. Older(n, r.timestamp)
        BY <3>4, <4>1 DEF TimesInv
      <4>3. registrationInstanceMap[r.url] <= r.timestamp
        BY <2>4, <3>1, <3>4, <4>2 DEF Older
      <4>4. ASSUME NEW m \in requests, m.reg.url = r.url
            PROVE  m.reg.timestamp <= r.timestamp /\ m.reg.timestamp # r.timestamp
        <5>1. m.reg.timestamp < r.timestamp
          BY <3>1, <3>4, <4>2, <4>4 DEF Older
        <5>2. QED BY <2>5, <3>1, <5>1
      <4>5. QED BY <2>2, <3>2, <4>3, <4>4 DEF Newest
    <3>5. QED BY <1>3, <2>8, <3>3, <3>4, PresentStep
  <2>9. QED BY <2>6, <2>7, <2>8 DEF TimesInv
<1>4. ASSUME NEW m \in requests, HandleRegister(m) \/ HandleUnregister(m)
      PROVE  TimesInv'
  BY <1>2, <1>4, HandledMeans, TimesHandled
<1>5. ASSUME NodesSame, UNCHANGED requests,
             \A u \in Urls : registrationInstanceMap'[u] \in
                                {registrationInstanceMap[u], 0}
      PROVE  TimesInv'
  <2>1. ASSUME NEW n \in Nodes, NEW t \in Nat, t > 0, Older(n, t) PROVE Older(n, t)'
    BY <1>5, <2>1, NodeAssumption DEF Older
  <2>2. ASSUME NEW n \in Nodes, NEW r \in RegsOf(n), Newest(r) PROVE Newest(r)'
    BY <1>5, <2>2, RegFields DEF Newest
  <2>3. QED BY <1>2, <1>5, <2>1, <2>2
<1>6. CASE Lookup
  BY <1>5, <1>6, LookupMeans, TouchedAt
<1>7. CASE NodesSame /\ UNCHANGED <<vars, requests, replies, history>>
  BY <1>5, <1>7 DEF vars, mapVars
<1>8. QED BY <1>3, <1>4, <1>6, <1>7, StepMeans

(***************************************************************************)
(* Publishers.                                                             *)
(***************************************************************************)

LEMMA UnregisterPublisherEffect ==
    ASSUME TypeOK, NEW unreg \in DataUnregistration, unreg.domain = OwnDomain,
           UnregisterPublisher(unreg)
    PROVE  LET entry == [url |-> unreg.url,
                         registration_time |-> unreg.registration_time]
           IN  /\ entry \in dataProductMap[OwnDomain][unreg.id]
               /\ serviceMap' = serviceMap
               /\ \A i \in ProductIDs : dataProductMap'[OwnDomain][i] =
                     {p \in dataProductMap[OwnDomain][i] : i = unreg.id => p # entry}
<1> DEFINE entry == [url |-> unreg.url, registration_time |-> unreg.registration_time]
<1>1. /\ entry \in dataProductMap[OwnDomain][unreg.id] /\ serviceMap' = serviceMap
      /\ dataProductMap' = [dataProductMap EXCEPT ![OwnDomain][unreg.id] =
                               dataProductMap[OwnDomain][unreg.id] \ {entry}]
  BY DEF UnregisterPublisher, RegisteredPublisher
<1>2. unreg.id \in ProductIDs
  BY DEF DataUnregistration
<1> HIDE DEF entry
<1>3. ASSUME NEW i \in ProductIDs
      PROVE  dataProductMap'[OwnDomain][i] =
                {p \in dataProductMap[OwnDomain][i] : i = unreg.id => p # entry}
  BY <1>1, <1>2, DomainAssumption DEF TypeOK
<1>4. QED BY <1>1, <1>3 DEF entry

LEMMA UnregisterServiceEffect ==
    ASSUME TypeOK, NEW unreg \in ServiceUnregistration, unreg.domain = OwnDomain,
           UnregisterService(unreg)
    PROVE  /\ dataProductMap' = dataProductMap
           /\ Secs(registrationInstanceMap[unreg.url]) = unreg.registration_time
           /\ serviceMap'[OwnDomain][unreg.id] = NoUrl
           /\ \A s \in ServiceIDs : s # unreg.id =>
                 serviceMap'[OwnDomain][s] = serviceMap[OwnDomain][s]
<1>1. /\ dataProductMap' = dataProductMap
      /\ serviceMap' = [serviceMap EXCEPT ![OwnDomain][unreg.id] = NoUrl]
      /\ Secs(registrationInstanceMap[unreg.url]) = unreg.registration_time
  BY DEF UnregisterService, RegisteredService
<1>2. unreg.id \in ServiceIDs
  BY DEF ServiceUnregistration
<1>3. QED BY <1>1, <1>2, DomainAssumption DEF TypeOK

\* What the types say of a request the directory handles.
LEMMA RequestFields ==
    ASSUME SystemType, NEW m \in requests
    PROVE  /\ TypeOK /\ m.node \in Nodes /\ m.kind \in Sending
           /\ m.reg \in RegsOf(m.node)
           /\ m.reg.url \in Urls /\ m.reg.domain = OwnDomain
           /\ m.reg.timestamp \in Timestamps /\ m.reg.timestamp \in Nat
           /\ m.reg.timestamp # 0
           /\ OfferOf(m.reg) \in OffersOf[m.node]
           /\ m.reg.type = "DATA" => /\ m.reg \in DataRegistration
                                     /\ m.reg.id \in ProductIDs
                                     /\ m.reg.url \in UrlsOf[m.node]
                                     /\ Unregistration(m.reg) \in DataUnregistration
           /\ m.reg.type = "SERVICE" =>
                 /\ m.reg \in ServiceRegistration /\ m.reg.id \in ServiceIDs
                 /\ Unregistration(m.reg) \in ServiceUnregistration
           /\ Unregistration(m.reg).domain = OwnDomain
           /\ Unregistration(m.reg).url = m.reg.url
           /\ Unregistration(m.reg).id = m.reg.id
           /\ Unregistration(m.reg).registration_time = Secs(m.reg.timestamp)
<1>1. TypeOK /\ m.node \in Nodes /\ m.kind \in Sending /\ m.reg \in RegsOf(m.node)
  BY DEF SystemType, MessagesType, MessageType
<1>2. m.reg.timestamp \in Nat /\ m.reg.timestamp > 0
  BY <1>1, RegFields
<1>3. QED BY <1>1, <1>2, RegFields, UnregistrationFields

\* What has been answered had been answered, or the directory has just done so.
LEMMA DoneStep ==
    ASSUME SystemType, RepliesInv, [SystemNext]_systemVars,
           NEW n \in Nodes, NEW r, Done(n, r)'
    PROVE  \/ Done(n, r)
           \/ /\ phase[n] = "register" /\ r = current[n] /\ Awaited(n) \in requests
              /\ HandleRegister(Awaited(n))
<1>1. CASE NodesSame /\ UNCHANGED replies
  BY <1>1 DEF NodesSame, Done, Awaited
<1>2. ASSUME NEW k \in Nodes, NodeStep(k) PROVE Done(n, r)
  <2>1. replies' \subseteq replies
    BY <1>2 DEF NodeStep, Stamps, Starts, Withdraws, Completes, Completed, Repeats,
                Fails, Ends, Gone, Blocks
  <2>2. CASE phase'[n] = "register" /\ r = current'[n] /\ Awaited(n)' \in replies'
    <3>1. /\ (Awaited(n)').node = n /\ (Awaited(n)').kind = phase'[n]
          /\ (Awaited(n)').reg = current'[n]
      BY DEF Awaited
    <3>2. Awaited(n)' = Awaited(n)
      BY <2>1, <2>2, <3>1 DEF RepliesInv
    <3>3. phase'[n] = phase[n] /\ current'[n] = current[n] /\ Awaited(n) \in replies
      BY <2>1, <2>2, <3>1, <3>2, AwaitedFields
    <3>4. QED BY <2>2, <3>3 DEF Done
  <2>3. CASE r \in registered'[n]
    <3>1. CASE k # n
      <4>1. SameNode(n)
        BY <1>2, <3>1 DEF NodeStep, Others
      <4>2. QED BY <2>3, <4>1 DEF SameNode, Done
    <3>2. CASE k = n
      <4>1. CASE Completes(n)
        BY <2>3, <4>1 DEF Completes, Completed, Done
      <4>2. CASE Withdraws(n)
        BY <2>3, <4>2 DEF Withdraws, Withdrawn, Done
      <4>3. CASE ~Completes(n) /\ ~Withdraws(n)
        BY <1>2, <2>3, <3>2, <4>3
        DEF NodeStep, Stamps, Starts, Repeats, Fails, Ends, Gone, Blocks, SameMaps, Done
      <4>4. QED BY <4>1, <4>2, <4>3
    <3>3. QED BY <3>1, <3>2
  <2>4. QED BY <2>2, <2>3 DEF Done
<1>3. ASSUME NEW m \in requests, HandleRegister(m) \/ HandleUnregister(m)
      PROVE  \/ Done(n, r)
             \/ /\ phase[n] = "register" /\ r = current[n] /\ Awaited(n) \in requests
                /\ HandleRegister(Awaited(n))
  <2>1. NodesSame /\ (\A x \in replies' : x \in replies \/ x = m)
    BY <1>3, HandledMeans
  <2>2. Awaited(n)' = Awaited(n)
    BY <2>1 DEF NodesSame, Awaited
  <2>3. \/ r \in registered[n]
        \/ /\ phase[n] = "register" /\ r = current[n]
           /\ Awaited(n) \in replies \/ Awaited(n) = m
    BY <2>1, <2>2 DEF NodesSame, Done
  <2>4. phase[n] = "register" /\ Awaited(n) = m => m.kind = "register"
    BY AwaitedFields
  <2>5. m.kind = "register" => HandleRegister(m)
    BY <1>3 DEF HandleUnregister
  <2>6. QED BY <2>3, <2>4, <2>5 DEF Done
<1>4. CASE Lookup
  BY <1>1, <1>4, LookupMeans
<1>5. QED BY <1>1, <1>2, <1>3, <1>4, StepMeans

LEMMA DonePresent ==
    ASSUME NEW n, NEW r, Done(n, r)
    PROVE  Present(n, r)
  BY DEF Done, Present

\* A service is registered again only after it has been unregistered.
LEMMA NotYetStep ==
    ASSUME SystemType, NotYet, [SystemNext]_systemVars
    PROVE  NotYet'
<1> SUFFICES ASSUME NEW k \in Nodes, phase'[k] \in {"stamped", "register"},
                    NEW r \in registered'[k]
             PROVE  OfferOf(r) # OfferOf(current'[k])
  BY DEF NotYet
<1>1. CASE NodesSame
  BY <1>1 DEF NodesSame, NotYet
<1>2. ASSUME NEW n \in Nodes, NodeStep(n) PROVE OfferOf(r) # OfferOf(current'[k])
  <2>1. CASE k # n
    <3>1. SameNode(k)
      BY <1>2, <2>1 DEF NodeStep, Others
    <3>2. QED BY <3>1 DEF SameNode, NotYet
  <2>2. CASE k = n
    <3>1. CASE Stamps(n)
      <4>1. PICK offer \in OffersOf[n] :
               /\ current'[n] = Registration(offer, NoUrl, clock)
               /\ \A s \in registered[n] : s.type # offer.type \/ s.id # offer.id
        BY <3>1 DEF Stamps
      <4>2. r \in registered[n]
        BY <2>2, <3>1 DEF Stamps, SameMaps
      <4>3. current'[n].type = offer.type /\ current'[n].id = offer.id
        BY <4>1, RegistrationFields
      <4>4. QED BY <2>2, <4>1, <4>2, <4>3 DEF OfferOf
    <3>2. CASE Starts(n)
      <4>1. r \in registered[n] /\ phase[n] = "stamped"
        BY <2>2, <3>2 DEF Starts, Started
      <4>2. OfferOf(current'[n]) = OfferOf(current[n])
        BY <3>2, StartedReg
      <4>3. QED BY <2>2, <4>1, <4>2 DEF NotYet
    <3>3. CASE Repeats(n)
      BY <2>2, <3>3 DEF Repeats, SentAgain, NotYet
    <3>4. Stamps(n) \/ Starts(n) \/ Repeats(n)
      BY <1>2, <2>2
      DEF NodeStep, Withdraws, Withdrawn, Completes, Completed, Fails, Ends, Gone,
          Blocks, Ended
    <3>5. QED BY <3>1, <3>2, <3>3, <3>4
  <2>3. QED BY <2>1, <2>2
<1>3. QED BY <1>1, <1>2, HandledMeans, LookupMeans, StepMeans

\* Who is bound to a port of a node is that node.
LEMMA BoundByOwner ==
    ASSUME SystemType, OwnPorts, NEW n \in Nodes, NEW u \in UrlsOf[n], u \in BoundUrls
    PROVE  \/ \E r \in registered[n] : r.url = u
           \/ phase[n] = "register"
<1>1. \E k \in Nodes : \/ \E r \in registered[k] : r.url = u
                       \/ phase[k] = "register" /\ current[k].url = u
  BY DEF BoundUrls
<1>2. PICK k \in Nodes : \/ \E r \in registered[k] : r.url = u
                         \/ phase[k] = "register" /\ current[k].url = u
  BY <1>1
<1>3. ASSUME NEW r \in RegsOf(k), r.url = u PROVE k = n
  BY <1>3, OwnRequest
<1>4. k = n
  BY <1>2, <1>3 DEF SystemType, OperationsType, OperationType, Sending
<1>5. QED BY <1>2, <1>4

\* A node that is there for one service has its port free when it registers it.
LEMMA PortLeft ==
    ASSUME SystemType, NotYet, OwnPorts, NEW n \in Nodes, Sole(n), Starts(n)
    PROVE  current'[n].url # EmptyUrl
<1> SUFFICES ASSUME current'[n].url = EmptyUrl PROVE FALSE
  OBVIOUS
<1>1. /\ phase[n] = "stamped" /\ current'[n] \in RegsOf(n)
      /\ OfferOf(current'[n]) = OfferOf(current[n])
  BY StartedReg DEF Starts, Started
<1>2. /\ current'[n].type = "SERVICE" /\ OfferOf(current'[n]) \in OffersOf[n]
      /\ current'[n].url \notin UrlsOf[n]
  BY <1>1, RegFields
<1>3. UrlsOf[n] \subseteq BoundUrls
  BY <1>2, StartedReg
<1>4. OfferOf(current'[n]).type = "SERVICE"
  BY <1>2 DEF OfferOf
<1>5. /\ OffersOf[n] = {OfferOf(current[n])} /\ \E u : UrlsOf[n] = {u}
  BY <1>1, <1>2, <1>4 DEF Sole
<1>6. PICK u \in UrlsOf[n] : TRUE
  BY <1>5
<1>7. PICK r \in registered[n] : r.url = u
  BY <1>1, <1>3, <1>6, BoundByOwner
<1>8. OfferOf(r) \in OffersOf[n]
  BY RegFields DEF SystemType, OperationsType, OperationType
<1>9. QED BY <1>1, <1>5, <1>8 DEF NotYet

(***************************************************************************)
(* What the directory lists, when every request is answered in time.       *)
(***************************************************************************)

\* No two of the nodes may run out of ports for a service.
OneCrowded == \A n, k \in Nodes : Sole(n) \/ Sole(k) \/ n = k

\* Each request under way is the one its node waits for the answer to.
Orderly ==
    \A m \in requests :
        /\ m.node \in Nodes /\ m.kind \in Sending
        /\ m = Awaited(m.node) /\ m \notin replies

\* Node n has told the directory of r, and the directory has not been told
\* otherwise.
Withdrawing(n) == phase[n] = "unregister" /\ Awaited(n) \in requests
Owner(n, r) == Done(n, r) \/ (Withdrawing(n) /\ r = current[n])

\* The node knows the time of what it has registered at a port.
UrlTimes ==
    \A n \in Nodes : \A r \in registered[n] :
        r.url # EmptyUrl => urlInstanceMap[n][r.url] = r.timestamp

ListedOwned ==
    \A i \in ProductIDs : \A p \in dataProductMap[OwnDomain][i] :
        \E n \in Nodes : \E r :
            /\ Owner(n, r) /\ r.type = "DATA" /\ r.id = i
            /\ p = [url |-> r.url, registration_time |-> Secs(r.timestamp)]

ServiceOwned ==
    \A s \in ServiceIDs : serviceMap[OwnDomain][s] # NoUrl =>
        \E n \in Nodes : \E r :
            /\ Owner(n, r) /\ r.type = "SERVICE" /\ r.id = s
            /\ r.url = serviceMap[OwnDomain][s]

\* The time node n goes by, or has gone by, to unregister a service at u.
Time(n, u) ==
    IF /\ current[n].url = u
       /\ (phase[n] = "register" /\ Awaited(n) \in replies) \/ Withdrawing(n)
    THEN current[n].timestamp ELSE urlInstanceMap[n][u]

\* It is none, or the directory's.
TimesNamed ==
    \A n \in Nodes : \A r : Owner(n, r) /\ r.type = "SERVICE" =>
        Time(n, r.url) \in {NoInstance, registrationInstanceMap[r.url]}

Cleared ==
    \A n \in Nodes : phase[n] = "unregister" =>
        urlInstanceMap[n][current[n].url] = NoInstance

\* Services without a port.
SoleWithPort ==
    \A n \in Nodes : Sole(n) =>
        /\ phase[n] \in Sending => current[n].url # EmptyUrl
        /\ \A r \in registered[n] : r.url # EmptyUrl

EmptyTimes ==
    /\ registrationInstanceMap[EmptyUrl] < clock
    /\ \A n \in Nodes : ~Sole(n) /\ phase[n] \in {"stamped", "register"} =>
          registrationInstanceMap[EmptyUrl] <= current[n].timestamp

\* The steps of a node that no fault disturbs.
LEMMA FaultlessStep ==
    ASSUME Faults = {}, NEW n, NodeStep(n)
    PROVE  \/ Stamps(n) \/ Starts(n) \/ Withdraws(n) \/ Completes(n) \/ Blocks(n)
           \/ Fails(n) /\ phase[n] = "stamped"
  BY DEF NodeStep, Repeats, Ends, Fails

\* A node that has sent nothing is owed no answer.
LEMMA NoReply ==
    ASSUME RepliesInv, NEW n \in Nodes, phase[n] \notin Sending
    PROVE  \A m \in replies : m.node # n
  BY AwaitedFields DEF RepliesInv

LEMMA OrderlyStep ==
    ASSUME SystemType, RepliesInv, Orderly, Faults = {}, [SystemNext]_systemVars
    PROVE  Orderly'
<1> SUFFICES ASSUME NEW m \in requests'
             PROVE  /\ m.node \in Nodes /\ m.kind \in Sending
                    /\ m = Awaited(m.node)' /\ m \notin replies'
  BY DEF Orderly
<1>1. ASSUME m \in requests
      PROVE  /\ m.node \in Nodes /\ m.kind \in Sending
             /\ m = Awaited(m.node) /\ m \notin replies
  BY <1>1 DEF Orderly
<1>2. ASSUME NodesSame, m \in requests, m \notin replies'
      PROVE  /\ m.node \in Nodes /\ m.kind \in Sending
             /\ m = Awaited(m.node)' /\ m \notin replies'
  BY <1>1, <1>2 DEF NodesSame, Awaited
<1>3. ASSUME NEW n \in Nodes, NodeStep(n)
      PROVE  /\ m.node \in Nodes /\ m.kind \in Sending
             /\ m = Awaited(m.node)' /\ m \notin replies'
  <2>1. replies' \subseteq replies
    BY <1>3 DEF NodeStep, Stamps, Starts, Withdraws, Completes, Completed, Repeats,
                Fails, Ends, Gone, Blocks
  <2>2. CASE m \notin requests
    <3>1. /\ m.node = n /\ m.kind = phase'[n] /\ phase'[n] \in Sending
          /\ m = Awaited(n)'
      BY <1>3, <2>2, RequestsStep
    <3>2. phase[n] \notin Sending
      BY <1>3, <2>2, FaultlessStep
      DEF Stamps, Starts, Started, Withdraws, Withdrawn, Completes, Blocks, Fails, Sending
    <3>3. m \notin replies
      BY <3>1, <3>2, NoReply
    <3>4. QED BY <2>1, <3>1, <3>3
  <2>3. CASE m \in requests /\ m.node # n
    <3>1. SameNode(m.node)
      BY <1>1, <1>3, <2>3 DEF NodeStep, Others
    <3>2. QED BY <1>1, <2>1, <2>3, <3>1 DEF SameNode, Awaited
  <2>4. CASE m \in requests /\ m.node = n
    <3>1. phase[n] \in Sending /\ Awaited(n) \notin replies
      BY <1>1, <2>4, AwaitedFields
    <3>2. FALSE
      BY <1>3, <3>1, FaultlessStep
      DEF Stamps, Starts, Started, Withdraws, Withdrawn, Completes, Completed, Blocks,
          Fails, Sending
    <3>3. QED BY <3>2
  <2>5. QED BY <2>2, <2>3, <2>4
<1>4. ASSUME NEW h \in requests, HandleRegister(h) \/ HandleUnregister(h)
      PROVE  /\ m.node \in Nodes /\ m.kind \in Sending
             /\ m = Awaited(m.node)' /\ m \notin replies'
  <2>1. /\ NodesSame /\ m \in requests /\ m # h
        /\ \A x \in replies' : x \in replies \/ x = h
    BY <1>4, HandledMeans
  <2>2. QED BY <1>1, <1>2, <2>1
<1>5. CASE Lookup
  BY <1>1, <1>2, <1>5, LookupMeans
<1>6. QED BY <1>1, <1>2, <1>3, <1>4, <1>5, StepMeans

LEMMA UrlTimesStep ==
    ASSUME SystemType, PortsInv, UrlTimes, [SystemNext]_systemVars
    PROVE  UrlTimes'
<1> DEFINE Known(k) == \A r \in registered[k] :
                          r.url # EmptyUrl => urlInstanceMap[k][r.url] = r.timestamp
<1>1. \A k \in Nodes : Known(k)
  BY DEF UrlTimes
<1>2. SUFFICES \A k \in Nodes : Known(k)'
  BY <1>2 DEF UrlTimes
<1>3. ASSUME NodesSame PROVE \A k \in Nodes : Known(k)'
  BY <1>1, <1>3 DEF NodesSame
<1>4. ASSUME NEW n \in Nodes, NodeStep(n) PROVE \A k \in Nodes : Known(k)'
  <2>1. ASSUME NEW k \in Nodes, k # n PROVE Known(k)'
    <3>1. SameNode(k)
      BY <1>4, <2>1 DEF NodeStep, Others
    <3>2. QED BY <1>1, <3>1 DEF SameNode
  <2> SUFFICES Known(n)'
    BY <2>1
  <2>2. CASE SameMaps(n)
    BY <1>1, <2>2 DEF SameMaps
  <2>3. CASE Withdraws(n)
    <3>1. PICK reg \in registered[n] : Withdrawn(n, reg)
      BY <2>3 DEF Withdraws
    <3>2. /\ registered'[n] = registered[n] \ {reg}
          /\ \A u \in Urls : u # reg.url => urlInstanceMap'[n][u] = urlInstanceMap[n][u]
      BY <3>1 DEF Withdrawn
    <3>3. ASSUME NEW r \in registered'[n], r.url # EmptyUrl
          PROVE  urlInstanceMap'[n][r.url] = r.timestamp
      <4>1. r \in registered[n] /\ r # reg /\ r.url \in Urls
        BY <3>2, <3>3, TypeShapes
      <4>2. r.url # reg.url
        BY <3>3, <4>1 DEF PortsInv
      <4>3. QED BY <1>1, <3>2, <3>3, <4>1, <4>2
    <3>4. QED BY <3>3
  <2>4. CASE Completes(n)
    <3>1. CASE phase[n] # "register"
      BY <1>1, <2>4, <3>1 DEF Completes, Completed
    <3>2. CASE phase[n] = "register"
      <4>1. /\ registered'[n] = registered[n] \cup {current[n]}
            /\ urlInstanceMap'[n][current[n].url] = current[n].timestamp
            /\ \A u \in Urls : u # current[n].url =>
                  urlInstanceMap'[n][u] = urlInstanceMap[n][u]
        BY <2>4, <3>2 DEF Completes, Completed
      <4>2. ASSUME NEW r \in registered[n], r.url # EmptyUrl
            PROVE  urlInstanceMap'[n][r.url] = r.timestamp
        <5>1. r.url # current[n].url /\ r.url \in Urls
          BY <3>2, <4>2, TypeShapes DEF PortsInv, Sending
        <5>2. QED BY <1>1, <4>1, <4>2, <5>1
      <4>3. QED BY <4>1, <4>2
    <3>3. QED BY <3>1, <3>2
  <2>5. CASE Ends(n)
    BY <2>5 DEF Ends, Gone
  <2>6. QED
    BY <1>4, <2>2, <2>3, <2>4, <2>5 DEF NodeStep, Stamps, Starts, Repeats, Blocks, Fails
<1>5. ASSUME NEW m \in requests, HandleRegister(m) \/ HandleUnregister(m)
      PROVE  \A k \in Nodes : Known(k)'
  BY <1>3, <1>5, HandledMeans
<1>6. ASSUME Lookup PROVE \A k \in Nodes : Known(k)'
  BY <1>3, <1>6, LookupMeans
<1> HIDE DEF Known
<1>7. QED BY <1>3, <1>4, <1>5, <1>6, StepMeans

LEMMA ClearedStep ==
    ASSUME SystemType, Cleared, Faults = {}, [SystemNext]_systemVars
    PROVE  Cleared'
<1> SUFFICES ASSUME NEW k \in Nodes, phase'[k] = "unregister"
             PROVE  urlInstanceMap'[k][current'[k].url] = NoInstance
  BY DEF Cleared
<1>1. CASE NodesSame
  BY <1>1 DEF NodesSame, Cleared
<1>2. ASSUME NEW n \in Nodes, NodeStep(n)
      PROVE  urlInstanceMap'[k][current'[k].url] = NoInstance
  <2>1. CASE k # n
    <3>1. SameNode(k)
      BY <1>2, <2>1 DEF NodeStep, Others
    <3>2. QED BY <3>1 DEF SameNode, Cleared
  <2>2. CASE k = n
    <3>1. Withdraws(n)
      BY <1>2, <2>2, FaultlessStep
      DEF Stamps, Starts, Started, Completes, Completed, Blocks, Fails, Ended
    <3>2. PICK reg \in registered[n] : Withdrawn(n, reg)
      BY <3>1 DEF Withdraws
    <3>3. urlInstanceMap'[n][reg.url] = NoInstance
      BY <3>2 DEF Withdrawn
    <3>4. QED BY <2>2, <3>2, <3>3, WithdrawnReg
  <2>3. QED BY <2>1, <2>2
<1>3. QED BY <1>1, <1>2, HandledMeans, LookupMeans, StepMeans

\* What the other nodes have told the directory stays as it is.
LEMMA OthersOwn ==
    ASSUME RepliesInv, Orderly, NEW k \in Nodes, NodeStep(k), NEW n \in Nodes, n # k
    PROVE  /\ \A r : Owner(n, r)' <=> Owner(n, r)
           /\ \A u : Time(n, u)' = Time(n, u)
<1>1. SameNode(n)
  BY DEF NodeStep, Others
<1>2. Awaited(n)' = Awaited(n)
  BY <1>1 DEF SameNode, Awaited
<1>3. Awaited(n).node = n /\ Awaited(k).node = k
  BY AwaitedFields
<1>4. Awaited(n) \in replies' <=> Awaited(n) \in replies
  BY <1>3 DEF NodeStep, Stamps, Starts, Withdraws, Completes, Completed, Repeats,
              Fails, Ends, Gone, Blocks
<1>5. Awaited(n) \in requests' <=> Awaited(n) \in requests
  <2>1. \E x : x.node = k /\ (requests' = requests \/ requests' = requests \cup {x})
    BY <1>3 DEF NodeStep, Stamps, Starts, Started, Withdraws, Withdrawn, Completes,
                Repeats, SentAgain, Fails, Ends, Blocks
  <2>2. QED BY <1>3, <2>1
<1>6. Withdrawing(n)' <=> Withdrawing(n)
  BY <1>1, <1>2, <1>5 DEF Withdrawing, SameNode
<1>7. \A r : Owner(n, r)' <=> Owner(n, r)
  BY <1>1, <1>2, <1>4, <1>6 DEF Owner, Done, SameNode
<1>8. \A u : Time(n, u)' = Time(n, u)
  BY <1>1, <1>2, <1>4, <1>6 DEF Time, SameNode
<1>9. QED BY <1>7, <1>8

\* What a node that waits for nothing has told the directory.
LEMMA QuietOwn ==
    ASSUME NEW n, phase[n] \notin Sending
    PROVE  /\ \A r : Owner(n, r) <=> r \in registered[n]
           /\ \A u : Time(n, u) = urlInstanceMap[n][u]
  BY DEF Owner, Done, Withdrawing, Time, Sending

\* A node takes nothing back from the directory without telling it, and goes
\* by the times it went by.
LEMMA OwnerStep ==
    ASSUME SystemType, RepliesInv, Orderly, UrlTimes, Faults = {},
           NEW n \in Nodes, NodeStep(n)
    PROVE  /\ \A r : Owner(n, r) =>
                 \E q : /\ Owner(n, q)' /\ q.type = r.type /\ q.id = r.id
                        /\ q.url = r.url /\ (r.type = "DATA" => q = r)
           /\ \A r : Owner(n, r)' =>
                 \E q : Owner(n, q) /\ q.type = r.type /\ q.url = r.url
           /\ \A u \in Urls : Time(n, u)' \in {Time(n, u), NoInstance}
<1> DEFINE Goal ==
           /\ \A r : Owner(n, r) =>
                 \E q : /\ Owner(n, q)' /\ q.type = r.type /\ q.id = r.id
                        /\ q.url = r.url /\ (r.type = "DATA" => q = r)
           /\ \A r : Owner(n, r)' =>
                 \E q : Owner(n, q) /\ q.type = r.type /\ q.url = r.url
           /\ \A u \in Urls : Time(n, u)' \in {Time(n, u), NoInstance}
<1>1. CASE Stamps(n) \/ Blocks(n) \/ (Fails(n) /\ phase[n] = "stamped")
  <2>1. phase[n] \notin Sending /\ phase'[n] \notin Sending /\ SameMaps(n)
    BY <1>1 DEF Stamps, Blocks, Fails, Ended, Sending
  <2>2. /\ \A r : Owner(n, r)' <=> r \in registered'[n]
        /\ \A u : Time(n, u)' = urlInstanceMap'[n][u]
    BY <2>1 DEF Owner, Done, Withdrawing, Time, Sending
  <2>3. Goal
    BY <2>1, <2>2, QuietOwn DEF SameMaps
  <2>4. QED BY <2>3
<1>2. CASE Starts(n)
  <2>1. phase[n] = "stamped" /\ phase'[n] = "register" /\ SameMaps(n)
    BY <1>2 DEF Starts, Started
  <2>2. replies' = replies /\ phase[n] \notin Sending
    BY <1>2, <2>1 DEF Starts, Sending
  <2>3. (Awaited(n)').node = n
    BY DEF Awaited
  <2>4. Awaited(n)' \notin replies'
    BY <2>2, <2>3, NoReply
  <2>5. /\ \A r : Owner(n, r)' <=> r \in registered'[n]
        /\ \A u : Time(n, u)' = urlInstanceMap'[n][u]
    BY <2>1, <2>4 DEF Owner, Done, Withdrawing, Time
  <2>6. Goal
    BY <2>1, <2>2, <2>5, QuietOwn DEF SameMaps
  <2>7. QED BY <2>6
<1>3. CASE Withdraws(n)
  <2>1. PICK reg \in registered[n] : Withdrawn(n, reg)
    BY <1>3 DEF Withdraws
  <2>2. /\ phase[n] \notin Sending /\ phase'[n] = "unregister"
        /\ registered'[n] = registered[n] \ {reg}
        /\ urlInstanceMap'[n][reg.url] = NoInstance
        /\ \A u \in Urls : u # reg.url => urlInstanceMap'[n][u] = urlInstanceMap[n][u]
        /\ current'[n] = [reg EXCEPT !.timestamp = urlInstanceMap[n][reg.url]]
    BY <2>1 DEF Withdrawn, Sending
  <2>3. Withdrawing(n)'
    BY <2>1 DEF Withdrawing, Withdrawn, Awaited
  <2>4. /\ current'[n].url = reg.url /\ current'[n].type = reg.type
        /\ current'[n].id = reg.id
        /\ current'[n].timestamp = urlInstanceMap[n][reg.url]
    BY <2>1, WithdrawnReg
  <2>5. reg.type = "DATA" => current'[n] = reg
    <3> SUFFICES ASSUME reg.type = "DATA" PROVE current'[n] = reg
      OBVIOUS
    <3>1. reg \in RegsOf(n)
      BY DEF SystemType, OperationsType, OperationType
    <3>2. reg \in DataRegistration /\ reg.url # EmptyUrl
      BY <3>1, RegFields
    <3>3. urlInstanceMap[n][reg.url] = reg.timestamp
      BY <3>2 DEF UrlTimes
    <3>4. QED BY <2>2, <3>2, <3>3 DEF DataRegistration
  <2>6. \A r : Owner(n, r)' <=> r \in registered'[n] \/ r = current'[n]
    BY <2>2, <2>3 DEF Owner, Done
  <2>7. \A u \in Urls : Time(n, u)' \in {urlInstanceMap[n][u], NoInstance}
    BY <2>2, <2>3, <2>4 DEF Time
  <2>8. /\ \A r : Owner(n, r) <=> r \in registered[n]
        /\ \A u : Time(n, u) = urlInstanceMap[n][u]
    BY <2>2, QuietOwn
  <2>9. Goal
    BY <2>2, <2>4, <2>5, <2>6, <2>7, <2>8
  <2>10. QED BY <2>9
<1>4. CASE Completes(n)
  <2>1. /\ phase[n] \in Sending /\ Awaited(n) \in replies /\ phase'[n] \notin Sending
        /\ registered'[n] = IF phase[n] = "register"
                            THEN registered[n] \cup {current[n]} ELSE registered[n]
        /\ phase[n] = "register" =>
              /\ urlInstanceMap'[n][current[n].url] = current[n].timestamp
              /\ \A u \in Urls : u # current[n].url =>
                    urlInstanceMap'[n][u] = urlInstanceMap[n][u]
        /\ phase[n] # "register" => urlInstanceMap'[n] = urlInstanceMap[n]
    BY <1>4 DEF Completes, Completed, Ended, Sending
  <2>2. ~Withdrawing(n)
    BY <2>1 DEF Withdrawing, Orderly
  <2>3. /\ \A r : Owner(n, r)' <=> r \in registered'[n]
        /\ \A u : Time(n, u)' = urlInstanceMap'[n][u]
    BY <2>1 DEF Owner, Done, Withdrawing, Time, Sending
  <2>4. \A r : Owner(n, r) <=> r \in registered'[n]
    BY <2>1, <2>2 DEF Owner, Done
  <2>5. \A u \in Urls : Time(n, u) = urlInstanceMap'[n][u]
    BY <2>1, <2>2 DEF Time
  <2>6. Goal
    BY <2>3, <2>4, <2>5
  <2>7. QED BY <2>6
<1>5. QED BY <1>1, <1>2, <1>3, <1>4, FaultlessStep

\* A request that is handled makes or ends the claim of its node.
LEMMA OwnerHandled ==
    ASSUME SystemType, Orderly, Faults = {},
           NEW m \in requests, HandleRegister(m) \/ HandleUnregister(m)
    PROVE  /\ m.node \in Nodes /\ m = Awaited(m.node)
           /\ phase[m.node] = m.kind /\ current[m.node] = m.reg
           /\ \A n \in Nodes : \A r :
                 Owner(n, r) => \/ Owner(n, r)'
                                \/ m.kind = "unregister" /\ n = m.node /\ r = m.reg
           /\ \A n \in Nodes : \A r :
                 Owner(n, r)' => \/ Owner(n, r)
                                 \/ m.kind = "register" /\ n = m.node /\ r = m.reg
           /\ m.kind = "register" => Owner(m.node, m.reg)'
           /\ m.kind = "unregister" => Owner(m.node, m.reg)
           /\ \A n \in Nodes : \A u :
                 n # m.node \/ u # m.reg.url => Time(n, u)' = Time(n, u)
           /\ m.kind = "unregister" =>
                 /\ Time(m.node, m.reg.url) = m.reg.timestamp
                 /\ Time(m.node, m.reg.url)' = urlInstanceMap[m.node][m.reg.url]
           /\ m.kind = "register" => Time(m.node, m.reg.url)' = m.reg.timestamp
<1>1. /\ m.node \in Nodes /\ m.kind \in Sending /\ m = Awaited(m.node)
      /\ phase[m.node] = m.kind /\ current[m.node] = m.reg
  BY AwaitedFields DEF Orderly
<1>2. NodesSame /\ requests' = requests \ {m} /\ replies' = replies \cup {m}
  BY <1>1, HandledMeans
<1>3. \A n \in Nodes : Awaited(n)' = Awaited(n)
  BY <1>2 DEF NodesSame, Awaited
<1>4. \A n \in Nodes : n # m.node => Awaited(n) # m
  BY AwaitedFields
<1>5. ASSUME NEW n \in Nodes, n # m.node
      PROVE  (\A r : Owner(n, r)' <=> Owner(n, r)) /\ (\A u : Time(n, u)' = Time(n, u))
  <2>1. /\ Awaited(n)' \in requests' <=> Awaited(n) \in requests
        /\ Awaited(n)' \in replies' <=> Awaited(n) \in replies
    BY <1>2, <1>3, <1>4, <1>5
  <2>2. Withdrawing(n)' <=> Withdrawing(n)
    BY <1>2, <2>1 DEF Withdrawing, NodesSame
  <2>3. QED BY <1>2, <2>1, <2>2 DEF Owner, Done, Time, NodesSame
<1> DEFINE k == m.node
<1>6. /\ Awaited(k)' \in replies' /\ Awaited(k)' \notin requests'
      /\ Awaited(k) \in requests /\ Awaited(k) \notin replies
  BY <1>1, <1>2, <1>3 DEF Orderly
<1>7. /\ ~Withdrawing(k)' /\ (Withdrawing(k) <=> m.kind = "unregister")
  BY <1>1, <1>6 DEF Withdrawing
<1>8. /\ phase'[k] = m.kind /\ current'[k] = m.reg /\ registered'[k] = registered[k]
      /\ urlInstanceMap'[k] = urlInstanceMap[k]
  BY <1>1, <1>2 DEF NodesSame
<1>9. /\ \A r : Owner(k, r) <=> \/ r \in registered[k]
                                \/ m.kind = "unregister" /\ r = m.reg
      /\ \A u : Time(k, u) = IF m.kind = "unregister" /\ u = m.reg.url
                             THEN m.reg.timestamp ELSE urlInstanceMap[k][u]
  BY <1>1, <1>6, <1>7 DEF Owner, Done, Time
<1>10. /\ \A r : Owner(k, r)' <=> \/ r \in registered[k]
                                  \/ m.kind = "register" /\ r = m.reg
       /\ \A u : Time(k, u)' = IF m.kind = "register" /\ u = m.reg.url
                               THEN m.reg.timestamp ELSE urlInstanceMap[k][u]
  BY <1>6, <1>7, <1>8 DEF Owner, Done, Time
<1>11. m.kind = "register" => m.kind # "unregister"
  OBVIOUS
<1> HIDE DEF k
<1>12. /\ \A n \in Nodes : n = m.node => n = k
       /\ k \in Nodes
  BY <1>1 DEF k
<1>13. /\ \A n \in Nodes : \A r :
             Owner(n, r) => \/ Owner(n, r)'
                            \/ m.kind = "unregister" /\ n = m.node /\ r = m.reg
       /\ \A n \in Nodes : \A r :
             Owner(n, r)' => \/ Owner(n, r)
                             \/ m.kind = "register" /\ n = m.node /\ r = m.reg
  BY <1>5, <1>9, <1>10, <1>12 DEF k
<1>14. /\ m.kind = "register" => Owner(m.node, m.reg)'
       /\ m.kind = "unregister" => Owner(m.node, m.reg)
       /\ m.kind = "unregister" =>
             /\ Time(m.node, m.reg.url) = m.reg.timestamp
             /\ Time(m.node, m.reg.url)' = urlInstanceMap[m.node][m.reg.url]
       /\ m.kind = "register" => Time(m.node, m.reg.url)' = m.reg.timestamp
  BY <1>9, <1>10, <1>11 DEF k
<1>15. \A n \in Nodes : \A u : n # m.node \/ u # m.reg.url => Time(n, u)' = Time(n, u)
  BY <1>5, <1>9, <1>10, <1>12 DEF k
<1>16. QED BY <1>1, <1>13, <1>14, <1>15

LEMMA SoleWithPortStep ==
    ASSUME SystemType, NotYet, SoleWithPort, OwnPorts, Faults = {},
           [SystemNext]_systemVars
    PROVE  SoleWithPort'
<1> SUFFICES ASSUME NEW k \in Nodes, Sole(k)
             PROVE  /\ phase'[k] \in Sending => current'[k].url # EmptyUrl
                    /\ \A r \in registered'[k] : r.url # EmptyUrl
  BY DEF SoleWithPort, Sole
<1>1. /\ phase[k] \in Sending => current[k].url # EmptyUrl
      /\ \A r \in registered[k] : r.url # EmptyUrl
  BY DEF SoleWithPort
<1>2. CASE NodesSame
  BY <1>1, <1>2 DEF NodesSame
<1>3. ASSUME NEW n \in Nodes, NodeStep(n)
      PROVE  /\ phase'[k] \in Sending => current'[k].url # EmptyUrl
             /\ \A r \in registered'[k] : r.url # EmptyUrl
  <2>1. CASE k # n
    <3>1. SameNode(k)
      BY <1>3, <2>1 DEF NodeStep, Others
    <3>2. QED BY <1>1, <3>1 DEF SameNode
  <2>2. CASE k = n
    <3>1. CASE Starts(n)
      BY <1>1, <2>2, <3>1, PortLeft DEF Starts, SameMaps
    <3>2. CASE Withdraws(n)
      <4>1. PICK reg \in registered[n] : Withdrawn(n, reg)
        BY <3>2 DEF Withdraws
      <4>2. registered'[n] = registered[n] \ {reg}
        BY <4>1 DEF Withdrawn
      <4>3. QED BY <1>1, <2>2, <4>1, <4>2, WithdrawnReg
    <3>3. CASE Completes(n)
      BY <1>1, <2>2, <3>3 DEF Completes, Completed, Ended, Sending
    <3>4. CASE Stamps(n) \/ Blocks(n) \/ Fails(n)
      BY <1>1, <2>2, <3>4 DEF Stamps, Blocks, Fails, Ended, SameMaps, Sending
    <3>5. QED BY <1>3, <3>1, <3>2, <3>3, <3>4, FaultlessStep
  <2>3. QED BY <2>1, <2>2
<1>4. QED BY <1>2, <1>3, HandledMeans, LookupMeans, StepMeans

\* Two requests for the empty URL are of the same node.
LEMMA SameCrowded ==
    ASSUME Orderly, SoleWithPort, OneCrowded, NEW m \in requests,
           m.reg.url = EmptyUrl, NEW n \in Nodes, ~Sole(n)
    PROVE  n = m.node
<1>1. m.node \in Nodes /\ phase[m.node] \in Sending /\ current[m.node] = m.reg
  BY AwaitedFields DEF Orderly
<1>2. ~Sole(m.node)
  BY <1>1 DEF SoleWithPort
<1>3. QED BY <1>1, <1>2 DEF OneCrowded

LEMMA InstanceTimes ==
    ASSUME TypeOK
    PROVE  \A u \in Urls : registrationInstanceMap[u] \in Int
  BY TimeAssumption DEF TypeOK, Timestamps, NoInstance

\* The time of what is being registered.
LEMMA StampTime ==
    ASSUME SystemType, NEW n \in Nodes, phase[n] \in {"stamped", "register"}
    PROVE  current[n].timestamp \in Nat
<1>1. CASE phase[n] = "stamped"
  <2>1. Stamped(n)
    BY <1>1 DEF SystemType, OperationsType, OperationType
  <2>2. QED BY <2>1, RegistrationFields, TimeAssumption DEF Stamped, Timestamps
<1>2. CASE phase[n] = "register"
  BY <1>2, RegFields DEF SystemType, OperationsType, OperationType, Sending
<1>3. QED BY <1>1, <1>2

LEMMA EmptyTimesStep ==
    ASSUME SystemType, Orderly, SoleWithPort, EmptyTimes, OneCrowded, Faults = {},
           [SystemNext]_systemVars
    PROVE  EmptyTimes'
<1> DEFINE old == registrationInstanceMap[EmptyUrl]
           new == registrationInstanceMap'[EmptyUrl]
<1>1. /\ EmptyUrl \in Urls /\ old \in Int /\ clock \in Nat /\ clock > 0 /\ old < clock
      /\ \A n \in Nodes : ~Sole(n) /\ phase[n] \in {"stamped", "register"} =>
            old <= current[n].timestamp
  BY InstanceTimes, NodeAssumption DEF SystemType, NodesType, EmptyTimes
<1>2. ASSUME NodesSame, new \in {old, 0, NoInstance} PROVE EmptyTimes'
  <2>1. new < clock
    BY <1>1, <1>2 DEF NoInstance
  <2>2. ASSUME NEW n \in Nodes, ~Sole(n), phase[n] \in {"stamped", "register"}
        PROVE  new <= current[n].timestamp
    <3>1. current[n].timestamp \in Nat /\ old <= current[n].timestamp
      BY <1>1, <2>2, StampTime
    <3>2. QED BY <1>1, <1>2, <3>1 DEF NoInstance
  <2>3. QED BY <1>2, <2>1, <2>2 DEF NodesSame, EmptyTimes, Sole
<1>3. ASSUME NEW n \in Nodes, NodeStep(n), UNCHANGED vars PROVE EmptyTimes'
  <2>1. new = old
    BY <1>3 DEF vars, mapVars
  <2>2. clock' \in Nat /\ clock <= clock'
    BY <1>3, ClockStep DEF SystemType
  <2>3. new < clock'
    BY <1>1, <2>1, <2>2
  <2>4. ASSUME NEW k \in Nodes, ~Sole(k), phase'[k] \in {"stamped", "register"}
        PROVE  new <= current'[k].timestamp
    <3>1. CASE k # n
      <4>1. SameNode(k)
        BY <1>3, <3>1 DEF NodeStep, Others
      <4>2. QED BY <1>1, <2>1, <2>4, <4>1 DEF SameNode
    <3>2. CASE k = n /\ Stamps(n)
      <4>1. current'[n].timestamp = clock
        BY <3>2, RegistrationFields DEF Stamps
      <4>2. QED BY <1>1, <2>1, <3>2, <4>1
    <3>3. CASE k = n /\ Starts(n)
      <4>1. phase[n] = "stamped" /\ current'[n].timestamp = current[n].timestamp
        BY <3>3, StartedReg DEF Starts, Started
      <4>2. QED BY <1>1, <2>1, <2>4, <3>3, <4>1
    <3>4. QED
      BY <1>3, <2>4, <3>1, <3>2, <3>3, FaultlessStep
      DEF Withdraws, Withdrawn, Completes, Completed, Blocks, Fails, Ended
  <2>5. QED BY <2>3, <2>4 DEF EmptyTimes, Sole
<1>4. ASSUME NEW m \in requests, HandleRegister(m) \/ HandleUnregister(m)
      PROVE  EmptyTimes'
  <2>1. NodesSame
    BY <1>4, HandledMeans
  <2>2. CASE new \in {old, 0, NoInstance}
    BY <1>2, <2>1, <2>2
  <2>3. CASE new \notin {old, 0, NoInstance}
    <3>1. /\ m.reg.url = EmptyUrl /\ m.kind = "register" /\ new = m.reg.timestamp
      BY <1>1, <1>4, <2>3, InstancesStep DEF SameOrTouched
    <3>2. m.reg.timestamp < clock /\ m.reg.timestamp \in Nat
      BY RequestFields DEF SystemType, MessagesType, MessageType
    <3>3. current[m.node] = m.reg
      BY AwaitedFields DEF Orderly
    <3>4. ASSUME NEW n \in Nodes, ~Sole(n) PROVE new <= current[n].timestamp
      <4>1. n = m.node
        BY <3>1, <3>4, SameCrowded
      <4>2. QED BY <3>1, <3>2, <3>3, <4>1
    <3>5. QED BY <2>1, <3>1, <3>2, <3>4 DEF NodesSame, EmptyTimes, Sole
  <2>4. QED BY <2>2, <2>3
<1>5. CASE Lookup
  BY <1>1, <1>2, <1>5, LookupMeans, TouchedAt
<1>6. CASE NodesSame /\ UNCHANGED <<vars, requests, replies, history>>
  BY <1>2, <1>6 DEF vars, mapVars
<1>7. QED BY <1>3, <1>4, <1>5, <1>6, StepMeans

\* The publishers of the directory.
LEMMA ListedOwnedStep ==
    ASSUME SystemType, RepliesInv, Orderly, UrlTimes, ListedOwned, Faults = {},
           [SystemNext]_systemVars
    PROVE  ListedOwned'
<1> DEFINE Claims(r, i, p) ==
              /\ r.type = "DATA" /\ r.id = i
              /\ p = [url |-> r.url, registration_time |-> Secs(r.timestamp)]
<1> SUFFICES ASSUME NEW i \in ProductIDs, NEW p \in dataProductMap'[OwnDomain][i]
             PROVE  \E n \in Nodes : \E r : Owner(n, r)' /\ Claims(r, i, p)
  BY DEF ListedOwned
<1>1. ASSUME p \in dataProductMap[OwnDomain][i]
      PROVE  \E n \in Nodes : \E r : Owner(n, r) /\ Claims(r, i, p)
  BY <1>1 DEF ListedOwned
<1>2. ASSUME p \in dataProductMap[OwnDomain][i], NodesSame,
             UNCHANGED <<requests, replies>>
      PROVE  \E n \in Nodes : \E r : Owner(n, r)' /\ Claims(r, i, p)
  <2>1. \A n \in Nodes : \A r : Owner(n, r) => Owner(n, r)'
    BY <1>2 DEF Owner, Done, Withdrawing, Awaited, NodesSame
  <2>2. QED BY <1>1, <1>2, <2>1
<1>3. ASSUME NEW k \in Nodes, NodeStep(k), UNCHANGED vars
      PROVE  \E n \in Nodes : \E r : Owner(n, r)' /\ Claims(r, i, p)
  <2>1. p \in dataProductMap[OwnDomain][i]
    BY <1>3 DEF vars, mapVars
  <2>2. PICK n \in Nodes : \E r : Owner(n, r) /\ Claims(r, i, p)
    BY <1>1, <2>1
  <2>3. PICK r : Owner(n, r) /\ Claims(r, i, p)
    BY <2>2
  <2>4. CASE n # k
    BY <1>3, <2>3, <2>4, OthersOwn
  <2>5. CASE n = k
    <3>1. Owner(n, r)'
      BY <1>3, <2>3, <2>5, OwnerStep
    <3>2. QED BY <2>3, <3>1
  <2>6. QED BY <2>4, <2>5
<1>4. ASSUME NEW m \in requests, HandleRegister(m) \/ HandleUnregister(m)
      PROVE  \E n \in Nodes : \E r : Owner(n, r)' /\ Claims(r, i, p)
  <2> DEFINE q == m.reg
             entry == [url |-> q.url, registration_time |-> Secs(q.timestamp)]
  <2>1. /\ m.node \in Nodes
        /\ \A n \in Nodes : \A r :
              Owner(n, r) => \/ Owner(n, r)'
                             \/ m.kind = "unregister" /\ n = m.node /\ r = q
        /\ m.kind = "register" => Owner(m.node, q)'
    BY <1>4, OwnerHandled
  <2>2. ASSUME p \in dataProductMap[OwnDomain][i],
               m.kind = "unregister" => q.type # "DATA" \/ i # q.id \/ p # entry
        PROVE  \E n \in Nodes : \E r : Owner(n, r)' /\ Claims(r, i, p)
    <3>1. PICK n \in Nodes : \E r : Owner(n, r) /\ Claims(r, i, p)
      BY <1>1, <2>2
    <3>2. PICK r : Owner(n, r) /\ Claims(r, i, p)
      BY <3>1
    <3>3. QED BY <2>1, <2>2, <3>2
  <2>3. CASE m.kind = "register" /\ q.type = "DATA" /\ RegisterPublisher(q)
    <3>1. p \in dataProductMap[OwnDomain][i] \/ (p = entry /\ i = q.id)
      <4>1. /\ TypeOK /\ q \in DataRegistration /\ q.domain = OwnDomain
            /\ q.timestamp \in Timestamps
        BY <2>3, RequestFields
      <4>2. QED BY <2>3, <4>1, RegisterPublisherEffect
    <3>2. QED BY <2>1, <2>2, <2>3, <3>1
  <2>4. CASE m.kind = "register" /\ (q.type = "DATA" => ~RegisterPublisher(q))
    <3>1. p \in dataProductMap[OwnDomain][i]
      <4>1. CASE q.type = "SERVICE" /\ RegisterService(q)
        BY <4>1, RequestFields, RegisterServiceEffect
      <4>2. CASE RegisterDuplicate(q) \/ UNCHANGED vars
        BY <4>2 DEF RegisterDuplicate, vars, mapVars
      <4>3. QED BY <1>4, <2>4, <4>1, <4>2, HandleCases
    <3>2. QED BY <2>2, <2>4, <3>1
  <2>5. CASE m.kind = "unregister" /\ q.type = "DATA"
    <3>1. /\ TypeOK /\ Unregistration(q) \in DataUnregistration
          /\ Unregistration(q).domain = OwnDomain /\ Unregistration(q).url = q.url
          /\ Unregistration(q).id = q.id
          /\ Unregistration(q).registration_time = Secs(q.timestamp)
      BY <2>5, RequestFields
    <3>2. CASE UnregisterPublisher(Unregistration(q))
      <4> DEFINE x == Unregistration(q)
                 e == [url |-> x.url, registration_time |-> x.registration_time]
      <4>1. e = entry /\ x.id = q.id
        BY <3>1
      <4>2. dataProductMap'[OwnDomain][i] =
               {y \in dataProductMap[OwnDomain][i] : i = x.id => y # e}
        BY <3>1, <3>2, UnregisterPublisherEffect
      <4> HIDE DEF e, x
      <4>3. p \in dataProductMap[OwnDomain][i] /\ (i = q.id => p # entry)
        BY <4>1, <4>2
      <4>4. QED BY <2>2, <4>3
    <3>3. CASE ~RegisteredPublisher(Unregistration(q)) /\ UNCHANGED vars
      <4>1. p \in dataProductMap[OwnDomain][i] /\ (i = q.id => p # entry)
        BY <3>1, <3>3 DEF RegisteredPublisher, vars, mapVars
      <4>2. QED BY <2>2, <4>1
    <3>4. QED BY <1>4, <2>5, <3>2, <3>3 DEF HandleUnregister, HandleRegister
  <2>6. CASE m.kind = "unregister" /\ q.type # "DATA"
    <3>1. p \in dataProductMap[OwnDomain][i]
      BY <1>4, <2>6 DEF HandleUnregister, HandleRegister, UnregisterService, vars, mapVars
    <3>2. QED BY <2>2, <2>6, <3>1
  <2>7. m.kind \in Sending
    BY RequestFields
  <2>8. QED BY <2>3, <2>4, <2>5, <2>6, <2>7 DEF Sending
<1>5. CASE Lookup
  BY <1>2, <1>5, LookupMeans
<1>6. CASE NodesSame /\ UNCHANGED <<vars, requests, replies, history>>
  BY <1>2, <1>6 DEF vars, mapVars
<1>7. QED BY <1>3, <1>4, <1>5, <1>6, StepMeans

\* The services of the directory.
LEMMA ServiceOwnedStep ==
    ASSUME SystemType, RepliesInv, Orderly, UrlTimes, TimesNamed, ServiceOwned,
           Faults = {}, [SystemNext]_systemVars
    PROVE  ServiceOwned'
<1> DEFINE Claims(r, s, u) == r.type = "SERVICE" /\ r.id = s /\ r.url = u
<1> SUFFICES ASSUME NEW s \in ServiceIDs, serviceMap'[OwnDomain][s] # NoUrl
             PROVE  \E n \in Nodes : \E r :
                       Owner(n, r)' /\ Claims(r, s, serviceMap'[OwnDomain][s])
  BY DEF ServiceOwned
<1> DEFINE url == serviceMap[OwnDomain][s]
           Goal == \E n \in Nodes : \E r :
                      Owner(n, r)' /\ Claims(r, s, serviceMap'[OwnDomain][s])
<1>1. ASSUME serviceMap'[OwnDomain][s] = url
      PROVE  \E n \in Nodes : \E r : Owner(n, r) /\ Claims(r, s, url)
  BY <1>1 DEF ServiceOwned
<1>2. ASSUME NodesSame, UNCHANGED <<serviceMap, requests, replies>> PROVE Goal
  <2>1. \A n \in Nodes : \A r : Owner(n, r) => Owner(n, r)'
    BY <1>2 DEF Owner, Done, Withdrawing, Awaited, NodesSame
  <2>2. QED BY <1>1, <1>2, <2>1
<1>3. ASSUME NEW k \in Nodes, NodeStep(k), UNCHANGED vars PROVE Goal
  <2>1. serviceMap' = serviceMap
    BY <1>3 DEF vars, mapVars
  <2>2. PICK n \in Nodes : \E r : Owner(n, r) /\ Claims(r, s, url)
    BY <1>1, <2>1
  <2>3. PICK r : Owner(n, r) /\ Claims(r, s, url)
    BY <2>2
  <2>4. CASE n # k
    BY <1>3, <2>1, <2>3, <2>4, OthersOwn
  <2>5. CASE n = k
    <3>1. PICK x : /\ Owner(n, x)' /\ x.type = r.type /\ x.id = r.id /\ x.url = r.url
      BY <1>3, <2>3, <2>5, OwnerStep
    <3>2. QED BY <2>1, <2>3, <3>1
  <2>6. QED BY <2>4, <2>5
<1>4. ASSUME NEW m \in requests, HandleRegister(m) \/ HandleUnregister(m) PROVE Goal
  <2> DEFINE q == m.reg
  <2>1. /\ m.node \in Nodes
        /\ \A n \in Nodes : \A r :
              Owner(n, r) => \/ Owner(n, r)'
                             \/ m.kind = "unregister" /\ n = m.node /\ r = q
        /\ m.kind = "register" => Owner(m.node, q)'
        /\ m.kind = "unregister" =>
              Owner(m.node, q) /\ Time(m.node, q.url) = q.timestamp
    BY <1>4, OwnerHandled
  <2>2. ASSUME serviceMap'[OwnDomain][s] = url,
               m.kind = "unregister" => q.type # "SERVICE" \/ s # q.id
        PROVE  Goal
    <3>1. PICK n \in Nodes : \E r : Owner(n, r) /\ Claims(r, s, url)
      BY <1>1, <2>2
    <3>2. PICK r : Owner(n, r) /\ Claims(r, s, url)
      BY <3>1
    <3>3. Owner(n, r)'
      BY <2>1, <2>2, <3>2
    <3>4. QED BY <2>2, <3>2, <3>3
  <2>3. CASE m.kind = "register" /\ q.type = "SERVICE" /\ RegisterService(q)
    <3>1. /\ serviceMap'[OwnDomain][q.id] = q.url
          /\ s # q.id => serviceMap'[OwnDomain][s] = serviceMap[OwnDomain][s]
      BY <2>3, RequestFields, RegisterServiceEffect
    <3>2. CASE s = q.id
      BY <2>1, <2>3, <3>1, <3>2
    <3>3. QED BY <2>2, <2>3, <3>1, <3>2
  <2>4. CASE m.kind = "register" /\ (q.type = "SERVICE" => ~RegisterService(q))
    <3>1. serviceMap' = serviceMap
      BY <1>4, <2>4, HandleCases DEF RegisterPublisher, RegisterDuplicate, vars, mapVars
    <3>2. QED BY <2>2, <2>4, <3>1
  <2>5. CASE m.kind = "unregister" /\ q.type # "SERVICE"
    <3>1. serviceMap' = serviceMap
      BY <1>4, <2>5, HandleCases DEF UnregisterPublisher, vars, mapVars
    <3>2. QED BY <2>2, <2>5, <3>1
  <2>6. CASE m.kind = "unregister" /\ q.type = "SERVICE"
    <3>1. /\ TypeOK /\ Unregistration(q) \in ServiceUnregistration
          /\ Unregistration(q).domain = OwnDomain /\ Unregistration(q).url = q.url
          /\ Unregistration(q).id = q.id /\ q.timestamp \in Nat
          /\ Unregistration(q).registration_time = Secs(q.timestamp)
      BY <2>6, RequestFields
    <3>2. CASE UnregisterService(Unregistration(q))
      <4>1. /\ serviceMap'[OwnDomain][q.id] = NoUrl
            /\ s # q.id => serviceMap'[OwnDomain][s] = serviceMap[OwnDomain][s]
        BY <3>1, <3>2, UnregisterServiceEffect
      <4>2. QED BY <2>2, <4>1
    <3>3. CASE ~RegisteredService(Unregistration(q)) /\ UNCHANGED vars
      <4>1. serviceMap' = serviceMap
        BY <3>3 DEF vars, mapVars
      <4>2. q.timestamp \in {NoInstance, registrationInstanceMap[q.url]}
        BY <2>1, <2>6 DEF TimesNamed
      <4>3. q.timestamp # NoInstance
        BY <3>1 DEF NoInstance
      <4>4. serviceMap[OwnDomain][q.id] = NoUrl
        BY <3>1, <3>3, <4>2, <4>3 DEF RegisteredService
      <4>5. QED BY <2>2, <4>1, <4>4
    <3>4. QED BY <1>4, <2>6, <3>2, <3>3 DEF HandleUnregister, HandleRegister
  <2>7. m.kind \in Sending
    BY RequestFields
  <2>8. QED BY <2>3, <2>4, <2>5, <2>6, <2>7 DEF Sending
<1>5. CASE Lookup
  BY <1>2, <1>5, LookupMeans
<1>6. CASE NodesSame /\ UNCHANGED <<vars, requests, replies, history>>
  BY <1>2, <1>6 DEF vars, mapVars
<1>7. QED BY <1>3, <1>4, <1>5, <1>6, StepMeans

LEMMA OwnerReg ==
    ASSUME SystemType, NEW n \in Nodes, NEW r, Owner(n, r)
    PROVE  r \in RegsOf(n) /\ r.url \in Urls
<1>1. r \in RegsOf(n)
  BY DEF Owner, Done, Withdrawing, SystemType, OperationsType, OperationType, Sending
<1>2. QED BY <1>1, RegFields

\* A URL that a node has a service at is in the requests of no other node.
LEMMA OwnUrl ==
    ASSUME SystemType, Orderly, SoleWithPort, OwnPorts, OneCrowded,
           NEW n \in Nodes, NEW r, Owner(n, r), NEW m \in requests, m.reg.url = r.url
    PROVE  n = m.node
<1>1. r \in RegsOf(n) /\ m.node \in Nodes /\ m.reg \in RegsOf(m.node)
  BY OwnerReg, RequestFields
<1>2. CASE r.url # EmptyUrl
  BY <1>1, <1>2, RegFields, OwnRequest
<1>3. CASE r.url = EmptyUrl
  <2>1. ~Sole(n)
    BY <1>3 DEF SoleWithPort, Owner, Done, Withdrawing, Sending
  <2>2. QED BY <1>3, <2>1, SameCrowded
<1>4. QED BY <1>2, <1>3

LEMMA TimesNamedStep ==
    ASSUME SystemType, PortsInv, TimesInv, RepliesInv, Orderly, UrlTimes, Cleared,
           SoleWithPort, EmptyTimes, TimesNamed, OwnPorts, OneCrowded, Faults = {},
           [SystemNext]_systemVars
    PROVE  TimesNamed'
<1> SUFFICES ASSUME NEW n \in Nodes, NEW r, Owner(n, r)', r.type = "SERVICE"
             PROVE  Time(n, r.url)' \in {NoInstance, registrationInstanceMap'[r.url]}
  BY DEF TimesNamed
<1> DEFINE Goal == Time(n, r.url)' \in {NoInstance, registrationInstanceMap'[r.url]}
<1>1. ASSUME Owner(n, r)
      PROVE  /\ Time(n, r.url) \in {NoInstance, registrationInstanceMap[r.url]}
             /\ r \in RegsOf(n) /\ r.url \in Urls
  BY <1>1, OwnerReg DEF TimesNamed
<1>2. ASSUME NodesSame, UNCHANGED <<requests, replies>>,
             \A u \in Urls : SameOrTouched(u)
      PROVE  Goal
  <2>1. Owner(n, r) /\ Time(n, r.url)' = Time(n, r.url)
    BY <1>2 DEF Owner, Done, Withdrawing, Awaited, Time, NodesSame
  <2>2. QED BY <1>1, <1>2, <2>1 DEF SameOrTouched
<1>3. ASSUME NEW k \in Nodes, NodeStep(k), UNCHANGED vars PROVE Goal
  <2>1. registrationInstanceMap' = registrationInstanceMap
    BY <1>3 DEF vars, mapVars
  <2>2. CASE n # k
    BY <1>1, <1>3, <2>1, <2>2, OthersOwn
  <2>3. CASE n = k
    <3>1. PICK q : Owner(n, q) /\ q.type = r.type /\ q.url = r.url
      BY <1>3, <2>3, OwnerStep
    <3>2. Time(n, r.url) \in {NoInstance, registrationInstanceMap[r.url]}
      BY <3>1 DEF TimesNamed
    <3>3. r.url \in Urls
      BY <3>1, OwnerReg
    <3>4. Time(n, r.url)' \in {Time(n, r.url), NoInstance}
      BY <1>3, <2>3, <3>3, OwnerStep
    <3>5. QED BY <2>1, <3>2, <3>4
  <2>4. QED BY <2>2, <2>3
<1>4. ASSUME NEW m \in requests, HandleRegister(m) \/ HandleUnregister(m) PROVE Goal
  <2> DEFINE q == m.reg
  <2>1. /\ m.node \in Nodes /\ phase[m.node] = m.kind /\ current[m.node] = q
        /\ \/ Owner(n, r)
           \/ m.kind = "register" /\ n = m.node /\ r = q
        /\ n # m.node \/ r.url # q.url => Time(n, r.url)' = Time(n, r.url)
        /\ m.kind = "unregister" =>
              Time(m.node, q.url)' = urlInstanceMap[m.node][q.url]
        /\ m.kind = "register" => Time(m.node, q.url)' = q.timestamp
    BY <1>4, OwnerHandled
  <2>2. /\ q \in RegsOf(m.node) /\ m.kind \in Sending /\ q.url \in Urls /\ TypeOK
        /\ q.timestamp \in Nat /\ q.timestamp # 0 /\ q.timestamp \in Timestamps
        /\ q.domain = OwnDomain /\ q.type \in {"DATA", "SERVICE"}
        /\ q.type = "SERVICE" => q \in ServiceRegistration
    BY RequestFields, RegFields
  <2>3. CASE r.url # q.url
    <3>1. Owner(n, r)
      BY <2>1, <2>3
    <3>2. SameOrTouched(r.url)
      BY <1>1, <1>4, <2>3, <3>1, InstancesStep
    <3>3. QED BY <1>1, <2>1, <2>3, <3>1, <3>2 DEF SameOrTouched
  <2>4. CASE r.url = q.url
    <3>1. n = m.node
      BY <2>1, <2>4, OwnUrl
    <3>2. CASE m.kind = "unregister"
      BY <2>1, <2>4, <3>1, <3>2 DEF Cleared
    <3>3. CASE m.kind = "register"
      <4>1. q.type = "SERVICE"
        <5> SUFFICES ASSUME q.type = "DATA" PROVE FALSE
          BY <2>2
        <5>1. q.url # EmptyUrl /\ r # q
          BY <2>1, <2>2, RegFields
        <5>2. Owner(n, r)
          BY <2>1, <5>1
        <5>3. r \in registered[n]
          BY <2>1, <3>1, <3>3, <5>1, <5>2 DEF Owner, Done, Withdrawing
        <5>4. QED BY <2>1, <2>2, <2>4, <3>1, <5>1, <5>3 DEF PortsInv
      <4>2. registrationInstanceMap[q.url] <= q.timestamp
        <5>1. CASE q.url # EmptyUrl
          <6>1. Present(m.node, q)
            BY <2>1, <3>3 DEF Present
          <6>2. Newest(q)
            BY <2>1, <5>1, <6>1 DEF TimesInv
          <6>3. QED BY <6>2 DEF Newest
        <5>2. CASE q.url = EmptyUrl
          <6>1. ~Sole(m.node)
            BY <2>1, <2>2, <5>2 DEF SoleWithPort
          <6>2. QED BY <2>1, <3>3, <5>2, <6>1 DEF EmptyTimes
        <5>3. QED BY <5>1, <5>2
      <4>3. Accepted(q)
        BY <2>2, <4>2, InstanceTimes DEF Accepted
      <4>4. RegisterService(q)
        BY <1>4, <3>3, <4>1, <4>3, HandleCases
      <4>5. registrationInstanceMap'[q.url] = q.timestamp
        BY <2>2, <4>1, <4>4, RegisterServiceEffect
      <4>6. QED BY <2>1, <2>4, <3>1, <3>3, <4>5
    <3>4. QED BY <2>2, <3>2, <3>3 DEF Sending
  <2>5. QED BY <2>3, <2>4
<1>5. CASE Lookup
  <2>1. \A u \in Urls : SameOrTouched(u)
    BY <1>5, LookupMeans, TouchedAt DEF SameOrTouched
  <2>2. QED BY <1>2, <1>5, <2>1, LookupMeans
<1>6. CASE NodesSame /\ UNCHANGED <<vars, requests, replies, history>>
  BY <1>2, <1>6 DEF vars, mapVars, SameOrTouched
<1>7. QED BY <1>3, <1>4, <1>5, <1>6, StepMeans

PublishersOwnedInv ==
    /\ SystemType /\ PortsInv /\ RepliesInv /\ Orderly /\ UrlTimes /\ ListedOwned

LEMMA PublishersOwnedInitial == SystemInit => PublishersOwnedInv
<1> SUFFICES ASSUME SystemInit PROVE PublishersOwnedInv
  OBVIOUS
<1>1. SystemType /\ PortsInv /\ RepliesInv
  BY SystemTypeInitial, PortsInitial
<1>2. Orderly /\ UrlTimes
  BY DEF SystemInit, Orderly, UrlTimes
<1>3. ListedOwned
  BY DomainAssumption DEF SystemInit, Init, ListedOwned
<1>4. QED BY <1>1, <1>2, <1>3 DEF PublishersOwnedInv

LEMMA PublishersOwnedStep ==
    ASSUME Faults = {}
    PROVE  PublishersOwnedInv /\ [SystemNext]_systemVars => PublishersOwnedInv'
<1> SUFFICES ASSUME PublishersOwnedInv, [SystemNext]_systemVars
             PROVE  PublishersOwnedInv'
  OBVIOUS
<1>1. SystemType /\ PortsInv /\ RepliesInv /\ Orderly /\ UrlTimes /\ ListedOwned
  BY DEF PublishersOwnedInv
<1>2. SystemType' /\ PortsInv' /\ RepliesInv'
  BY <1>1, SystemTypeStep, PortsStep, RepliesStep
<1>3. Orderly' /\ UrlTimes' /\ ListedOwned'
  BY <1>1, OrderlyStep, UrlTimesStep, ListedOwnedStep
<1>4. QED BY <1>2, <1>3 DEF PublishersOwnedInv

\* A publisher that the directory lists, with the time the directory has of it,
\* is one that a node has registered and has not asked to be taken off, as long
\* as requests are answered in time and no process dies.  The nodes may share
\* ports and products, and register in the same second.
THEOREM ListedPublishersAreOwned ==
    ASSUME Faults = {}
    PROVE  SystemSpec => []ListedOwned
<1>1. PublishersOwnedInv => ListedOwned
  BY DEF PublishersOwnedInv
<1>2. QED BY <1>1, PublishersOwnedInitial, PublishersOwnedStep, PTL DEF SystemSpec

OwnedInv ==
    /\ PublishersOwnedInv /\ TimesInv /\ NotYet /\ Cleared
    /\ SoleWithPort /\ EmptyTimes /\ TimesNamed /\ ServiceOwned

LEMMA OwnedInitial == SystemInit => OwnedInv
<1> SUFFICES ASSUME SystemInit PROVE OwnedInv
  OBVIOUS
<1>1. PublishersOwnedInv /\ TimesInv
  BY PublishersOwnedInitial, PortsInitial
<1>2. NotYet /\ Cleared /\ SoleWithPort
  BY DEF SystemInit, NotYet, Cleared, SoleWithPort, Sending
<1>3. EmptyTimes
  BY NodeAssumption, TimeAssumption DEF SystemInit, Init, EmptyTimes, NoInstance
<1>4. TimesNamed
  BY DEF SystemInit, TimesNamed, Owner, Done, Withdrawing
<1>5. ServiceOwned
  BY DomainAssumption DEF SystemInit, Init, ServiceOwned
<1>6. QED BY <1>1, <1>2, <1>3, <1>4, <1>5 DEF OwnedInv

LEMMA OwnedStep ==
    ASSUME OwnPorts, OneCrowded, Faults = {}
    PROVE  OwnedInv /\ [SystemNext]_systemVars => OwnedInv'
<1> SUFFICES ASSUME OwnedInv, [SystemNext]_systemVars PROVE OwnedInv'
  OBVIOUS
<1>1. /\ SystemType /\ PortsInv /\ RepliesInv /\ Orderly /\ UrlTimes
      /\ TimesInv /\ NotYet /\ Cleared
      /\ SoleWithPort /\ EmptyTimes /\ TimesNamed /\ ServiceOwned
  BY DEF OwnedInv, PublishersOwnedInv
<1>2. PublishersOwnedInv'
  BY PublishersOwnedStep DEF OwnedInv
<1>3. TimesInv' /\ NotYet' /\ Cleared'
  BY <1>1, TimesStep, NotYetStep, ClearedStep
<1>4. SoleWithPort' /\ EmptyTimes'
  BY <1>1, SoleWithPortStep, EmptyTimesStep
<1>5. TimesNamed' /\ ServiceOwned'
  BY <1>1, TimesNamedStep, ServiceOwnedStep
<1>6. QED BY <1>2, <1>3, <1>4, <1>5 DEF OwnedInv

\* Once every request has been handled and every operation is over, nothing is
\* left in the directory of what was unregistered: each publisher and service
\* it lists is one that a node has registered at that URL.  Every request is
\* answered in time and no process dies; nodes do not compete for a port, and
\* at most one of them can run out of ports for its services, which then share
\* the empty URL.
THEOREM ListedIsRegisteredHolds ==
    ASSUME OwnPorts, OneCrowded, Faults = {}
    PROVE  SystemSpec => []ListedIsRegistered
<1>1. OwnedInv => ListedIsRegistered
  <2> SUFFICES ASSUME ListedOwned, ServiceOwned,
                      \A n \in Nodes : phase[n] \in {"idle", "stamped", "blocked"}
               PROVE  /\ \A i \in ProductIDs : \A p \in dataProductMap[OwnDomain][i] :
                            \E n \in Nodes : \E r \in registered[n] :
                               r.type = "DATA" /\ r.id = i /\ r.url = p.url
                      /\ \A s \in ServiceIDs : serviceMap[OwnDomain][s] # NoUrl =>
                            \E n \in Nodes : \E r \in registered[n] :
                               /\ r.type = "SERVICE" /\ r.id = s
                               /\ r.url = serviceMap[OwnDomain][s]
    BY DEF OwnedInv, PublishersOwnedInv, ListedIsRegistered
  <2>1. \A n \in Nodes : \A r : Owner(n, r) => r \in registered[n]
    BY QuietOwn DEF Sending
  <2>2. QED BY <2>1 DEF ListedOwned, ServiceOwned
<1>2. QED BY <1>1, OwnedInitial, OwnedStep, PTL DEF SystemSpec

(***************************************************************************)
(* Nodes that compete for ports and take them over from each other.        *)
(***************************************************************************)

\* Ports that are not disputed.
Clear == Urls \ (disputed \cup {EmptyUrl})

\* A request of the kind, for q, is under way, or may be sent again.
UnderWay(kind, q) ==
    \/ \E m \in requests : m.kind = kind /\ m.reg = q
    \/ \E n \in Nodes : phase[n] = kind /\ kind \in Sending /\ current[n] = q

HistoryType == latest \in [Urls -> Nat] /\ homes \in [ServiceIDs -> SUBSET Urls]

\* A port is bound once, by one node.
BoundOnce ==
    \A n, k \in Nodes : \A r, s :
        Present(n, r) /\ Present(k, s) /\ r.url = s.url /\ r.url # EmptyUrl
            => n = k /\ r = s

\* Nothing at the port is newer than what was bound to it last.
NoneNewer(u) ==
    /\ registrationInstanceMap[u] <= latest[u]
    /\ \A kind, q : UnderWay(kind, q) /\ q.url = u =>
          q.timestamp <= latest[u] /\ Secs(q.timestamp) > 0

\* All that is under way for the port of r, but the requests to register r,
\* is of an earlier second.
Latest(r) ==
    /\ r.timestamp = latest[r.url] /\ Secs(r.timestamp) > 0
    /\ \A kind, q : UnderWay(kind, q) /\ q.url = r.url =>
          (kind = "register" /\ q = r) \/ Secs(q.timestamp) < Secs(r.timestamp)

ClearTimes ==
    /\ \A u \in Clear : NoneNewer(u)
    /\ \A n \in Nodes : \A r : Present(n, r) /\ r.url \in Clear => Latest(r)

\* No one else is to be registered at the port of r, or there is no publisher
\* there that the registration of r, or of someone else, would purge.
AloneAt(r) == \A m \in requests : m.kind = "register" /\ m.reg.url = r.url => m.reg = r
Calm(r) == AloneAt(r) \/ \A i \in ProductsAt(r.url) : r.type = "DATA" /\ i = r.id

CalmInv == \A n \in Nodes : \A r : Present(n, r) /\ r.url \in Clear => Calm(r)

\* Whoever provides or provided a service, or is to, has been recorded.
Known(q) == (\E kind : UnderWay(kind, q)) \/ \E n \in Nodes : Present(n, q)
HomesInv == \A q : Known(q) /\ q.type = "SERVICE" => q.url \in homes[q.id]

\* The directory goes by the time of r, or by none, and then no one else will
\* come: purging a publisher at the port makes it forget the time of r.
Held(r) ==
    \/ registrationInstanceMap[r.url] = r.timestamp
    \/ registrationInstanceMap[r.url] \in {0, NoInstance} /\ AloneAt(r)

EntryOf(r) == [url |-> r.url, registration_time |-> Secs(r.timestamp)]

\* The directory has the registration.
Kept(r) ==
    /\ Held(r)
    /\ r.type = "DATA" => EntryOf(r) \in dataProductMap[OwnDomain][r.id]
    /\ r.type = "SERVICE" => serviceMap[OwnDomain][r.id] = r.url

\* What is registered, and whose port is not disputed: a service is to have had
\* one port only.
Protected(r) ==
    r.url \in Clear /\ (r.type = "SERVICE" => homes[r.id] = {r.url})

KeptInv == \A n \in Nodes : \A r : Done(n, r) /\ Protected(r) => Kept(r)

\* A request under way is one a node may make.
LEMMA UnderWayReg ==
    ASSUME SystemType, NEW kind, NEW q, UnderWay(kind, q)
    PROVE  /\ kind \in Sending /\ \E n \in Nodes : q \in RegsOf(n)
           /\ q.url \in Urls /\ q.timestamp \in Nat /\ q.timestamp \in Timestamps
<1>1. kind \in Sending /\ \E n \in Nodes : q \in RegsOf(n)
  BY DEF UnderWay, SystemType, MessagesType, MessageType, OperationsType, OperationType
<1>2. QED BY <1>1, RegFields

LEMMA RequestUnderWay ==
    ASSUME NEW m \in requests PROVE UnderWay(m.kind, m.reg)
  BY DEF UnderWay

\* What a step of a node puts under way.
LEMMA UnderWayStep ==
    ASSUME SystemType, NEW n \in Nodes, NodeStep(n), NEW kind, NEW q,
           UnderWay(kind, q)'
    PROVE  \/ UnderWay(kind, q)
           \/ Starts(n) /\ kind = "register" /\ q = current'[n]
           \/ Withdraws(n) /\ kind = "unregister" /\ q = current'[n]
<1>1. ASSUME NEW k \in Nodes, k # n, phase'[k] = kind, kind \in Sending, current'[k] = q
      PROVE  UnderWay(kind, q)
  <2>1. SameNode(k)
    BY <1>1 DEF NodeStep, Others
  <2>2. QED BY <1>1, <2>1 DEF SameNode, UnderWay
<1>2. CASE phase'[n] = kind /\ kind \in Sending /\ current'[n] = q
  <2>1. CASE Starts(n)
    BY <1>2, <2>1 DEF Starts, Started
  <2>2. CASE Withdraws(n)
    BY <1>2, <2>2 DEF Withdraws, Withdrawn
  <2>3. CASE Repeats(n)
    BY <1>2, <2>3 DEF Repeats, SentAgain, UnderWay
  <2>4. QED
    BY <1>2, <2>1, <2>2, <2>3
    DEF NodeStep, Stamps, Completes, Completed, Fails, Ends, Gone, Blocks, Ended, Sending
<1>3. ASSUME NEW m \in requests', m.kind = kind, m.reg = q, m \notin requests
      PROVE  phase'[n] = kind /\ kind \in Sending /\ current'[n] = q
  BY <1>3, RequestsStep
<1>4. ASSUME NEW m \in requests, m.kind = kind, m.reg = q PROVE UnderWay(kind, q)
  BY <1>4 DEF UnderWay
<1>5. QED BY <1>1, <1>2, <1>3, <1>4 DEF UnderWay

LEMMA UnderWaySame ==
    ASSUME NodesSame, requests' \subseteq requests, NEW kind, NEW q, UnderWay(kind, q)'
    PROVE  UnderWay(kind, q)
  BY DEF UnderWay, NodesSame

\* What is recorded of a port that is being bound.
LEMMA HistoryStep ==
    ASSUME SystemType, HistoryType, NEW n \in Nodes, NodeStep(n)
    PROVE  /\ HistoryType' /\ Clear' \subseteq Clear
           /\ \A s \in ServiceIDs : homes[s] \subseteq homes'[s]
           /\ \A u \in Urls : \/ latest'[u] = latest[u]
                              \/ Starts(n) /\ u = current'[n].url
           /\ Starts(n) =>
                 /\ latest'[current'[n].url] = current'[n].timestamp
                 /\ current'[n].type = "SERVICE" =>
                       current'[n].url \in homes'[current'[n].id]
                 /\ current'[n].url \in Clear' => ~Disputes(current'[n])
<1>1. CASE UNCHANGED history /\ ~Starts(n)
  BY <1>1 DEF history, HistoryType, Clear
<1>2. CASE Starts(n)
  <2> DEFINE c == current'[n]
  <2>1. /\ c.url \in Urls /\ c.timestamp \in Nat /\ c.type \in {"DATA", "SERVICE"}
        /\ c.type = "SERVICE" => c.id \in ServiceIDs
    BY <1>2, StartedReg, RegFields
  <2>2. /\ latest' = [latest EXCEPT ![c.url] = c.timestamp]
        /\ homes' = IF c.type = "DATA" THEN homes
                    ELSE [homes EXCEPT ![c.id] = homes[c.id] \cup {c.url}]
        /\ disputed' = IF Disputes(c) THEN disputed \cup {c.url} ELSE disputed
    BY <1>2 DEF Starts, Recorded
  <2> HIDE DEF c
  <2>3. /\ latest' \in [Urls -> Nat] /\ latest'[c.url] = c.timestamp
        /\ \A u \in Urls : u # c.url => latest'[u] = latest[u]
    BY <2>1, <2>2 DEF HistoryType
  <2>4. /\ homes' \in [ServiceIDs -> SUBSET Urls]
        /\ \A s \in ServiceIDs : homes[s] \subseteq homes'[s]
        /\ c.type = "SERVICE" => c.url \in homes'[c.id]
    BY <2>1, <2>2 DEF HistoryType
  <2>5. /\ Clear' \subseteq Clear
        /\ c.url \in Clear' => ~Disputes(c)
    BY <2>2 DEF Clear
  <2>6. QED BY <1>2, <2>3, <2>4, <2>5 DEF HistoryType, c
<1>3. QED BY <1>1, <1>2 DEF NodeStep

LEMMA PresentBound ==
    ASSUME SystemType, NEW n \in Nodes, NEW r, Present(n, r)
    PROVE  r.url \in BoundUrls
<1>1. r.url \in Urls
  BY PresentReg, RegFields
<1>2. QED BY <1>1 DEF Present, BoundUrls

\* A port that is being bound was not.
LEMMA StartedFree ==
    ASSUME SystemType, NEW n \in Nodes, Starts(n), current'[n].url # EmptyUrl
    PROVE  \A k \in Nodes : \A s : Present(k, s) => s.url # current'[n].url
  BY StartedReg, PresentBound

LEMMA BoundOnceStep ==
    ASSUME SystemType, BoundOnce, [SystemNext]_systemVars
    PROVE  BoundOnce'
<1>1. ASSUME NodesSame PROVE BoundOnce'
  BY <1>1 DEF NodesSame, BoundOnce, Present
<1>2. ASSUME NEW h \in Nodes, NodeStep(h) PROVE BoundOnce'
  <2> SUFFICES ASSUME NEW n \in Nodes, NEW k \in Nodes, NEW r, NEW s,
                      Present(n, r)', Present(k, s)', r.url = s.url, r.url # EmptyUrl
               PROVE  n = k /\ r = s
    BY DEF BoundOnce
  <2>1. /\ Present(n, r) \/ (n = h /\ Starts(h) /\ r = current'[h])
        /\ Present(k, s) \/ (k = h /\ Starts(h) /\ s = current'[h])
    BY <1>2, PresentStep
  <2>2. QED BY <2>1, StartedFree DEF BoundOnce
<1>3. QED BY <1>1, <1>2, HandledMeans, LookupMeans, StepMeans

\* An unregistration that begins has the time of what was bound.
LEMMA WithdrawnTime ==
    ASSUME SystemType, BoundOnce, UrlTimes, NEW n \in Nodes, NodeStep(n), Withdraws(n),
           current'[n].url # EmptyUrl
    PROVE  /\ \E reg : /\ Present(n, reg) /\ reg.url = current'[n].url
                       /\ reg.timestamp = current'[n].timestamp
                       /\ reg.type = current'[n].type /\ reg.id = current'[n].id
           /\ \A k \in Nodes : \A r : Present(k, r)' => r.url # current'[n].url
<1>1. PICK reg \in registered[n] : Withdrawn(n, reg)
  BY DEF Withdraws
<1>2. /\ current'[n].url = reg.url /\ current'[n].type = reg.type
      /\ current'[n].id = reg.id
      /\ current'[n].timestamp = urlInstanceMap[n][reg.url]
  BY <1>1, WithdrawnReg
<1>3. Present(n, reg) /\ current'[n].timestamp = reg.timestamp
  BY <1>2 DEF Present, UrlTimes
<1>4. ~Present(n, reg)'
  BY <1>1 DEF Withdrawn, Present
<1>5. ~Starts(n)
  BY <1>1 DEF Starts, Started, Withdrawn
<1>6. ASSUME NEW k \in Nodes, NEW r, Present(k, r)', r.url = current'[n].url
      PROVE  FALSE
  <2>1. Present(k, r)
    BY <1>5, <1>6, PresentStep
  <2>2. k = n /\ r = reg
    BY <1>2, <1>3, <1>6, <2>1 DEF BoundOnce
  <2>3. QED BY <1>4, <1>6, <2>2
<1>7. QED BY <1>2, <1>3, <1>6

LEMMA SecsLess ==
    ASSUME NEW a \in Nat, NEW b \in Nat
    PROVE  /\ Secs(a) \in Nat /\ Secs(b) \in Nat
           /\ a <= b => Secs(a) <= Secs(b)
           /\ Secs(a) < Secs(b) => a < b
<1>1. Secs(a) \in Nat /\ Secs(b) \in Nat
  BY TimeAssumption DEF Secs
<1>2. (a <= b => Secs(a) <= Secs(b)) /\ (b <= a => Secs(b) <= Secs(a))
  BY TimeAssumption, SecsMonotone
<1>3. QED BY <1>1, <1>2

LEMMA ClearTimesStep ==
    ASSUME SystemType, HistoryType, BoundOnce, UrlTimes, ClearTimes,
           [SystemNext]_systemVars
    PROVE  ClearTimes'
<1>0. \A u \in Urls : latest[u] \in Nat /\ registrationInstanceMap[u] \in Int
  BY TimeAssumption DEF HistoryType, SystemType, TypeOK, Timestamps, NoInstance
<1>1. ASSUME NodesSame, requests' \subseteq requests, UNCHANGED history,
             \A u \in Clear : registrationInstanceMap'[u] <= latest[u]
      PROVE  ClearTimes'
  <2>1. Clear' = Clear /\ latest' = latest
    BY <1>1 DEF Clear, history
  <2>2. \A kind, q : UnderWay(kind, q)' => UnderWay(kind, q)
    BY <1>1, UnderWaySame
  <2>3. ASSUME NEW u \in Clear PROVE NoneNewer(u)'
    BY <1>1, <2>1, <2>2 DEF ClearTimes, NoneNewer
  <2>4. ASSUME NEW n \in Nodes, NEW r, Present(n, r)', r.url \in Clear
        PROVE  Latest(r)'
    <3>1. Latest(r)
      BY <1>1, <2>4 DEF ClearTimes, Present, NodesSame
    <3>2. QED BY <2>1, <2>2, <3>1 DEF Latest
  <2>5. QED BY <2>1, <2>3, <2>4 DEF ClearTimes
<1>2. ASSUME NEW n \in Nodes, NodeStep(n), UNCHANGED vars PROVE ClearTimes'
  <2> DEFINE c == current'[n]
  <2>1. registrationInstanceMap' = registrationInstanceMap
    BY <1>2 DEF vars, mapVars
  <2>2. Clear' \subseteq Clear /\ Clear \subseteq Urls /\ EmptyUrl \notin Clear
    BY <1>2, HistoryStep DEF Clear
  <2>3. ASSUME NEW kind, NEW q, UnderWay(kind, q)'
        PROVE  \/ UnderWay(kind, q)
               \/ Starts(n) /\ kind = "register" /\ q = c
               \/ Withdraws(n) /\ kind = "unregister" /\ q = c
    BY <1>2, <2>3, UnderWayStep
  <2>4. ASSUME NEW kind, NEW q, UnderWay(kind, q)
        PROVE  q.url \in Urls /\ q.timestamp \in Nat
    BY <2>4, UnderWayReg
  <2>5. ~(Starts(n) /\ Withdraws(n))
    BY DEF Starts, Started, Withdraws, Withdrawn
  <2>6. ASSUME Starts(n), c.url \in Clear'
        PROVE  /\ c.timestamp \in Nat /\ latest'[c.url] = c.timestamp
               /\ c.url \in Clear /\ NoneNewer(c.url)
               /\ latest[c.url] < c.timestamp
               /\ Secs(latest[c.url]) < Secs(c.timestamp) /\ Secs(c.timestamp) > 0
    <3>1. c.timestamp \in Nat /\ c.url \in Urls
      BY <2>6, StartedReg, RegFields
    <3>2. latest'[c.url] = c.timestamp /\ ~Disputes(c)
      BY <1>2, <2>6, HistoryStep
    <3>3. ~(Secs(c.timestamp) <= Secs(latest[c.url])) /\ latest[c.url] \in Nat
      BY <1>0, <3>1, <3>2 DEF Disputes
    <3>4. /\ Secs(latest[c.url]) \in Nat /\ Secs(c.timestamp) \in Nat
          /\ Secs(latest[c.url]) < Secs(c.timestamp) => latest[c.url] < c.timestamp
      BY <3>1, <3>3, SecsLess
    <3>5. NoneNewer(c.url) /\ c.url \in Clear
      BY <2>2, <2>6 DEF ClearTimes
    <3> HIDE DEF c
    <3>6. QED BY <3>1, <3>2, <3>3, <3>4, <3>5
  <2>7. ASSUME Withdraws(n), c.url \in Clear
        PROVE  /\ c.timestamp = latest[c.url] /\ Secs(c.timestamp) > 0
               /\ \A k \in Nodes : \A r : Present(k, r)' => r.url # c.url
    <3>1. PICK reg : /\ Present(n, reg) /\ reg.url = c.url
                     /\ reg.timestamp = c.timestamp
      BY <1>2, <2>2, <2>7, WithdrawnTime
    <3>2. Latest(reg)
      BY <2>7, <3>1 DEF ClearTimes
    <3>3. QED BY <1>2, <2>2, <2>7, <3>1, <3>2, WithdrawnTime DEF Latest
  <2>8. ASSUME NEW u \in Urls, ~(Starts(n) /\ u = c.url) PROVE latest'[u] = latest[u]
    BY <1>2, <2>8, HistoryStep
  <2> HIDE DEF c
  <2>9. ASSUME NEW u \in Clear' PROVE NoneNewer(u)'
    <3>1. u \in Clear /\ u \in Urls /\ NoneNewer(u)
      BY <2>2 DEF ClearTimes
    <3>2. CASE Starts(n) /\ u = c.url
      <4>1. registrationInstanceMap'[u] <= latest'[u]
        BY <1>0, <2>1, <2>6, <3>1, <3>2 DEF NoneNewer
      <4>2. ASSUME NEW kind, NEW q, UnderWay(kind, q)', q.url = u
            PROVE  q.timestamp <= latest'[u] /\ Secs(q.timestamp) > 0
        <5>1. CASE UnderWay(kind, q)
          BY <1>0, <2>4, <2>6, <3>1, <3>2, <4>2, <5>1 DEF NoneNewer
        <5>2. CASE q = c
          BY <2>6, <3>2, <5>2
        <5>3. QED BY <2>3, <2>5, <3>2, <4>2, <5>1, <5>2
      <4>3. QED BY <4>1, <4>2 DEF NoneNewer
    <3>3. CASE ~(Starts(n) /\ u = c.url)
      <4>1. latest'[u] = latest[u]
        BY <2>8, <3>1, <3>3
      <4>2. ASSUME NEW kind, NEW q, UnderWay(kind, q)', q.url = u
            PROVE  q.timestamp <= latest'[u] /\ Secs(q.timestamp) > 0
        <5>1. CASE UnderWay(kind, q)
          BY <3>1, <4>1, <4>2, <5>1 DEF NoneNewer
        <5>2. CASE Withdraws(n) /\ q = c
          <6>1. q.timestamp = latest[u] /\ Secs(q.timestamp) > 0
            BY <2>7, <3>1, <4>2, <5>2
          <6>2. QED BY <1>0, <3>1, <4>1, <6>1
        <5>3. QED BY <2>3, <3>3, <4>2, <5>1, <5>2
      <4>3. QED BY <2>1, <3>1, <4>1, <4>2 DEF NoneNewer
    <3>4. QED BY <3>2, <3>3
  <2>10. ASSUME NEW k \in Nodes, NEW r, Present(k, r)', r.url \in Clear'
         PROVE  Latest(r)'
    <3>1. r.url \in Clear /\ r.url \in Urls /\ r.url # EmptyUrl
      BY <2>2, <2>10
    <3>2. CASE Present(k, r)
      <4>1. Latest(r)
        BY <3>1, <3>2 DEF ClearTimes
      <4>2. Starts(n) => c.url # r.url
        BY <3>1, <3>2, StartedFree DEF c
      <4>3. latest'[r.url] = latest[r.url]
        BY <2>8, <3>1, <4>2
      <4>4. Withdraws(n) => c.url # r.url
        BY <2>7, <2>10, <3>1
      <4>5. ASSUME NEW kind, NEW q, UnderWay(kind, q)', q.url = r.url
            PROVE  UnderWay(kind, q)
        BY <2>3, <4>2, <4>4, <4>5
      <4>6. QED BY <4>1, <4>3, <4>5 DEF Latest
    <3>3. CASE Starts(n) /\ r = c
      <4>1. NoneNewer(r.url)
        BY <2>6, <2>10, <3>3
      <4>2. ASSUME NEW kind, NEW q, UnderWay(kind, q), q.url = r.url
            PROVE  Secs(q.timestamp) < Secs(r.timestamp)
        <5>1. q.timestamp \in Nat /\ q.timestamp <= latest[r.url] /\ latest[r.url] \in Nat
          BY <1>0, <2>4, <3>1, <4>1, <4>2 DEF NoneNewer
        <5>2. /\ Secs(q.timestamp) <= Secs(latest[r.url])
              /\ Secs(q.timestamp) \in Nat /\ Secs(latest[r.url]) \in Nat
          BY <5>1, SecsLess
        <5>3. Secs(latest[r.url]) < Secs(r.timestamp) /\ Secs(r.timestamp) \in Nat
          BY <2>6, <2>10, <3>3, SecsLess
        <5>4. QED BY <5>2, <5>3
      <4>3. ASSUME NEW kind, NEW q, UnderWay(kind, q)', q.url = r.url
            PROVE  \/ kind = "register" /\ q = r
                   \/ Secs(q.timestamp) < Secs(r.timestamp)
        BY <2>3, <2>5, <3>3, <4>2, <4>3
      <4>4. QED BY <2>6, <2>10, <3>3, <4>3 DEF Latest
    <3>4. QED BY <1>2, <2>10, <3>2, <3>3, PresentStep DEF c
  <2>11. QED BY <2>9, <2>10 DEF ClearTimes
<1>3. ASSUME NEW m \in requests, HandleRegister(m) \/ HandleUnregister(m)
      PROVE  ClearTimes'
  <2>1. ASSUME NEW u \in Clear PROVE registrationInstanceMap'[u] <= latest[u]
    <3>1. u \in Urls /\ NoneNewer(u)
      BY DEF Clear, ClearTimes
    <3>2. \/ registrationInstanceMap'[u] \in {registrationInstanceMap[u], 0, NoInstance}
          \/ u = m.reg.url /\ registrationInstanceMap'[u] = m.reg.timestamp
      BY <1>3, <3>1, InstancesStep DEF SameOrTouched
    <3>3. u = m.reg.url => m.reg.timestamp <= latest[u]
      BY <3>1, RequestUnderWay DEF NoneNewer
    <3>4. QED BY <1>0, <3>1, <3>2, <3>3 DEF NoneNewer, NoInstance
  <2>2. QED BY <1>1, <1>3, <2>1, HandledMeans
<1>4. CASE Lookup
  <2>1. ASSUME NEW u \in Clear PROVE registrationInstanceMap'[u] <= latest[u]
    <3>1. u \in Urls /\ NoneNewer(u)
      BY DEF Clear, ClearTimes
    <3>2. registrationInstanceMap'[u] \in {registrationInstanceMap[u], 0}
      BY <1>4, <3>1, LookupMeans, TouchedAt
    <3>3. QED BY <1>0, <3>1, <3>2 DEF NoneNewer
  <2>2. QED BY <1>1, <1>4, <2>1, LookupMeans
<1>5. CASE NodesSame /\ UNCHANGED <<vars, requests, replies, history>>
  BY <1>1, <1>5 DEF vars, mapVars, ClearTimes, NoneNewer
<1>6. QED BY <1>2, <1>3, <1>4, <1>5, StepMeans

\* The directory lists no product at a port that it was not asked to.
LEMMA ProductsAtStep ==
    ASSUME SystemType, NEW m \in requests, HandleRegister(m) \/ HandleUnregister(m),
           NEW u \in Urls
    PROVE  ProductsAt(u)' \subseteq ProductsAt(u)
<1> DEFINE q == m.reg
<1> SUFFICES ASSUME NEW i \in ProductIDs,
                    NEW p \in dataProductMap'[OwnDomain][i], p.url = u
             PROVE  i \in ProductsAt(u)
  BY HandledMeans DEF ProductsAt
<1>1. ASSUME p \in dataProductMap[OwnDomain][i] PROVE i \in ProductsAt(u)
  BY <1>1 DEF ProductsAt
<1>2. CASE m.kind = "register" /\ q.type = "DATA" /\ RegisterPublisher(q)
  <2>1. \/ p \in dataProductMap[OwnDomain][i]
        \/ /\ p = [url |-> q.url, registration_time |-> Secs(q.timestamp)]
           /\ i = q.id
    BY <1>2, RequestFields, RegisterPublisherEffect
  <2>2. QED BY <1>1, <1>2, <2>1 DEF ProductsAt
<1>3. CASE q.type = "SERVICE" /\ RegisterService(q)
  BY <1>1, <1>3, RequestFields, RegisterServiceEffect
<1>4. CASE q.type = "DATA" /\ UnregisterPublisher(Unregistration(q))
  BY <1>1, <1>4, RequestFields, UnregisterPublisherEffect
<1>5. CASE \/ RegisterDuplicate(q) \/ UNCHANGED vars
           \/ UnregisterService(Unregistration(q))
  BY <1>1, <1>5 DEF RegisterDuplicate, UnregisterService, vars, mapVars
<1>6. QED BY <1>2, <1>3, <1>4, <1>5, HandleCases

\* A request to register something at a port that is bound is for what is bound.
LEMMA AddedAtPort ==
    ASSUME SystemType, BoundOnce', NEW n \in Nodes, NodeStep(n),
           NEW k \in Nodes, NEW r, Present(k, r)', r.url # EmptyUrl,
           NEW m \in requests' \ requests, m.kind = "register", m.reg.url = r.url
    PROVE  m.reg = r
<1>1. m.kind = phase'[n] /\ m.reg = current'[n]
  BY RequestsStep
<1>2. Present(n, m.reg)'
  BY <1>1 DEF Present
<1>3. QED BY <1>2 DEF BoundOnce

LEMMA CalmStep ==
    ASSUME SystemType, HistoryType, BoundOnce, CalmInv, [SystemNext]_systemVars
    PROVE  CalmInv'
<1>1. ASSUME NodesSame, requests' \subseteq requests, UNCHANGED history,
             \A u \in Urls : ProductsAt(u)' \subseteq ProductsAt(u)
      PROVE  CalmInv'
  <2> SUFFICES ASSUME NEW n \in Nodes, NEW r, Present(n, r)', r.url \in Clear'
               PROVE  Calm(r)'
    BY DEF CalmInv
  <2>1. Present(n, r) /\ r.url \in Clear /\ r.url \in Urls
    BY <1>1 DEF Present, NodesSame, Clear, history
  <2>2. Calm(r)
    BY <2>1 DEF CalmInv
  <2>3. AloneAt(r) => AloneAt(r)'
    BY <1>1 DEF AloneAt
  <2>4. QED BY <1>1, <2>1, <2>2, <2>3 DEF Calm
<1>2. ASSUME NEW n \in Nodes, NodeStep(n), UNCHANGED vars PROVE CalmInv'
  <2> SUFFICES ASSUME NEW k \in Nodes, NEW r, Present(k, r)', r.url \in Clear'
               PROVE  Calm(r)'
    BY DEF CalmInv
  <2>1. r.url \in Clear /\ r.url \in Urls /\ r.url # EmptyUrl
    BY <1>2, HistoryStep DEF Clear
  <2>2. \A m \in requests' \ requests :
           m.kind = "register" /\ m.reg.url = r.url => m.reg = r
    BY <1>2, <2>1, AddedAtPort, BoundOnceStep
  <2>3. Calm(r)
    <3>1. CASE Present(k, r)
      BY <2>1, <3>1 DEF CalmInv
    <3>2. CASE Starts(n) /\ r = current'[n]
      <4>1. ~Disputes(r)
        BY <1>2, <3>2, HistoryStep
      <4>2. QED BY <4>1 DEF Disputes, Calm, AloneAt
    <3>3. QED BY <1>2, <3>1, <3>2, PresentStep
  <2>4. AloneAt(r) => AloneAt(r)'
    BY <2>2 DEF AloneAt
  <2>5. ASSUME \A i \in ProductsAt(r.url) : r.type = "DATA" /\ i = r.id,
               NEW i \in ProductsAt(r.url)'
        PROVE  r.type = "DATA" /\ i = r.id
    <3>1. dataProductMap' = dataProductMap
      BY <1>2 DEF vars, mapVars
    <3>2. i \in ProductIDs
      BY <2>5 DEF ProductsAt
    <3>3. \/ \E p \in dataProductMap[OwnDomain][i] : p.url = r.url
          \/ \E m \in requests' : /\ m.kind = "register" /\ m.reg.url = r.url
                                  /\ m.reg.type = "DATA" /\ m.reg.id = i
      BY <2>5, <3>1 DEF ProductsAt
    <3>4. i \in ProductsAt(r.url) \/ (r.type = "DATA" /\ i = r.id)
      BY <2>2, <3>2, <3>3 DEF ProductsAt
    <3>5. QED BY <2>5, <3>4
  <2>6. QED BY <2>3, <2>4, <2>5 DEF Calm
<1>3. ASSUME NEW m \in requests, HandleRegister(m) \/ HandleUnregister(m)
      PROVE  CalmInv'
  <2>1. \A u \in Urls : ProductsAt(u)' \subseteq ProductsAt(u)
    BY <1>3, ProductsAtStep
  <2>2. QED BY <1>1, <1>3, <2>1, HandledMeans
<1>4. ASSUME UNCHANGED <<dataProductMap, requests>>
      PROVE  \A u \in Urls : ProductsAt(u)' \subseteq ProductsAt(u)
  BY <1>4 DEF ProductsAt
<1>5. CASE Lookup
  BY <1>1, <1>4, <1>5, LookupMeans
<1>6. CASE NodesSame /\ UNCHANGED <<vars, requests, replies, history>>
  BY <1>1, <1>4, <1>6 DEF vars, mapVars
<1>7. QED BY <1>2, <1>3, <1>5, <1>6, StepMeans

LEMMA HomesStep ==
    ASSUME SystemType, HistoryType, HomesInv, [SystemNext]_systemVars
    PROVE  HomesInv'
<1> SUFFICES ASSUME NEW q, Known(q)', q.type = "SERVICE"
             PROVE  q.url \in homes'[q.id]
  BY DEF HomesInv
<1>1. ASSUME NodesSame, requests' \subseteq requests, UNCHANGED history
      PROVE  q.url \in homes'[q.id]
  <2>1. (\E kind : UnderWay(kind, q)') => \E kind : UnderWay(kind, q)
    BY <1>1, UnderWaySame
  <2>2. (\E n \in Nodes : Present(n, q)') => \E n \in Nodes : Present(n, q)
    BY <1>1 DEF NodesSame, Present
  <2>3. QED BY <1>1, <2>1, <2>2 DEF Known, HomesInv, history
<1>2. ASSUME NEW n \in Nodes, NodeStep(n) PROVE q.url \in homes'[q.id]
  <2>1. ASSUME NEW s, Known(s), s.type = "SERVICE"
        PROVE  s.url \in homes'[s.id]
    <3>1. s.id \in ServiceIDs
      BY <2>1, UnderWayReg, PresentReg, RegFields DEF Known
    <3>2. QED BY <1>2, <2>1, <3>1, HistoryStep DEF HomesInv
  <2>2. CASE Starts(n) /\ q = current'[n]
    BY <1>2, <2>2, HistoryStep
  <2>3. CASE Withdraws(n) /\ q = current'[n]
    <3>1. PICK reg \in registered[n] : Withdrawn(n, reg)
      BY <2>3 DEF Withdraws
    <3>2. Known(reg)
      BY DEF Known, Present
    <3>3. q.url = reg.url /\ q.type = reg.type /\ q.id = reg.id
      BY <2>3, <3>1, WithdrawnReg
    <3>4. QED BY <2>1, <3>2, <3>3
  <2>4. Known(q) \/ (q = current'[n] /\ (Starts(n) \/ Withdraws(n)))
    BY <1>2, UnderWayStep, PresentStep DEF Known
  <2>5. QED BY <2>1, <2>2, <2>3, <2>4
<1>3. QED BY <1>1, <1>2, HandledMeans, LookupMeans, StepMeans

\* The directory ignores what is older than the registration it goes by.
LEMMA KeptHandled ==
    ASSUME SystemType, OneProductPerUrl, HomesInv, NEW n \in Nodes, NEW r \in RegsOf(n),
           Protected(r), NoneNewer(r.url), Latest(r), Calm(r), Kept(r),
           NEW m \in requests, HandleRegister(m) \/ HandleUnregister(m)
    PROVE  Kept(r)'
<1> DEFINE q == m.reg
           u == r.url
           entry == EntryOf(r)
<1>1. /\ u \in Urls /\ r.timestamp \in Nat /\ r.timestamp > 0 /\ r.domain = OwnDomain
      /\ r.timestamp \in Timestamps /\ r.type \in {"DATA", "SERVICE"}
      /\ r.type = "DATA" => r \in DataRegistration /\ r.id \in ProductIDs
      /\ r.type = "SERVICE" => r \in ServiceRegistration /\ r.id \in ServiceIDs
  BY RegFields
<1>2. /\ TypeOK /\ q.url \in Urls /\ q.domain = OwnDomain /\ m.kind \in Sending
      /\ q.timestamp \in Timestamps /\ q.timestamp \in Nat /\ q.timestamp # 0
      /\ q.type = "DATA" => /\ q \in DataRegistration /\ q.id \in ProductIDs
                            /\ Unregistration(q) \in DataUnregistration
      /\ q.type = "SERVICE" => /\ q \in ServiceRegistration /\ q.id \in ServiceIDs
                               /\ Unregistration(q) \in ServiceUnregistration
      /\ Unregistration(q).domain = OwnDomain /\ Unregistration(q).url = q.url
      /\ Unregistration(q).id = q.id
      /\ Unregistration(q).registration_time = Secs(q.timestamp)
  BY RequestFields
<1>3. entry.url = u /\ entry.registration_time = Secs(r.timestamp)
  BY DEF EntryOf
<1>4. q.url = u =>
         /\ Secs(q.timestamp) > 0
         /\ (m.kind = "register" /\ q = r) \/ Secs(q.timestamp) < Secs(r.timestamp)
  BY RequestUnderWay DEF NoneNewer, Latest
<1>5. q.type = "SERVICE" /\ r.type = "SERVICE" /\ q.id = r.id => q.url = u
  BY RequestUnderWay DEF HomesInv, Known, Protected
<1>6. AloneAt(r) => AloneAt(r)'
  BY HandledMeans DEF AloneAt
<1>7. /\ Held(r)
      /\ r.type = "DATA" => entry \in dataProductMap[OwnDomain][r.id]
      /\ r.type = "SERVICE" => serviceMap[OwnDomain][r.id] = u
  BY DEF Kept
<1>8. SUFFICES /\ Held(r)'
               /\ r.type = "DATA" => entry \in dataProductMap'[OwnDomain][r.id]
               /\ r.type = "SERVICE" => serviceMap'[OwnDomain][r.id] = u
  BY DEF Kept
<1>9. ASSUME registrationInstanceMap'[u] = r.timestamp PROVE Held(r)'
  BY <1>9 DEF Held
<1>10. ASSUME UNCHANGED vars
       PROVE  /\ Held(r)'
              /\ r.type = "DATA" => entry \in dataProductMap'[OwnDomain][r.id]
              /\ r.type = "SERVICE" => serviceMap'[OwnDomain][r.id] = u
  BY <1>6, <1>7, <1>10 DEF vars, mapVars, Held
<1> HIDE DEF q, entry
<1>11. CASE q.url # u
  <2>1. Held(r)'
    <3>1. SameOrTouched(u)
      BY <1>1, <1>11, InstancesStep DEF q
    <3>2. QED BY <1>1, <1>6, <1>7, <3>1 DEF Held, SameOrTouched, NoInstance
  <2>2. CASE q.type = "DATA" /\ RegisterPublisher(q)
    BY <1>1, <1>2, <1>3, <1>7, <1>11, <2>1, <2>2, RegisterPublisherEffect
  <2>3. CASE q.type = "SERVICE" /\ RegisterService(q)
    BY <1>1, <1>2, <1>3, <1>5, <1>7, <1>11, <2>1, <2>3, RegisterServiceEffect
  <2>4. CASE q.type = "DATA" /\ UnregisterPublisher(Unregistration(q))
    <3>1. [url |-> Unregistration(q).url,
           registration_time |-> Unregistration(q).registration_time] # entry
      BY <1>2, <1>3, <1>11
    <3>2. QED BY <1>1, <1>2, <1>7, <2>1, <2>4, <3>1, UnregisterPublisherEffect
  <2>5. CASE q.type = "SERVICE" /\ UnregisterService(Unregistration(q))
    BY <1>1, <1>2, <1>5, <1>7, <1>11, <2>1, <2>5, UnregisterServiceEffect
  <2>6. CASE RegisterDuplicate(q) \/ UNCHANGED vars
    BY <1>7, <2>1, <2>6 DEF RegisterDuplicate, vars, mapVars
  <2>7. QED BY <2>2, <2>3, <2>4, <2>5, <2>6, HandleCases DEF q
<1>12. CASE m.kind = "register" /\ q = r
  <2>1. CASE r.type = "DATA" /\ RegisterPublisher(r)
    BY <1>1, <1>7, <2>1 DEF RegisterPublisher, Listed, entry, EntryOf
  <2>2. CASE r.type = "DATA" /\ RegisterDuplicate(r)
    BY <1>1, <1>2, <1>7, <1>9, <2>2, RegisterDuplicateEffect
  <2>3. CASE r.type = "SERVICE" /\ RegisterService(r)
    BY <1>1, <1>2, <1>9, <2>3, RegisterServiceEffect
  <2>4. QED BY <1>10, <1>12, <2>1, <2>2, <2>3, HandleCases DEF q
<1>13. CASE q.url = u /\ Secs(q.timestamp) < Secs(r.timestamp)
  <2>1. q.timestamp < r.timestamp /\ q # r
    BY <1>1, <1>2, <1>13, SecsLess
  <2>2. m.kind = "register" => ~Accepted(q)
    <3>1. m.kind = "register" => registrationInstanceMap[u] = r.timestamp
      BY <1>7, <1>13, <2>1 DEF Held, AloneAt, q
    <3>2. QED BY <1>1, <1>2, <1>13, <2>1, <3>1 DEF Accepted, NoInstance
  <2>3. ~(q.type = "SERVICE" /\ UnregisterService(Unregistration(q)))
    <3> SUFFICES ASSUME q.type = "SERVICE", UnregisterService(Unregistration(q))
                 PROVE  FALSE
      OBVIOUS
    <3>1. /\ Secs(registrationInstanceMap[u]) = Secs(q.timestamp)
          /\ registrationInstanceMap[u] # NoInstance
      BY <1>2, <1>13 DEF UnregisterService, RegisteredService
    <3>2. Secs(0) = 0
      BY TimeAssumption DEF Secs
    <3>3. Secs(q.timestamp) \in Nat /\ Secs(r.timestamp) \in Nat
      BY <1>1, <1>2, SecsLess
    <3>4. QED BY <1>4, <1>7, <1>13, <3>1, <3>2, <3>3 DEF Held
  <2>4. CASE q.type = "DATA" /\ UnregisterPublisher(Unregistration(q))
    <3> DEFINE other == [url |-> q.url, registration_time |-> Secs(q.timestamp)]
    <3>1. /\ other \in dataProductMap[OwnDomain][q.id] /\ serviceMap' = serviceMap
          /\ registrationInstanceMap'[u] = NoInstance
      BY <1>2, <1>13, <2>4, UnregisterPublisherEffect, UnregisterEffect
    <3>2. other.url = u /\ other.registration_time = Secs(q.timestamp)
      BY <1>13
    <3> HIDE DEF other
    <3>3. r.type # "DATA"
      <4> SUFFICES ASSUME r.type = "DATA" PROVE FALSE
        OBVIOUS
      <4>1. other = entry
        BY <1>1, <1>2, <1>3, <1>7, <2>4, <3>1, <3>2 DEF OneProductPerUrl
      <4>2. Secs(q.timestamp) \in Nat /\ Secs(r.timestamp) \in Nat
        BY <1>1, <1>2, SecsLess
      <4>3. QED BY <1>3, <1>13, <3>2, <4>1, <4>2
    <3>4. q.id \in ProductsAt(u)
      BY <1>2, <2>4, <3>1, <3>2 DEF ProductsAt
    <3>5. AloneAt(r)
      BY <3>3, <3>4 DEF Calm
    <3>6. Held(r)'
      BY <1>6, <3>1, <3>5 DEF Held
    <3>7. QED BY <1>7, <3>1, <3>3, <3>6
  <2>5. ~(m.kind = "register" /\
             (RegisterPublisher(q) \/ RegisterDuplicate(q) \/ RegisterService(q)))
    BY <2>2 DEF RegisterPublisher, RegisterDuplicate, RegisterService
  <2>6. QED BY <1>10, <2>3, <2>4, <2>5, HandleCases DEF q
<1>14. QED BY <1>4, <1>11, <1>12, <1>13

\* What has been bound last is registered, whatever the directory had of the
\* port before.
LEMMA KeptMade ==
    ASSUME SystemType, NEW n \in Nodes, NEW m \in requests, m.reg \in RegsOf(n),
           NoneNewer(m.reg.url), Latest(m.reg), Calm(m.reg), HandleRegister(m)
    PROVE  Kept(m.reg)'
<1> DEFINE r == m.reg
<1>1. /\ r.url \in Urls /\ r.timestamp \in Nat /\ r.timestamp > 0
      /\ r.domain = OwnDomain
      /\ r.timestamp \in Timestamps /\ r.type \in {"DATA", "SERVICE"}
      /\ r.type = "DATA" => r \in DataRegistration /\ r.id \in ProductIDs
      /\ r.type = "SERVICE" => r \in ServiceRegistration /\ r.id \in ServiceIDs
  BY RegFields
<1>2. TypeOK
  BY DEF SystemType
<1>3. Accepted(r)
  <2>1. registrationInstanceMap[r.url] <= r.timestamp
    BY DEF NoneNewer, Latest
  <2>2. registrationInstanceMap[r.url] \in Int
    BY <1>1, <1>2, TimeAssumption DEF TypeOK, Timestamps, NoInstance
  <2>3. QED BY <1>1, <2>1, <2>2 DEF Accepted
<1>4. AloneAt(r) => AloneAt(r)'
  BY HandledMeans DEF AloneAt
<1>5. CASE r.type = "DATA" /\ RegisterPublisher(r)
  <2>1. EntryOf(r) \in dataProductMap'[OwnDomain][r.id]
    BY <1>1, <1>2, <1>5, RegisterPublisherEffect DEF EntryOf
  <2>2. IF ObsoleteIDs(r.id, r.url) = {}
        THEN registrationInstanceMap'[r.url] = r.timestamp
        ELSE registrationInstanceMap'[r.url] \in {0, NoInstance}
    BY <1>1, <1>2, <1>5, RegisterPublisherEffect
  <2>3. ASSUME ObsoleteIDs(r.id, r.url) # {} PROVE AloneAt(r)
    <3>1. PICK i \in ProductIDs \ {r.id} :
             \E p \in dataProductMap[OwnDomain][i] : p.url = r.url
      BY <2>3 DEF ObsoleteIDs
    <3>2. i \in ProductsAt(r.url) /\ i # r.id
      BY <3>1 DEF ProductsAt
    <3>3. QED BY <3>2 DEF Calm
  <2>4. Held(r)'
    BY <1>4, <2>2, <2>3 DEF Held
  <2>5. QED BY <1>5, <2>1, <2>4 DEF Kept
<1>6. CASE r.type = "DATA" /\ RegisterDuplicate(r)
  <2>1. registrationInstanceMap'[r.url] = r.timestamp /\ dataProductMap' = dataProductMap
    BY <1>1, <1>2, <1>6, RegisterDuplicateEffect
  <2>2. EntryOf(r) \in dataProductMap[OwnDomain][r.id]
    BY <1>1, <1>6 DEF RegisterDuplicate, Listed, EntryOf
  <2>3. QED BY <1>6, <2>1, <2>2 DEF Kept, Held
<1>7. CASE r.type = "SERVICE" /\ RegisterService(r)
  BY <1>1, <1>2, <1>7, RegisterServiceEffect DEF Kept, Held
<1>8. QED BY <1>3, <1>5, <1>6, <1>7 DEF HandleRegister

LEMMA KeptStep ==
    ASSUME SystemType, HistoryType, RepliesInv, OneProductPerUrl, BoundOnce,
           ClearTimes, CalmInv, HomesInv, KeptInv, [SystemNext]_systemVars
    PROVE  KeptInv'
<1> SUFFICES ASSUME NEW n \in Nodes, NEW r, Done(n, r)', Protected(r)'
             PROVE  Kept(r)'
  BY DEF KeptInv
<1>1. \/ Done(n, r)
      \/ /\ phase[n] = "register" /\ r = current[n] /\ Awaited(n) \in requests
         /\ HandleRegister(Awaited(n))
  BY DoneStep
<1>2. Present(n, r)
  BY <1>1, DonePresent DEF Present
<1>3. r \in RegsOf(n) /\ r.url \in Urls /\ r.timestamp \in Nat
  BY <1>2, PresentReg, RegFields
<1>4. Protected(r) /\ r.url # EmptyUrl
  <2>1. CASE UNCHANGED history
    BY <2>1 DEF Protected, Clear, history
  <2>2. ASSUME NEW k \in Nodes, NodeStep(k) PROVE Protected(r) /\ r.url # EmptyUrl
    <3>1. r.url \in Clear /\ r.url # EmptyUrl
      BY <2>2, HistoryStep DEF Protected, Clear
    <3>2. ASSUME r.type = "SERVICE" PROVE homes[r.id] = {r.url}
      <4>1. r.id \in ServiceIDs
        BY <1>3, <3>2, RegFields
      <4>2. homes[r.id] \subseteq homes'[r.id] /\ homes'[r.id] = {r.url}
        BY <2>2, <3>2, <4>1, HistoryStep DEF Protected
      <4>3. r.url \in homes[r.id]
        BY <1>2, <3>2 DEF HomesInv, Known
      <4>4. QED BY <4>2, <4>3
    <3>3. QED BY <3>1, <3>2 DEF Protected
  <2>3. QED BY <2>1, <2>2, HandledMeans, LookupMeans, StepMeans
<1>5. NoneNewer(r.url) /\ Latest(r) /\ Calm(r)
  BY <1>2, <1>4 DEF Protected, ClearTimes, CalmInv
<1>6. CASE Done(n, r)
  <2>1. Kept(r)
    BY <1>4, <1>6 DEF KeptInv
  <2>2. ASSUME NEW m \in requests, HandleRegister(m) \/ HandleUnregister(m)
        PROVE  Kept(r)'
    BY <1>3, <1>4, <1>5, <2>1, <2>2, KeptHandled
  <2>3. ASSUME UNCHANGED <<dataProductMap, serviceMap>>, SameOrTouched(r.url),
               AloneAt(r) => AloneAt(r)'
        PROVE  Kept(r)'
    <3>1. Held(r)'
      BY <1>3, <2>1, <2>3 DEF Kept, Held, SameOrTouched, NoInstance
    <3>2. QED BY <2>1, <2>3, <3>1 DEF Kept
  <2>4. CASE Lookup
    <3>1. SameOrTouched(r.url)
      BY <1>3, <2>4, LookupMeans, TouchedAt DEF SameOrTouched
    <3>2. QED BY <2>3, <2>4, <3>1, LookupMeans DEF AloneAt
  <2>5. ASSUME NEW k \in Nodes, NodeStep(k), UNCHANGED vars PROVE Kept(r)'
    <3>1. Present(n, r)' /\ BoundOnce'
      BY BoundOnceStep DEF Done, Present
    <3>2. \A m \in requests' \ requests :
             m.kind = "register" /\ m.reg.url = r.url => m.reg = r
      BY <1>4, <2>5, <3>1, AddedAtPort
    <3>3. AloneAt(r) => AloneAt(r)'
      BY <3>2 DEF AloneAt
    <3>4. QED BY <2>3, <2>5, <3>3 DEF vars, mapVars, SameOrTouched
  <2>6. CASE NodesSame /\ UNCHANGED <<vars, requests, replies, history>>
    BY <2>3, <2>6 DEF vars, mapVars, SameOrTouched, AloneAt
  <2>7. QED BY <2>2, <2>4, <2>5, <2>6, StepMeans
<1>7. CASE /\ phase[n] = "register" /\ r = current[n] /\ Awaited(n) \in requests
           /\ HandleRegister(Awaited(n))
  <2>1. Awaited(n).reg = r
    BY <1>7, AwaitedFields
  <2>2. QED BY <1>3, <1>5, <1>7, <2>1, KeptMade
<1>8. QED BY <1>1, <1>6, <1>7

UndisputedInv ==
    /\ SystemType /\ PortsInv /\ RepliesInv /\ UrlTimes /\ OneProductPerUrl
    /\ HistoryType /\ BoundOnce /\ ClearTimes /\ CalmInv /\ HomesInv /\ KeptInv

LEMMA UndisputedInitial == SystemInit => UndisputedInv
<1> SUFFICES ASSUME SystemInit PROVE UndisputedInv
  OBVIOUS
<1>1. SystemType /\ PortsInv /\ RepliesInv
  BY SystemTypeInitial, PortsInitial
<1>2. UrlTimes /\ OneProductPerUrl /\ HistoryType
  BY DomainAssumption DEF SystemInit, Init, UrlTimes, OneProductPerUrl, HistoryType
<1>3. ASSUME NEW n \in Nodes, NEW r PROVE ~Present(n, r)
  BY DEF SystemInit, Present
<1>4. ASSUME NEW kind, NEW q PROVE ~UnderWay(kind, q)
  BY DEF SystemInit, UnderWay, Sending
<1>5. \A u \in Urls : registrationInstanceMap[u] <= latest[u]
  BY DEF SystemInit, Init, NoInstance
<1>6. ClearTimes
  BY <1>3, <1>4, <1>5 DEF ClearTimes, NoneNewer, Clear
<1>7. BoundOnce /\ CalmInv /\ HomesInv /\ KeptInv
  BY <1>3, <1>4, DonePresent DEF BoundOnce, CalmInv, HomesInv, Known, KeptInv
<1>8. QED BY <1>1, <1>2, <1>6, <1>7 DEF UndisputedInv

LEMMA UndisputedStep == UndisputedInv /\ [SystemNext]_systemVars => UndisputedInv'
<1> SUFFICES ASSUME UndisputedInv, [SystemNext]_systemVars PROVE UndisputedInv'
  OBVIOUS
<1>1. /\ SystemType /\ PortsInv /\ RepliesInv /\ UrlTimes /\ OneProductPerUrl
      /\ HistoryType /\ BoundOnce /\ ClearTimes /\ CalmInv /\ HomesInv /\ KeptInv
  BY DEF UndisputedInv
<1>2. SystemType' /\ PortsInv' /\ RepliesInv' /\ UrlTimes'
  BY <1>1, SystemTypeStep, PortsStep, RepliesStep, UrlTimesStep
<1>3. OneProductPerUrl'
  BY <1>1, DirectoryStep, OneProductStep DEF SystemType
<1>4. HistoryType'
  <2>1. CASE UNCHANGED history
    BY <1>1, <2>1 DEF HistoryType, history
  <2>2. ASSUME NEW n \in Nodes, NodeStep(n) PROVE HistoryType'
    BY <1>1, <2>2, HistoryStep
  <2>3. QED BY <1>1, <2>1, <2>2, HandledMeans, LookupMeans, StepMeans
<1>5. BoundOnce' /\ ClearTimes' /\ CalmInv' /\ HomesInv'
  BY <1>1, BoundOnceStep, ClearTimesStep, CalmStep, HomesStep
<1>6. KeptInv'
  BY <1>1, KeptStep
<1>7. QED BY <1>2, <1>3, <1>4, <1>5, <1>6 DEF UndisputedInv

LEMMA UndisputedKept ==
    ASSUME UndisputedInv, NEW n \in Nodes, NEW r \in registered[n]
    PROVE  /\ r.url \in Urls
           /\ r.type = "DATA" => r.url # EmptyUrl
           /\ Protected(r) => Kept(r)
<1>1. r \in RegsOf(n)
  BY DEF UndisputedInv, SystemType, OperationsType, OperationType
<1>2. r.url \in Urls /\ (r.type = "DATA" => r.url # EmptyUrl)
  BY <1>1, RegFields
<1>3. Protected(r) => Kept(r)
  BY DEF UndisputedInv, KeptInv, Done
<1>4. QED BY <1>2, <1>3

\* A publisher whose registration has succeeded stays listed with the time it
\* stamps on its data, for any number of nodes that share their ports and take
\* them over from each other, products that move from port to port, ticks in a
\* second, lost answers, attempts and crashes, and whatever requests of those
\* that had the port before are still on their way; but not at a port that was
\* bound in the second of an earlier binding of it, or out of order, or while a
\* request of someone else to register there was under way and another product
\* was listed there or was to be.
THEOREM UndisputedIsListedHolds == SystemSpec => []UndisputedIsListed
<1>1. UndisputedInv => UndisputedIsListed
  <2> SUFFICES ASSUME UndisputedInv, NEW n \in Nodes, NEW r \in registered[n],
                      r.type = "DATA", r.url \notin disputed
               PROVE  EntryOf(r) \in dataProductMap[OwnDomain][r.id]
    BY DEF UndisputedIsListed, EntryOf
  <2>1. QED BY UndisputedKept DEF Protected, Clear, Kept
<1>2. QED BY <1>1, UndisputedInitial, UndisputedStep, PTL DEF SystemSpec

\* The same for a service: the directory names the URL at which a node provides
\* it, whoever had the port before, as long as the service has been registered
\* at no other port (a late request of a provider elsewhere replaces it, or
\* removes it: RegisteredServiceIsFound).
THEOREM UndisputedServiceIsFoundHolds == SystemSpec => []UndisputedServiceIsFound
<1>1. UndisputedInv => UndisputedServiceIsFound
  <2> SUFFICES ASSUME UndisputedInv, NEW n \in Nodes, NEW r \in registered[n],
                      r.type = "SERVICE", homes[r.id] = {r.url},
                      r.url # EmptyUrl, r.url \notin disputed
               PROVE  serviceMap[OwnDomain][r.id] = r.url
    BY DEF UndisputedServiceIsFound
  <2>1. QED BY UndisputedKept DEF Protected, Clear, Kept
<1>2. QED BY <1>1, UndisputedInitial, UndisputedStep, PTL DEF SystemSpec
=============================================================================
