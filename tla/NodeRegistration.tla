-------------------------- MODULE NodeRegistration --------------------------
(***************************************************************************)
(* GravityNodes that register data products and services with the Service  *)
(* Directory and unregister them: registerDataProductInternal,             *)
(* unregisterDataProduct, registerService and unregisterService of         *)
(* src/src/api/cpp/GravityNode.cpp, with the request and retry loop of     *)
(* sendRequestsToServiceProvider, composed with ServiceDirectory.          *)
(*                                                                         *)
(* An operation holds a lock from before it takes the registration         *)
(* timestamp until the directory has answered.  The application of a node  *)
(* is taken to use one thread, so a node has one operation at a time.      *)
(* Each attempt uses a socket of its own: a request whose sender has given *)
(* up on it may still be waiting in the directory's queue.                 *)
(***************************************************************************)
EXTENDS ServiceDirectory

CONSTANTS
    Nodes,          \* GravityNode processes
    OffersOf,       \* node -> what it may register, a set of [type, id]
    UrlsOf,         \* node -> URLs it can bind: the ports of its host
    EmptyUrl,       \* the empty string: what a manager that cannot bind returns
    MaxAttempts,    \* NETWORK_RETRIES
    Faults          \* which of "timeout" and "crash" may happen

ASSUME NodeAssumption ==
    /\ MaxAttempts \in Nat \ {0}
    /\ Faults \subseteq {"timeout", "crash"}
    /\ \A n \in Nodes : UrlsOf[n] \subseteq Urls \ {EmptyUrl}
    /\ EmptyUrl \in Urls
    \* Only the directory's own node may use the reserved product IDs.
    /\ \A n \in Nodes : OffersOf[n] \subseteq
          [type : {"DATA"}, id : ProductIDs \ {RegisteredPublishersID}] \cup
          [type : {"SERVICE"}, id : ServiceIDs]

VARIABLES
    clock,          \* getCurrentTime(): no two readings are the same
    phase,          \* node -> how far its operation has got
    current,        \* node -> what it is registering or unregistering
    attempt,        \* node -> attempts made to reach the directory
    registered,     \* node -> what its publishMap and its serviceMap hold
    urlInstanceMap, \* node -> URL -> timestamp of its registration
    lockLeft,       \* node -> is its serviceManagerSWL.lock never released?
    requests,       \* requests on their way to the directory
    replies,        \* answers nodes are waiting for, on their way back
    \* History
    latest,         \* URL -> timestamp of what was bound to it last
    homes,          \* service -> URLs it has been registered at
    disputed        \* URLs whose earlier use may confuse the directory

mapsOfNode == <<registered, urlInstanceMap, lockLeft>>
nodeVars == <<phase, current, attempt, mapsOfNode>>
history == <<latest, homes, disputed>>
systemVars == <<vars, clock, nodeVars, requests, replies, history>>

-----------------------------------------------------------------------------
NoRegistration == [type |-> "NONE"]

Registration(offer, url, timestamp) ==
    [type |-> offer.type, id |-> offer.id, url |-> url,
     domain |-> OwnDomain, timestamp |-> timestamp]

\* Mutant of Unregistration: the registration time is rounded up.
UnregistrationRounded(reg) ==
    [type |-> reg.type, id |-> reg.id, url |-> reg.url,
     domain |-> OwnDomain, registration_time |-> Secs(reg.timestamp) + 1]

\* What the unregistration request of a registration says.
Unregistration(reg) ==
    [type |-> reg.type, id |-> reg.id, url |-> reg.url,
     domain |-> OwnDomain, registration_time |-> Secs(reg.timestamp)]

Message(kind, n, k) ==
    [kind |-> kind, node |-> n, reg |-> current'[n], attempt |-> k]

\* The message whose answer node n is waiting for.
Awaited(n) == [kind |-> phase[n], node |-> n, reg |-> current[n],
               attempt |-> attempt[n]]

\* URLs that some live process has a socket bound to.
BoundUrls ==
    {u \in Urls : \E n \in Nodes :
        \/ \E r \in registered[n] : r.url = u
        \/ phase[n] = "register" /\ current[n].url = u}

-----------------------------------------------------------------------------
SystemInit ==
    /\ Init
    /\ clock = TicksPerSecond
    /\ phase = [n \in Nodes |-> "idle"]
    /\ current = [n \in Nodes |-> NoRegistration]
    /\ attempt = [n \in Nodes |-> 0]
    /\ registered = [n \in Nodes |-> {}]
    /\ urlInstanceMap = [n \in Nodes |-> [u \in Urls |-> NoInstance]]
    /\ lockLeft = [n \in Nodes |-> FALSE]
    /\ requests = {}
    /\ replies = {}
    /\ latest = [u \in Urls |-> 0]
    /\ homes = [s \in ServiceIDs |-> {}]
    /\ disputed = {}

\* The operation of n is over.
Finish(n) ==
    /\ phase' = [phase EXCEPT ![n] = "idle"]
    /\ current' = [current EXCEPT ![n] = NoRegistration]
    /\ attempt' = [attempt EXCEPT ![n] = 0]

\* registerDataProductInternal, registerService: the lock is taken, an ID
\* that is already registered is turned down, the timestamp is read.
Stamp(n, offer) ==
    /\ phase[n] = "idle"
    /\ offer.type = "SERVICE" => ~lockLeft[n]
    /\ clock <= MaxTime
    /\ ~\E r \in registered[n] : r.type = offer.type /\ r.id = offer.id
    /\ phase' = [phase EXCEPT ![n] = "stamped"]
    /\ current' = [current EXCEPT ![n] = Registration(offer, NoUrl, clock)]
    /\ clock' = clock + 1
    /\ UNCHANGED <<vars, attempt, mapsOfNode, requests, replies, history>>

\* What the directory lists, or is still to be asked to list, at the URL.
ProductsAt(url) ==
    {i \in ProductIDs :
        \/ \E p \in dataProductMap[OwnDomain][i] : p.url = url
        \/ \E m \in requests : /\ m.kind = "register" /\ m.reg.url = url
                               /\ m.reg.type = "DATA" /\ m.reg.id = i}

\* History: the port is bound for r with a time that is not in a later second
\* than that of what was bound to it last; or a request to register something
\* at it is still under way, and other data products have been there.
Disputes(r) ==
    \/ Secs(r.timestamp) <= Secs(latest[r.url])
    \/ /\ \E m \in requests : m.kind = "register" /\ m.reg.url = r.url
       /\ \E i \in ProductsAt(r.url) : r.type = "DATA" => i # r.id

\* History: what has been bound.
Recorded(r) ==
    /\ latest' = [latest EXCEPT ![r.url] = r.timestamp]
    /\ homes' = IF r.type = "DATA" THEN homes
                ELSE [homes EXCEPT ![r.id] = @ \cup {r.url}]
    /\ disputed' = IF Disputes(r) THEN disputed \cup {r.url} ELSE disputed

\* The manager thread returns a URL; the first request is sent.
StartRegister(n, url) ==
    /\ phase' = [phase EXCEPT ![n] = "register"]
    /\ current' = [current EXCEPT ![n].url = url]
    /\ attempt' = [attempt EXCEPT ![n] = 1]
    /\ requests' = requests \cup {Message("register", n, 1)}
    /\ Recorded(current'[n])
    /\ UNCHANGED <<vars, clock, mapsOfNode, replies>>

\* The manager thread binds a free port.
Bind(n, url) ==
    /\ phase[n] = "stamped"
    /\ url \in UrlsOf[n] \ BoundUrls
    /\ StartRegister(n, url)

\* No port is free.  A data product is not registered (NO_PORTS_AVAILABLE);
\* registerService does not look at the URL and registers the service.
NoPortsAvailable(n) ==
    /\ phase[n] = "stamped"
    /\ UrlsOf[n] \subseteq BoundUrls
    /\ \/ /\ current[n].type = "DATA"
          /\ Finish(n)
          /\ UNCHANGED <<vars, clock, mapsOfNode, requests, replies, history>>
       \/ /\ current[n].type = "SERVICE"
          /\ StartRegister(n, EmptyUrl)

\* unregisterDataProduct, unregisterService: the socket is closed and the
\* maps are cleared before the directory is told.  The registration time of
\* a service is looked up by its URL.
Unregister(n, reg) ==
    /\ phase[n] = "idle"
    /\ reg.type = "SERVICE" => ~lockLeft[n]
    /\ urlInstanceMap[n][reg.url] # NoInstance
    /\ phase' = [phase EXCEPT ![n] = "unregister"]
    /\ current' = [current EXCEPT ![n] =
                      [reg EXCEPT !.timestamp = urlInstanceMap[n][reg.url]]]
    /\ attempt' = [attempt EXCEPT ![n] = 1]
    /\ registered' = [registered EXCEPT ![n] = @ \ {reg}]
    /\ urlInstanceMap' = [urlInstanceMap EXCEPT ![n][reg.url] = NoInstance]
    /\ requests' = requests \cup {Message("unregister", n, 1)}
    /\ UNCHANGED <<vars, clock, lockLeft, replies, history>>

\* unregisterService, for a service whose URL has no instance (two services
\* that got the empty URL share one): REGISTRATION_CONFLICT is returned, and
\* the lock is not released.
UnregisterConflict(n, reg) ==
    /\ phase[n] = "idle"
    /\ reg.type = "SERVICE" /\ ~lockLeft[n]
    /\ urlInstanceMap[n][reg.url] = NoInstance
    /\ lockLeft' = [lockLeft EXCEPT ![n] = TRUE]
    /\ UNCHANGED <<vars, clock, phase, current, attempt, registered,
                   urlInstanceMap, requests, replies, history>>

\* registerService, unregisterService: the lock is never released.
Block(n) ==
    /\ phase[n] = "idle" /\ lockLeft[n]
    /\ phase' = [phase EXCEPT ![n] = "blocked"]
    /\ UNCHANGED <<vars, clock, current, attempt, mapsOfNode, requests, replies,
                   history>>

\* The answer to the current attempt arrives.  The directory answers every
\* registration with SUCCESS; an unregistration succeeds for the node also
\* when the answer is NOT_REGISTERED.
Answered(n) ==
    /\ phase[n] \in {"register", "unregister"}
    /\ Awaited(n) \in replies
    /\ replies' = replies \ {Awaited(n)}
    /\ Finish(n)
    /\ IF phase[n] = "register"
       THEN /\ registered' = [registered EXCEPT ![n] = @ \cup {current[n]}]
            /\ urlInstanceMap' = [urlInstanceMap EXCEPT
                  ![n][current[n].url] = current[n].timestamp]
       ELSE UNCHANGED <<registered, urlInstanceMap>>
    /\ UNCHANGED <<vars, clock, lockLeft, requests, history>>

\* REQUEST_TIMEOUT: the same request is sent again, on a new socket.
Retry(n) ==
    /\ "timeout" \in Faults
    /\ phase[n] \in {"register", "unregister"}
    /\ Awaited(n) \notin replies
    /\ attempt[n] < MaxAttempts
    /\ attempt' = [attempt EXCEPT ![n] = @ + 1]
    /\ UNCHANGED current
    /\ requests' = requests \cup {Message(phase[n], n, attempt[n] + 1)}
    /\ UNCHANGED <<vars, clock, phase, mapsOfNode, replies, history>>

\* REQUEST_TIMEOUT of the last attempt: the operation fails, and what was
\* to be registered is unregistered from the manager thread alone.
GiveUp(n) ==
    /\ "timeout" \in Faults
    /\ phase[n] \in {"register", "unregister"}
    /\ Awaited(n) \notin replies
    /\ attempt[n] = MaxAttempts
    /\ Finish(n)
    /\ UNCHANGED <<vars, clock, mapsOfNode, requests, replies, history>>

\* A node's process ends without unregistering anything.
Crash(n) ==
    /\ "crash" \in Faults
    /\ Finish(n)
    /\ registered' = [registered EXCEPT ![n] = {}]
    /\ urlInstanceMap' = [urlInstanceMap EXCEPT ![n] = [u \in Urls |-> NoInstance]]
    /\ lockLeft' = [lockLeft EXCEPT ![n] = FALSE]
    /\ replies' = {r \in replies : r.node # n}
    /\ UNCHANGED <<vars, clock, requests, history>>

\* Mutant of Handled: the request is not answered.
HandledSilently(m) ==
    /\ requests' = requests \ {m}
    /\ UNCHANGED <<clock, nodeVars, replies, history>>

\* The directory handles one of the requests in its queue and answers it.
\* The answer to an attempt that has been given up goes to a closed socket.
Handled(m) ==
    /\ requests' = requests \ {m}
    /\ replies' = IF m = Awaited(m.node) THEN replies \cup {m} ELSE replies
    /\ UNCHANGED <<clock, nodeVars, history>>

HandleRegister(m) ==
    /\ m.kind = "register"
    /\ Handled(m)
    /\ \/ m.reg.type = "DATA" /\ RegisterPublisher(m.reg)
       \/ m.reg.type = "DATA" /\ RegisterDuplicate(m.reg)
       \/ m.reg.type = "SERVICE" /\ RegisterService(m.reg)
       \/ ~Accepted(m.reg) /\ UNCHANGED vars

HandleUnregister(m) ==
    LET unreg == Unregistration(m.reg)
    IN  /\ m.kind = "unregister"
        /\ Handled(m)
        /\ IF m.reg.type = "DATA"
           THEN \/ UnregisterPublisher(unreg)
                \/ ~RegisteredPublisher(unreg) /\ UNCHANGED vars
           ELSE \/ UnregisterService(unreg)
                \/ ~RegisteredService(unreg) /\ UNCHANGED vars

\* A client looks up a service or asks for all providers.
Lookup ==
    /\ GetProviders \/ \E s \in ServiceIDs : LookupService(OwnDomain, s)
    /\ UNCHANGED <<clock, nodeVars, requests, replies, history>>

SystemNext ==
    \/ \E n \in Nodes :
          \/ \E offer \in OffersOf[n] : Stamp(n, offer)
          \/ \E url \in Urls : Bind(n, url)
          \/ NoPortsAvailable(n)
          \/ \E reg \in registered[n] :
                Unregister(n, reg) \/ UnregisterConflict(n, reg)
          \/ Block(n)
          \/ Answered(n) \/ Retry(n) \/ GiveUp(n)
          \/ Crash(n)
    \/ \E m \in requests : HandleRegister(m) \/ HandleUnregister(m)
    \/ Lookup

\* A manager thread of the process answers the node, a poll of a socket ends
\* with an answer or with a timeout, and the directory's main loop takes
\* every request from its queue.
Fairness ==
    /\ \A n \in Nodes :
          WF_systemVars(\/ \E url \in Urls : Bind(n, url)
                        \/ NoPortsAvailable(n)
                        \/ Answered(n) \/ Retry(n) \/ GiveUp(n))
    /\ WF_systemVars(\E m \in requests :
                        HandleRegister(m) \/ HandleUnregister(m))

SystemSpec == SystemInit /\ [][SystemNext]_systemVars /\ Fairness

-----------------------------------------------------------------------------
(* Properties *)

\* What the documentation of registerDataProduct promises: a data product
\* whose registration succeeded is available to the rest of the system, that
\* is, the directory lists the publisher with the time it stamps on its data.
RegisteredIsListed ==
    \A n \in Nodes : \A r \in registered[n] :
        r.type = "DATA" =>
            [url |-> r.url, registration_time |-> Secs(r.timestamp)]
                \in dataProductMap[OwnDomain][r.id]

\* The same for nodes that compete for ports, take each other's over and
\* register in the same second, whatever requests of those that had the port
\* before are still under way, are sent again or were given up; excepted are
\* ports that are disputed.
UndisputedIsListed ==
    \A n \in Nodes : \A r \in registered[n] :
        r.type = "DATA" /\ r.url \notin disputed =>
            [url |-> r.url, registration_time |-> Secs(r.timestamp)]
                \in dataProductMap[OwnDomain][r.id]

\* A service that is registered at the only port it has ever been registered
\* at can be looked up there, whoever has used the port before, unless the
\* port is disputed.
UndisputedServiceIsFound ==
    \A n \in Nodes : \A r \in registered[n] :
        /\ r.type = "SERVICE" /\ homes[r.id] = {r.url}
        /\ r.url # EmptyUrl /\ r.url \notin disputed
        => serviceMap[OwnDomain][r.id] = r.url

\* A service that some node has registered, and that no node is registering
\* or unregistering, can be looked up, and the URL is one that a provider
\* that is still there has bound.
RegisteredServiceIsFound ==
    \A s \in ServiceIDs :
        LET providers == {r \in UNION {registered[n] : n \in Nodes} :
                             r.type = "SERVICE" /\ r.id = s}
            busy == \E n \in Nodes :
                       current[n].type = "SERVICE" /\ current[n].id = s
        IN  providers # {} /\ ~busy
               => serviceMap[OwnDomain][s] \in {r.url : r \in providers} \ {EmptyUrl}

\* Once every request has been handled and every operation is over, what the
\* directory lists is what live nodes have registered: nothing is left of
\* what was unregistered.
ListedIsRegistered ==
    requests = {} /\ (\A n \in Nodes : phase[n] \in {"idle", "stamped", "blocked"}) =>
        LET live == UNION {registered[n] : n \in Nodes}
        IN  /\ \A i \in ProductIDs : \A p \in dataProductMap[OwnDomain][i] :
                  \E r \in live : r.type = "DATA" /\ r.id = i /\ r.url = p.url
            /\ \A s \in ServiceIDs : serviceMap[OwnDomain][s] # NoUrl =>
                  \E r \in live : /\ r.type = "SERVICE" /\ r.id = s
                                  /\ r.url = serviceMap[OwnDomain][s]

\* Every operation that has begun ends: each request a node sends is answered
\* to the socket the node is polling, and the lock is released.  (A node that
\* unregisterService has left with a lock held is "blocked", and stays so.)
OperationEnds ==
    \A n \in Nodes :
        phase[n] \in {"stamped", "register", "unregister"} ~> phase[n] = "idle"

=============================================================================
