-------------------------- MODULE ServiceRequests --------------------------
(***************************************************************************)
(* Requests to services: the synchronous and the asynchronous request() of *)
(* a GravityNode, the GravityRequestManager thread that waits for the      *)
(* answers to asynchronous ones, the GravityServiceManager threads of the  *)
(* providers and the future responses they may promise instead of an       *)
(* answer, composed with ServiceDirectory.                                 *)
(*                                                                         *)
(* One node makes the requests.  A provider process is named by the one    *)
(* URL (port) its service is bound to; it may end at any time, and another *)
(* process may then bind the port.  Application code decides which         *)
(* requests are answered with a future response and when the answer is     *)
(* given; it gives each one once.  The registration of a service is one    *)
(* step up to the binding and one at the directory (its finer              *)
(* interleavings are the subject of NodeRegistration).                     *)
(*                                                                         *)
(* A message stands for the two frames ZeroMQ moves; one that is never     *)
(* taken is lost.  Time is abstract: a deadline passes at some point.      *)
(***************************************************************************)
EXTENDS ServiceDirectory, Sequences, SequencesExt

CONSTANTS
    Offers,         \* URL -> services a process at the port may provide
    AsyncRequests,  \* requests made with a GravityRequestor
    SyncRequests,   \* requests whose caller waits
    ServiceOf,      \* request -> service it is made to
    Timed,          \* requests with timeout_milliseconds > 0
    FutureFor,      \* requests a provider may answer with a future response
    NumPorts,       \* ports left for future responses on a provider's host
    Faults          \* which of "crash", "slow" and "ports" may happen

Requests == AsyncRequests \cup SyncRequests

ASSUME RequestAssumption ==
    /\ Offers \in [Urls -> SUBSET ServiceIDs]
    /\ AsyncRequests \cap SyncRequests = {}
    /\ Timed \subseteq Requests /\ FutureFor \subseteq Requests
    /\ \A q \in Requests : ServiceOf[q] \in ServiceIDs
    /\ NumPorts \in Nat /\ Urls \cap (1 .. NumPorts) = {}
    /\ Faults \subseteq {"crash", "slow", "ports"}

VARIABLES
    \* Providers
    clock,      \* getCurrentTime(): no two readings are the same, and none
                \* is in the first second of the epoch
    served,     \* URL -> the service bound to it
    lockKept,   \* URL -> is its process' requestManagerRepSWL.lock never released?
    futures,    \* futureResponseUrlToSocketMap: port -> the future response
    notices,    \* unregistration requests on their way to the directory
    \* The requesting node
    phase,      \* request -> the socket it waits on, or how far it has got
    lookedUp,   \* request -> what the directory said of the service
    pollItems,  \* GravityRequestManager: request sockets, in poll order
    due,        \* requests whose deadline has passed
    stuck,      \* does the GravityRequestManager thread loop forever?
    outcome,    \* request -> callbacks made, or what the caller was returned
    \* The network
    inflight,   \* requests on their way to a provider
    arrived,    \* responses that have reached the socket of a request
    \* History
    executed,   \* request -> registrations whose provider has executed it
    started     \* the registrations made so far: their URLs and timestamps

providerVars == <<clock, started, served, lockKept, futures, executed>>
clientVars == <<phase, lookedUp, pollItems, due, stuck, outcome>>
networkVars == <<notices, inflight, arrived>>
systemVars == <<vars, providerVars, clientVars, networkVars>>

-----------------------------------------------------------------------------
NoService == [id |-> NoUrl]
NoPort == 0
NoFuture == [req |-> NoUrl]
Ports == 1 .. NumPorts
Nowhere == [url |-> NoUrl, registrationTime |-> 0]

\* A request has a socket to the service and, after a future response, one
\* to the port that was promised.
Socket(q, kind) == [req |-> q, kind |-> kind]

\* The socket is open: the thread that made it waits for a response.
Open(socket) == phase[socket.req] = socket.kind

Bound(u) == served[u] # NoService

\* The registration of the service bound to u.
RegistrationAt(u) ==
    [id |-> served[u].id, url |-> u, timestamp |-> served[u].timestamp]

RegTime(u) == Secs(served[u].timestamp)

\* ServiceDirectoryUnregistrationPB
Unregistration(id, url, time) ==
    [type |-> "SERVICE", id |-> id, url |-> url, domain |-> OwnDomain,
     registration_time |-> time]

\* A request message; the one to a future socket has no registration time.
RequestTo(to, socket, time) == [to |-> to, socket |-> socket, regTime |-> time]

\* A response: its registration time, the port it promises, and the request
\* and the registration it was made for and by.
Response(socket, time, port, req, by) ==
    [socket |-> socket, regTime |-> time, port |-> port, req |-> req, by |-> by]

\* The messages left when the sockets bound to ends are closed: those the
\* sender still waits for may be sent again to whoever binds the port next.
Kept(ends) == {m \in inflight : m.to \in ends => Open(m.socket)}

\* m is taken and answered; the response to a closed socket is dropped.
Reply(m, response) ==
    /\ inflight' = inflight \ {m}
    /\ arrived' = IF Open(m.socket) THEN arrived \cup {response} ELSE arrived

-----------------------------------------------------------------------------
SystemInit ==
    /\ Init
    /\ clock = TicksPerSecond
    /\ served = [u \in Urls |-> NoService]
    /\ lockKept = [u \in Urls |-> FALSE]
    /\ futures = [p \in Ports |-> NoFuture]
    /\ notices = {}
    /\ phase = [q \in Requests |-> "new"]
    /\ lookedUp = [q \in Requests |-> Nowhere]
    /\ pollItems = <<>>
    /\ due = {}
    /\ stuck = FALSE
    /\ outcome = [q \in Requests |-> <<>>]
    /\ inflight = {}
    /\ arrived = {}
    /\ executed = [q \in Requests |-> {}]
    /\ started = {}

-----------------------------------------------------------------------------
(* Providers and the directory *)

\* registerService, addService: a free port is bound.
BindService(id, u) ==
    /\ ~Bound(u) /\ clock <= MaxTime
    /\ served' = [served EXCEPT ![u] = [id |-> id, timestamp |-> clock,
                                        listed |-> FALSE, blocked |-> FALSE]]
    /\ clock' = clock + 1
    /\ started' = started \cup {[url |-> u, timestamp |-> clock]}
    /\ UNCHANGED <<vars, lockKept, futures, executed, clientVars, networkVars>>

\* registerService: the directory handles the registration.
ListService(u) ==
    LET reg == [type |-> "SERVICE", id |-> served[u].id, url |-> u,
                domain |-> OwnDomain, timestamp |-> served[u].timestamp]
    IN  /\ Bound(u) /\ ~served[u].listed
        /\ RegisterService(reg) \/ (~Accepted(reg) /\ UNCHANGED vars)
        /\ served' = [served EXCEPT ![u].listed = TRUE]
        /\ UNCHANGED <<clock, started, lockKept, futures, executed, clientVars, networkVars>>

\* unregisterService, removeService: the port is unbound, then the directory
\* is told.  The service manager must not be waiting for a lock.
WithdrawService(u) ==
    /\ Bound(u) /\ served[u].listed /\ ~served[u].blocked
    /\ served' = [served EXCEPT ![u] = NoService]
    /\ notices' = notices \cup {Unregistration(served[u].id, u, RegTime(u))}
    /\ inflight' = Kept({u})
    /\ UNCHANGED <<vars, clock, started, lockKept, futures, executed, clientVars, arrived>>

\* The process at u ends; what it registered stays in the directory.
Crash(u) ==
    LET ports == {p \in Ports : futures[p] # NoFuture /\ futures[p].by.url = u}
    IN  /\ "crash" \in Faults
        /\ Bound(u)
        /\ served' = [served EXCEPT ![u] = NoService]
        /\ lockKept' = [lockKept EXCEPT ![u] = FALSE]
        /\ futures' = [p \in Ports |-> IF p \in ports THEN NoFuture ELSE futures[p]]
        /\ inflight' = Kept({u} \cup ports)
        /\ UNCHANGED <<vars, clock, started, executed, clientVars, notices, arrived>>

\* The directory handles an unregistration, of a provider or of a client
\* that met a stale entry.
HandleNotice(unreg) ==
    /\ UnregisterService(unreg) \/ (~RegisteredService(unreg) /\ UNCHANGED vars)
    /\ notices' = notices \ {unreg}
    /\ UNCHANGED <<providerVars, clientVars, inflight, arrived>>

-----------------------------------------------------------------------------
(* GravityServiceManager: the service at u takes the request m *)

\* Mutant of Stale: requests are not checked.
StaleNever(u, m) == FALSE

\* The request carries the registration time of another registration.
Stale(u, m) == m.regTime # 0 /\ m.regTime # RegTime(u)

Takes(u, m) == Bound(u) /\ ~served[u].blocked /\ m.to = u

Execute(u, m) ==
    executed' = [executed EXCEPT ![m.socket.req] = @ \cup {RegistrationAt(u)}]

\* An invalid request gets an empty response, with the registration time.
Reject(u, m) ==
    /\ Takes(u, m) /\ Stale(u, m)
    /\ Reply(m, Response(m.socket, RegTime(u), NoPort, NoUrl, RegistrationAt(u)))
    /\ UNCHANGED <<vars, providerVars, clientVars, notices>>

\* The provider answers at once.
Answer(u, m) ==
    /\ Takes(u, m) /\ ~Stale(u, m)
    /\ Execute(u, m)
    /\ Reply(m, Response(m.socket, RegTime(u), NoPort, m.socket.req, RegistrationAt(u)))
    /\ UNCHANGED <<vars, clock, started, served, lockKept, futures, clientVars, notices>>

FreePorts == {p \in Ports : futures[p] = NoFuture}

\* createFutureResponse: the first free port is bound for the answer, and
\* the provider returns the promise.
Promise(u, m) ==
    /\ Takes(u, m) /\ ~Stale(u, m)
    /\ m.socket.req \in FutureFor /\ ~lockKept[u]
    /\ \E p \in FreePorts :
          /\ \A r \in FreePorts : p <= r
          /\ futures' = [futures EXCEPT ![p] =
                            [req |-> m.socket.req, by |-> RegistrationAt(u)]]
          /\ Reply(m, Response(m.socket, RegTime(u), p, m.socket.req, RegistrationAt(u)))
    /\ Execute(u, m)
    /\ UNCHANGED <<vars, clock, started, served, lockKept, clientVars, notices>>

\* createFutureResponse with no port left (other programs use some: "ports")
\* returns NULL and keeps the lock; the provider answers at once.
PromiseNoPort(u, m) ==
    /\ Takes(u, m) /\ ~Stale(u, m)
    /\ m.socket.req \in FutureFor /\ ~lockKept[u]
    /\ FreePorts = {} \/ "ports" \in Faults
    /\ lockKept' = [lockKept EXCEPT ![u] = TRUE]
    /\ Execute(u, m)
    /\ Reply(m, Response(m.socket, RegTime(u), NoPort, m.socket.req, RegistrationAt(u)))
    /\ UNCHANGED <<vars, clock, started, served, futures, clientVars, notices>>

\* createFutureResponse waits for a lock that is never released: so does the
\* service manager thread.
PromiseBlocked(u, m) ==
    /\ Takes(u, m) /\ ~Stale(u, m)
    /\ m.socket.req \in FutureFor /\ lockKept[u]
    /\ served' = [served EXCEPT ![u].blocked = TRUE]
    /\ inflight' = inflight \ {m}
    /\ Execute(u, m)
    /\ UNCHANGED <<vars, clock, started, lockKept, futures, clientVars, notices, arrived>>

\* sendFutureResponse: the answer goes to whoever has asked at the port.  It
\* has no registration time.  The port is closed.
SendFuture(p, m) ==
    /\ futures[p] # NoFuture /\ ~lockKept[futures[p].by.url]
    /\ m.to = p
    /\ futures' = [futures EXCEPT ![p] = NoFuture]
    /\ inflight' = Kept({p}) \ {m}
    /\ arrived' = IF Open(m.socket)
          THEN arrived \cup {Response(m.socket, 0, NoPort, futures[p].req,
                                      futures[p].by)}
          ELSE arrived
    /\ UNCHANGED <<vars, clock, started, served, lockKept, executed, clientVars, notices>>

\* sendFutureResponse gives up after two seconds (REQUEST_TIMEOUT) and closes
\* the port: nobody asks there, or ("slow") the request takes longer.
FutureNotWanted(p) ==
    /\ futures[p] # NoFuture /\ ~lockKept[futures[p].by.url]
    /\ \/ "slow" \in Faults
       \/ /\ phase[futures[p].req] = "ended"
          /\ \A m \in inflight : m.to # p
    /\ futures' = [futures EXCEPT ![p] = NoFuture]
    /\ inflight' = Kept({p})
    /\ UNCHANGED <<vars, clock, started, served, lockKept, executed, clientVars, notices, arrived>>

-----------------------------------------------------------------------------
(* GravityNode::request *)

\* ServiceDirectoryServiceLookup; a lookup that finds nothing changes nothing.
\* An asynchronous request is handed to the request manager, a synchronous
\* one is sent, without a registration time.
Lookup(q) ==
    LET url == serviceMap[OwnDomain][ServiceOf[q]]
        time == Secs(Instance(registrationInstanceMap, url))
    IN  /\ phase[q] = "new"
        /\ LookupService(OwnDomain, ServiceOf[q])
        /\ lookedUp' = [lookedUp EXCEPT ![q] = [url |-> url, registrationTime |-> time]]
        /\ phase' = [phase EXCEPT ![q] =
                        IF q \in AsyncRequests THEN "posted" ELSE "service"]
        /\ inflight' = IF q \in AsyncRequests THEN inflight
              ELSE inflight \cup {RequestTo(url, Socket(q, "service"), 0)}
        /\ UNCHANGED <<providerVars, pollItems, due, stuck, outcome, notices, arrived>>

\* The request is over for its caller.
Ended(q, kind, response) ==
    /\ phase' = [phase EXCEPT ![q] = "ended"]
    /\ outcome' = [outcome EXCEPT ![q] =
                      Append(@, [kind |-> kind, at |-> phase[q],
                                 req |-> response.req, by |-> response.by])]

NoResponse(q) == [req |-> q, by |-> NoService]

DeadlinePasses(q) ==
    /\ q \in Timed \ due
    /\ phase[q] \in {"service", "future"}
    /\ due' = due \cup {q}
    /\ UNCHANGED <<vars, providerVars, phase, lookedUp, pollItems, stuck, outcome, networkVars>>

\* Mutant of Named: the registration time of a response is not compared.
NamedAny(q, response) == TRUE

\* The response comes from the registration the directory named.
Named(q, response) == response.regTime = lookedUp[q].registrationTime

\* A synchronous request asks at the port of a future response.
SyncFuture(q, response) ==
    /\ q \in SyncRequests
    /\ response.socket = Socket(q, "service")
    /\ Named(q, response) /\ response.port # NoPort
    /\ phase' = [phase EXCEPT ![q] = "future"]
    /\ inflight' = inflight \cup {RequestTo(response.port, Socket(q, "future"), 0)}
    /\ arrived' = arrived \ {response}
    /\ UNCHANGED <<vars, providerVars, lookedUp, pollItems, due, stuck, outcome, notices>>

\* A synchronous request returns the response, or NULL for a response of
\* another registration.  The answer at the port is not compared.
SyncReturn(q, response) ==
    /\ q \in SyncRequests
    /\ response.socket = Socket(q, phase[q])
    /\ phase[q] = "service" /\ Named(q, response) => response.port = NoPort
    /\ Ended(q, IF phase[q] = "future" \/ Named(q, response) THEN "filled" ELSE "null",
             response)
    /\ arrived' = arrived \ {response}
    /\ UNCHANGED <<vars, providerVars, lookedUp, pollItems, due, stuck, notices, inflight>>

\* REQUEST_TIMEOUT: a synchronous request returns NULL.
SyncTimeout(q) ==
    /\ q \in SyncRequests \cap due
    /\ phase[q] \in {"service", "future"}
    /\ ~\E r \in arrived : r.socket = Socket(q, phase[q])
    /\ Ended(q, "null", NoResponse(q))
    /\ UNCHANGED <<vars, providerVars, lookedUp, pollItems, due, stuck, networkVars>>

-----------------------------------------------------------------------------
(* GravityRequestManager *)

Pending(socket) == \E i \in 1 .. Len(pollItems) : pollItems[i] = socket

\* pollItems once the item of the socket is erased.
Without(socket) ==
    RemoveAt(pollItems, CHOOSE i \in 1 .. Len(pollItems) : pollItems[i] = socket)

\* processRequest: the request is sent with the registration time looked up.
ProcessRequest(q) ==
    /\ ~stuck
    /\ q \in AsyncRequests /\ phase[q] = "posted"
    /\ phase' = [phase EXCEPT ![q] = "service"]
    /\ pollItems' = Append(pollItems, Socket(q, "service"))
    /\ inflight' = inflight \cup
          {RequestTo(lookedUp[q].url, Socket(q, "service"), lookedUp[q].registrationTime)}
    /\ UNCHANGED <<vars, providerVars, lookedUp, due, stuck, outcome, notices, arrived>>

\* Mutant of Overdue: a future response leaves the request without deadline.
OverdueService(socket) == socket.kind = "service" /\ socket.req \in due

\* The deadline in the request details of the socket has passed.  The details
\* of the socket to a future response are those of the request.
Overdue(socket) == socket.req \in due

\* Before each poll requests whose deadline has passed are ended.  The search
\* for the socket in pollItems looks at the first one only, again and again.
Expire(socket) ==
    LET q == socket.req
    IN  /\ ~stuck
        /\ Pending(socket) /\ Overdue(socket)
        /\ outcome' = [outcome EXCEPT ![q] =
                          Append(@, [kind |-> "timeout", at |-> phase[q],
                                     req |-> q, by |-> NoService])]
        /\ IF pollItems[1] = socket
           THEN /\ pollItems' = Tail(pollItems)
                /\ phase' = [phase EXCEPT ![q] = "ended"]
                /\ arrived' = {r \in arrived : r.socket # socket}
                /\ UNCHANGED stuck
           ELSE stuck' = TRUE /\ UNCHANGED <<pollItems, phase, arrived>>
        /\ UNCHANGED <<vars, providerVars, lookedUp, due, notices, inflight>>

\* Mutant of FutureItems: the socket to the service is kept.
FutureItemsBoth(socket) == Append(pollItems, Socket(socket.req, "future"))

\* The poll items once the socket is replaced by the one to the port of the
\* future response.
FutureItems(socket) == Append(Without(socket), Socket(socket.req, "future"))

\* A placeholder: the port is asked, under the same request details.
ReceiveFuture(response) ==
    LET q == response.socket.req
    IN  /\ ~stuck
        /\ Pending(response.socket) /\ response.port # NoPort
        /\ pollItems' = FutureItems(response.socket)
        /\ phase' = [phase EXCEPT ![q] = "future"]
        /\ inflight' = inflight \cup {RequestTo(response.port, Socket(q, "future"), 0)}
        /\ arrived' = arrived \ {response}
        /\ UNCHANGED <<vars, providerVars, lookedUp, due, stuck, outcome, notices>>

\* Mutant of StaleEntry: the registration that answered is reported.
StaleEntryAnswered(q, response) ==
    Unregistration(ServiceOf[q], lookedUp[q].url, response.regTime)

\* notifyServiceDirectoryOfStaleEntry
StaleEntry(q, response) ==
    Unregistration(ServiceOf[q], lookedUp[q].url, lookedUp[q].registrationTime)

\* A response: requestFilled is called if it comes from the registration
\* looked up.  Otherwise the request is aborted without a callback, and if
\* another registration answered, the directory is told.
ReceiveResponse(response) ==
    LET q == response.socket.req
    IN  /\ ~stuck
        /\ Pending(response.socket) /\ response.port = NoPort
        /\ Ended(q, IF Named(q, response) THEN "filled" ELSE "aborted", response)
        /\ notices' = IF ~Named(q, response) /\ response.regTime > 0
              THEN notices \cup {StaleEntry(q, response)} ELSE notices
        /\ pollItems' = Without(response.socket)
        /\ arrived' = arrived \ {response}
        /\ UNCHANGED <<vars, providerVars, lookedUp, due, stuck, inflight>>

-----------------------------------------------------------------------------
ManagerStep(q) ==
    \/ ProcessRequest(q)
    \/ \E kind \in {"service", "future"} : Expire(Socket(q, kind))
    \/ \E r \in arrived :
          r.socket.req = q /\ (ReceiveFuture(r) \/ ReceiveResponse(r))

CallerStep(q) ==
    \/ \E r \in arrived : SyncFuture(q, r) \/ SyncReturn(q, r)
    \/ SyncTimeout(q)

SystemNext ==
    \/ \E u \in Urls : \E s \in Offers[u] : BindService(s, u)
    \/ \E u \in Urls : ListService(u) \/ WithdrawService(u) \/ Crash(u)
    \/ \E unreg \in notices : HandleNotice(unreg)
    \/ \E u \in Urls, m \in inflight :
          \/ Reject(u, m) \/ Answer(u, m)
          \/ Promise(u, m) \/ PromiseNoPort(u, m) \/ PromiseBlocked(u, m)
    \/ \E p \in Ports : FutureNotWanted(p) \/ \E m \in inflight : SendFuture(p, m)
    \/ \E q \in Requests :
          Lookup(q) \/ DeadlinePasses(q) \/ ManagerStep(q) \/ CallerStep(q)

\* Deadlines pass, and the threads of the requesting node keep running.
\* Nothing is assumed of providers.
Fairness ==
    \A q \in Requests : /\ WF_systemVars(DeadlinePasses(q))
                        /\ WF_systemVars(ManagerStep(q))
                        /\ WF_systemVars(CallerStep(q))

SystemSpec == SystemInit /\ [][SystemNext]_systemVars /\ Fairness

-----------------------------------------------------------------------------
(* Properties *)

\* The registration that the directory named to the caller of q.
NamedToCaller(q, reg) ==
    /\ reg.id = ServiceOf[q] /\ reg.url = lookedUp[q].url
    /\ Secs(reg.timestamp) = lookedUp[q].registrationTime

\* A requestor gets one callback for a request at most, and a caller one
\* result, also when a deadline passes while a response, or the answer a
\* future response promised, is on its way.
OneOutcome == \A q \in Requests : Len(outcome[q]) <= 1

\* An asynchronous request is executed by the registration its caller was
\* told of and by no other: a provider that has come to the same port since
\* rejects it (GravityServiceManager compares registration times).
ExecutedByNamed ==
    \A q \in AsyncRequests : \A reg \in executed[q] : NamedToCaller(q, reg)

\* The response o was made for q, by the registration the directory named.
OwnResponse(q, o) == o.req = q /\ NamedToCaller(q, o.by)

\* A response that reaches the application from the service's own socket was
\* made for the request, by the registration the directory named, also if the
\* provider was replaced while the request was on its way.
FilledByNamed ==
    \A q \in Requests : \A i \in 1 .. Len(outcome[q]) :
        outcome[q][i].kind = "filled" /\ outcome[q][i].at = "service" =>
            OwnResponse(q, outcome[q][i])

\* What GravityNode.h says request() returns: the response, or NULL upon
\* failure.  It is never the response to another request, not even after a
\* future response.  It is not an invariant when a provider may give up on a
\* future response before it is asked for ("slow"): the next future response
\* uses the same port, and the answer at a port is not compared.
ReturnedIsResponse ==
    \A q \in SyncRequests : \A i \in 1 .. Len(outcome[q]) :
        outcome[q][i].kind = "filled" => OwnResponse(q, outcome[q][i])

\* Two registrations at u have the registration time t, which is in seconds.
SharedTime(u, t) ==
    \E r, q \in started :
        /\ r.url = u /\ q.url = u /\ r # q
        /\ Secs(r.timestamp) = t /\ Secs(q.timestamp) = t

\* A client that meets a stale entry has it removed, and with it never the
\* entry of a provider that has registered at the port since: the directory
\* leads to every provider that has registered.  The exception is a provider
\* that took over the port in the second in which an earlier one registered:
\* a notice about that one names it as well.
ProviderStaysListed ==
    \A u \in Urls : Bound(u) /\ served[u].listed =>
        \/ /\ serviceMap[OwnDomain][served[u].id] = u
           /\ registrationInstanceMap[u] = served[u].timestamp
        \/ SharedTime(u, RegTime(u))

\* A request with a timeout ends, whatever becomes of the provider: the
\* deadline outlives the future response that takes the request's place.
\* (Unless the request manager's search for an expired socket never ends.)
RequestEnds ==
    \A q \in Timed :
        phase[q] \in {"posted", "service", "future"} ~> phase[q] = "ended" \/ stuck

\* What GravityRequestor.h says of requestFilled: it is called when a response
\* to a request is received.  No response made for the request by the
\* registration its caller was told of is discarded.
ResponseIsDelivered ==
    \A q \in AsyncRequests : \A i \in 1 .. Len(outcome[q]) :
        outcome[q][i].kind = "aborted" =>
            ~OwnResponse(q, outcome[q][i])

\* What GravityRequestor.h says of requestTimeout: it is called when the
\* response to a request has timed out.  A request with a deadline does not
\* stay without an outcome.
TimeoutIsReported ==
    \A q \in AsyncRequests \cap Timed :
        phase[q] = "service" ~> outcome[q] # <<>>

=============================================================================
