----------------------- MODULE ServiceRequestsProofs -----------------------
(***************************************************************************)
(* Proofs about requests to services, for any requests, services, ports    *)
(* and providers that come and go.                                         *)
(***************************************************************************)
EXTENDS ServiceRequests, ServiceDirectoryProofs, SequenceTheorems

Kinds == {"service", "future"}
Sockets == [req : Requests, kind : Kinds]

(***************************************************************************)
(* One outcome.  A request has an outcome only when it has ended, or when  *)
(* the request manager's thread is lost.  That a request which has ended   *)
(* is never taken up again needs more: a response waits only at a socket   *)
(* that is open, every socket of the poll items is open, and there is at   *)
(* most one message or response for a socket.                              *)
(***************************************************************************)

\* The variables of the requesting node have the shape the code gives them.
ClientType ==
    /\ phase \in [Requests -> {"new", "posted", "service", "future", "ended"}]
    /\ outcome = [q \in Requests |-> outcome[q]]
    /\ pollItems \in Seq([req : AsyncRequests, kind : Kinds])
    /\ stuck \in BOOLEAN
    /\ \A m \in inflight : m.socket \in Sockets
    /\ \A r \in arrived : r.socket \in Sockets

\* The request manager polls the one open socket of each of its requests.
Polled ==
    /\ \A i \in 1 .. Len(pollItems) : Open(pollItems[i])
    /\ \A i, j \in 1 .. Len(pollItems) :
          pollItems[i].req = pollItems[j].req => i = j

\* A message is from a socket that its request has already opened, and a
\* response is at one that is still open.
Exchanged ==
    /\ \A m \in inflight :
          /\ phase[m.socket.req] \in {"service", "future", "ended"}
          /\ m.socket.kind = "future" => phase[m.socket.req] # "service"
    /\ \A r \in arrived : Open(r.socket)

\* A socket is waiting for one thing at a time.
OneMessage ==
    /\ \A m, n \in inflight : m.socket = n.socket => m = n
    /\ \A r, s \in arrived : r.socket = s.socket => r = s
    /\ \A m \in inflight, r \in arrived : m.socket # r.socket

\* The outcome of q, if it has one, is its only one and final.
Decided(q) ==
    /\ outcome[q] = <<outcome[q][1]>>
    /\ \/ phase[q] = "ended"
       \/ stuck /\ q \in AsyncRequests /\ phase[q] \in Kinds

Outcomes == \A q \in Requests : outcome[q] = <<>> \/ Decided(q)

RequestInv == ClientType /\ Polled /\ Exchanged /\ OneMessage /\ Outcomes


-----------------------------------------------------------------------------
\* Erasing an item keeps the others, in their order.
LEMMA RemoveAtItems ==
    ASSUME NEW S, NEW s \in Seq(S), NEW i \in 1 .. Len(s)
    PROVE  /\ RemoveAt(s, i) \in Seq(S)
           /\ Len(RemoveAt(s, i)) = Len(s) - 1
           /\ \A j \in 1 .. Len(s) - 1 :
                 RemoveAt(s, i)[j] = IF j < i THEN s[j] ELSE s[j + 1]
<1> DEFINE left == SubSeq(s, 1, i - 1)
           right == SubSeq(s, i + 1, Len(s))
<1>1. Len(s) \in Nat /\ i \in Nat /\ 1 <= i /\ i <= Len(s)
  OBVIOUS
<1>2. /\ left \in Seq(S) /\ Len(left) = i - 1
      /\ \A j \in 1 .. i - 1 : left[j] = s[j]
  <2>1. \A j \in 1 .. i - 1 : s[j] \in S
    BY <1>1, ElementOfSeq
  <2>2. QED BY <1>1, <2>1, SubSeqProperties
<1>3. /\ right \in Seq(S) /\ Len(right) = Len(s) - i
      /\ \A j \in 1 .. Len(s) - i : right[j] = s[i + j]
  BY <1>1, SubSeqProperties
<1>4. RemoveAt(s, i) = left \o right
  BY DEF RemoveAt
<1> HIDE DEF left, right
<1>5. /\ left \o right \in Seq(S)
      /\ Len(left \o right) = Len(left) + Len(right)
      /\ \A j \in 1 .. Len(left) + Len(right) :
            (left \o right)[j] = IF j <= Len(left) THEN left[j]
                                  ELSE right[j - Len(left)]
  BY <1>2, <1>3, ConcatProperties
<1>6. ASSUME NEW j \in 1 .. Len(s) - 1
      PROVE  RemoveAt(s, i)[j] = IF j < i THEN s[j] ELSE s[j + 1]
  <2>1. CASE j < i
    BY <1>1, <1>2, <1>3, <1>4, <1>5, <2>1
  <2>2. CASE ~(j < i)
    <3>1. j - (i - 1) \in 1 .. Len(s) - i /\ i + (j - (i - 1)) = j + 1
      BY <1>1, <2>2
    <3>2. (left \o right)[j] = right[j - (i - 1)]
      BY <1>1, <1>2, <1>3, <1>5, <2>2
    <3>3. right[j - (i - 1)] = s[i + (j - (i - 1))]
      BY <1>3, <3>1
    <3>4. QED BY <1>1, <1>4, <2>2, <3>1, <3>2, <3>3
  <2>3. QED BY <2>1, <2>2
<1>7. QED
  BY <1>1, <1>2, <1>3, <1>4, <1>5, <1>6

Items == [req : AsyncRequests, kind : Kinds]

\* What is polled once the socket of a request is erased: the sockets of the
\* other requests.
LEMMA WithoutItems ==
    ASSUME ClientType, Polled, NEW socket, Pending(socket)
    PROVE  /\ Without(socket) \in Seq(Items)
           /\ \A i \in 1 .. Len(Without(socket)) :
                 /\ Without(socket)[i].req # socket.req
                 /\ \E k \in 1 .. Len(pollItems) :
                       Without(socket)[i] = pollItems[k]
           /\ \A i, j \in 1 .. Len(Without(socket)) :
                 Without(socket)[i].req = Without(socket)[j].req => i = j
<1> DEFINE place == CHOOSE i \in 1 .. Len(pollItems) : pollItems[i] = socket
           rest == Without(socket)
<1>1. place \in 1 .. Len(pollItems) /\ pollItems[place] = socket
  BY DEF Pending
<1>2. pollItems \in Seq(Items)
  BY DEF ClientType, Items
<1>3. rest = RemoveAt(pollItems, place)
  BY DEF Without
<1>4. Len(pollItems) \in Nat
  BY <1>2
<1> HIDE DEF place
<1>5. /\ rest \in Seq(Items) /\ Len(rest) = Len(pollItems) - 1
      /\ \A j \in 1 .. Len(pollItems) - 1 :
            rest[j] = IF j < place THEN pollItems[j] ELSE pollItems[j + 1]
  BY <1>1, <1>2, <1>3, RemoveAtItems
<1> HIDE DEF rest
<1> DEFINE At(j) == IF j < place THEN j ELSE j + 1
<1>6. \A j \in 1 .. Len(rest) : /\ At(j) \in 1 .. Len(pollItems)
                                /\ At(j) # place
                                /\ rest[j] = pollItems[At(j)]
  BY <1>1, <1>4, <1>5
<1>7. \A i, j \in 1 .. Len(rest) : At(i) = At(j) => i = j
  BY <1>1, <1>4, <1>5
<1> HIDE DEF At
<1>8. \A i \in 1 .. Len(rest) :
         /\ rest[i].req # socket.req
         /\ \E k \in 1 .. Len(pollItems) : rest[i] = pollItems[k]
  BY <1>1, <1>6 DEF Polled
<1>9. \A i, j \in 1 .. Len(rest) : rest[i].req = rest[j].req => i = j
  BY <1>6, <1>7 DEF Polled
<1>10. QED
  BY <1>5, <1>8, <1>9 DEF rest

\* What providers and the network do to requests: messages are lost.
LEMMA LossKeepsRequestInv ==
    ASSUME RequestInv, UNCHANGED clientVars,
           inflight' \subseteq inflight, UNCHANGED arrived
    PROVE  RequestInv'
<1> USE DEF RequestInv, clientVars
<1>1. ClientType'
  BY DEF ClientType
<1>2. Polled' /\ Outcomes'
  BY DEF Polled, Outcomes, Decided, Open
<1>3. Exchanged' /\ OneMessage'
  BY DEF Exchanged, OneMessage, Open
<1>4. QED BY <1>1, <1>2, <1>3

\* What providers do to requests: a message is taken and answered.
LEMMA ReplyKeepsRequestInv ==
    ASSUME RequestInv, UNCHANGED clientVars,
           NEW m \in inflight, NEW response, response.socket = m.socket,
           inflight' \subseteq inflight \ {m},
           arrived' = IF Open(m.socket) THEN arrived \cup {response} ELSE arrived
    PROVE  RequestInv'
<1> USE DEF RequestInv, clientVars
<1>1. ClientType'
  BY DEF ClientType
<1>2. Polled' /\ Outcomes'
  BY DEF Polled, Outcomes, Decided, Open
<1>3. Exchanged'
  BY DEF Exchanged, Open
<1>4. OneMessage'
  BY DEF OneMessage
<1>5. QED BY <1>1, <1>2, <1>3, <1>4

\* A socket's request and kind.
LEMMA SocketFields ==
    ASSUME NEW q \in Requests, NEW kind \in Kinds
    PROVE  /\ Socket(q, kind) \in Sockets
           /\ Socket(q, kind).req = q /\ Socket(q, kind).kind = kind
           /\ \A s \in Sockets : s = Socket(s.req, s.kind)
           /\ \A s \in Sockets : s.req \in Requests /\ s.kind \in Kinds
  BY DEF Socket, Sockets

\* A request q opens its socket of the given kind and sends a message from
\* it, when none of its sockets is pending and it has not had this socket.
LEMMA SendKeepsMessages ==
    ASSUME RequestInv, NEW q \in Requests, NEW kind \in Kinds,
           phase' = [phase EXCEPT ![q] = kind],
           NEW to, NEW time,
           inflight' = inflight \cup {RequestTo(to, Socket(q, kind), time)},
           arrived' \subseteq arrived,
           \A r \in arrived' : r.socket.req # q,
           \A m \in inflight : m.socket # Socket(q, kind),
           \A m \in inflight : m.socket.req = q => kind = "future"
    PROVE  /\ \A m \in inflight' : m.socket \in Sockets
           /\ \A r \in arrived' : r.socket \in Sockets
           /\ Exchanged' /\ OneMessage'
<1> DEFINE sent == RequestTo(to, Socket(q, kind), time)
<1>1. sent.socket = Socket(q, kind)
  BY DEF RequestTo
<1>2. phase \in [Requests -> {"new", "posted", "service", "future", "ended"}]
  BY DEF RequestInv, ClientType
<1> HIDE DEF sent
<1>3. /\ \A m \in inflight : m.socket \in Sockets
      /\ \A r \in arrived : r.socket \in Sockets
  BY DEF RequestInv, ClientType
<1>4. /\ \A m \in inflight' : m \in inflight \/ m = sent
      /\ inflight' = inflight \cup {sent}
  BY DEF sent
<1>5. /\ \A m \in inflight' : m.socket \in Sockets
      /\ \A r \in arrived' : r.socket \in Sockets
  BY <1>1, <1>3, <1>4, SocketFields
<1>6. ASSUME NEW m \in inflight'
      PROVE  /\ phase'[m.socket.req] \in {"service", "future", "ended"}
             /\ m.socket.kind = "future" => phase'[m.socket.req] # "service"
  <2>1. CASE m = sent
    BY <1>1, <1>2, <2>1, SocketFields DEF Kinds
  <2>2. CASE m \in inflight /\ m.socket.req = q
    BY <1>2, <2>2
  <2>3. CASE m \in inflight /\ m.socket.req # q
    <3>1. phase'[m.socket.req] = phase[m.socket.req]
      BY <1>2, <1>3, <2>3, SocketFields
    <3>2. QED BY <2>3, <3>1 DEF RequestInv, Exchanged
  <2>4. QED BY <1>4, <2>1, <2>2, <2>3
<1>7. \A r \in arrived' : Open(r.socket)'
  <2> SUFFICES ASSUME NEW r \in arrived' PROVE phase'[r.socket.req] = r.socket.kind
    BY DEF Open
  <2>1. r \in arrived /\ r.socket.req # q /\ r.socket.req \in Requests
    BY <1>3, SocketFields
  <2>2. phase'[r.socket.req] = phase[r.socket.req]
    BY <1>2, <2>1
  <2>3. QED BY <2>1, <2>2 DEF RequestInv, Exchanged, Open
<1>8. Exchanged'
  BY <1>6, <1>7 DEF Exchanged
<1>9. OneMessage'
  <2>1. \A r \in arrived' : r.socket # sent.socket
    BY <1>1, SocketFields
  <2>2. QED BY <1>1, <1>4, <2>1 DEF RequestInv, OneMessage
<1>10. QED BY <1>5, <1>8, <1>9

\* A request q ends, and nothing has arrived for it any more.
LEMMA EndKeepsMessages ==
    ASSUME RequestInv, NEW q \in Requests,
           phase' = [phase EXCEPT ![q] = "ended"],
           UNCHANGED inflight, arrived' \subseteq arrived,
           \A r \in arrived' : r.socket.req # q
    PROVE  /\ \A m \in inflight' : m.socket \in Sockets
           /\ \A r \in arrived' : r.socket \in Sockets
           /\ Exchanged' /\ OneMessage'
<1>1. phase \in [Requests -> {"new", "posted", "service", "future", "ended"}]
  BY DEF RequestInv, ClientType
<1>2. /\ \A m \in inflight : m.socket \in Sockets
      /\ \A r \in arrived : r.socket \in Sockets
  BY DEF RequestInv, ClientType
<1>3. \A p \in Requests : p # q => phase'[p] = phase[p]
  BY <1>1
<1>4. phase'[q] = "ended"
  BY <1>1
<1>5. \A r \in arrived' : Open(r.socket)'
  BY <1>2, <1>3, SocketFields DEF RequestInv, Exchanged, Open
<1>6. \A m \in inflight :
         /\ phase'[m.socket.req] \in {"service", "future", "ended"}
         /\ m.socket.kind = "future" => phase'[m.socket.req] # "service"
  BY <1>2, <1>3, <1>4, SocketFields DEF RequestInv, Exchanged
<1>7. Exchanged'
  BY <1>5, <1>6 DEF Exchanged
<1>8. OneMessage'
  BY DEF RequestInv, OneMessage
<1>9. QED BY <1>2, <1>7, <1>8

Phases == {"new", "posted", "service", "future", "ended"}

\* A request that is still under way has no outcome.
LEMMA NoOutcomeYet ==
    ASSUME RequestInv, NEW q \in Requests, phase[q] # "ended",
           q \in AsyncRequests => ~stuck
    PROVE  outcome[q] = <<>>
  BY DEF RequestInv, Outcomes, Decided

\* Only an asynchronous request whose socket is open is polled.
LEMMA PolledRequest ==
    ASSUME RequestInv, NEW i \in 1 .. Len(pollItems)
    PROVE  /\ pollItems[i] \in Items /\ pollItems[i].req \in AsyncRequests
           /\ pollItems[i].kind \in Kinds
           /\ phase[pollItems[i].req] = pollItems[i].kind
<1>1. pollItems \in Seq(Items)
  BY DEF RequestInv, ClientType, Items
<1>2. pollItems[i] \in Items
  BY <1>1, ElementOfSeq
<1>3. QED BY <1>2 DEF RequestInv, Polled, Open, Items

\* The poll items stay right when a request that is not polled moves on.
LEMMA OtherKeepsPolled ==
    ASSUME RequestInv, NEW q \in Requests, NEW new,
           phase' = [phase EXCEPT ![q] = new], UNCHANGED pollItems,
           q \in AsyncRequests => phase[q] \notin Kinds
    PROVE  Polled'
<1>1. phase \in [Requests -> Phases]
  BY DEF RequestInv, ClientType, Phases
<1>2. \A i \in 1 .. Len(pollItems) : pollItems[i].req \in Requests /\ pollItems[i].req # q
  BY PolledRequest DEF Requests
<1>3. \A i \in 1 .. Len(pollItems) : phase'[pollItems[i].req] = phase[pollItems[i].req]
  BY <1>1, <1>2
<1>4. QED BY <1>3 DEF RequestInv, Polled, Open

\* A request that moves on without an outcome leaves the outcomes alone.
LEMMA MoveKeepsOutcomes ==
    ASSUME RequestInv, NEW q \in Requests, NEW new \in Phases, outcome[q] = <<>>,
           phase' = [phase EXCEPT ![q] = new],
           UNCHANGED <<outcome, stuck>>
    PROVE  Outcomes'
<1>1. phase \in [Requests -> Phases]
  BY DEF RequestInv, ClientType, Phases
<1>2. \A p \in Requests : p # q => phase'[p] = phase[p]
  BY <1>1
<1>3. QED BY <1>2 DEF RequestInv, Outcomes, Decided

\* A request that ends has one outcome.
LEMMA EndKeepsOutcomes ==
    ASSUME RequestInv, NEW q \in Requests, outcome[q] = <<>>,
           NEW kind, NEW response, Ended(q, kind, response), UNCHANGED stuck
    PROVE  Outcomes' /\ outcome' = [p \in Requests |-> outcome'[p]]
<1> DEFINE o == [kind |-> kind, at |-> phase[q], req |-> response.req, by |-> response.by]
<1>1. phase \in [Requests -> Phases] /\ outcome = [p \in Requests |-> outcome[p]]
  BY DEF RequestInv, ClientType, Phases
<1>2. /\ phase' = [phase EXCEPT ![q] = "ended"]
      /\ outcome' = [outcome EXCEPT ![q] = Append(outcome[q], o)]
  BY DEF Ended
<1> HIDE DEF o
<1>3. \A p \in Requests : p # q => phase'[p] = phase[p] /\ outcome'[p] = outcome[p]
  BY <1>1, <1>2
<1>4. outcome'[q] = <<o>> /\ phase'[q] = "ended"
  BY <1>1, <1>2
<1>5. outcome'[q] = <<outcome'[q][1]>>
  BY <1>4
<1>6. outcome' = [p \in Requests |-> outcome'[p]]
  BY <1>1, <1>2
<1>7. QED BY <1>3, <1>4, <1>5, <1>6 DEF RequestInv, Outcomes, Decided

-----------------------------------------------------------------------------
LEMMA LookupKeepsRequestInv ==
    ASSUME RequestInv, NEW q \in Requests, Lookup(q)
    PROVE  RequestInv'
<1> DEFINE next == IF q \in AsyncRequests THEN "posted" ELSE "service"
           url == serviceMap[OwnDomain][ServiceOf[q]]
<1>1. /\ phase[q] = "new" /\ phase' = [phase EXCEPT ![q] = next]
      /\ UNCHANGED <<pollItems, outcome, stuck, arrived>>
      /\ inflight' = IF q \in AsyncRequests THEN inflight
            ELSE inflight \cup {RequestTo(url, Socket(q, "service"), 0)}
  BY DEF Lookup
<1> HIDE DEF url
<1>2. next \in Phases /\ phase \in [Requests -> Phases]
  BY DEF Phases, RequestInv, ClientType
<1>3. outcome[q] = <<>>
  BY <1>1 DEF RequestInv, Outcomes, Decided, Kinds
<1>4. /\ \A m \in inflight : m.socket \in Sockets
      /\ \A r \in arrived : r.socket \in Sockets
  BY DEF RequestInv, ClientType
<1>5. /\ \A m \in inflight : m.socket.req # q
      /\ \A r \in arrived : r.socket.req # q
  BY <1>1, <1>4, SocketFields DEF RequestInv, Exchanged, Open, Kinds
<1>6. Polled' /\ Outcomes'
  BY <1>1, <1>2, <1>3, OtherKeepsPolled, MoveKeepsOutcomes DEF Kinds
<1>7. /\ \A m \in inflight' : m.socket \in Sockets
      /\ \A r \in arrived' : r.socket \in Sockets
      /\ Exchanged' /\ OneMessage'
  <2>1. CASE q \in AsyncRequests
    <3>1. \A p \in Requests : p # q => phase'[p] = phase[p]
      BY <1>1, <1>2
    <3>2. UNCHANGED <<inflight, arrived>>
      BY <1>1, <2>1
    <3>3. /\ \A m \in inflight : m.socket.req \in Requests
          /\ \A r \in arrived : r.socket.req \in Requests
      BY <1>4 DEF Sockets
    <3>4. /\ \A m \in inflight : phase'[m.socket.req] = phase[m.socket.req]
          /\ \A r \in arrived : phase'[r.socket.req] = phase[r.socket.req]
      BY <1>5, <3>1, <3>3
    <3>5. Exchanged'
      BY <3>2, <3>4 DEF RequestInv, Exchanged, Open
    <3>6. QED BY <1>4, <3>2, <3>5 DEF RequestInv, OneMessage
  <2>2. CASE q \notin AsyncRequests
    <3>1. /\ phase' = [phase EXCEPT ![q] = "service"]
          /\ inflight' = inflight \cup {RequestTo(url, Socket(q, "service"), 0)}
      BY <1>1, <2>2
    <3>2. \A m \in inflight : m.socket # Socket(q, "service")
      BY <1>5, SocketFields DEF Kinds
    <3>3. QED BY <1>1, <1>5, <3>1, <3>2, SendKeepsMessages DEF Kinds
  <2>3. QED BY <2>1, <2>2
<1>8. ClientType'
  BY <1>1, <1>2, <1>7 DEF RequestInv, ClientType, Phases
<1>9. QED BY <1>6, <1>7, <1>8 DEF RequestInv

\* A response waits for a request that is under way, and no other response
\* and no message of the socket does.
LEMMA ResponseAwaited ==
    ASSUME RequestInv, NEW r \in arrived
    PROVE  /\ r.socket \in Sockets
           /\ r.socket.req \in Requests /\ r.socket.kind \in Kinds
           /\ r.socket = Socket(r.socket.req, r.socket.kind)
           /\ phase[r.socket.req] = r.socket.kind
           /\ \A s \in arrived \ {r} : s.socket.req # r.socket.req
           /\ \A m \in inflight : m.socket # r.socket
<1>1. r.socket \in Sockets
  BY DEF RequestInv, ClientType
<1>2. /\ r.socket.req \in Requests /\ r.socket.kind \in Kinds
      /\ r.socket = Socket(r.socket.req, r.socket.kind)
  BY <1>1, SocketFields DEF Sockets
<1>3. phase[r.socket.req] = r.socket.kind
  BY DEF RequestInv, Exchanged, Open
<1>4. \A m \in inflight : m.socket # r.socket
  BY DEF RequestInv, OneMessage
<1>5. ASSUME NEW s \in arrived, s.socket.req = r.socket.req PROVE s = r
  <2>1. s.socket \in Sockets
    BY DEF RequestInv, ClientType
  <2>2. phase[s.socket.req] = s.socket.kind
    BY DEF RequestInv, Exchanged, Open
  <2>3. s.socket = Socket(s.socket.req, s.socket.kind)
    BY <1>2, <2>1, SocketFields
  <2>4. s.socket = r.socket
    BY <1>2, <1>3, <1>5, <2>2, <2>3
  <2>5. QED BY <2>4 DEF RequestInv, OneMessage
<1>6. QED BY <1>1, <1>2, <1>3, <1>4, <1>5

LEMMA SyncFutureKeepsRequestInv ==
    ASSUME RequestInv, NEW q \in Requests, NEW r \in arrived, SyncFuture(q, r)
    PROVE  RequestInv'
<1>1. /\ q \in SyncRequests /\ r.socket = Socket(q, "service")
      /\ phase' = [phase EXCEPT ![q] = "future"]
      /\ inflight' = inflight \cup {RequestTo(r.port, Socket(q, "future"), 0)}
      /\ arrived' = arrived \ {r}
      /\ UNCHANGED <<pollItems, outcome, stuck>>
  BY DEF SyncFuture
<1>2. phase \in [Requests -> Phases] /\ "future" \in Phases
  BY DEF Phases, RequestInv, ClientType
<1>3. q \notin AsyncRequests
  BY <1>1, RequestAssumption
<1>4. r.socket.req = q /\ r.socket.kind = "service" /\ phase[q] = "service"
  BY <1>1, SocketFields, ResponseAwaited DEF Kinds
<1>5. outcome[q] = <<>>
  BY <1>3, <1>4, NoOutcomeYet
<1>6. Polled' /\ Outcomes'
  BY <1>1, <1>2, <1>3, <1>5, OtherKeepsPolled, MoveKeepsOutcomes
<1>7. \A s \in arrived' : s.socket.req # q
  BY <1>1, <1>4, ResponseAwaited
<1>8. \A m \in inflight : m.socket # Socket(q, "future")
  BY <1>4, SocketFields DEF RequestInv, Exchanged, Kinds
<1>9. /\ \A m \in inflight' : m.socket \in Sockets
      /\ \A s \in arrived' : s.socket \in Sockets
      /\ Exchanged' /\ OneMessage'
  BY <1>1, <1>7, <1>8, SendKeepsMessages DEF Kinds
<1>10. ClientType'
  BY <1>1, <1>2, <1>9 DEF RequestInv, ClientType, Phases
<1>11. QED BY <1>6, <1>9, <1>10 DEF RequestInv

LEMMA SyncReturnKeepsRequestInv ==
    ASSUME RequestInv, NEW q \in Requests, NEW r \in arrived, SyncReturn(q, r)
    PROVE  RequestInv'
<1>1. PICK kind : Ended(q, kind, r)
  BY DEF SyncReturn
<1>2. /\ q \in SyncRequests /\ r.socket = Socket(q, phase[q])
      /\ arrived' = arrived \ {r}
      /\ UNCHANGED <<pollItems, stuck, inflight>>
  BY DEF SyncReturn
<1>3. phase' = [phase EXCEPT ![q] = "ended"]
  BY <1>1 DEF Ended
<1>4. phase \in [Requests -> Phases] /\ "ended" \in Phases
  BY DEF Phases, RequestInv, ClientType
<1>5. q \notin AsyncRequests
  BY <1>2, RequestAssumption
<1>6. r.socket.req = q /\ phase[q] \in Kinds
  BY <1>2, ResponseAwaited DEF Socket
<1>7. outcome[q] = <<>>
  BY <1>5, <1>6, NoOutcomeYet DEF Kinds
<1>8. Outcomes' /\ outcome' = [p \in Requests |-> outcome'[p]]
  BY <1>1, <1>2, <1>7, EndKeepsOutcomes
<1>9. Polled'
  BY <1>2, <1>3, <1>5, OtherKeepsPolled
<1>10. \A s \in arrived' : s.socket.req # q
  BY <1>2, <1>6, ResponseAwaited
<1>11. /\ \A m \in inflight' : m.socket \in Sockets
       /\ \A s \in arrived' : s.socket \in Sockets
       /\ Exchanged' /\ OneMessage'
  BY <1>2, <1>3, <1>10, EndKeepsMessages
<1>12. ClientType'
  BY <1>2, <1>3, <1>4, <1>8, <1>11 DEF RequestInv, ClientType, Phases
<1>13. QED BY <1>8, <1>9, <1>11, <1>12 DEF RequestInv

LEMMA SyncTimeoutKeepsRequestInv ==
    ASSUME RequestInv, NEW q \in Requests, SyncTimeout(q)
    PROVE  RequestInv'
<1>1. /\ q \in SyncRequests /\ phase[q] \in Kinds
      /\ ~\E r \in arrived : r.socket = Socket(q, phase[q])
      /\ Ended(q, "null", NoResponse(q))
      /\ UNCHANGED <<pollItems, stuck, inflight, arrived>>
  BY DEF SyncTimeout, Kinds, networkVars
<1>2. phase' = [phase EXCEPT ![q] = "ended"]
  BY <1>1 DEF Ended
<1>3. phase \in [Requests -> Phases] /\ "ended" \in Phases
  BY DEF Phases, RequestInv, ClientType
<1>4. q \notin AsyncRequests
  BY <1>1, RequestAssumption
<1>5. outcome[q] = <<>>
  BY <1>1, <1>4, NoOutcomeYet DEF Kinds
<1>6. Outcomes' /\ outcome' = [p \in Requests |-> outcome'[p]]
  BY <1>1, <1>5, EndKeepsOutcomes
<1>7. Polled'
  BY <1>1, <1>2, <1>4, OtherKeepsPolled
<1>8. \A r \in arrived : r.socket.req # q
  BY <1>1, ResponseAwaited
<1>9. /\ \A m \in inflight' : m.socket \in Sockets
      /\ \A s \in arrived' : s.socket \in Sockets
      /\ Exchanged' /\ OneMessage'
  BY <1>1, <1>2, <1>8, EndKeepsMessages
<1>10. ClientType'
  BY <1>1, <1>2, <1>3, <1>6, <1>9 DEF RequestInv, ClientType, Phases
<1>11. QED BY <1>6, <1>7, <1>9, <1>10 DEF RequestInv

\* The socket a request has just opened is polled after the others.
LEMMA AppendKeepsPolled ==
    ASSUME NEW rest \in Seq(Items), NEW q \in AsyncRequests, NEW kind \in Kinds,
           \A i \in 1 .. Len(rest) : rest[i].req # q /\ phase'[rest[i].req] = rest[i].kind,
           \A i, j \in 1 .. Len(rest) : rest[i].req = rest[j].req => i = j,
           pollItems' = Append(rest, Socket(q, kind)), phase'[q] = kind
    PROVE  Polled' /\ pollItems' \in Seq(Items)
<1>1. /\ Socket(q, kind) \in Items
      /\ Socket(q, kind).req = q /\ Socket(q, kind).kind = kind
  BY DEF Socket, Items
<1>2. /\ Len(rest) \in Nat /\ Len(pollItems') = Len(rest) + 1
      /\ pollItems' \in Seq(Items)
      /\ \A i \in 1 .. Len(rest) : pollItems'[i] = rest[i]
      /\ pollItems'[Len(rest) + 1] = Socket(q, kind)
  BY <1>1, AppendProperties
<1>3. \A i \in 1 .. Len(pollItems') :
         \/ i \in 1 .. Len(rest) /\ pollItems'[i] = rest[i]
         \/ i = Len(rest) + 1 /\ pollItems'[i] = Socket(q, kind)
  BY <1>2
<1>4. \A i \in 1 .. Len(pollItems') :
         phase'[pollItems'[i].req] = pollItems'[i].kind
  BY <1>1, <1>3
<1>5. \A i, j \in 1 .. Len(pollItems') :
         pollItems'[i].req = pollItems'[j].req => i = j
  BY <1>1, <1>3
<1>6. QED BY <1>2, <1>4, <1>5 DEF Polled, Open

LEMMA ProcessRequestKeepsRequestInv ==
    ASSUME RequestInv, NEW q \in Requests, ProcessRequest(q)
    PROVE  RequestInv'
<1>1. /\ ~stuck /\ q \in AsyncRequests /\ phase[q] = "posted"
      /\ phase' = [phase EXCEPT ![q] = "service"]
      /\ pollItems' = Append(pollItems, Socket(q, "service"))
      /\ inflight' = inflight \cup
            {RequestTo(lookedUp[q].url, Socket(q, "service"),
                       lookedUp[q].registrationTime)}
      /\ UNCHANGED <<outcome, stuck, arrived>>
  BY DEF ProcessRequest
<1>2. phase \in [Requests -> Phases] /\ "service" \in Phases
  BY DEF Phases, RequestInv, ClientType
<1>3. outcome[q] = <<>>
  BY <1>1, NoOutcomeYet
<1>4. Outcomes'
  BY <1>1, <1>2, <1>3, MoveKeepsOutcomes
<1>5. \A i \in 1 .. Len(pollItems) :
         /\ pollItems[i].req \in Requests /\ pollItems[i].req # q
         /\ phase[pollItems[i].req] = pollItems[i].kind
  BY <1>1, PolledRequest DEF Kinds, Requests
<1>6. \A i \in 1 .. Len(pollItems) :
         phase'[pollItems[i].req] = pollItems[i].kind
  BY <1>1, <1>2, <1>5
<1>7. Polled' /\ pollItems' \in Seq(Items)
  <2>1. pollItems \in Seq(Items)
    BY DEF RequestInv, ClientType, Items
  <2>2. phase'[q] = "service"
    BY <1>1, <1>2
  <2>3. \A i, j \in 1 .. Len(pollItems) :
           pollItems[i].req = pollItems[j].req => i = j
    BY DEF RequestInv, Polled
  <2>4. QED
    BY <1>1, <1>5, <1>6, <2>1, <2>2, <2>3, AppendKeepsPolled DEF Kinds
<1>8. /\ \A m \in inflight : m.socket.req # q
      /\ \A r \in arrived : r.socket.req # q
  BY <1>1, ResponseAwaited DEF RequestInv, Exchanged, Kinds
<1>9. \A m \in inflight : m.socket # Socket(q, "service")
  BY <1>8, SocketFields DEF Kinds
<1>10. /\ \A m \in inflight' : m.socket \in Sockets
       /\ \A s \in arrived' : s.socket \in Sockets
       /\ Exchanged' /\ OneMessage'
  BY <1>1, <1>8, <1>9, SendKeepsMessages DEF Kinds
<1>11. ClientType'
  BY <1>1, <1>2, <1>7, <1>10 DEF RequestInv, ClientType, Phases, Items
<1>12. QED BY <1>4, <1>7, <1>10, <1>11 DEF RequestInv

LEMMA ExpireKeepsRequestInv ==
    ASSUME RequestInv, NEW socket, Expire(socket)
    PROVE  RequestInv'
<1> DEFINE q == socket.req
           o == [kind |-> "timeout", at |-> phase[q], req |-> q, by |-> NoService]
<1>1. /\ ~stuck /\ Pending(socket)
      /\ outcome' = [outcome EXCEPT ![q] = Append(outcome[q], o)]
      /\ UNCHANGED inflight
  BY DEF Expire
<1> HIDE DEF o
<1>2. /\ socket \in Items /\ q \in AsyncRequests /\ q \in Requests
      /\ phase[q] = socket.kind /\ socket.kind \in Kinds
  BY <1>1, PolledRequest DEF Pending, Requests
<1>3. /\ phase \in [Requests -> Phases] /\ "ended" \in Phases
      /\ outcome = [p \in Requests |-> outcome[p]]
      /\ pollItems \in Seq(Items)
  BY DEF Phases, RequestInv, ClientType, Items
<1> HIDE DEF q
<1>4. outcome[q] = <<>>
  BY <1>1, <1>2, NoOutcomeYet DEF Kinds
<1>5. /\ outcome'[q] = <<o>>
      /\ \A p \in Requests : p # q => outcome'[p] = outcome[p]
      /\ outcome' = [p \in Requests |-> outcome'[p]]
  <2>1. Append(outcome[q], o) = <<o>>
    BY <1>4
  <2>2. outcome' = [outcome EXCEPT ![q] = <<o>>]
    BY <1>1, <2>1
  <2>3. QED BY <1>2, <1>3, <2>2
<1>6. outcome'[q] = <<outcome'[q][1]>>
  BY <1>5
<1>7. CASE pollItems[1] = socket
  <2>1. /\ pollItems' = Tail(pollItems)
        /\ phase' = [phase EXCEPT ![q] = "ended"]
        /\ arrived' = {r \in arrived : r.socket # socket}
        /\ UNCHANGED stuck
    BY <1>7 DEF Expire, q
  <2>2. /\ phase'[q] = "ended"
        /\ \A p \in Requests : p # q => phase'[p] = phase[p]
    BY <1>2, <1>3, <2>1
  <2>3. Outcomes'
    BY <1>5, <1>6, <2>1, <2>2 DEF RequestInv, Outcomes, Decided
  <2>4. pollItems # <<>>
    BY <1>1, <1>3, EmptySeq DEF Pending
  <2>5. /\ pollItems' \in Seq(Items) /\ Len(pollItems) \in Nat
        /\ Len(pollItems') = Len(pollItems) - 1
        /\ \A i \in 1 .. Len(pollItems') : pollItems'[i] = pollItems[i + 1]
    BY <1>3, <2>1, <2>4, HeadTailProperties
  <2>6. \A i \in 1 .. Len(pollItems') :
           /\ i + 1 \in 1 .. Len(pollItems) /\ i + 1 # 1
           /\ pollItems'[i] = pollItems[i + 1]
    BY <2>5
  <2>7. 1 \in 1 .. Len(pollItems)
    BY <2>4, <1>3, EmptySeq, <2>5
  <2>8. \A i \in 1 .. Len(pollItems') :
           pollItems'[i].req # q /\ pollItems'[i].req \in Requests
    BY <1>7, <2>6, <2>7, PolledRequest DEF RequestInv, Polled, q, Requests
  <2>9. \A i \in 1 .. Len(pollItems') :
           phase'[pollItems'[i].req] = pollItems'[i].kind
    BY <2>2, <2>6, <2>8 DEF RequestInv, Polled, Open
  <2>10. \A i, j \in 1 .. Len(pollItems') :
            pollItems'[i].req = pollItems'[j].req => i = j
    BY <2>5, <2>6 DEF RequestInv, Polled
  <2>11. Polled'
    BY <2>9, <2>10 DEF Polled, Open
  <2>12. socket = Socket(q, socket.kind)
    BY <1>2 DEF Socket, Items, q
  <2>13. \A r \in arrived' : r.socket.req # q
    BY <1>2, <2>1, <2>12, ResponseAwaited
  <2>14. /\ \A m \in inflight' : m.socket \in Sockets
         /\ \A s \in arrived' : s.socket \in Sockets
         /\ Exchanged' /\ OneMessage'
    BY <1>1, <1>2, <2>1, <2>13, EndKeepsMessages
  <2>15. ClientType'
    BY <1>2, <1>3, <1>5, <2>1, <2>5, <2>14 DEF RequestInv, ClientType, Phases, Items
  <2>16. QED BY <2>3, <2>11, <2>14, <2>15 DEF RequestInv
<1>8. CASE pollItems[1] # socket
  <2>1. stuck' = TRUE /\ UNCHANGED <<pollItems, phase, arrived>>
    BY <1>8 DEF Expire
  <2>2. Outcomes'
    BY <1>1, <1>2, <1>5, <1>6, <2>1 DEF RequestInv, Outcomes, Decided
  <2>3. Polled'
    BY <2>1 DEF RequestInv, Polled, Open
  <2>4. Exchanged' /\ OneMessage'
    BY <1>1, <2>1 DEF RequestInv, Exchanged, OneMessage, Open
  <2>5. ClientType'
    BY <1>1, <1>5, <2>1 DEF RequestInv, ClientType
  <2>6. QED BY <2>2, <2>3, <2>4, <2>5 DEF RequestInv
<1>9. QED BY <1>7, <1>8

LEMMA ReceiveFutureKeepsRequestInv ==
    ASSUME RequestInv, NEW r \in arrived, ReceiveFuture(r)
    PROVE  RequestInv'
<1> DEFINE q == r.socket.req
           rest == Without(r.socket)
<1>1. /\ ~stuck /\ Pending(r.socket)
      /\ pollItems' = Append(rest, Socket(q, "future"))
      /\ phase' = [phase EXCEPT ![q] = "future"]
      /\ inflight' = inflight \cup {RequestTo(r.port, Socket(q, "future"), 0)}
      /\ arrived' = arrived \ {r}
      /\ UNCHANGED <<stuck, outcome>>
  BY DEF ReceiveFuture, FutureItems
<1>2. /\ phase \in [Requests -> Phases] /\ "future" \in Phases
      /\ ClientType /\ Polled
  BY DEF Phases, RequestInv, ClientType
<1>3. /\ q \in Requests /\ r.socket.kind \in Kinds
      /\ r.socket = Socket(q, r.socket.kind) /\ phase[q] = r.socket.kind
      /\ \A m \in inflight : m.socket # r.socket
      /\ \A s \in arrived' : s.socket.req # q
  BY <1>1, ResponseAwaited
<1>4. q \in AsyncRequests
  BY <1>1, PolledRequest DEF Pending
<1>5. /\ rest \in Seq(Items)
      /\ \A i \in 1 .. Len(rest) :
            /\ rest[i].req # q
            /\ \E k \in 1 .. Len(pollItems) : rest[i] = pollItems[k]
      /\ \A i, j \in 1 .. Len(rest) : rest[i].req = rest[j].req => i = j
  BY <1>1, <1>2, WithoutItems
<1> HIDE DEF q, rest
<1>6. outcome[q] = <<>>
  BY <1>1, <1>3, NoOutcomeYet DEF Kinds
<1>7. Outcomes'
  BY <1>1, <1>2, <1>3, <1>6, MoveKeepsOutcomes
<1>8. \A i \in 1 .. Len(rest) :
         rest[i].req # q /\ phase'[rest[i].req] = rest[i].kind
  <2> SUFFICES ASSUME NEW i \in 1 .. Len(rest)
               PROVE  rest[i].req # q /\ phase'[rest[i].req] = rest[i].kind
    OBVIOUS
  <2>1. PICK k \in 1 .. Len(pollItems) : rest[i] = pollItems[k]
    BY <1>5
  <2>2. rest[i].req \in Requests /\ phase[rest[i].req] = rest[i].kind
    BY <2>1, PolledRequest DEF Requests
  <2>3. QED BY <1>1, <1>2, <1>5, <2>2
<1>9. phase'[q] = "future"
  BY <1>1, <1>2, <1>3
<1>10. Polled' /\ pollItems' \in Seq(Items)
  BY <1>1, <1>4, <1>5, <1>8, <1>9, AppendKeepsPolled DEF Kinds
<1>11. \A m \in inflight : m.socket # Socket(q, "future")
  <2>1. CASE r.socket.kind = "future"
    BY <1>3, <2>1
  <2>2. CASE r.socket.kind = "service"
    BY <1>3, <2>2, SocketFields DEF RequestInv, Exchanged, Kinds
  <2>3. QED BY <1>3, <2>1, <2>2 DEF Kinds
<1>12. /\ \A m \in inflight' : m.socket \in Sockets
       /\ \A s \in arrived' : s.socket \in Sockets
       /\ Exchanged' /\ OneMessage'
  BY <1>1, <1>3, <1>11, SendKeepsMessages DEF Kinds
<1>13. ClientType'
  BY <1>1, <1>2, <1>10, <1>12 DEF RequestInv, ClientType, Phases, Items
<1>14. QED BY <1>7, <1>10, <1>12, <1>13 DEF RequestInv

LEMMA ReceiveResponseKeepsRequestInv ==
    ASSUME RequestInv, NEW r \in arrived, ReceiveResponse(r)
    PROVE  RequestInv'
<1> DEFINE q == r.socket.req
           rest == Without(r.socket)
<1>1. PICK kind : Ended(q, kind, r)
  BY DEF ReceiveResponse
<1>2. /\ ~stuck /\ Pending(r.socket)
      /\ pollItems' = rest /\ arrived' = arrived \ {r}
      /\ UNCHANGED <<stuck, inflight>>
  BY DEF ReceiveResponse
<1>3. phase' = [phase EXCEPT ![q] = "ended"]
  BY <1>1 DEF Ended
<1>4. /\ phase \in [Requests -> Phases] /\ "ended" \in Phases
      /\ ClientType /\ Polled
  BY DEF Phases, RequestInv, ClientType
<1>5. /\ q \in Requests /\ phase[q] = r.socket.kind /\ r.socket.kind \in Kinds
      /\ \A s \in arrived' : s.socket.req # q
  BY <1>2, ResponseAwaited
<1>6. /\ rest \in Seq(Items)
      /\ \A i \in 1 .. Len(rest) :
            /\ rest[i].req # q
            /\ \E k \in 1 .. Len(pollItems) : rest[i] = pollItems[k]
      /\ \A i, j \in 1 .. Len(rest) : rest[i].req = rest[j].req => i = j
  BY <1>2, <1>4, WithoutItems
<1> HIDE DEF q, rest
<1>7. outcome[q] = <<>>
  BY <1>2, <1>5, NoOutcomeYet DEF Kinds
<1>8. Outcomes' /\ outcome' = [p \in Requests |-> outcome'[p]]
  BY <1>1, <1>2, <1>5, <1>7, EndKeepsOutcomes
<1>9. \A i \in 1 .. Len(rest) : phase'[rest[i].req] = rest[i].kind
  <2> SUFFICES ASSUME NEW i \in 1 .. Len(rest)
               PROVE  phase'[rest[i].req] = rest[i].kind
    OBVIOUS
  <2>1. PICK k \in 1 .. Len(pollItems) : rest[i] = pollItems[k]
    BY <1>6
  <2>2. rest[i].req \in Requests /\ phase[rest[i].req] = rest[i].kind
    BY <2>1, PolledRequest DEF Requests
  <2>3. QED BY <1>3, <1>4, <1>6, <2>2
<1>10. Polled'
  BY <1>2, <1>6, <1>9 DEF Polled, Open
<1>11. /\ \A m \in inflight' : m.socket \in Sockets
       /\ \A s \in arrived' : s.socket \in Sockets
       /\ Exchanged' /\ OneMessage'
  BY <1>2, <1>3, <1>5, EndKeepsMessages
<1>12. ClientType'
  BY <1>2, <1>3, <1>4, <1>6, <1>8, <1>11 DEF RequestInv, ClientType, Phases, Items
<1>13. QED BY <1>8, <1>10, <1>11, <1>12 DEF RequestInv

-----------------------------------------------------------------------------
\* What a provider does to requests, whatever it does.
LEMMA ProviderKeepsRequestInv ==
    ASSUME RequestInv, NEW u, NEW m \in inflight,
           \/ Reject(u, m) \/ Answer(u, m) \/ Promise(u, m)
           \/ PromiseNoPort(u, m) \/ PromiseBlocked(u, m)
    PROVE  RequestInv'
<1>1. ASSUME NEW response, response.socket = m.socket, Reply(m, response),
             UNCHANGED clientVars
      PROVE  RequestInv'
  BY <1>1, ReplyKeepsRequestInv DEF Reply
<1>2. \A time, port, req, by : Response(m.socket, time, port, req, by).socket = m.socket
  BY DEF Response
<1>3. CASE Reject(u, m)
  BY <1>1, <1>2, <1>3 DEF Reject
<1>4. CASE Answer(u, m)
  BY <1>1, <1>2, <1>4 DEF Answer
<1>5. CASE Promise(u, m)
  BY <1>1, <1>2, <1>5 DEF Promise
<1>6. CASE PromiseNoPort(u, m)
  BY <1>1, <1>2, <1>6 DEF PromiseNoPort
<1>7. CASE PromiseBlocked(u, m)
  BY <1>7, LossKeepsRequestInv DEF PromiseBlocked
<1>8. QED BY <1>3, <1>4, <1>5, <1>6, <1>7

LEMMA RequestInvInitial == SystemInit => RequestInv
<1> SUFFICES ASSUME SystemInit PROVE RequestInv
  OBVIOUS
<1>1. ClientType
  BY EmptySeq DEF SystemInit, ClientType
<1>2. Polled /\ Exchanged /\ OneMessage /\ Outcomes
  BY DEF SystemInit, Polled, Exchanged, OneMessage, Outcomes
<1>3. QED BY <1>1, <1>2 DEF RequestInv

LEMMA RequestInvStep == RequestInv /\ [SystemNext]_systemVars => RequestInv'
<1> SUFFICES ASSUME RequestInv, [SystemNext]_systemVars PROVE RequestInv'
  OBVIOUS
<1>1. CASE UNCHANGED <<clientVars, inflight, arrived>>
  BY <1>1, LossKeepsRequestInv
<1>2. ASSUME NEW u, NEW s, BindService(s, u) PROVE RequestInv'
  BY <1>1, <1>2 DEF BindService, networkVars
<1>3. ASSUME NEW u, ListService(u) PROVE RequestInv'
  BY <1>1, <1>3 DEF ListService, networkVars
<1>4. ASSUME NEW u, WithdrawService(u) \/ Crash(u) PROVE RequestInv'
  BY <1>4, LossKeepsRequestInv DEF WithdrawService, Crash, Kept
<1>5. ASSUME NEW unreg, HandleNotice(unreg) PROVE RequestInv'
  BY <1>1, <1>5 DEF HandleNotice
<1>6. ASSUME NEW p, FutureNotWanted(p) PROVE RequestInv'
  BY <1>6, LossKeepsRequestInv DEF FutureNotWanted, Kept
<1>7. ASSUME NEW p, NEW m \in inflight, SendFuture(p, m) PROVE RequestInv'
  <2> DEFINE response == Response(m.socket, 0, NoPort, futures[p].req, futures[p].by)
  <2>1. response.socket = m.socket
    BY DEF Response
  <2>2. /\ UNCHANGED clientVars
        /\ inflight' \subseteq inflight \ {m}
        /\ arrived' = IF Open(m.socket) THEN arrived \cup {response} ELSE arrived
    BY <1>7 DEF SendFuture, Kept
  <2>3. QED BY <2>1, <2>2, ReplyKeepsRequestInv
<1>8. ASSUME NEW q, DeadlinePasses(q) PROVE RequestInv'
  <2>1. UNCHANGED <<phase, pollItems, stuck, outcome, inflight, arrived>>
    BY <1>8 DEF DeadlinePasses, networkVars
  <2>2. ClientType' /\ Polled'
    BY <2>1 DEF RequestInv, ClientType, Polled, Open
  <2>3. Exchanged' /\ OneMessage' /\ Outcomes'
    BY <2>1 DEF RequestInv, Exchanged, OneMessage, Outcomes, Decided, Open
  <2>4. QED BY <2>2, <2>3 DEF RequestInv
<1>9. ASSUME NEW q \in Requests, ManagerStep(q) \/ CallerStep(q) PROVE RequestInv'
  BY <1>9, ProcessRequestKeepsRequestInv, ExpireKeepsRequestInv,
     ReceiveFutureKeepsRequestInv, ReceiveResponseKeepsRequestInv,
     SyncFutureKeepsRequestInv, SyncReturnKeepsRequestInv,
     SyncTimeoutKeepsRequestInv
  DEF ManagerStep, CallerStep
<1>10. CASE UNCHANGED systemVars
  BY <1>1, <1>10 DEF systemVars, networkVars
<1>11. QED
  BY <1>2, <1>3, <1>4, <1>5, <1>6, <1>7, <1>8, <1>9, <1>10,
     ProviderKeepsRequestInv, LookupKeepsRequestInv DEF SystemNext

\* A requestor gets at most one callback for a request and a caller at most
\* one result, whatever providers do, however many requests are under way,
\* and also when the request manager's thread is lost.
THEOREM OneOutcomeHolds == SystemSpec => []OneOutcome
<1>1. RequestInv => OneOutcome
  <2> SUFFICES ASSUME RequestInv, NEW q \in Requests PROVE Len(outcome[q]) <= 1
    BY DEF OneOutcome
  <2>1. CASE outcome[q] = <<>>
    BY <2>1
  <2>2. CASE outcome[q] = <<outcome[q][1]>>
    <3>1. \E o : outcome[q] = <<o>>
      BY <2>2, Zenon
    <3>2. PICK o : outcome[q] = <<o>>
      BY <3>1
    <3>3. QED BY ONLY <3>2
  <2>3. QED BY <2>1, <2>2 DEF RequestInv, Outcomes, Decided
<1>2. QED
  BY <1>1, RequestInvInitial, RequestInvStep, PTL DEF SystemSpec

(***************************************************************************)
(* The directory in the composed system.  What is asked of it is always a  *)
(* request ServiceDirectory allows, so that everything proved of           *)
(* ServiceDirectory holds here.                                            *)
(***************************************************************************)

\* What a step changes, by the actions that may change it.
ServedMoves ==
    \/ UNCHANGED <<clock, started, served>>
    \/ \E u \in Urls : \/ \E s \in Offers[u] : BindService(s, u)
                       \/ ListService(u) \/ WithdrawService(u) \/ Crash(u)
                       \/ \E m \in inflight : PromiseBlocked(u, m)
NoticesMove ==
    \/ UNCHANGED notices
    \/ \E u \in Urls : WithdrawService(u)
    \/ \E unreg \in notices : HandleNotice(unreg)
    \/ \E r \in arrived : ReceiveResponse(r)
LookedUpMoves == UNCHANGED lookedUp \/ \E q \in Requests : Lookup(q)
DirectoryMoves ==
    \/ UNCHANGED vars
    \/ \E u \in Urls : ListService(u)
    \/ \E unreg \in notices : HandleNotice(unreg)
    \/ \E q \in Requests : Lookup(q)
Moves == ServedMoves /\ NoticesMove /\ LookedUpMoves /\ DirectoryMoves

LEMMA StepMoves == [SystemNext]_systemVars => Moves
<1> SUFFICES ASSUME [SystemNext]_systemVars PROVE Moves
  OBVIOUS
<1> USE DEF Moves
<1>1. CASE UNCHANGED <<clock, started, served, notices, lookedUp, vars>>
  BY <1>1 DEF ServedMoves, NoticesMove, LookedUpMoves, DirectoryMoves
<1>2. ASSUME NEW u \in Urls, NEW s \in Offers[u], BindService(s, u) PROVE Moves
  <2>1. UNCHANGED <<notices, lookedUp, vars>>
    BY <1>2 DEF BindService, networkVars, clientVars
  <2>2. QED
    BY <1>2, <2>1 DEF ServedMoves, NoticesMove, LookedUpMoves, DirectoryMoves
<1>3. ASSUME NEW u \in Urls, ListService(u) PROVE Moves
  <2>1. UNCHANGED <<notices, lookedUp>>
    BY <1>3 DEF ListService, networkVars, clientVars
  <2>2. QED
    BY <1>3, <2>1 DEF ServedMoves, NoticesMove, LookedUpMoves, DirectoryMoves
<1>4. ASSUME NEW u \in Urls, WithdrawService(u) PROVE Moves
  <2>1. UNCHANGED <<vars, lookedUp>>
    BY <1>4 DEF WithdrawService, clientVars
  <2>2. QED
    BY <1>4, <2>1 DEF ServedMoves, NoticesMove, LookedUpMoves, DirectoryMoves
<1>5. ASSUME NEW u \in Urls, Crash(u) PROVE Moves
  <2>1. UNCHANGED <<vars, lookedUp, notices>>
    BY <1>5 DEF Crash, clientVars
  <2>2. QED
    BY <1>5, <2>1 DEF ServedMoves, NoticesMove, LookedUpMoves, DirectoryMoves
<1>6. ASSUME NEW unreg \in notices, HandleNotice(unreg) PROVE Moves
  <2>1. UNCHANGED <<clock, started, served, lookedUp>>
    BY <1>6 DEF HandleNotice, clientVars, providerVars
  <2>2. QED
    BY <1>6, <2>1 DEF ServedMoves, NoticesMove, LookedUpMoves, DirectoryMoves
<1>7. ASSUME NEW u \in Urls, NEW m \in inflight, PromiseBlocked(u, m) PROVE Moves
  <2>1. UNCHANGED <<vars, lookedUp, notices>>
    BY <1>7 DEF PromiseBlocked, clientVars
  <2>2. QED
    BY <1>7, <2>1 DEF ServedMoves, NoticesMove, LookedUpMoves, DirectoryMoves
<1>8. ASSUME NEW u \in Urls, NEW m \in inflight,
             Reject(u, m) \/ Answer(u, m) \/ Promise(u, m) \/ PromiseNoPort(u, m)
      PROVE  Moves
  BY <1>1, <1>8 DEF Reject, Answer, Promise, PromiseNoPort, clientVars, providerVars
<1>9. ASSUME NEW p, NEW m, FutureNotWanted(p) \/ SendFuture(p, m) PROVE Moves
  BY <1>1, <1>9 DEF FutureNotWanted, SendFuture, clientVars
<1>10. ASSUME NEW q \in Requests, Lookup(q) PROVE Moves
  <2>1. UNCHANGED <<clock, started, served, notices>>
    BY <1>10 DEF Lookup, providerVars
  <2>2. QED
    BY <1>10, <2>1 DEF ServedMoves, NoticesMove, LookedUpMoves, DirectoryMoves
<1>11. ASSUME NEW r \in arrived, ReceiveResponse(r) PROVE Moves
  <2>1. UNCHANGED <<clock, started, served, lookedUp, vars>>
    BY <1>11 DEF ReceiveResponse, providerVars
  <2>2. QED
    BY <1>11, <2>1 DEF ServedMoves, NoticesMove, LookedUpMoves, DirectoryMoves
<1>12. ASSUME NEW q \in Requests, DeadlinePasses(q) PROVE Moves
  BY <1>1, <1>12 DEF DeadlinePasses, providerVars, networkVars
<1>13. ASSUME NEW q \in Requests, ManagerStep(q) PROVE Moves
  <2>1. CASE ProcessRequest(q)
    BY <1>1, <2>1 DEF ProcessRequest, providerVars
  <2>2. ASSUME NEW socket, Expire(socket) PROVE Moves
    BY <1>1, <2>2 DEF Expire, providerVars
  <2>3. ASSUME NEW r \in arrived, ReceiveFuture(r) PROVE Moves
    BY <1>1, <2>3 DEF ReceiveFuture, providerVars
  <2>4. QED BY <1>11, <1>13, <2>1, <2>2, <2>3 DEF ManagerStep
<1>14. ASSUME NEW q \in Requests, CallerStep(q) PROVE Moves
  <2>1. ASSUME NEW r, SyncFuture(q, r) \/ SyncReturn(q, r) PROVE Moves
    BY <1>1, <2>1 DEF SyncFuture, SyncReturn, providerVars
  <2>2. CASE SyncTimeout(q)
    BY <1>1, <2>2 DEF SyncTimeout, providerVars, networkVars
  <2>3. QED BY <1>14, <2>1, <2>2 DEF CallerStep
<1>15. CASE UNCHANGED systemVars
  BY <1>1, <1>15 DEF systemVars, networkVars, clientVars, providerVars
<1>16. QED
  BY <1>2, <1>3, <1>4, <1>5, <1>6, <1>7, <1>8, <1>9, <1>10, <1>12, <1>13,
     <1>14, <1>15 DEF SystemNext

Provided == [id : ServiceIDs, timestamp : Timestamps, listed : BOOLEAN,
             blocked : BOOLEAN]

\* A provider offers a service of its port, and was bound in the past.
ProvidersType ==
    /\ clock \in Nat /\ TicksPerSecond <= clock
    /\ served = [u \in Urls |-> served[u]]
    /\ \A u \in Urls : Bound(u) =>
          /\ served[u] \in Provided /\ served[u].id \in Offers[u]
          /\ TicksPerSecond <= served[u].timestamp
          /\ served[u].timestamp < clock

NoticesType == \A n \in notices : n \in ServiceUnregistration /\ n.domain = OwnDomain

\* What the directory told the caller of q.
LookedUpType ==
    /\ lookedUp = [q \in Requests |-> lookedUp[q]]
    /\ \A q \in Requests : phase[q] # "new" =>
          /\ lookedUp[q].url \in Urls
          /\ lookedUp[q].registrationTime \in 0 .. Secs(MaxTime)

SystemType ==
    TypeOK /\ RequestInv /\ ProvidersType /\ NoticesType /\ LookedUpType

\* The fields of a provider, and what setting one of them leaves alone.
LEMMA ProvidedFields ==
    ASSUME NEW p \in Provided
    PROVE  /\ p.id \in ServiceIDs /\ p.timestamp \in Timestamps
           /\ [p EXCEPT !.listed = TRUE] \in Provided
           /\ [p EXCEPT !.listed = TRUE].id = p.id
           /\ [p EXCEPT !.listed = TRUE].timestamp = p.timestamp
           /\ [p EXCEPT !.blocked = TRUE] \in Provided
           /\ [p EXCEPT !.blocked = TRUE].id = p.id
           /\ [p EXCEPT !.blocked = TRUE].timestamp = p.timestamp
           /\ [p EXCEPT !.blocked = TRUE].listed = p.listed
  BY DEF Provided

\* A service registration of a provider at u.
ServiceReg(u) ==
    [type |-> "SERVICE", id |-> served[u].id, url |-> u,
     domain |-> OwnDomain, timestamp |-> served[u].timestamp]

LEMMA ServiceRegFields ==
    ASSUME ProvidersType, NEW u \in Urls, Bound(u)
    PROVE  /\ ServiceReg(u) \in ServiceRegistration
           /\ ServiceReg(u).id = served[u].id /\ ServiceReg(u).url = u
           /\ ServiceReg(u).domain = OwnDomain
           /\ ServiceReg(u).timestamp = served[u].timestamp
<1>1. served[u].id \in ServiceIDs /\ served[u].timestamp \in Timestamps
  BY ProvidedFields DEF ProvidersType
<1>2. QED BY <1>1, DomainAssumption DEF ServiceReg, ServiceRegistration

LEMMA UnregistrationFields ==
    ASSUME NEW id, NEW url, NEW time
    PROVE  LET n == Unregistration(id, url, time)
           IN  /\ n.id = id /\ n.url = url /\ n.domain = OwnDomain
               /\ n.registration_time = time
               /\ id \in ServiceIDs /\ url \in Urls /\ time \in 0 .. Secs(MaxTime)
                     => n \in ServiceUnregistration
  BY DomainAssumption DEF Unregistration, ServiceUnregistration

\* Every step is a request to the directory, or none.
LEMMA DirectoryStep ==
    ASSUME SystemType, [SystemNext]_systemVars
    PROVE  [Next]_vars
<1>1. ASSUME NEW u \in Urls, ListService(u) PROVE [Next]_vars
  <2>1. /\ Bound(u)
        /\ RegisterService(ServiceReg(u)) \/ UNCHANGED vars
    BY <1>1 DEF ListService, ServiceReg
  <2>2. ServiceReg(u) \in ServiceRegistration
    BY <2>1, ServiceRegFields DEF SystemType
  <2>3. QED BY <2>1, <2>2 DEF Next
<1>2. ASSUME NEW unreg \in notices, HandleNotice(unreg) PROVE [Next]_vars
  <2>1. unreg \in ServiceUnregistration
    BY DEF SystemType, NoticesType
  <2>2. QED BY <1>2, <2>1 DEF HandleNotice, Next
<1>3. ASSUME NEW q \in Requests, Lookup(q) PROVE [Next]_vars
  <2>1. LookupService(OwnDomain, ServiceOf[q]) /\ ServiceOf[q] \in ServiceIDs
    BY <1>3, RequestAssumption DEF Lookup
  <2>2. QED BY <2>1, DomainAssumption DEF Next
<1>4. QED BY <1>1, <1>2, <1>3, StepMoves DEF Moves, DirectoryMoves

LEMMA ProvidersTypeStep ==
    ASSUME SystemType, [SystemNext]_systemVars
    PROVE  ProvidersType'
<1>1. ProvidersType /\ TicksPerSecond \in Nat
  BY TimeAssumption DEF SystemType
<1>2. CASE UNCHANGED <<clock, served>>
  BY <1>1, <1>2 DEF ProvidersType, Bound
<1>3. ASSUME NEW u \in Urls, NEW s \in Offers[u], BindService(s, u)
      PROVE  ProvidersType'
  <2> DEFINE p == [id |-> s, timestamp |-> clock, listed |-> FALSE, blocked |-> FALSE]
  <2>1. /\ clock <= MaxTime /\ clock' = clock + 1
        /\ served' = [served EXCEPT ![u] = p]
    BY <1>3 DEF BindService
  <2>2. s \in ServiceIDs
    BY RequestAssumption
  <2>3. clock \in Timestamps
    BY <1>1, <2>1, TimeAssumption DEF Timestamps, ProvidersType
  <2>4. p \in Provided /\ p.id = s /\ p.timestamp = clock
    BY <2>2, <2>3 DEF Provided
  <2> HIDE DEF p
  <2>5. /\ served' = [v \in Urls |-> served'[v]] /\ served'[u] = p
        /\ \A v \in Urls : v # u => served'[v] = served[v]
    BY <1>1, <2>1 DEF ProvidersType
  <2>6. clock' \in Nat /\ TicksPerSecond <= clock' /\ clock < clock'
    BY <1>1, <2>1 DEF ProvidersType
  <2>7. ASSUME NEW v \in Urls, Bound(v)'
        PROVE  /\ served'[v] \in Provided /\ served'[v].id \in Offers[v]
               /\ TicksPerSecond <= served'[v].timestamp
               /\ served'[v].timestamp < clock'
    <3>1. CASE v = u
      BY <1>1, <2>1, <2>4, <2>5, <3>1 DEF ProvidersType
    <3>2. CASE v # u
      <4>1. served'[v] = served[v] /\ Bound(v)
        BY <2>5, <2>7, <3>2 DEF Bound
      <4>2. served[v].timestamp \in Timestamps
        BY <1>1, <4>1, ProvidedFields DEF ProvidersType
      <4>3. served[v].timestamp \in Nat
        BY <4>2, TimeAssumption DEF Timestamps
      <4>4. QED BY <1>1, <2>1, <4>1, <4>3 DEF ProvidersType
    <3>3. QED BY <3>1, <3>2
  <2>8. QED BY <2>5, <2>6, <2>7 DEF ProvidersType
<1>4. ASSUME NEW u \in Urls, WithdrawService(u) \/ Crash(u)
      PROVE  ProvidersType'
  <2>1. served' = [served EXCEPT ![u] = NoService] /\ UNCHANGED clock
    BY <1>4 DEF WithdrawService, Crash
  <2>2. /\ served' = [v \in Urls |-> served'[v]] /\ ~Bound(u)'
        /\ \A v \in Urls : v # u => served'[v] = served[v]
    BY <1>1, <2>1 DEF ProvidersType, Bound
  <2>3. QED BY <1>1, <2>1, <2>2 DEF ProvidersType, Bound
<1>5. ASSUME NEW u \in Urls, NEW p \in Provided, Bound(u),
             served' = [served EXCEPT ![u] = p], UNCHANGED clock,
             p.id = served[u].id, p.timestamp = served[u].timestamp
      PROVE  ProvidersType'
  <2>1. /\ served' = [v \in Urls |-> served'[v]] /\ served'[u] = p
        /\ \A v \in Urls : v # u => served'[v] = served[v]
    BY <1>1, <1>5 DEF ProvidersType
  <2>2. QED BY <1>1, <1>5, <2>1 DEF ProvidersType, Bound
<1>6. ASSUME NEW u \in Urls, ListService(u) PROVE ProvidersType'
  <2>1. /\ Bound(u) /\ UNCHANGED clock
        /\ served' = [served EXCEPT ![u] = [served[u] EXCEPT !.listed = TRUE]]
    BY <1>6 DEF ListService
  <2>2. served[u] \in Provided
    BY <1>1, <2>1 DEF ProvidersType
  <2>3. QED BY <1>5, <2>1, <2>2, ProvidedFields
<1>7. ASSUME NEW u \in Urls, NEW m, PromiseBlocked(u, m) PROVE ProvidersType'
  <2>1. /\ Bound(u) /\ UNCHANGED clock
        /\ served' = [served EXCEPT ![u] = [served[u] EXCEPT !.blocked = TRUE]]
    BY <1>7 DEF PromiseBlocked, Takes
  <2>2. served[u] \in Provided
    BY <1>1, <2>1 DEF ProvidersType
  <2>3. QED BY <1>5, <2>1, <2>2, ProvidedFields
<1>8. QED BY <1>2, <1>3, <1>4, <1>6, <1>7, StepMoves DEF Moves, ServedMoves

LEMMA NoticesTypeStep ==
    ASSUME SystemType, [SystemNext]_systemVars
    PROVE  NoticesType'
<1>1. CASE notices' \subseteq notices
  BY <1>1 DEF SystemType, NoticesType
<1>2. ASSUME NEW u \in Urls, WithdrawService(u) PROVE NoticesType'
  <2>1. /\ Bound(u)
        /\ notices' = notices \cup {Unregistration(served[u].id, u, RegTime(u))}
    BY <1>2 DEF WithdrawService
  <2>2. served[u].id \in ServiceIDs /\ served[u].timestamp \in Timestamps
    BY <2>1, ProvidedFields DEF SystemType, ProvidersType
  <2>3. RegTime(u) \in 0 .. Secs(MaxTime)
    BY <2>2, TimeCarried DEF RegTime
  <2>4. QED BY <2>1, <2>2, <2>3, UnregistrationFields DEF SystemType, NoticesType
<1>3. ASSUME NEW unreg, HandleNotice(unreg) PROVE NoticesType'
  BY <1>1, <1>3 DEF HandleNotice
<1>4. ASSUME NEW r \in arrived, ReceiveResponse(r) PROVE NoticesType'
  <2> DEFINE q == r.socket.req
  <2>1. notices' \subseteq notices \cup
           {Unregistration(ServiceOf[q], lookedUp[q].url, lookedUp[q].registrationTime)}
    BY <1>4 DEF ReceiveResponse, StaleEntry
  <2>2. q \in Requests /\ phase[q] # "new"
    BY ResponseAwaited DEF SystemType, Kinds
  <2>3. /\ ServiceOf[q] \in ServiceIDs /\ lookedUp[q].url \in Urls
        /\ lookedUp[q].registrationTime \in 0 .. Secs(MaxTime)
    BY <2>2, RequestAssumption DEF SystemType, LookedUpType
  <2> HIDE DEF q
  <2>4. QED BY <2>1, <2>3, UnregistrationFields DEF SystemType, NoticesType
<1>5. QED BY <1>1, <1>2, <1>3, <1>4, StepMoves DEF Moves, NoticesMove

\* A request that has not been made does nothing.
LEMMA OnlyLookupStarts ==
    ASSUME RequestInv, [SystemNext]_systemVars
    PROVE  \/ \E q \in Requests : Lookup(q)
           \/ \A q \in Requests : phase[q] = "new" <=> phase'[q] = "new"
<1> DEFINE Still == \A p \in Requests : phase[p] = "new" <=> phase'[p] = "new"
<1>1. ASSUME UNCHANGED phase PROVE Still
  BY <1>1
<1>2. ASSUME NEW q \in Requests, NEW new, new # "new", phase[q] # "new",
             phase' = [phase EXCEPT ![q] = new]
      PROVE  Still
  <2>1. phase \in [Requests -> Phases]
    BY DEF RequestInv, ClientType, Phases
  <2>2. \A p \in Requests : p # q => phase'[p] = phase[p]
    BY <1>2, <2>1
  <2>3. phase'[q] = new
    BY <1>2, <2>1
  <2>4. QED BY <1>2, <2>2, <2>3
<1>3. ASSUME NEW u, ListService(u) \/ WithdrawService(u) \/ Crash(u) PROVE Still
  BY <1>1, <1>3 DEF ListService, WithdrawService, Crash, clientVars
<1>4. ASSUME NEW u, NEW s, BindService(s, u) PROVE Still
  BY <1>1, <1>4 DEF BindService, clientVars
<1>5. ASSUME NEW unreg, HandleNotice(unreg) PROVE Still
  BY <1>1, <1>5 DEF HandleNotice, clientVars
<1>6. ASSUME NEW u, NEW m,
             \/ Reject(u, m) \/ Answer(u, m) \/ Promise(u, m)
             \/ PromiseNoPort(u, m) \/ PromiseBlocked(u, m)
      PROVE  Still
  BY <1>1, <1>6
  DEF Reject, Answer, Promise, PromiseNoPort, PromiseBlocked, clientVars
<1>7. ASSUME NEW p, FutureNotWanted(p) PROVE Still
  BY <1>1, <1>7 DEF FutureNotWanted, clientVars
<1>8. ASSUME NEW p, NEW m, SendFuture(p, m) PROVE Still
  BY <1>1, <1>8 DEF SendFuture, clientVars
<1>9. ASSUME NEW q, DeadlinePasses(q) PROVE Still
  BY <1>1, <1>9 DEF DeadlinePasses
<1>10. ASSUME NEW q \in Requests, ManagerStep(q) PROVE Still
  <2>1. CASE ProcessRequest(q)
    BY <1>2, <2>1 DEF ProcessRequest
  <2>2. ASSUME NEW socket, Expire(socket) PROVE Still
    <3>1. \/ UNCHANGED phase
          \/ phase' = [phase EXCEPT ![socket.req] = "ended"]
      BY <2>2 DEF Expire
    <3>2. socket.req \in Requests /\ phase[socket.req] # "new"
      BY <2>2, PolledRequest DEF Expire, Pending, Kinds, Requests
    <3>3. QED BY <1>1, <1>2, <3>1, <3>2
  <2>3. ASSUME NEW r \in arrived, ReceiveFuture(r) \/ ReceiveResponse(r)
        PROVE  Still
    <3>1. r.socket.req \in Requests /\ phase[r.socket.req] # "new"
      BY ResponseAwaited DEF Kinds
    <3>2. \E new : new # "new" /\ phase' = [phase EXCEPT ![r.socket.req] = new]
      BY <2>3 DEF ReceiveFuture, ReceiveResponse, Ended
    <3>3. QED BY <1>2, <3>1, <3>2
  <2>4. QED BY <1>10, <2>1, <2>2, <2>3 DEF ManagerStep
<1>11. ASSUME NEW q \in Requests, CallerStep(q) PROVE Still
  <2>1. ASSUME NEW r \in arrived, SyncFuture(q, r) \/ SyncReturn(q, r)
        PROVE  Still
    <3>1. r.socket = Socket(q, "service") \/ r.socket = Socket(q, phase[q])
      BY <2>1 DEF SyncFuture, SyncReturn
    <3>2. r.socket.req = q
      BY <3>1 DEF Socket
    <3>3. phase[q] # "new"
      BY <3>2, ResponseAwaited DEF Kinds
    <3>4. \E new : new # "new" /\ phase' = [phase EXCEPT ![q] = new]
      BY <2>1 DEF SyncFuture, SyncReturn, Ended
    <3>5. QED BY <1>2, <3>3, <3>4
  <2>2. CASE SyncTimeout(q)
    BY <1>2, <2>2 DEF SyncTimeout, Ended
  <2>3. QED BY <1>11, <2>1, <2>2 DEF CallerStep
<1>12. ASSUME UNCHANGED systemVars PROVE Still
  BY <1>1, <1>12 DEF systemVars, clientVars
<1> HIDE DEF Still
<1>13. Still \/ \E q \in Requests : Lookup(q)
  BY <1>3, <1>5, <1>6, <1>7, <1>9, <1>10, <1>11, <1>12, <1>4, <1>8
  DEF SystemNext
<1>14. QED BY <1>13 DEF Still

\* What a lookup tells the caller.
LEMMA LookupFields ==
    ASSUME SystemType, NEW q \in Requests, Lookup(q)
    PROVE  LET url == serviceMap[OwnDomain][ServiceOf[q]]
           IN  /\ url \in Urls /\ ServiceOf[q] \in ServiceIDs
               /\ lookedUp'[q].url = url
               /\ lookedUp'[q].registrationTime =
                     Secs(Instance(registrationInstanceMap, url))
               /\ Instance(registrationInstanceMap, url) \in Timestamps \cup {0}
               /\ lookedUp' = [p \in Requests |-> lookedUp'[p]]
               /\ \A p \in Requests : p # q => /\ lookedUp'[p] = lookedUp[p]
                                               /\ phase'[p] = phase[p]
<1> DEFINE url == serviceMap[OwnDomain][ServiceOf[q]]
           told == [url |-> url, registrationTime |->
                       Secs(Instance(registrationInstanceMap, url))]
<1>1. /\ url # NoUrl /\ lookedUp' = [lookedUp EXCEPT ![q] = told]
      /\ phase' = [phase EXCEPT ![q] = IF q \in AsyncRequests THEN "posted"
                                         ELSE "service"]
  BY DEF Lookup, LookupService
<1>2. ServiceOf[q] \in ServiceIDs
  BY RequestAssumption
<1>3. url \in Urls
  BY <1>1, <1>2, DomainAssumption DEF SystemType, TypeOK
<1>4. /\ told.url = url
      /\ told.registrationTime = Secs(Instance(registrationInstanceMap, url))
  OBVIOUS
<1>5. Instance(registrationInstanceMap, url) \in Timestamps \cup {0}
  BY <1>3 DEF SystemType, TypeOK, Instance
<1> HIDE DEF told
<1>6. /\ lookedUp'[q] = told
      /\ lookedUp' = [p \in Requests |-> lookedUp'[p]]
      /\ \A p \in Requests : p # q => lookedUp'[p] = lookedUp[p]
  BY <1>1 DEF SystemType, LookedUpType
<1>7. \A p \in Requests : p # q => phase'[p] = phase[p]
  BY <1>1 DEF SystemType, RequestInv, ClientType
<1>8. QED BY <1>2, <1>3, <1>4, <1>5, <1>6, <1>7

LEMMA LookedUpTypeStep ==
    ASSUME SystemType, [SystemNext]_systemVars
    PROVE  LookedUpType'
<1>1. ASSUME NEW q \in Requests, Lookup(q) PROVE LookedUpType'
  <2>1. /\ lookedUp'[q].url \in Urls
        /\ lookedUp'[q].registrationTime \in 0 .. Secs(MaxTime)
    BY <1>1, LookupFields, TimeCarried
  <2>2. /\ lookedUp' = [p \in Requests |-> lookedUp'[p]]
        /\ \A p \in Requests : p # q => /\ lookedUp'[p] = lookedUp[p]
                                        /\ phase'[p] = phase[p]
    BY <1>1, LookupFields
  <2>3. QED BY <2>1, <2>2 DEF SystemType, LookedUpType
<1>2. CASE ~\E q \in Requests : Lookup(q)
  <2>1. UNCHANGED lookedUp
    BY <1>2, StepMoves DEF Moves, LookedUpMoves
  <2>2. \A q \in Requests : phase[q] = "new" => phase'[q] = "new"
    BY <1>2, OnlyLookupStarts DEF SystemType
  <2>3. QED BY <2>1, <2>2 DEF SystemType, LookedUpType
<1>3. QED BY <1>1, <1>2

LEMMA SystemTypeInitial == SystemInit => SystemType
<1> SUFFICES ASSUME SystemInit PROVE SystemType
  OBVIOUS
<1>1. TypeOK
  BY DEF SystemInit, Init, TypeOK
<1>2. ProvidersType
  BY TimeAssumption DEF SystemInit, ProvidersType, Bound
<1>3. NoticesType /\ LookedUpType
  BY DEF SystemInit, NoticesType, LookedUpType
<1>4. QED BY <1>1, <1>2, <1>3, RequestInvInitial DEF SystemType

LEMMA SystemTypeStep == SystemType /\ [SystemNext]_systemVars => SystemType'
<1> SUFFICES ASSUME SystemType, [SystemNext]_systemVars PROVE SystemType'
  OBVIOUS
<1>1. TypeOK' /\ RequestInv'
  BY DirectoryStep, TypeStep, RequestInvStep DEF SystemType
<1>2. ProvidersType' /\ NoticesType' /\ LookedUpType'
  BY ProvidersTypeStep, NoticesTypeStep, LookedUpTypeStep
<1>3. QED BY <1>1, <1>2 DEF SystemType

\* The directory of the composed system behaves as ServiceDirectory allows:
\* what providers, stale clients and callers ask of it are requests its
\* specification has, so what is proved of that specification holds here.
THEOREM DirectoryImplemented == SystemSpec => Spec
<1>1. SystemInit => Init
  BY DEF SystemInit
<1>2. SystemType /\ [SystemNext]_systemVars => [Next]_vars
  BY DirectoryStep
<1>3. QED
  BY <1>1, <1>2, SystemTypeInitial, SystemTypeStep, PTL DEF SystemSpec, Spec

(***************************************************************************)
(* Executed and answered by the registration the caller was told of.       *)
(*                                                                         *)
(* The registration time compared at both ends identifies a registration   *)
(* only together with the URL.  If processes of different services may     *)
(* come to the same port the directory may name the registration time of   *)
(* one service for another, and the properties fail; so each port has one  *)
(* service here.  Providers of a service may have several ports.           *)
(***************************************************************************)
OneServicePerUrl == \A u \in Urls : \A s, t \in Offers[u] : s = t

\* No data products are registered.
NoPublishers == \A i \in ProductIDs : dataProductMap[OwnDomain][i] = {}

\* An instance that has none may be given the value 0, no other changes.
SameOrTouched(u) ==
    \/ registrationInstanceMap'[u] = registrationInstanceMap[u]
    \/ registrationInstanceMap[u] = NoInstance /\ registrationInstanceMap'[u] = 0

\* What the registration of a service does to the directory.
LEMMA RegisterEffect ==
    ASSUME TypeOK, NoPublishers, NEW reg \in ServiceRegistration,
           reg.domain = OwnDomain, RegisterService(reg)
    PROVE  /\ NoPublishers'
           /\ serviceMap'[OwnDomain][reg.id] = reg.url
           /\ \A s \in ServiceIDs : s # reg.id =>
                 serviceMap'[OwnDomain][s] = serviceMap[OwnDomain][s]
           /\ registrationInstanceMap'[reg.url] = reg.timestamp
           /\ reg.timestamp \in Timestamps
           /\ \A u \in Urls : u # reg.url => SameOrTouched(u)
<1> DEFINE ownUrls == OwnUrls(dataProductMap', serviceMap')
           recorded == [registrationInstanceMap EXCEPT ![reg.url] = reg.timestamp]
<1>1. reg.id \in ServiceIDs /\ reg.url \in Urls /\ reg.timestamp \in Timestamps
  BY DEF RegisterService, Accepted, ServiceRegistration
<1>2. ObsoleteIDs(reg.id, reg.url) = {}
  BY DEF NoPublishers, ObsoleteIDs
<1>3. registrationInstanceMap' = Touched(recorded, ownUrls)
  BY <1>2 DEF RegisterService, PurgedInstances
<1>4. /\ recorded[reg.url] = reg.timestamp /\ reg.timestamp # NoInstance
      /\ \A u \in Urls : u # reg.url => recorded[u] = registrationInstanceMap[u]
  BY <1>1, TimeAssumption DEF TypeOK, Timestamps, NoInstance
<1> HIDE DEF recorded, ownUrls
<1>5. /\ registrationInstanceMap'[reg.url] = reg.timestamp
      /\ \A u \in Urls : u # reg.url => SameOrTouched(u)
  BY <1>1, <1>3, <1>4 DEF Touched, SameOrTouched
<1>6. serviceMap' = [serviceMap EXCEPT ![OwnDomain][reg.id] = reg.url]
  BY DEF RegisterService
<1>7. /\ serviceMap'[OwnDomain][reg.id] = reg.url
      /\ \A s \in ServiceIDs : s # reg.id =>
            serviceMap'[OwnDomain][s] = serviceMap[OwnDomain][s]
  BY <1>1, <1>6, DomainAssumption DEF TypeOK
<1>8. NoPublishers'
  BY DomainAssumption DEF RegisterService, NoPublishers, Purged
<1>9. QED BY <1>1, <1>5, <1>7, <1>8

\* What the unregistration of a service does to the directory.
LEMMA UnregisterEffect ==
    ASSUME TypeOK, NoPublishers, NEW n \in ServiceUnregistration,
           n.domain = OwnDomain, UnregisterService(n)
    PROVE  /\ NoPublishers'
           /\ serviceMap'[OwnDomain][n.id] = NoUrl
           /\ \A s \in ServiceIDs : s # n.id =>
                 serviceMap'[OwnDomain][s] = serviceMap[OwnDomain][s]
           /\ registrationInstanceMap[n.url] \in Nat
           /\ Secs(registrationInstanceMap[n.url]) = n.registration_time
           /\ registrationInstanceMap'[n.url] = NoInstance
           /\ \A u \in Urls : u # n.url => SameOrTouched(u)
<1> DEFINE ownUrls == OwnUrls(dataProductMap, serviceMap')
           touched == Touched(registrationInstanceMap, ownUrls)
<1>1. n.id \in ServiceIDs /\ n.url \in Urls
  BY DEF ServiceUnregistration
<1>2. registrationInstanceMap' = [touched EXCEPT ![n.url] = NoInstance]
  BY DEF UnregisterService
<1>3. touched \in [Urls -> Int]
  BY TimeAssumption DEF Touched, TypeOK, NoInstance, Timestamps
<1>4. \A u \in Urls :
         \/ touched[u] = registrationInstanceMap[u]
         \/ registrationInstanceMap[u] = NoInstance /\ touched[u] = 0
  BY DEF Touched
<1> HIDE DEF touched, ownUrls
<1>5. /\ registrationInstanceMap'[n.url] = NoInstance
      /\ \A u \in Urls : u # n.url => SameOrTouched(u)
  BY <1>1, <1>2, <1>3, <1>4 DEF SameOrTouched
<1>6. serviceMap' = [serviceMap EXCEPT ![OwnDomain][n.id] = NoUrl]
  BY DEF UnregisterService
<1>7. /\ serviceMap'[OwnDomain][n.id] = NoUrl
      /\ \A s \in ServiceIDs : s # n.id =>
            serviceMap'[OwnDomain][s] = serviceMap[OwnDomain][s]
  BY <1>1, <1>6, DomainAssumption DEF TypeOK
<1>8. NoPublishers'
  BY DEF UnregisterService, NoPublishers
<1>9. registrationInstanceMap[n.url] \in Nat
  BY <1>1, TimeAssumption
  DEF UnregisterService, RegisteredService, TypeOK, Timestamps
<1>10. Secs(registrationInstanceMap[n.url]) = n.registration_time
  BY DEF UnregisterService, RegisteredService
<1>11. QED BY <1>5, <1>7, <1>8, <1>9, <1>10

\* What a lookup does to the directory.
LEMMA LookupEffect ==
    ASSUME NoPublishers, NEW d, NEW s, LookupService(d, s)
    PROVE  /\ NoPublishers' /\ UNCHANGED serviceMap
           /\ \A u \in Urls : SameOrTouched(u)
  BY DEF LookupService, NoPublishers, Touched, SameOrTouched

\* A service is listed at one of its ports, with its registration time.
DirectoryNames ==
    \A s \in ServiceIDs : serviceMap[OwnDomain][s] # NoUrl =>
        /\ s \in Offers[serviceMap[OwnDomain][s]]
        /\ registrationInstanceMap[serviceMap[OwnDomain][s]] \in Timestamps
        /\ TicksPerSecond <= registrationInstanceMap[serviceMap[OwnDomain][s]]

NoticesNamed == \A n \in notices : n.id \in Offers[n.url]

\* A caller was told of a port of the service, and of a registration time.
CallersTold ==
    \A q \in Requests : phase[q] # "new" =>
        /\ ServiceOf[q] \in Offers[lookedUp[q].url]
        /\ lookedUp[q].registrationTime # 0

NamingInv == NoPublishers /\ DirectoryNames /\ NoticesNamed /\ CallersTold

LEMMA DirectoryNamesStep ==
    ASSUME OneServicePerUrl, SystemType, NamingInv, [SystemNext]_systemVars
    PROVE  NoPublishers' /\ DirectoryNames'
<1> USE DEF NamingInv
<1>1. \A s \in ServiceIDs : serviceMap[OwnDomain][s] \in Urls \cup {NoUrl}
  BY DomainAssumption DEF SystemType, TypeOK
<1>2. NoInstance \notin Timestamps
  BY TimeAssumption DEF NoInstance, Timestamps
<1>3. CASE UNCHANGED vars
  BY <1>3 DEF vars, mapVars, NoPublishers, DirectoryNames
<1>4. ASSUME NEW u \in Urls, ListService(u), ~UNCHANGED vars
      PROVE  NoPublishers' /\ DirectoryNames'
  <2>1. Bound(u) /\ RegisterService(ServiceReg(u))
    BY <1>4 DEF ListService, ServiceReg
  <2>2. /\ ServiceReg(u) \in ServiceRegistration
        /\ ServiceReg(u).id = served[u].id /\ ServiceReg(u).url = u
        /\ ServiceReg(u).domain = OwnDomain
        /\ ServiceReg(u).timestamp = served[u].timestamp
        /\ served[u].id \in Offers[u] /\ TicksPerSecond <= served[u].timestamp
    BY <2>1, ServiceRegFields DEF SystemType, ProvidersType
  <2>3. /\ NoPublishers'
        /\ serviceMap'[OwnDomain][served[u].id] = u
        /\ \A s \in ServiceIDs : s # served[u].id =>
              serviceMap'[OwnDomain][s] = serviceMap[OwnDomain][s]
        /\ registrationInstanceMap'[u] = served[u].timestamp
        /\ served[u].timestamp \in Timestamps
        /\ \A v \in Urls : v # u => SameOrTouched(v)
    BY <2>1, <2>2, RegisterEffect DEF SystemType
  <2>4. ASSUME NEW s \in ServiceIDs, serviceMap'[OwnDomain][s] # NoUrl,
               NEW v, v = serviceMap'[OwnDomain][s]
        PROVE  /\ s \in Offers[v]
               /\ registrationInstanceMap'[v] \in Timestamps
               /\ TicksPerSecond <= registrationInstanceMap'[v]
    <3>1. CASE v = u /\ s = served[u].id
      BY <2>2, <2>3, <3>1
    <3>2. CASE s # served[u].id
      <4>1. /\ v = serviceMap[OwnDomain][s] /\ v \in Urls
            /\ s \in Offers[v] /\ registrationInstanceMap[v] \in Timestamps
            /\ TicksPerSecond <= registrationInstanceMap[v]
        BY <1>1, <2>3, <2>4, <3>2 DEF DirectoryNames
      <4>2. v # u
        BY <2>2, <3>2, <4>1 DEF OneServicePerUrl
      <4>3. registrationInstanceMap'[v] = registrationInstanceMap[v]
        BY <1>2, <2>3, <4>1, <4>2 DEF SameOrTouched
      <4>4. QED BY <4>1, <4>3
    <3>3. QED BY <2>3, <2>4, <3>1, <3>2
  <2>5. QED BY <2>3, <2>4 DEF DirectoryNames
<1>5. ASSUME NEW n \in notices, HandleNotice(n), ~UNCHANGED vars
      PROVE  NoPublishers' /\ DirectoryNames'
  <2>1. UnregisterService(n)
    BY <1>5 DEF HandleNotice
  <2>2. n \in ServiceUnregistration /\ n.domain = OwnDomain
    BY DEF SystemType, NoticesType
  <2>3. n.url \in Urls /\ n.id \in Offers[n.url]
    BY <2>2 DEF ServiceUnregistration, NoticesNamed
  <2>4. /\ NoPublishers'
        /\ serviceMap'[OwnDomain][n.id] = NoUrl
        /\ \A s \in ServiceIDs : s # n.id =>
              serviceMap'[OwnDomain][s] = serviceMap[OwnDomain][s]
        /\ \A v \in Urls : v # n.url => SameOrTouched(v)
    BY <2>1, <2>2, UnregisterEffect DEF SystemType
  <2>5. ASSUME NEW s \in ServiceIDs, serviceMap'[OwnDomain][s] # NoUrl,
               NEW v, v = serviceMap'[OwnDomain][s]
        PROVE  /\ s \in Offers[v]
               /\ registrationInstanceMap'[v] \in Timestamps
               /\ TicksPerSecond <= registrationInstanceMap'[v]
    <3>1. /\ s # n.id /\ v = serviceMap[OwnDomain][s] /\ v \in Urls
          /\ s \in Offers[v] /\ registrationInstanceMap[v] \in Timestamps
          /\ TicksPerSecond <= registrationInstanceMap[v]
      BY <1>1, <2>4, <2>5 DEF DirectoryNames
    <3>2. v # n.url
      BY <2>3, <3>1 DEF OneServicePerUrl
    <3>3. registrationInstanceMap'[v] = registrationInstanceMap[v]
      BY <1>2, <2>4, <3>1, <3>2 DEF SameOrTouched
    <3>4. QED BY <3>1, <3>3
  <2>6. QED BY <2>4, <2>5 DEF DirectoryNames
<1>6. ASSUME NEW q \in Requests, Lookup(q)
      PROVE  NoPublishers' /\ DirectoryNames'
  <2>1. /\ NoPublishers' /\ UNCHANGED serviceMap
        /\ \A u \in Urls : SameOrTouched(u)
    BY <1>6, LookupEffect DEF Lookup
  <2>2. QED BY <1>1, <1>2, <2>1 DEF DirectoryNames, SameOrTouched
<1>7. QED BY <1>3, <1>4, <1>5, <1>6, StepMoves DEF Moves, DirectoryMoves

LEMMA NoticesNamedStep ==
    ASSUME SystemType, NamingInv, [SystemNext]_systemVars
    PROVE  NoticesNamed'
<1> USE DEF NamingInv
<1>1. CASE notices' \subseteq notices
  BY <1>1 DEF NoticesNamed
<1>2. ASSUME NEW u \in Urls, WithdrawService(u) PROVE NoticesNamed'
  <2>1. /\ Bound(u)
        /\ notices' = notices \cup {Unregistration(served[u].id, u, RegTime(u))}
    BY <1>2 DEF WithdrawService
  <2>2. served[u].id \in Offers[u]
    BY <2>1 DEF SystemType, ProvidersType
  <2>3. QED BY <2>1, <2>2, UnregistrationFields DEF NoticesNamed
<1>3. ASSUME NEW unreg, HandleNotice(unreg) PROVE NoticesNamed'
  BY <1>1, <1>3 DEF HandleNotice
<1>4. ASSUME NEW r \in arrived, ReceiveResponse(r) PROVE NoticesNamed'
  <2> DEFINE q == r.socket.req
  <2>1. notices' \subseteq notices \cup
           {Unregistration(ServiceOf[q], lookedUp[q].url, lookedUp[q].registrationTime)}
    BY <1>4 DEF ReceiveResponse, StaleEntry
  <2>2. q \in Requests /\ phase[q] # "new"
    BY ResponseAwaited DEF SystemType, Kinds
  <2> HIDE DEF q
  <2>3. ServiceOf[q] \in Offers[lookedUp[q].url]
    BY <2>2 DEF CallersTold
  <2>4. QED BY <2>1, <2>3, UnregistrationFields DEF NoticesNamed
<1>5. QED BY <1>1, <1>2, <1>3, <1>4, StepMoves DEF Moves, NoticesMove

LEMMA CallersToldStep ==
    ASSUME SystemType, NamingInv, [SystemNext]_systemVars
    PROVE  CallersTold'
<1> USE DEF NamingInv
<1>1. ASSUME NEW q \in Requests, Lookup(q) PROVE CallersTold'
  <2> DEFINE url == serviceMap[OwnDomain][ServiceOf[q]]
             time == registrationInstanceMap[url]
  <2>1. /\ url \in Urls /\ ServiceOf[q] \in ServiceIDs
        /\ lookedUp'[q].url = url
        /\ lookedUp'[q].registrationTime = Secs(Instance(registrationInstanceMap, url))
        /\ \A p \in Requests : p # q => /\ lookedUp'[p] = lookedUp[p]
                                        /\ phase'[p] = phase[p]
    BY <1>1, LookupFields
  <2>2. /\ ServiceOf[q] \in Offers[url] /\ time \in Timestamps
        /\ TicksPerSecond <= time
    BY <2>1, UrlAssumption DEF DirectoryNames
  <2>3. time \in Nat /\ time # NoInstance
    BY <2>2, TimeAssumption DEF Timestamps, NoInstance
  <2>4. lookedUp'[q].registrationTime # 0
    BY <2>1, <2>2, <2>3, SecsPositive DEF Instance
  <2> HIDE DEF url, time
  <2>5. QED BY <2>1, <2>2, <2>4 DEF CallersTold
<1>2. CASE ~\E q \in Requests : Lookup(q)
  <2>1. UNCHANGED lookedUp
    BY <1>2, StepMoves DEF Moves, LookedUpMoves
  <2>2. \A q \in Requests : phase[q] = "new" => phase'[q] = "new"
    BY <1>2, OnlyLookupStarts DEF SystemType
  <2>3. QED BY <2>1, <2>2 DEF CallersTold
<1>3. QED BY <1>1, <1>2

\* A request goes to the URL its caller was told of, an asynchronous one with
\* the registration time; what is asked after a future response goes to the
\* port promised.
MessageNamed(m) ==
    /\ m.socket.kind = "service" =>
          /\ m.to = lookedUp[m.socket.req].url
          /\ m.regTime = IF m.socket.req \in AsyncRequests
                         THEN lookedUp[m.socket.req].registrationTime ELSE 0
    /\ m.socket.kind = "future" => m.to \in Ports

\* A response that has arrived from a service is from the URL its caller was
\* told of, and made for the request unless its registration time tells.
ResponseNamed(r) ==
    /\ r.port \in Ports \cup {NoPort}
    /\ r.socket.kind = "service" =>
          /\ r.by.url = lookedUp[r.socket.req].url
          /\ r.by.id = ServiceOf[r.socket.req]
          /\ r.regTime = Secs(r.by.timestamp)
          /\ r.req = r.socket.req \/ ~Named(r.socket.req, r)
    /\ r.socket.kind = "future" => r.regTime = 0

MessagesNamed ==
    /\ \A m \in inflight : MessageNamed(m)
    /\ \A r \in arrived : ResponseNamed(r)

LEMMA RegistrationFields ==
    ASSUME NEW u
    PROVE  /\ RegistrationAt(u).id = served[u].id /\ RegistrationAt(u).url = u
           /\ RegistrationAt(u).timestamp = served[u].timestamp
  BY DEF RegistrationAt

LEMMA ResponseFields ==
    ASSUME NEW socket, NEW time, NEW port, NEW req, NEW by
    PROVE  LET r == Response(socket, time, port, req, by)
           IN  /\ r.socket = socket /\ r.regTime = time /\ r.port = port
               /\ r.req = req /\ r.by = by
  BY DEF Response

\* The service at u takes only what was sent to a service, from a caller
\* that was told of u and of the service that is bound to it.
LEMMA TakesNamed ==
    ASSUME OneServicePerUrl, SystemType, NamingInv, MessagesNamed,
           NEW u \in Urls, NEW m \in inflight, Takes(u, m)
    PROVE  /\ m.socket \in Sockets
           /\ m.socket.req \in Requests /\ phase[m.socket.req] # "new"
           /\ m.socket.kind = "service"
           /\ u = lookedUp[m.socket.req].url
           /\ served[u].id = ServiceOf[m.socket.req]
           /\ m.regTime = IF m.socket.req \in AsyncRequests
                          THEN lookedUp[m.socket.req].registrationTime ELSE 0
<1>1. m.socket \in Sockets /\ phase[m.socket.req] # "new"
  BY DEF SystemType, RequestInv, ClientType, Exchanged
<1>2. m.socket.req \in Requests /\ m.socket.kind \in Kinds
  BY <1>1 DEF Sockets
<1>3. Bound(u) /\ m.to = u
  BY DEF Takes
<1>4. u \notin Ports
  BY RequestAssumption DEF Ports
<1>5. /\ m.socket.kind = "service" /\ u = lookedUp[m.socket.req].url
      /\ m.regTime = IF m.socket.req \in AsyncRequests
                     THEN lookedUp[m.socket.req].registrationTime ELSE 0
  BY <1>2, <1>3, <1>4 DEF MessagesNamed, MessageNamed, Kinds
<1>6. served[u].id \in Offers[u] /\ ServiceOf[m.socket.req] \in Offers[u]
  BY <1>1, <1>2, <1>3, <1>5 DEF SystemType, ProvidersType, NamingInv, CallersTold
<1>7. QED BY <1>1, <1>2, <1>5, <1>6 DEF OneServicePerUrl

\* So what it answers is named.
LEMMA ReplyNamed ==
    ASSUME OneServicePerUrl, SystemType, NamingInv, MessagesNamed,
           NEW u \in Urls, NEW m \in inflight, Takes(u, m),
           NEW port \in Ports \cup {NoPort},
           NEW req, req = m.socket.req \/ Stale(u, m)
    PROVE  ResponseNamed(Response(m.socket, RegTime(u), port, req, RegistrationAt(u)))
<1> DEFINE r == Response(m.socket, RegTime(u), port, req, RegistrationAt(u))
<1>1. /\ r.socket = m.socket /\ r.regTime = RegTime(u) /\ r.port = port
      /\ r.req = req /\ r.by = RegistrationAt(u)
  BY ResponseFields
<1> HIDE DEF r
<1>2. /\ m.socket.kind = "service" /\ m.socket.req \in Requests
      /\ u = lookedUp[m.socket.req].url
      /\ served[u].id = ServiceOf[m.socket.req]
      /\ m.regTime = IF m.socket.req \in AsyncRequests
                     THEN lookedUp[m.socket.req].registrationTime ELSE 0
  BY TakesNamed
<1>3. /\ r.by.url = u /\ r.by.id = served[u].id
      /\ Secs(r.by.timestamp) = RegTime(u)
  BY <1>1, RegistrationFields DEF RegTime
<1>4. Stale(u, m) => ~Named(m.socket.req, r)
  BY <1>1, <1>2 DEF Stale, Named
<1>5. ResponseNamed(r)
  BY <1>1, <1>2, <1>3, <1>4 DEF ResponseNamed
<1>6. QED BY <1>5 DEF r

LEMMA MessagesNamedStep ==
    ASSUME OneServicePerUrl, SystemType, NamingInv, MessagesNamed,
           [SystemNext]_systemVars
    PROVE  MessagesNamed'
<1>1. ASSUME UNCHANGED lookedUp
      PROVE  /\ \A m : MessageNamed(m)' <=> MessageNamed(m)
             /\ \A r : ResponseNamed(r)' <=> ResponseNamed(r)
  BY <1>1 DEF MessageNamed, ResponseNamed, Named
<1>2. ASSUME UNCHANGED lookedUp, inflight' \subseteq inflight,
             arrived' \subseteq arrived
      PROVE  MessagesNamed'
  BY <1>1, <1>2 DEF MessagesNamed
<1>3. ASSUME UNCHANGED lookedUp, inflight' \subseteq inflight,
             NEW r, ResponseNamed(r), arrived' \subseteq arrived \cup {r}
      PROVE  MessagesNamed'
  BY <1>1, <1>3 DEF MessagesNamed
<1>4. ASSUME UNCHANGED lookedUp, arrived' \subseteq arrived,
             NEW m, MessageNamed(m), inflight' \subseteq inflight \cup {m}
      PROVE  MessagesNamed'
  BY <1>1, <1>4 DEF MessagesNamed
<1>5. ASSUME NEW u, WithdrawService(u) \/ Crash(u) PROVE MessagesNamed'
  BY <1>2, <1>5 DEF WithdrawService, Crash, Kept, clientVars
<1>6. ASSUME NEW u, NEW s, BindService(s, u) PROVE MessagesNamed'
  BY <1>2, <1>6 DEF BindService, clientVars, networkVars
<1>7. ASSUME NEW u, ListService(u) PROVE MessagesNamed'
  BY <1>2, <1>7 DEF ListService, clientVars, networkVars
<1>8. ASSUME NEW unreg, HandleNotice(unreg) PROVE MessagesNamed'
  BY <1>2, <1>8 DEF HandleNotice, clientVars
<1>9. ASSUME NEW u \in Urls, NEW m \in inflight,
             \/ Reject(u, m) \/ Answer(u, m) \/ Promise(u, m)
             \/ PromiseNoPort(u, m) \/ PromiseBlocked(u, m)
      PROVE  MessagesNamed'
  <2>1. Takes(u, m) /\ UNCHANGED lookedUp
    BY <1>9
    DEF Reject, Answer, Promise, PromiseNoPort, PromiseBlocked, clientVars
  <2>2. ASSUME NEW port \in Ports \cup {NoPort}, NEW req,
               req = m.socket.req \/ Stale(u, m),
               Reply(m, Response(m.socket, RegTime(u), port, req, RegistrationAt(u)))
        PROVE  MessagesNamed'
    <3> DEFINE r == Response(m.socket, RegTime(u), port, req, RegistrationAt(u))
    <3>1. ResponseNamed(r)
      BY <2>1, <2>2, ReplyNamed
    <3>2. inflight' \subseteq inflight /\ arrived' \subseteq arrived \cup {r}
      BY <2>2 DEF Reply
    <3> HIDE DEF r
    <3>3. QED BY <1>3, <2>1, <3>1, <3>2
  <2>3. CASE Reject(u, m)
    BY <2>2, <2>3 DEF Reject
  <2>4. CASE Answer(u, m)
    BY <2>2, <2>4 DEF Answer
  <2>5. CASE Promise(u, m)
    <3>1. \E p \in FreePorts :
             Reply(m, Response(m.socket, RegTime(u), p, m.socket.req, RegistrationAt(u)))
      BY <2>5 DEF Promise
    <3>2. FreePorts \subseteq Ports
      BY DEF FreePorts
    <3>3. QED BY <2>2, <3>1, <3>2
  <2>6. CASE PromiseNoPort(u, m)
    BY <2>2, <2>6 DEF PromiseNoPort
  <2>7. CASE PromiseBlocked(u, m)
    BY <1>2, <2>1, <2>7 DEF PromiseBlocked
  <2>8. QED BY <1>9, <2>3, <2>4, <2>5, <2>6, <2>7
<1>10. ASSUME NEW p, FutureNotWanted(p) PROVE MessagesNamed'
  BY <1>2, <1>10 DEF FutureNotWanted, Kept, clientVars
<1>11. ASSUME NEW p \in Ports, NEW m \in inflight, SendFuture(p, m)
       PROVE  MessagesNamed'
  <2> DEFINE r == Response(m.socket, 0, NoPort, futures[p].req, futures[p].by)
  <2>1. /\ m.to = p /\ UNCHANGED lookedUp /\ inflight' \subseteq inflight
        /\ arrived' \subseteq arrived \cup {r}
    BY <1>11 DEF SendFuture, Kept, clientVars
  <2>2. r.socket = m.socket /\ r.regTime = 0 /\ r.port = NoPort
    BY ResponseFields
  <2> HIDE DEF r
  <2>3. m.socket.kind # "service"
    <3>1. /\ m.socket.req \in Requests /\ phase[m.socket.req] # "new"
      BY DEF SystemType, RequestInv, ClientType, Exchanged, Sockets
    <3>2. lookedUp[m.socket.req].url \in Urls
      BY <3>1 DEF SystemType, LookedUpType
    <3>3. QED
      BY <2>1, <3>2, RequestAssumption DEF MessagesNamed, MessageNamed, Ports
  <2>4. ResponseNamed(r)
    BY <2>2, <2>3 DEF ResponseNamed
  <2>5. QED BY <1>3, <2>1, <2>4
<1>12. ASSUME NEW q, DeadlinePasses(q) PROVE MessagesNamed'
  BY <1>2, <1>12 DEF DeadlinePasses, networkVars
<1>13. ASSUME NEW q \in Requests, Lookup(q) PROVE MessagesNamed'
  <2> DEFINE url == serviceMap[OwnDomain][ServiceOf[q]]
             sent == RequestTo(url, Socket(q, "service"), 0)
  <2>1. /\ phase[q] = "new" /\ UNCHANGED arrived
        /\ inflight' = IF q \in AsyncRequests THEN inflight ELSE inflight \cup {sent}
    BY <1>13 DEF Lookup
  <2>2. /\ lookedUp'[q].url = url
        /\ \A p \in Requests : p # q => lookedUp'[p] = lookedUp[p]
    BY <1>13, LookupFields
  <2>3. /\ sent.to = url /\ sent.regTime = 0
        /\ sent.socket.req = q /\ sent.socket.kind = "service"
    BY DEF RequestTo, Socket
  <2> HIDE DEF sent, url
  <2>4. ASSUME NEW m, m = sent, q \notin AsyncRequests PROVE MessageNamed(m)'
    BY <2>2, <2>3, <2>4 DEF MessageNamed
  <2>5. ASSUME NEW m \in inflight PROVE MessageNamed(m)'
    <3>1. m.socket.req \in Requests /\ m.socket.req # q
      BY <2>1 DEF SystemType, RequestInv, ClientType, Exchanged, Sockets
    <3>2. lookedUp'[m.socket.req] = lookedUp[m.socket.req]
      BY <2>2, <3>1
    <3>3. QED BY <3>2 DEF MessagesNamed, MessageNamed
  <2>6. ASSUME NEW r \in arrived PROVE ResponseNamed(r)'
    <3>1. r.socket.req \in Requests /\ r.socket.req # q
      BY <2>1, ResponseAwaited DEF SystemType, Kinds
    <3>2. lookedUp'[r.socket.req] = lookedUp[r.socket.req]
      BY <2>2, <3>1
    <3>3. QED BY <3>2 DEF MessagesNamed, ResponseNamed, Named
  <2>7. QED BY <2>1, <2>4, <2>5, <2>6 DEF MessagesNamed
<1>14. ASSUME NEW q, NEW r \in arrived, r.port # NoPort,
              inflight' = inflight \cup {RequestTo(r.port, Socket(q, "future"), 0)},
              arrived' \subseteq arrived, UNCHANGED lookedUp
       PROVE  MessagesNamed'
  <2> DEFINE sent == RequestTo(r.port, Socket(q, "future"), 0)
  <2>1. sent.to = r.port /\ sent.socket.kind = "future"
    BY DEF RequestTo, Socket
  <2>2. r.port \in Ports
    BY <1>14 DEF MessagesNamed, ResponseNamed
  <2>3. MessageNamed(sent)
    BY <2>1, <2>2 DEF MessageNamed
  <2> HIDE DEF sent
  <2>4. inflight' \subseteq inflight \cup {sent}
    BY <1>14 DEF sent
  <2>5. QED BY <1>4, <1>14, <2>3, <2>4
<1>15. ASSUME NEW q \in Requests, ManagerStep(q) PROVE MessagesNamed'
  <2>1. CASE ProcessRequest(q)
    <3> DEFINE sent == RequestTo(lookedUp[q].url, Socket(q, "service"),
                                 lookedUp[q].registrationTime)
    <3>1. /\ q \in AsyncRequests /\ UNCHANGED <<lookedUp, arrived>>
          /\ inflight' = inflight \cup {sent}
      BY <2>1 DEF ProcessRequest
    <3>2. /\ sent.to = lookedUp[q].url
          /\ sent.regTime = lookedUp[q].registrationTime
          /\ sent.socket.req = q /\ sent.socket.kind = "service"
      BY DEF RequestTo, Socket
    <3> HIDE DEF sent
    <3>3. MessageNamed(sent)
      BY <3>1, <3>2 DEF MessageNamed
    <3>4. QED BY <1>4, <3>1, <3>3
  <2>2. ASSUME NEW socket, Expire(socket) PROVE MessagesNamed'
    <3>1. /\ UNCHANGED <<lookedUp, inflight>> /\ arrived' \subseteq arrived
      BY <2>2 DEF Expire
    <3>2. QED BY <1>2, <3>1
  <2>3. ASSUME NEW r \in arrived, ReceiveFuture(r) PROVE MessagesNamed'
    <3>1. /\ r.port # NoPort /\ arrived' \subseteq arrived /\ UNCHANGED lookedUp
          /\ inflight' = inflight \cup
                {RequestTo(r.port, Socket(r.socket.req, "future"), 0)}
      BY <2>3 DEF ReceiveFuture
    <3>2. QED BY <1>14, <3>1
  <2>4. ASSUME NEW r \in arrived, ReceiveResponse(r) PROVE MessagesNamed'
    BY <1>2, <2>4 DEF ReceiveResponse
  <2>5. QED BY <1>15, <2>1, <2>2, <2>3, <2>4 DEF ManagerStep
<1>16. ASSUME NEW q \in Requests, CallerStep(q) PROVE MessagesNamed'
  <2>1. ASSUME NEW r \in arrived, SyncFuture(q, r) PROVE MessagesNamed'
    <3>1. /\ r.port # NoPort /\ arrived' \subseteq arrived /\ UNCHANGED lookedUp
          /\ inflight' = inflight \cup {RequestTo(r.port, Socket(q, "future"), 0)}
      BY <2>1 DEF SyncFuture
    <3>2. QED BY <1>14, <3>1
  <2>2. ASSUME NEW r \in arrived, SyncReturn(q, r) PROVE MessagesNamed'
    BY <1>2, <2>2 DEF SyncReturn
  <2>3. CASE SyncTimeout(q)
    BY <1>2, <2>3 DEF SyncTimeout, networkVars
  <2>4. QED BY <1>16, <2>1, <2>2, <2>3 DEF CallerStep
<1>17. CASE UNCHANGED systemVars
  BY <1>2, <1>17 DEF systemVars, clientVars, networkVars
<1>18. QED
  BY <1>5, <1>6, <1>7, <1>8, <1>9, <1>10, <1>11, <1>12, <1>13, <1>15, <1>16,
     <1>17 DEF SystemNext

\* The actions that execute a request, and those that end one.
ExecutedMoves ==
    \/ UNCHANGED executed
    \/ \E u \in Urls, m \in inflight :
          \/ Answer(u, m) \/ Promise(u, m)
          \/ PromiseNoPort(u, m) \/ PromiseBlocked(u, m)
OutcomeMoves ==
    \/ UNCHANGED outcome
    \/ \E socket : Expire(socket)
    \/ \E r \in arrived : ReceiveResponse(r)
    \/ \E q \in Requests : SyncTimeout(q) \/ \E r \in arrived : SyncReturn(q, r)

LEMMA HistoryMoves == [SystemNext]_systemVars => ExecutedMoves /\ OutcomeMoves
<1> SUFFICES ASSUME [SystemNext]_systemVars PROVE ExecutedMoves /\ OutcomeMoves
  OBVIOUS
<1> DEFINE Goal == ExecutedMoves /\ OutcomeMoves
<1>1. ASSUME UNCHANGED <<executed, outcome>> PROVE Goal
  BY <1>1 DEF ExecutedMoves, OutcomeMoves
<1>2. ASSUME NEW u, ListService(u) \/ WithdrawService(u) \/ Crash(u) PROVE Goal
  BY <1>1, <1>2 DEF ListService, WithdrawService, Crash, clientVars
<1>3. ASSUME NEW u, NEW s, BindService(s, u) PROVE Goal
  BY <1>1, <1>3 DEF BindService, clientVars
<1>4. ASSUME NEW unreg, HandleNotice(unreg) PROVE Goal
  BY <1>1, <1>4 DEF HandleNotice, clientVars, providerVars
<1>5. ASSUME NEW u, NEW m, Reject(u, m) PROVE Goal
  BY <1>1, <1>5 DEF Reject, clientVars, providerVars
<1>6. ASSUME NEW u \in Urls, NEW m \in inflight,
             \/ Answer(u, m) \/ Promise(u, m)
             \/ PromiseNoPort(u, m) \/ PromiseBlocked(u, m)
      PROVE  Goal
  <2>1. UNCHANGED outcome
    BY <1>6 DEF Answer, Promise, PromiseNoPort, PromiseBlocked, clientVars
  <2>2. QED BY <1>6, <2>1 DEF ExecutedMoves, OutcomeMoves
<1>7. ASSUME NEW p, FutureNotWanted(p) PROVE Goal
  BY <1>1, <1>7 DEF FutureNotWanted, clientVars
<1>8. ASSUME NEW p, NEW m, SendFuture(p, m) PROVE Goal
  BY <1>1, <1>8 DEF SendFuture, clientVars
<1>9. ASSUME NEW q, DeadlinePasses(q) \/ Lookup(q) PROVE Goal
  BY <1>1, <1>9 DEF DeadlinePasses, Lookup, providerVars
<1>10. ASSUME NEW q \in Requests, ManagerStep(q) PROVE Goal
  <2>1. CASE ProcessRequest(q)
    BY <1>1, <2>1 DEF ProcessRequest, providerVars
  <2>2. ASSUME NEW socket, Expire(socket) PROVE Goal
    BY <2>2 DEF Expire, providerVars, ExecutedMoves, OutcomeMoves
  <2>3. ASSUME NEW r \in arrived, ReceiveFuture(r) PROVE Goal
    BY <1>1, <2>3 DEF ReceiveFuture, providerVars
  <2>4. ASSUME NEW r \in arrived, ReceiveResponse(r) PROVE Goal
    <3>1. UNCHANGED executed
      BY <2>4 DEF ReceiveResponse, providerVars
    <3>2. QED BY <2>4, <3>1 DEF ExecutedMoves, OutcomeMoves
  <2>5. QED BY <1>10, <2>1, <2>2, <2>3, <2>4 DEF ManagerStep
<1>11. ASSUME NEW q \in Requests, CallerStep(q) PROVE Goal
  <2>1. ASSUME NEW r \in arrived, SyncFuture(q, r) PROVE Goal
    BY <1>1, <2>1 DEF SyncFuture, providerVars
  <2>2. ASSUME NEW r \in arrived, SyncReturn(q, r) PROVE Goal
    <3>1. UNCHANGED executed
      BY <2>2 DEF SyncReturn, providerVars
    <3>2. QED BY <2>2, <3>1 DEF ExecutedMoves, OutcomeMoves
  <2>3. CASE SyncTimeout(q)
    <3>1. UNCHANGED executed
      BY <2>3 DEF SyncTimeout, providerVars
    <3>2. QED BY <2>3, <3>1 DEF ExecutedMoves, OutcomeMoves
  <2>4. QED BY <1>11, <2>1, <2>2, <2>3 DEF CallerStep
<1>12. ASSUME UNCHANGED systemVars PROVE Goal
  BY <1>1, <1>12 DEF systemVars, clientVars, providerVars
<1> HIDE DEF Goal
<1>13. Goal
  BY <1>2, <1>3, <1>4, <1>5, <1>6, <1>7, <1>8, <1>9, <1>10, <1>11, <1>12
  DEF SystemNext
<1>14. QED BY <1>13 DEF Goal

\* A request that has not been made has not been executed.
ExecutedInv ==
    /\ executed = [q \in Requests |-> executed[q]]
    /\ \A q \in Requests : phase[q] = "new" => executed[q] = {}
    /\ ExecutedByNamed

LEMMA ExecutedStep ==
    ASSUME OneServicePerUrl, SystemType, NamingInv, MessagesNamed, ExecutedInv,
           [SystemNext]_systemVars
    PROVE  ExecutedInv'
<1>1. ASSUME NEW q \in Requests, Lookup(q) PROVE ExecutedInv'
  <2>1. phase[q] = "new" /\ UNCHANGED executed
    BY <1>1 DEF Lookup, providerVars
  <2>2. \A p \in Requests : p # q => /\ lookedUp'[p] = lookedUp[p]
                                     /\ phase'[p] = phase[p]
    BY <1>1, LookupFields
  <2>3. executed[q] = {}
    BY <2>1 DEF ExecutedInv
  <2>4. ExecutedByNamed'
    BY <2>1, <2>2, <2>3
    DEF ExecutedInv, ExecutedByNamed, NamedToCaller, Requests
  <2>5. QED BY <2>1, <2>2, <2>3, <2>4 DEF ExecutedInv
<1>2. ASSUME ~\E q \in Requests : Lookup(q) PROVE ExecutedInv'
  <2>1. UNCHANGED lookedUp
    BY <1>2, StepMoves DEF Moves, LookedUpMoves
  <2>2. \A q \in Requests : phase'[q] = "new" => phase[q] = "new"
    BY <1>2, OnlyLookupStarts DEF SystemType
  <2>3. CASE UNCHANGED executed
    BY <2>1, <2>2, <2>3 DEF ExecutedInv, ExecutedByNamed, NamedToCaller
  <2>4. ASSUME NEW u \in Urls, NEW m \in inflight,
               \/ Answer(u, m) \/ Promise(u, m)
               \/ PromiseNoPort(u, m) \/ PromiseBlocked(u, m)
        PROVE  ExecutedInv'
    <3> DEFINE q == m.socket.req
               reg == RegistrationAt(u)
    <3>1. /\ Takes(u, m) /\ ~Stale(u, m) /\ UNCHANGED phase
          /\ executed' = [executed EXCEPT ![q] = executed[q] \cup {reg}]
      BY <2>4 DEF Answer, Promise, PromiseNoPort, PromiseBlocked, Execute, clientVars
    <3>2. /\ q \in Requests /\ phase[q] # "new"
          /\ u = lookedUp[q].url /\ served[u].id = ServiceOf[q]
          /\ m.regTime = IF q \in AsyncRequests THEN lookedUp[q].registrationTime
                         ELSE 0
      BY <3>1, TakesNamed
    <3>3. reg.id = served[u].id /\ reg.url = u /\ Secs(reg.timestamp) = RegTime(u)
      BY RegistrationFields DEF RegTime
    <3> HIDE DEF q, reg
    <3>4. ASSUME q \in AsyncRequests PROVE NamedToCaller(q, reg)
      <4>1. lookedUp[q].registrationTime # 0
        BY <3>2 DEF NamingInv, CallersTold
      <4>2. RegTime(u) = lookedUp[q].registrationTime
        BY <3>1, <3>2, <3>4, <4>1 DEF Stale
      <4>3. QED BY <3>2, <3>3, <4>2 DEF NamedToCaller
    <3>5. /\ executed' = [p \in Requests |-> executed'[p]]
          /\ executed'[q] = executed[q] \cup {reg}
          /\ \A p \in Requests : p # q => executed'[p] = executed[p]
      BY <3>1, <3>2 DEF ExecutedInv
    <3>6. \A p, r : NamedToCaller(p, r) => NamedToCaller(p, r)'
      BY <2>1 DEF NamedToCaller
    <3>7. ASSUME NEW p \in AsyncRequests, NEW r \in executed'[p]
          PROVE  NamedToCaller(p, r)'
      <4>1. NamedToCaller(p, r)
        BY <3>4, <3>5 DEF ExecutedInv, ExecutedByNamed, Requests
      <4>2. QED BY <3>6, <4>1
    <3>8. ExecutedByNamed'
      BY <3>7 DEF ExecutedByNamed
    <3>9. QED BY <3>1, <3>2, <3>5, <3>8 DEF ExecutedInv
  <2>5. QED BY <2>3, <2>4, HistoryMoves DEF ExecutedMoves
<1>3. QED BY <1>1, <1>2

\* The one outcome a request gets is its own response, or no response.
LEMMA EndFilled ==
    ASSUME SystemType, FilledByNamed, UNCHANGED lookedUp,
           NEW q \in Requests, outcome[q] = <<>>,
           NEW o, outcome' = [outcome EXCEPT ![q] = Append(outcome[q], o)],
           o.kind = "filled" /\ o.at = "service" => OwnResponse(q, o)
    PROVE  FilledByNamed'
<1>1. outcome = [p \in Requests |-> outcome[p]]
  BY DEF SystemType, RequestInv, ClientType
<1>2. Append(outcome[q], o) = <<o>>
  OBVIOUS
<1>3. outcome' = [outcome EXCEPT ![q] = <<o>>]
  BY <1>2
<1>4. /\ outcome'[q] = <<o>>
      /\ \A p \in Requests : p # q => outcome'[p] = outcome[p]
  BY <1>1, <1>3
<1>5. \A p, x : OwnResponse(p, x) => OwnResponse(p, x)'
  BY DEF OwnResponse, NamedToCaller
<1>6. ASSUME NEW p \in Requests, NEW i \in 1 .. Len(outcome'[p]),
             NEW x, x = outcome'[p][i],
             x.kind = "filled" /\ x.at = "service"
      PROVE  OwnResponse(p, x)
  <2>1. CASE p = q
    <3>1. x = o
      BY <1>4, <1>6, <2>1
    <3>2. QED BY <1>6, <2>1, <3>1
  <2>2. CASE p # q
    BY <1>4, <1>6, <2>2 DEF FilledByNamed
  <2>3. QED BY <2>1, <2>2
<1>7. ASSUME NEW p \in Requests, NEW i \in 1 .. Len(outcome'[p]),
             outcome'[p][i].kind = "filled", outcome'[p][i].at = "service"
      PROVE  OwnResponse(p, outcome[p][i])'
  BY <1>5, <1>6, <1>7 DEF OwnResponse, NamedToCaller
<1>8. QED BY <1>7 DEF FilledByNamed

LEMMA FilledStep ==
    ASSUME SystemType, MessagesNamed, FilledByNamed, [SystemNext]_systemVars
    PROVE  FilledByNamed'
<1>1. ASSUME NEW q \in Requests, Lookup(q) PROVE FilledByNamed'
  <2>1. phase[q] = "new" /\ UNCHANGED outcome
    BY <1>1 DEF Lookup
  <2>2. \A p \in Requests : p # q => lookedUp'[p] = lookedUp[p]
    BY <1>1, LookupFields
  <2>3. outcome[q] = <<>>
    BY <2>1 DEF SystemType, RequestInv, Outcomes, Decided, Kinds
  <2>4. 1 .. Len(outcome[q]) = {}
    BY <2>3
  <2>5. QED
    BY <2>1, <2>2, <2>4 DEF FilledByNamed, OwnResponse, NamedToCaller
<1>2. ASSUME NEW q \in Requests, NEW kind, NEW r, Ended(q, kind, r),
             UNCHANGED lookedUp, outcome[q] = <<>>,
             kind = "filled" /\ phase[q] = "service" => OwnResponse(q, r)
      PROVE  FilledByNamed'
  <2> DEFINE o == [kind |-> kind, at |-> phase[q], req |-> r.req, by |-> r.by]
  <2>1. outcome' = [outcome EXCEPT ![q] = Append(outcome[q], o)]
    BY <1>2 DEF Ended
  <2>2. o.kind = kind /\ o.at = phase[q] /\ o.req = r.req /\ o.by = r.by
    OBVIOUS
  <2> HIDE DEF o
  <2>3. o.kind = "filled" /\ o.at = "service" => OwnResponse(q, o)
    BY <1>2, <2>2 DEF OwnResponse
  <2>4. QED BY <1>2, <2>1, <2>3, EndFilled
<1>3. ASSUME NEW r \in arrived, Named(r.socket.req, r), phase[r.socket.req] = "service"
      PROVE  OwnResponse(r.socket.req, r)
  <2>1. r.socket.kind = "service"
    BY <1>3, ResponseAwaited DEF SystemType
  <2>2. QED
    BY <1>3, <2>1
    DEF MessagesNamed, ResponseNamed, OwnResponse, NamedToCaller, Named
<1>4. ASSUME NEW socket, Expire(socket) PROVE FilledByNamed'
  <2> DEFINE q == socket.req
             o == [kind |-> "timeout", at |-> phase[q], req |-> q, by |-> NoService]
  <2>1. /\ ~stuck /\ Pending(socket) /\ UNCHANGED lookedUp
        /\ outcome' = [outcome EXCEPT ![q] = Append(outcome[q], o)]
    BY <1>4 DEF Expire
  <2>2. q \in Requests /\ phase[q] \in Kinds
    BY <2>1, PolledRequest DEF Pending, Requests, SystemType
  <2>3. o.kind # "filled"
    OBVIOUS
  <2> HIDE DEF q, o
  <2>4. outcome[q] = <<>>
    BY <2>1, <2>2, NoOutcomeYet DEF Kinds, SystemType
  <2>5. QED BY <2>1, <2>2, <2>3, <2>4, EndFilled
<1>5. ASSUME NEW r \in arrived, ReceiveResponse(r) PROVE FilledByNamed'
  <2> DEFINE q == r.socket.req
             kind == IF Named(q, r) THEN "filled" ELSE "aborted"
  <2>1. ~stuck /\ UNCHANGED lookedUp /\ Ended(q, kind, r)
    BY <1>5 DEF ReceiveResponse
  <2>2. q \in Requests /\ phase[q] \in Kinds
    BY ResponseAwaited DEF SystemType
  <2>3. kind = "filled" /\ phase[q] = "service" => OwnResponse(q, r)
    BY <1>3
  <2> HIDE DEF q, kind
  <2>4. outcome[q] = <<>>
    BY <2>1, <2>2, NoOutcomeYet DEF Kinds, SystemType
  <2>5. QED BY <1>2, <2>1, <2>2, <2>3, <2>4
<1>6. ASSUME NEW q \in Requests, NEW r \in arrived, SyncReturn(q, r)
      PROVE  FilledByNamed'
  <2> DEFINE kind == IF phase[q] = "future" \/ Named(q, r) THEN "filled" ELSE "null"
  <2>1. /\ q \in SyncRequests /\ r.socket = Socket(q, phase[q])
        /\ UNCHANGED lookedUp /\ Ended(q, kind, r)
    BY <1>6 DEF SyncReturn
  <2>2. r.socket.req = q
    BY <2>1 DEF Socket
  <2>3. phase[q] \in Kinds
    BY <2>2, ResponseAwaited DEF SystemType
  <2>4. kind = "filled" /\ phase[q] = "service" => OwnResponse(q, r)
    BY <1>3, <2>2
  <2> HIDE DEF kind
  <2>5. outcome[q] = <<>>
    BY <2>1, <2>3, NoOutcomeYet, RequestAssumption DEF Kinds, SystemType
  <2>6. QED BY <1>2, <2>1, <2>4, <2>5
<1>7. ASSUME NEW q \in Requests, SyncTimeout(q) PROVE FilledByNamed'
  <2>1. /\ q \in SyncRequests /\ phase[q] \in Kinds /\ UNCHANGED lookedUp
        /\ Ended(q, "null", NoResponse(q))
    BY <1>7 DEF SyncTimeout, Kinds
  <2>2. outcome[q] = <<>>
    BY <2>1, NoOutcomeYet, RequestAssumption DEF Kinds, SystemType
  <2>3. QED BY <1>2, <2>1, <2>2
<1>8. CASE UNCHANGED <<outcome, lookedUp>>
  BY <1>8 DEF FilledByNamed, OwnResponse, NamedToCaller
<1>9. QED
  BY <1>1, <1>4, <1>5, <1>6, <1>7, <1>8, HistoryMoves, StepMoves
  DEF OutcomeMoves, Moves, LookedUpMoves

NamedInv ==
    SystemType /\ NamingInv /\ MessagesNamed /\ ExecutedInv /\ FilledByNamed

LEMMA NamedInvInitial == SystemInit => NamedInv
<1> SUFFICES ASSUME SystemInit PROVE NamedInv
  OBVIOUS
<1>1. SystemType
  BY SystemTypeInitial
<1>2. NoPublishers /\ DirectoryNames
  BY DomainAssumption DEF SystemInit, Init, NoPublishers, DirectoryNames
<1>3. NoticesNamed /\ CallersTold
  BY DEF SystemInit, NoticesNamed, CallersTold
<1>4. MessagesNamed
  BY DEF SystemInit, MessagesNamed
<1>5. ExecutedInv
  BY DEF SystemInit, ExecutedInv, ExecutedByNamed, Requests
<1>6. FilledByNamed
  <2>1. \A q \in Requests : 1 .. Len(outcome[q]) = {}
    BY DEF SystemInit
  <2>2. QED BY <2>1 DEF FilledByNamed
<1>7. QED BY <1>1, <1>2, <1>3, <1>4, <1>5, <1>6 DEF NamedInv, NamingInv

LEMMA NamedInvStep ==
    OneServicePerUrl /\ NamedInv /\ [SystemNext]_systemVars => NamedInv'
<1> SUFFICES ASSUME OneServicePerUrl, NamedInv, [SystemNext]_systemVars
             PROVE  NamedInv'
  OBVIOUS
<1>1. SystemType' /\ NamingInv'
  BY SystemTypeStep, DirectoryNamesStep, NoticesNamedStep, CallersToldStep
  DEF NamedInv, NamingInv
<1>2. MessagesNamed' /\ ExecutedInv' /\ FilledByNamed'
  BY MessagesNamedStep, ExecutedStep, FilledStep DEF NamedInv
<1>3. QED BY <1>1, <1>2 DEF NamedInv

\* An asynchronous request is executed only by the registration of which its
\* caller was told, however often providers are replaced while it is on its
\* way, if each port has one service.
THEOREM ExecutedByNamedHolds ==
    ASSUME OneServicePerUrl
    PROVE  SystemSpec => []ExecutedByNamed
<1>1. NamedInv => ExecutedByNamed
  BY DEF NamedInv, ExecutedInv
<1>2. NamedInv /\ [SystemNext]_systemVars => NamedInv'
  BY NamedInvStep
<1>3. QED
  BY <1>1, <1>2, NamedInvInitial, PTL DEF SystemSpec

\* A response delivered from a service's own socket was made for the request
\* by the registration of which the caller was told, if each port has one
\* service.
THEOREM FilledByNamedHolds ==
    ASSUME OneServicePerUrl
    PROVE  SystemSpec => []FilledByNamed
<1>1. NamedInv => FilledByNamed
  BY DEF NamedInv
<1>2. NamedInv /\ [SystemNext]_systemVars => NamedInv'
  BY NamedInvStep
<1>3. QED
  BY <1>1, <1>2, NamedInvInitial, PTL DEF SystemSpec

(***************************************************************************)
(* The directory leads to every provider that has registered.              *)
(*                                                                         *)
(* A registration time is that of a registration made at the URL, wherever *)
(* it is kept: by the directory, by a caller, in a notice.  A notice is    *)
(* about a registration that is over, or that shares its time with one:    *)
(* a client reports the time it was told only if a provider with another   *)
(* time has answered since, and whoever binds the port later has another   *)
(* time again, or shares it.  A service has one port here, since the       *)
(* directory keeps one provider of a service.                              *)
(***************************************************************************)
OneUrlPerService ==
    \A u, v \in Urls : \A s \in Offers[u] : s \in Offers[v] => u = v

Start(u, t) == [url |-> u, timestamp |-> t]

\* The provider at a URL has made the last registration there.
StartedInv ==
    /\ \A r \in started : /\ r \in [url : Urls, timestamp : Nat]
                          /\ r.timestamp < clock
    /\ \A u \in Urls : Bound(u) =>
          /\ Start(u, served[u].timestamp) \in started
          /\ \A r \in started : r.url = u => r.timestamp <= served[u].timestamp

\* A registration with the time t has been made at u.
Known(u, t) == \E r \in started : r.url = u /\ Secs(r.timestamp) = t

\* One of them is over.
Over(u, t) == Known(u, t) /\ (Bound(u) /\ RegTime(u) = t => SharedTime(u, t))

InstancesStarted ==
    \A u \in Urls : \/ registrationInstanceMap[u] \in {NoInstance, 0}
                    \/ Start(u, registrationInstanceMap[u]) \in started

NoticesOver == \A n \in notices : Over(n.url, n.registration_time)

ToldKnown ==
    \A q \in Requests : phase[q] # "new" =>
        Known(lookedUp[q].url, lookedUp[q].registrationTime)

\* A provider that answers is the one named, or that one is over.
AnswerKnown(r) ==
    LET told == lookedUp[r.socket.req]
    IN  r.socket.kind = "service" /\ told.registrationTime # r.regTime =>
            Over(told.url, told.registrationTime)

AnswersKnown == \A r \in arrived : AnswerKnown(r)

TimesInv ==
    StartedInv /\ InstancesStarted /\ NoticesOver /\ ToldKnown /\ AnswersKnown

\* A provider that is bound after a step was bound before, or is new.
LEMMA ServedEffect ==
    ASSUME SystemType, [SystemNext]_systemVars
    PROVE  /\ clock \in Nat /\ clock' \in Nat /\ clock <= clock'
           /\ \A u \in Urls : Bound(u) => served[u].timestamp \in Nat
           /\ \A u \in Urls : Bound(u)' =>
                 \/ /\ served'[u].timestamp = clock /\ clock < clock'
                    /\ ~served'[u].listed
                    /\ started' = started \cup {Start(u, clock)}
                 \/ /\ Bound(u) /\ served'[u].id = served[u].id
                    /\ served'[u].timestamp = served[u].timestamp
                    /\ served'[u].listed => served[u].listed \/ ListService(u)
           /\ \/ started' = started
              \/ \E u \in Urls : /\ started' = started \cup {Start(u, clock)}
                                /\ clock < clock' /\ Bound(u)'
                                /\ served'[u].timestamp = clock
<1> DEFINE New(u) == /\ served'[u].timestamp = clock /\ clock < clock'
                     /\ ~served'[u].listed
                     /\ started' = started \cup {Start(u, clock)}
           Made == \/ started' = started
                   \/ \E u \in Urls : /\ started' = started \cup {Start(u, clock)}
                                     /\ clock < clock' /\ Bound(u)'
                                     /\ served'[u].timestamp = clock
           Same(u) == /\ Bound(u) /\ served'[u].id = served[u].id
                      /\ served'[u].timestamp = served[u].timestamp
                      /\ served'[u].listed => served[u].listed \/ ListService(u)
           Goal == /\ clock' \in Nat /\ clock <= clock'
                   /\ \A u \in Urls : Bound(u)' => New(u) \/ Same(u)
                   /\ Made
<1>1. /\ clock \in Nat /\ served = [u \in Urls |-> served[u]]
      /\ \A u \in Urls : Bound(u) => served[u] \in Provided
  BY DEF SystemType, ProvidersType
<1>2. \A u \in Urls : Bound(u) => served[u].timestamp \in Nat
  <2>1. \A u \in Urls : Bound(u) => served[u].timestamp \in Timestamps
    BY <1>1, ProvidedFields
  <2>2. Timestamps \subseteq Nat
    BY TimeAssumption DEF Timestamps
  <2>3. QED BY <2>1, <2>2
<1>3. ASSUME UNCHANGED <<clock, started, served>> PROVE Goal
  BY <1>1, <1>3 DEF Bound
<1>4. ASSUME NEW u \in Urls, NEW s, BindService(s, u) PROVE Goal
  <2> DEFINE p == [id |-> s, timestamp |-> clock, listed |-> FALSE, blocked |-> FALSE]
  <2>1. /\ clock' = clock + 1 /\ served' = [served EXCEPT ![u] = p]
        /\ started' = started \cup {Start(u, clock)}
    BY <1>4 DEF BindService, Start
  <2>2. p.timestamp = clock /\ p.listed = FALSE
    OBVIOUS
  <2> HIDE DEF p
  <2>3. /\ served'[u] = p
        /\ \A v \in Urls : v # u => served'[v] = served[v]
    BY <1>1, <2>1
  <2>4. clock' \in Nat /\ clock < clock' /\ clock <= clock'
    BY <1>1, <2>1
  <2>5. New(u)
    BY <2>1, <2>2, <2>3, <2>4
  <2>6. \A v \in Urls : v # u /\ Bound(v)' => Same(v)
    BY <2>3 DEF Bound
  <2>7. Made
    <3>1. p # NoService
      BY DEF p, NoService
    <3>2. QED BY <2>1, <2>2, <2>3, <2>4, <3>1 DEF Bound
  <2>8. QED BY <2>4, <2>5, <2>6, <2>7
<1>5. ASSUME NEW u \in Urls, WithdrawService(u) \/ Crash(u) PROVE Goal
  <2>1. UNCHANGED <<clock, started>> /\ served' = [served EXCEPT ![u] = NoService]
    BY <1>5 DEF WithdrawService, Crash
  <2>2. /\ ~Bound(u)' /\ \A v \in Urls : v # u => served'[v] = served[v]
    BY <1>1, <2>1 DEF Bound
  <2>3. QED BY <1>1, <2>1, <2>2 DEF Bound
<1>6. ASSUME NEW u \in Urls, ListService(u) PROVE Goal
  <2>1. /\ Bound(u) /\ UNCHANGED <<clock, started>>
        /\ served' = [served EXCEPT ![u] = [served[u] EXCEPT !.listed = TRUE]]
    BY <1>6 DEF ListService
  <2>2. served[u] \in Provided
    BY <1>1, <2>1
  <2>3. /\ served'[u] = [served[u] EXCEPT !.listed = TRUE]
        /\ \A v \in Urls : v # u => served'[v] = served[v]
    BY <1>1, <2>1
  <2>4. Same(u)
    BY <1>6, <2>1, <2>2, <2>3, ProvidedFields
  <2>5. \A v \in Urls : v # u /\ Bound(v)' => Same(v)
    BY <2>3 DEF Bound
  <2>6. clock' \in Nat /\ clock <= clock'
    BY <1>1, <2>1
  <2>7. Made
    BY <2>1
  <2> HIDE DEF New, Same, Made
  <2>8. QED BY <2>4, <2>5, <2>6, <2>7
<1>7. ASSUME NEW u \in Urls, NEW m, PromiseBlocked(u, m) PROVE Goal
  <2>1. /\ Bound(u) /\ UNCHANGED <<clock, started>>
        /\ served' = [served EXCEPT ![u] = [served[u] EXCEPT !.blocked = TRUE]]
    BY <1>7 DEF PromiseBlocked, Takes
  <2>2. served[u] \in Provided
    BY <1>1, <2>1
  <2>3. /\ served'[u] = [served[u] EXCEPT !.blocked = TRUE]
        /\ \A v \in Urls : v # u => served'[v] = served[v]
    BY <1>1, <2>1
  <2>4. Same(u)
    BY <2>1, <2>2, <2>3, ProvidedFields
  <2>5. \A v \in Urls : v # u /\ Bound(v)' => Same(v)
    BY <2>3 DEF Bound
  <2>6. clock' \in Nat /\ clock <= clock'
    BY <1>1, <2>1
  <2>7. Made
    BY <2>1
  <2> HIDE DEF New, Same, Made
  <2>8. QED BY <2>4, <2>5, <2>6, <2>7
<1> HIDE DEF Goal
<1>8. Goal
  BY <1>3, <1>4, <1>5, <1>6, <1>7, StepMoves DEF Moves, ServedMoves
<1>9. QED BY <1>1, <1>2, <1>8 DEF Goal

\* What has been made stays made, and what is over stays so.
LEMMA KnownStep ==
    ASSUME SystemType, StartedInv, [SystemNext]_systemVars
    PROVE  /\ \A u, t : SharedTime(u, t) => SharedTime(u, t)'
           /\ \A u, t : Known(u, t) => Known(u, t)'
           /\ \A u \in Urls : \A t : Over(u, t) => Over(u, t)'
<1>1. started \subseteq started'
  BY ServedEffect
<1>2. ASSUME NEW u, NEW t, SharedTime(u, t) PROVE SharedTime(u, t)'
  BY <1>1, <1>2 DEF SharedTime
<1>3. ASSUME NEW u, NEW t, Known(u, t) PROVE Known(u, t)'
  BY <1>1, <1>3 DEF Known
<1>4. ASSUME NEW u \in Urls, NEW t, Over(u, t) PROVE Over(u, t)'
  <2>1. Known(u, t)'
    BY <1>3, <1>4 DEF Over
  <2>2. SUFFICES ASSUME Bound(u)', RegTime(u)' = t PROVE SharedTime(u, t)'
    BY <2>1 DEF Over
  <2>3. CASE /\ served'[u].timestamp = clock
             /\ started' = started \cup {Start(u, clock)}
    <3>1. PICK r \in started : r.url = u /\ Secs(r.timestamp) = t
      BY <1>4 DEF Over, Known
    <3>2. r.timestamp < clock /\ r.timestamp \in Nat
      BY DEF StartedInv
    <3>3. Start(u, clock).url = u /\ Start(u, clock).timestamp = clock
      BY DEF Start
    <3>4. Secs(clock) = t
      BY <2>2, <2>3 DEF RegTime, Secs
    <3>5. clock \in Nat
      BY ServedEffect
    <3>6. r # Start(u, clock) /\ r \in started' /\ Start(u, clock) \in started'
      BY <2>3, <3>2, <3>3, <3>5
    <3>7. QED BY <3>1, <3>3, <3>4, <3>6 DEF SharedTime, Secs
  <2>4. CASE Bound(u) /\ served'[u].timestamp = served[u].timestamp
    <3>1. RegTime(u) = t
      BY <2>2, <2>4 DEF RegTime, Secs
    <3>2. QED BY <1>2, <1>4, <2>4, <3>1 DEF Over
  <2>5. QED BY <2>2, <2>3, <2>4, ServedEffect
<1>5. QED BY <1>2, <1>3, <1>4

LEMMA StartedStep ==
    ASSUME SystemType, StartedInv, [SystemNext]_systemVars
    PROVE  StartedInv'
<1>1. clock \in Nat /\ clock' \in Nat /\ clock <= clock'
  BY ServedEffect
<1>2. ASSUME NEW u PROVE Start(u, clock).url = u /\ Start(u, clock).timestamp = clock
  BY DEF Start
<1>3. ASSUME NEW r \in started
      PROVE  r \in [url : Urls, timestamp : Nat] /\ r.timestamp < clock'
             /\ r.timestamp < clock
  BY <1>1 DEF StartedInv
<1>4. \/ started' = started
      \/ \E u \in Urls : /\ started' = started \cup {Start(u, clock)}
                         /\ clock < clock' /\ Bound(u)'
                         /\ served'[u].timestamp = clock
  BY ServedEffect
<1>5. ASSUME NEW r \in started'
      PROVE  /\ r \in [url : Urls, timestamp : Nat] /\ r.timestamp < clock'
             /\ r \in started \/ (r.timestamp = clock /\ r = Start(r.url, clock)
                                  /\ Bound(r.url)' /\ r.url \in Urls
                                  /\ served'[r.url].timestamp = clock)
  <2>1. CASE r \in started
    BY <1>3, <2>1
  <2>2. CASE r \notin started
    <3>1. PICK u \in Urls : /\ r = Start(u, clock) /\ clock < clock' /\ Bound(u)'
                            /\ served'[u].timestamp = clock
      BY <1>4, <2>2
    <3>2. r \in [url : Urls, timestamp : Nat]
      BY <1>1, <3>1 DEF Start
    <3>3. r.url = u /\ r.timestamp = clock
      BY <1>2, <3>1
    <3>4. QED BY <3>1, <3>2, <3>3
  <2>3. QED BY <2>1, <2>2
<1>6. ASSUME NEW u \in Urls, Bound(u)'
      PROVE  /\ Start(u, served'[u].timestamp) \in started'
             /\ \A r \in started' : r.url = u => r.timestamp <= served'[u].timestamp
  <2>1. CASE /\ served'[u].timestamp = clock
             /\ started' = started \cup {Start(u, clock)}
    BY <1>1, <1>3, <1>5, <2>1
  <2>2. CASE /\ Bound(u) /\ served'[u].timestamp = served[u].timestamp
    <3>1. /\ Start(u, served[u].timestamp) \in started
          /\ \A r \in started : r.url = u => r.timestamp <= served[u].timestamp
      BY <2>2 DEF StartedInv
    <3>2. started \subseteq started'
      BY <1>4
    <3>3. Start(u, served'[u].timestamp) \in started'
      BY <2>2, <3>1, <3>2
    <3>4. \A r \in started' : r.url = u => r.timestamp <= served'[u].timestamp
      BY <1>1, <1>5, <2>2, <3>1
    <3>5. QED BY <3>3, <3>4
  <2>3. QED BY <1>6, <2>1, <2>2, ServedEffect
<1>7. QED BY <1>5, <1>6 DEF StartedInv

LEMMA InstancesStartedStep ==
    ASSUME NamedInv, TimesInv, [SystemNext]_systemVars
    PROVE  InstancesStarted'
<1>1. SystemType /\ NoPublishers
  BY DEF NamedInv, NamingInv
<1>2. started \subseteq started'
  BY <1>1, ServedEffect
<1> DEFINE StaysStarted(u) ==
             \/ registrationInstanceMap'[u] \in {NoInstance, 0}
             \/ Start(u, registrationInstanceMap'[u]) \in started'
<1>3. ASSUME NEW u \in Urls, SameOrTouched(u) PROVE StaysStarted(u)
  BY <1>2, <1>3 DEF SameOrTouched, TimesInv, InstancesStarted
<1>4. CASE UNCHANGED vars
  BY <1>2, <1>4 DEF vars, mapVars, TimesInv, InstancesStarted
<1>5. ASSUME NEW v \in Urls, ListService(v), ~UNCHANGED vars, NEW u \in Urls
      PROVE  StaysStarted(u)
  <2>1. Bound(v) /\ RegisterService(ServiceReg(v))
    BY <1>5 DEF ListService, ServiceReg
  <2>2. /\ ServiceReg(v) \in ServiceRegistration
        /\ ServiceReg(v).url = v /\ ServiceReg(v).domain = OwnDomain
        /\ ServiceReg(v).timestamp = served[v].timestamp
    BY <1>1, <2>1, ServiceRegFields DEF SystemType
  <2>3. /\ registrationInstanceMap'[v] = served[v].timestamp
        /\ \A w \in Urls : w # v => SameOrTouched(w)
    BY <1>1, <2>1, <2>2, RegisterEffect DEF SystemType
  <2>4. CASE u = v
    BY <1>2, <2>1, <2>3, <2>4 DEF TimesInv, StartedInv
  <2>5. QED BY <1>3, <2>3, <2>4
<1>6. ASSUME NEW n \in notices, HandleNotice(n), ~UNCHANGED vars, NEW u \in Urls
      PROVE  StaysStarted(u)
  <2>1. UnregisterService(n)
    BY <1>6 DEF HandleNotice
  <2>2. n \in ServiceUnregistration /\ n.domain = OwnDomain
    BY <1>1 DEF SystemType, NoticesType
  <2>3. /\ registrationInstanceMap'[n.url] = NoInstance
        /\ \A w \in Urls : w # n.url => SameOrTouched(w)
    BY <1>1, <2>1, <2>2, UnregisterEffect DEF SystemType
  <2>4. CASE u = n.url
    BY <2>3, <2>4
  <2>5. QED BY <1>3, <2>3, <2>4
<1>7. ASSUME NEW q \in Requests, Lookup(q), NEW u \in Urls PROVE StaysStarted(u)
  BY <1>1, <1>3, <1>7, LookupEffect DEF Lookup
<1>8. QED
  BY <1>4, <1>5, <1>6, <1>7, StepMoves
  DEF Moves, DirectoryMoves, InstancesStarted

LEMMA NoticesOverStep ==
    ASSUME NamedInv, TimesInv, [SystemNext]_systemVars
    PROVE  NoticesOver'
<1>1. SystemType /\ StartedInv
  BY DEF NamedInv, TimesInv
<1>2. ASSUME NEW n \in notices PROVE Over(n.url, n.registration_time)'
  <2>1. n.url \in Urls
    BY <1>1 DEF SystemType, NoticesType, ServiceUnregistration
  <2>2. Over(n.url, n.registration_time)
    BY DEF TimesInv, NoticesOver
  <2>3. QED BY <1>1, <2>1, <2>2, KnownStep
<1>3. CASE notices' \subseteq notices
  BY <1>2, <1>3 DEF NoticesOver
<1>4. ASSUME NEW u \in Urls, WithdrawService(u) PROVE NoticesOver'
  <2>1. /\ Bound(u) /\ UNCHANGED started /\ served' = [served EXCEPT ![u] = NoService]
        /\ notices' = notices \cup {Unregistration(served[u].id, u, RegTime(u))}
    BY <1>4 DEF WithdrawService
  <2>2. Known(u, RegTime(u))
    <3>1. Start(u, served[u].timestamp) \in started
      BY <1>1, <2>1 DEF StartedInv
    <3>2. /\ Start(u, served[u].timestamp).url = u
          /\ Start(u, served[u].timestamp).timestamp = served[u].timestamp
      BY DEF Start
    <3>3. QED BY <3>1, <3>2 DEF Known, RegTime
  <2>3. ~Bound(u)'
    BY <1>1, <2>1 DEF SystemType, ProvidersType, Bound
  <2>4. ASSUME NEW n, n = Unregistration(served[u].id, u, RegTime(u))
        PROVE  Over(n.url, n.registration_time)'
    <3>1. n.url = u /\ n.registration_time = RegTime(u)
      BY <2>4, UnregistrationFields
    <3>2. Known(u, n.registration_time)'
      BY <2>1, <2>2, <3>1 DEF Known, Secs
    <3>3. QED BY <2>3, <3>1, <3>2 DEF Over
  <2>5. QED BY <1>2, <2>1, <2>4 DEF NoticesOver
<1>5. ASSUME NEW unreg, HandleNotice(unreg) PROVE NoticesOver'
  BY <1>3, <1>5 DEF HandleNotice
<1>6. ASSUME NEW r \in arrived, ReceiveResponse(r) PROVE NoticesOver'
  <2> DEFINE q == r.socket.req
             told == lookedUp[q]
             n == Unregistration(ServiceOf[q], told.url, told.registrationTime)
  <2>1. \/ UNCHANGED notices
        \/ /\ ~Named(q, r) /\ r.regTime > 0
           /\ notices' = notices \cup {n}
    BY <1>6 DEF ReceiveResponse, StaleEntry
  <2>2. q \in Requests /\ phase[q] # "new" /\ r.socket.kind \in Kinds
    BY <1>1, ResponseAwaited DEF SystemType, Kinds
  <2>3. told.url \in Urls
    BY <1>1, <2>2 DEF SystemType, LookedUpType
  <2>4. n.url = told.url /\ n.registration_time = told.registrationTime
    BY UnregistrationFields
  <2> HIDE DEF n
  <2>5. ASSUME ~Named(q, r), r.regTime > 0
        PROVE  Over(told.url, told.registrationTime)
    <3>1. r.socket.kind = "service"
      BY <2>2, <2>5 DEF NamedInv, MessagesNamed, ResponseNamed, Kinds
    <3>2. r.regTime # told.registrationTime
      BY <2>5 DEF Named
    <3>3. QED BY <3>1, <3>2 DEF TimesInv, AnswersKnown, AnswerKnown
  <2>6. ASSUME NEW o, o = n, ~Named(q, r), r.regTime > 0
        PROVE  Over(o.url, o.registration_time)'
    <3>1. o.url \in Urls /\ Over(o.url, o.registration_time)
      BY <2>3, <2>4, <2>5, <2>6
    <3>2. QED BY <1>1, <3>1, KnownStep
  <2>7. QED BY <1>2, <2>1, <2>6 DEF NoticesOver
<1>7. QED BY <1>3, <1>4, <1>5, <1>6, StepMoves DEF Moves, NoticesMove

LEMMA ToldKnownStep ==
    ASSUME NamedInv, TimesInv, [SystemNext]_systemVars
    PROVE  ToldKnown'
<1>1. SystemType /\ NamingInv /\ StartedInv
  BY DEF NamedInv, TimesInv
<1>2. ASSUME NEW q \in Requests, phase[q] # "new", lookedUp'[q] = lookedUp[q]
      PROVE  Known(lookedUp[q].url, lookedUp[q].registrationTime)'
  <2>1. Known(lookedUp[q].url, lookedUp[q].registrationTime)
    BY <1>2 DEF TimesInv, ToldKnown
  <2>2. \A u, t : u = lookedUp[q].url /\ t = lookedUp[q].registrationTime
                     => Known(u, t)'
    BY <1>1, <2>1, KnownStep
  <2>3. QED BY <1>2, <2>2 DEF Known
<1>3. ASSUME NEW q \in Requests, Lookup(q) PROVE ToldKnown'
  <2> DEFINE url == serviceMap[OwnDomain][ServiceOf[q]]
             time == registrationInstanceMap[url]
  <2>1. /\ url \in Urls /\ ServiceOf[q] \in ServiceIDs
        /\ lookedUp'[q].url = url
        /\ lookedUp'[q].registrationTime = Secs(Instance(registrationInstanceMap, url))
        /\ \A p \in Requests : p # q => /\ lookedUp'[p] = lookedUp[p]
                                        /\ phase'[p] = phase[p]
    BY <1>1, <1>3, LookupFields
  <2>2. time \in Timestamps
    BY <1>1, <2>1, UrlAssumption DEF NamingInv, DirectoryNames
  <2>3. time \notin {NoInstance, 0}
    BY <2>2, TimeAssumption DEF Timestamps, NoInstance
  <2>4. lookedUp'[q].registrationTime = Secs(time)
    BY <2>1, <2>3 DEF Instance
  <2>5. Start(url, time) \in started
    BY <2>1, <2>3 DEF TimesInv, InstancesStarted
  <2>6. Start(url, time).url = url /\ Start(url, time).timestamp = time
    BY DEF Start
  <2>7. UNCHANGED started
    BY <1>3 DEF Lookup, providerVars
  <2>8. Known(lookedUp[q].url, lookedUp[q].registrationTime)'
    BY <2>1, <2>4, <2>5, <2>6, <2>7 DEF Known, Secs
  <2> HIDE DEF url, time
  <2>9. ASSUME NEW p \in Requests, phase'[p] # "new", p # q
        PROVE  Known(lookedUp[p].url, lookedUp[p].registrationTime)'
    BY <1>2, <2>1, <2>9
  <2>10. QED BY <2>8, <2>9 DEF ToldKnown
<1>4. CASE ~\E q \in Requests : Lookup(q)
  <2>1. UNCHANGED lookedUp
    BY <1>4, StepMoves DEF Moves, LookedUpMoves
  <2>2. \A q \in Requests : phase[q] = "new" => phase'[q] = "new"
    BY <1>1, <1>4, OnlyLookupStarts DEF SystemType
  <2>3. QED BY <1>2, <2>1, <2>2 DEF ToldKnown
<1>5. QED BY <1>3, <1>4

\* What may arrive in a step: the answer of a service, or one at the port of
\* a future response.
ArrivedMoves ==
    \/ arrived' \subseteq arrived
    \/ /\ UNCHANGED <<lookedUp, clock>>
       /\ \E m \in inflight : \E r :
             /\ r.socket = m.socket /\ arrived' \subseteq arrived \cup {r}
             /\ \/ m.to \in Ports
                \/ \E u \in Urls : /\ Takes(u, m) /\ r.regTime = RegTime(u)
                                   /\ UNCHANGED served

LEMMA StepArrivedMoves == [SystemNext]_systemVars => ArrivedMoves
<1> SUFFICES ASSUME [SystemNext]_systemVars PROVE ArrivedMoves
  OBVIOUS
<1>1. ASSUME arrived' \subseteq arrived PROVE ArrivedMoves
  BY <1>1 DEF ArrivedMoves
<1>2. ASSUME NEW u, \/ WithdrawService(u) \/ Crash(u) \/ ListService(u)
                    \/ \E s : BindService(s, u)
      PROVE  ArrivedMoves
  BY <1>1, <1>2
  DEF WithdrawService, Crash, ListService, BindService, networkVars
<1>3. ASSUME NEW unreg, HandleNotice(unreg) PROVE ArrivedMoves
  BY <1>1, <1>3 DEF HandleNotice
<1>4. ASSUME NEW u \in Urls, NEW m \in inflight,
             \/ Reject(u, m) \/ Answer(u, m) \/ Promise(u, m)
             \/ PromiseNoPort(u, m) \/ PromiseBlocked(u, m)
      PROVE  ArrivedMoves
  <2>1. CASE PromiseBlocked(u, m)
    BY <1>1, <2>1 DEF PromiseBlocked
  <2>2. ASSUME NEW port, NEW req, Takes(u, m), UNCHANGED <<lookedUp, clock, served>>,
               Reply(m, Response(m.socket, RegTime(u), port, req, RegistrationAt(u)))
        PROVE  ArrivedMoves
    <3> DEFINE r == Response(m.socket, RegTime(u), port, req, RegistrationAt(u))
    <3>1. arrived' \subseteq arrived \cup {r}
      BY <2>2 DEF Reply
    <3>2. r.socket = m.socket /\ r.regTime = RegTime(u)
      BY ResponseFields
    <3> HIDE DEF r
    <3>3. QED BY <2>2, <3>1, <3>2 DEF ArrivedMoves
  <2>3. CASE Reject(u, m)
    BY <2>2, <2>3 DEF Reject, clientVars, providerVars
  <2>4. CASE Answer(u, m)
    BY <2>2, <2>4 DEF Answer, clientVars
  <2>5. CASE Promise(u, m)
    <3>1. \E p \in FreePorts :
             Reply(m, Response(m.socket, RegTime(u), p, m.socket.req, RegistrationAt(u)))
      BY <2>5 DEF Promise
    <3>2. Takes(u, m) /\ UNCHANGED <<lookedUp, clock, served>>
      BY <2>5 DEF Promise, clientVars
    <3>3. QED BY <2>2, <3>1, <3>2
  <2>6. CASE PromiseNoPort(u, m)
    BY <2>2, <2>6 DEF PromiseNoPort, clientVars
  <2>7. QED BY <1>4, <2>1, <2>3, <2>4, <2>5, <2>6
<1>5. ASSUME NEW p, FutureNotWanted(p) PROVE ArrivedMoves
  BY <1>1, <1>5 DEF FutureNotWanted
<1>6. ASSUME NEW p \in Ports, NEW m \in inflight, SendFuture(p, m)
      PROVE  ArrivedMoves
  <2> DEFINE r == Response(m.socket, 0, NoPort, futures[p].req, futures[p].by)
  <2>1. /\ m.to \in Ports /\ UNCHANGED <<lookedUp, clock>>
        /\ arrived' \subseteq arrived \cup {r}
    BY <1>6 DEF SendFuture, clientVars
  <2>2. r.socket = m.socket
    BY ResponseFields
  <2> HIDE DEF r
  <2>3. QED BY <2>1, <2>2 DEF ArrivedMoves
<1>7. ASSUME NEW q, DeadlinePasses(q) \/ Lookup(q) PROVE ArrivedMoves
  BY <1>1, <1>7 DEF DeadlinePasses, Lookup, networkVars
<1>8. ASSUME NEW q, ManagerStep(q) PROVE ArrivedMoves
  <2>1. CASE ProcessRequest(q)
    BY <1>1, <2>1 DEF ProcessRequest
  <2>2. ASSUME NEW socket, Expire(socket) PROVE ArrivedMoves
    BY <1>1, <2>2 DEF Expire
  <2>3. ASSUME NEW r, ReceiveFuture(r) \/ ReceiveResponse(r) PROVE ArrivedMoves
    BY <1>1, <2>3 DEF ReceiveFuture, ReceiveResponse
  <2>4. QED BY <1>8, <2>1, <2>2, <2>3 DEF ManagerStep
<1>9. ASSUME NEW q, CallerStep(q) PROVE ArrivedMoves
  <2>1. ASSUME NEW r, SyncFuture(q, r) \/ SyncReturn(q, r) PROVE ArrivedMoves
    BY <1>1, <2>1 DEF SyncFuture, SyncReturn
  <2>2. CASE SyncTimeout(q)
    BY <1>1, <2>2 DEF SyncTimeout, networkVars
  <2>3. QED BY <1>9, <2>1, <2>2 DEF CallerStep
<1>10. CASE UNCHANGED systemVars
  BY <1>1, <1>10 DEF systemVars, networkVars
<1>11. QED
  BY <1>2, <1>3, <1>4, <1>5, <1>6, <1>7, <1>8, <1>9, <1>10 DEF SystemNext

LEMMA AnswersKnownStep ==
    ASSUME OneServicePerUrl, NamedInv, TimesInv, [SystemNext]_systemVars
    PROVE  AnswersKnown'
<1>1. SystemType /\ NamingInv /\ MessagesNamed /\ StartedInv
  BY DEF NamedInv, TimesInv
<1>2. ASSUME NEW r \in arrived PROVE AnswerKnown(r)'
  <2>1. r.socket.req \in Requests /\ phase[r.socket.req] # "new"
    BY <1>1, ResponseAwaited DEF SystemType, Kinds
  <2>2. lookedUp'[r.socket.req] = lookedUp[r.socket.req]
    <3>1. ASSUME NEW q \in Requests, Lookup(q)
          PROVE  lookedUp'[r.socket.req] = lookedUp[r.socket.req]
      <4>1. phase[q] = "new"
        BY <3>1 DEF Lookup
      <4>2. QED BY <1>1, <2>1, <3>1, <4>1, LookupFields
    <3>2. QED BY <3>1, StepMoves DEF Moves, LookedUpMoves
  <2>3. lookedUp[r.socket.req].url \in Urls
    BY <1>1, <2>1 DEF SystemType, LookedUpType
  <2>4. SUFFICES ASSUME r.socket.kind = "service",
                        lookedUp[r.socket.req].registrationTime # r.regTime
                 PROVE  Over(lookedUp[r.socket.req].url,
                             lookedUp[r.socket.req].registrationTime)'
    BY <2>2 DEF AnswerKnown
  <2>5. Over(lookedUp[r.socket.req].url, lookedUp[r.socket.req].registrationTime)
    BY <2>4 DEF TimesInv, AnswersKnown, AnswerKnown
  <2>6. \A u \in Urls : \A t : u = lookedUp[r.socket.req].url
              /\ t = lookedUp[r.socket.req].registrationTime => Over(u, t)'
    BY <1>1, <2>5, KnownStep
  <2>7. QED BY <2>2, <2>3, <2>6 DEF Over, Known, SharedTime, Bound, RegTime
<1>3. ASSUME NEW m \in inflight, NEW r, r.socket = m.socket,
             UNCHANGED <<lookedUp, clock>>,
             \/ m.to \in Ports
             \/ \E u \in Urls : Takes(u, m) /\ r.regTime = RegTime(u) /\ UNCHANGED served
      PROVE  AnswerKnown(r)'
  <2>1. CASE m.to \in Ports
    <3>1. m.socket.req \in Requests /\ phase[m.socket.req] # "new"
      BY <1>1 DEF SystemType, RequestInv, ClientType, Exchanged, Sockets
    <3>2. lookedUp[m.socket.req].url \in Urls
      BY <1>1, <3>1 DEF SystemType, LookedUpType
    <3>3. m.socket.kind # "service"
      BY <1>1, <2>1, <3>2, RequestAssumption DEF MessagesNamed, MessageNamed, Ports
    <3>4. QED BY <1>3, <3>3 DEF AnswerKnown
  <2>2. ASSUME NEW u \in Urls, Takes(u, m), r.regTime = RegTime(u), UNCHANGED served
        PROVE  AnswerKnown(r)'
    <3> DEFINE told == lookedUp[m.socket.req]
    <3>1. /\ m.socket.req \in Requests /\ phase[m.socket.req] # "new"
          /\ u = told.url
      BY <1>1, <2>2, TakesNamed
    <3>2. Known(u, told.registrationTime)
      BY <3>1 DEF TimesInv, ToldKnown
    <3>3. told = lookedUp'[r.socket.req]
      BY <1>3
    <3> HIDE DEF told
    <3>4. ASSUME told.registrationTime # r.regTime
          PROVE  Over(u, told.registrationTime)
      BY <2>2, <3>2, <3>4 DEF Over
    <3>5. \A t : Over(u, t) => Over(u, t)'
      BY <1>1, KnownStep
    <3>6. told.registrationTime # r.regTime =>
             \A t : t = told.registrationTime => Over(u, t)'
      BY <3>4, <3>5
    <3>7. QED BY <3>1, <3>3, <3>6
              DEF AnswerKnown, Over, Known, SharedTime, Bound, RegTime
  <2>3. QED BY <1>3, <2>1, <2>2
<1>4. CASE arrived' \subseteq arrived
  BY <1>2, <1>4 DEF AnswersKnown
<1>5. QED
  BY <1>2, <1>3, <1>4, StepArrivedMoves DEF ArrivedMoves, AnswersKnown

LEMMA ProviderStaysListedStep ==
    ASSUME OneServicePerUrl, OneUrlPerService, NamedInv, TimesInv, ProviderStaysListed,
           [SystemNext]_systemVars
    PROVE  ProviderStaysListed'
<1>1. SystemType /\ NoPublishers /\ NoticesNamed
  BY DEF NamedInv, NamingInv
<1>2. SUFFICES ASSUME NEW u \in Urls, Bound(u)', served'[u].listed,
                      ~SharedTime(u, RegTime(u))'
               PROVE  /\ serviceMap'[OwnDomain][served'[u].id] = u
                      /\ registrationInstanceMap'[u] = served'[u].timestamp
  BY DEF ProviderStaysListed
<1> DEFINE id == served[u].id
           time == served[u].timestamp
           Led == /\ serviceMap'[OwnDomain][id] = u
                  /\ registrationInstanceMap'[u] = time
<1>3. /\ Bound(u) /\ served'[u].id = id /\ served'[u].timestamp = time
      /\ served[u].listed \/ ListService(u)
  BY <1>1, <1>2, ServedEffect
<1>0. ~SharedTime(u, Secs(time))
  <2>1. RegTime(u)' = Secs(time)
    BY <1>3 DEF RegTime, Secs
  <2>2. \A t : SharedTime(u, t) => SharedTime(u, t)'
    BY <1>1, KnownStep DEF TimesInv
  <2>3. \A t : t = Secs(time) => ~SharedTime(u, t)'
    BY <1>2, <2>1 DEF SharedTime
  <2>4. QED BY <2>2, <2>3
<1>4. /\ id \in ServiceIDs /\ id \in Offers[u] /\ time \in Nat
      /\ 0 < time /\ time # NoInstance
  <2>1. /\ id \in ServiceIDs /\ id \in Offers[u] /\ TicksPerSecond <= time
    BY <1>1, <1>3, ProvidedFields DEF SystemType, ProvidersType
  <2>2. time \in Nat
    BY <1>1, <1>3, ServedEffect
  <2>3. QED BY <2>1, <2>2, TimeAssumption DEF NoInstance
<1>5. ASSUME ListService(u) PROVE Led
  <2>1. /\ ServiceReg(u) \in ServiceRegistration
        /\ ServiceReg(u).id = id /\ ServiceReg(u).url = u
        /\ ServiceReg(u).domain = OwnDomain /\ ServiceReg(u).timestamp = time
    BY <1>1, <1>3, ServiceRegFields DEF SystemType
  <2>2. registrationInstanceMap[u] \in Int /\ registrationInstanceMap[u] <= time
    <3>1. {NoInstance, 0} \cup Timestamps \subseteq Int
      BY TimeAssumption DEF NoInstance, Timestamps
    <3>2. registrationInstanceMap[u] \in Int
      BY <1>1, <3>1 DEF SystemType, TypeOK
    <3>3. CASE registrationInstanceMap[u] \in {NoInstance, 0}
      BY <1>4, <3>2, <3>3 DEF NoInstance
    <3>4. CASE Start(u, registrationInstanceMap[u]) \in started
      <4>1. /\ Start(u, registrationInstanceMap[u]).url = u
            /\ Start(u, registrationInstanceMap[u]).timestamp
                  = registrationInstanceMap[u]
        BY DEF Start
      <4>2. QED BY <1>3, <3>2, <3>4, <4>1 DEF TimesInv, StartedInv
    <3>5. QED BY <3>2, <3>3, <3>4 DEF TimesInv, InstancesStarted
  <2>3. Accepted(ServiceReg(u))
    BY <1>4, <2>1, <2>2 DEF Accepted
  <2>4. RegisterService(ServiceReg(u))
    BY <1>5, <2>3 DEF ListService, ServiceReg
  <2>5. QED BY <1>1, <2>1, <2>4, RegisterEffect DEF SystemType
<1>6. ASSUME served[u].listed
      PROVE  serviceMap[OwnDomain][id] = u /\ registrationInstanceMap[u] = time
  BY <1>0, <1>3, <1>6 DEF ProviderStaysListed, RegTime
<1>7. ASSUME served[u].listed, SameOrTouched(u),
             serviceMap'[OwnDomain][id] = serviceMap[OwnDomain][id]
      PROVE  Led
  BY <1>4, <1>6, <1>7 DEF SameOrTouched
<1>8. ASSUME served[u].listed, UNCHANGED vars PROVE Led
  BY <1>6, <1>8 DEF vars, mapVars
<1>9. ASSUME served[u].listed, NEW v \in Urls, v # u, ListService(v), ~UNCHANGED vars
      PROVE  Led
  <2>1. Bound(v) /\ RegisterService(ServiceReg(v))
    BY <1>9 DEF ListService, ServiceReg
  <2>2. /\ ServiceReg(v) \in ServiceRegistration
        /\ ServiceReg(v).id = served[v].id /\ ServiceReg(v).url = v
        /\ ServiceReg(v).domain = OwnDomain /\ served[v].id \in Offers[v]
    BY <1>1, <2>1, ServiceRegFields DEF SystemType, ProvidersType
  <2>3. served[v].id # id
    BY <1>4, <1>9, <2>2 DEF OneUrlPerService
  <2>4. SameOrTouched(u) /\ serviceMap'[OwnDomain][id] = serviceMap[OwnDomain][id]
    BY <1>1, <1>4, <1>9, <2>1, <2>2, <2>3, RegisterEffect DEF SystemType
  <2>5. QED BY <1>7, <1>9, <2>4
<1>10. ASSUME served[u].listed, NEW n \in notices, HandleNotice(n), ~UNCHANGED vars
       PROVE  Led
  <2>1. UnregisterService(n)
    BY <1>10 DEF HandleNotice
  <2>2. n \in ServiceUnregistration /\ n.domain = OwnDomain
    BY <1>1 DEF SystemType, NoticesType
  <2>3. n.url \in Urls /\ n.id \in Offers[n.url]
    BY <1>1, <2>2 DEF NoticesNamed, ServiceUnregistration
  <2>4. /\ \A s \in ServiceIDs : s # n.id =>
              serviceMap'[OwnDomain][s] = serviceMap[OwnDomain][s]
        /\ Secs(registrationInstanceMap[n.url]) = n.registration_time
        /\ \A v \in Urls : v # n.url => SameOrTouched(v)
    BY <1>1, <2>1, <2>2, UnregisterEffect DEF SystemType
  <2>5. ASSUME n.url = u PROVE FALSE
    <3>1. Over(u, n.registration_time)
      BY <2>5 DEF TimesInv, NoticesOver
    <3>2. n.registration_time = Secs(time)
      BY <1>6, <1>10, <2>4, <2>5
    <3>3. QED BY <1>0, <1>3, <3>1, <3>2 DEF Over, RegTime
  <2>6. n.id # id
    BY <1>4, <2>3, <2>5 DEF OneUrlPerService
  <2>7. QED BY <1>4, <1>7, <1>10, <2>4, <2>5, <2>6
<1>11. ASSUME served[u].listed, NEW q \in Requests, Lookup(q) PROVE Led
  <2>1. UNCHANGED serviceMap /\ SameOrTouched(u)
    BY <1>1, <1>11, LookupEffect DEF Lookup
  <2>2. QED BY <1>7, <1>11, <2>1
<1> HIDE DEF Led
<1>12. Led
  BY <1>3, <1>5, <1>8, <1>9, <1>10, <1>11, StepMoves DEF Moves, DirectoryMoves
<1>13. QED BY <1>3, <1>12 DEF Led

ListedInv == NamedInv /\ TimesInv /\ ProviderStaysListed

LEMMA ListedInvInitial == SystemInit => ListedInv
<1> SUFFICES ASSUME SystemInit PROVE ListedInv
  OBVIOUS
<1>1. \A u \in Urls : ~Bound(u)
  BY DEF SystemInit, Bound
<1>2. ProviderStaysListed
  BY <1>1 DEF ProviderStaysListed
<1>3. StartedInv
  BY <1>1 DEF StartedInv, SystemInit
<1>4. InstancesStarted
  BY DEF InstancesStarted, SystemInit, Init
<1>5. NoticesOver /\ ToldKnown /\ AnswersKnown
  BY DEF SystemInit, NoticesOver, ToldKnown, AnswersKnown
<1>6. QED BY <1>2, <1>3, <1>4, <1>5, NamedInvInitial DEF ListedInv, TimesInv

\* The directory leads to every provider that has registered: neither the
\* unregistration of an earlier provider that is handled late nor a client
\* that met the stale entry of one removes the entry of the provider that has
\* come to the port since, unless it has come in the same second, if a service
\* has one port of its own.  The length of a second is arbitrary.
THEOREM ProviderStaysListedHolds ==
    ASSUME OneServicePerUrl, OneUrlPerService
    PROVE  SystemSpec => []ProviderStaysListed
<1>1. ListedInv /\ [SystemNext]_systemVars => ListedInv'
  <2> SUFFICES ASSUME ListedInv, [SystemNext]_systemVars PROVE ListedInv'
    OBVIOUS
  <2>1. NamedInv /\ TimesInv /\ SystemType /\ StartedInv
    BY DEF ListedInv, NamedInv, TimesInv
  <2>2. NamedInv'
    BY <2>1, NamedInvStep
  <2>3. StartedInv' /\ InstancesStarted' /\ NoticesOver'
    BY <2>1, StartedStep, InstancesStartedStep, NoticesOverStep
  <2>4. ToldKnown' /\ AnswersKnown'
    BY <2>1, ToldKnownStep, AnswersKnownStep
  <2>5. QED BY <2>1, <2>2, <2>3, <2>4, ProviderStaysListedStep DEF ListedInv, TimesInv
<1>2. ListedInv => ProviderStaysListed
  BY DEF ListedInv
<1>3. QED
  BY <1>1, <1>2, ListedInvInitial, PTL DEF SystemSpec
=============================================================================
