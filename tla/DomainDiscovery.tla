--------------------------- MODULE DomainDiscovery ---------------------------
(***************************************************************************)
(* How a Service Directory learns of other domains, in                     *)
(* src/src/components/cpp/ServiceDirectory: the broadcaster thread of      *)
(* every directory (ServiceDirectoryUDPBroadcaster.cpp), the receiver      *)
(* thread of this one, which counts the broadcasts of each domain          *)
(* (ServiceDirectoryUDPReceiver.cpp), and the commands it sends to the     *)
(* main loop, which passes them on to the synchronizer                     *)
(* (ServiceDirectory.cpp, ServiceDirectorySynchronizer.cpp).               *)
(*                                                                         *)
(* Times are what is left of them, in units; Tick lets a unit pass.        *)
(* Datagrams are lost, directories stop and start again, and the receiver  *)
(* runs up to MaxLate units late.  A unit is a second.                     *)
(***************************************************************************)
EXTENDS Integers, Sequences, FiniteSets, SequencesExt

CONSTANTS
    Domains,            \* domains that broadcast, the own one included
    OwnDomain,
    BroadcastEnabled,   \* does this directory broadcast, too?
    ValidDomains,       \* DomainSyncList
    MAX_RECEIVE_COUNT,
    Rate,               \* ServiceDirectoryBroadcastRate of every directory
    MaxStarts,          \* seconds in which a directory may be started
    MaxLate,            \* units the receiver may be late
    MaxDatagrams,       \* datagrams the receiver's socket can hold
    MaxCommands         \* commands that may be on their way when time passes

ASSUME DiscoveryAssumption ==
    /\ IsFiniteSet(Domains) /\ OwnDomain \in Domains
    /\ BroadcastEnabled \in BOOLEAN
    /\ MAX_RECEIVE_COUNT \in Nat \ {0} /\ Rate \in Nat \ {0}
    /\ MaxStarts \in Nat \ {0} /\ MaxLate \in Nat /\ MaxDatagrams \in Nat \ {0}
    /\ MaxCommands \in Nat

VARIABLES
    up,                 \* domain -> is its directory running?
    starttime,          \* domain -> second its broadcaster was started in
    sleep,              \* domain -> units until its next broadcast
    datagrams,          \* what the receiver's socket holds
    receivedCountMap,   \* domain -> count; 0 when the map does not have it
    expectedMsgTimeMap, \* domain -> units until its next message is expected
    connectedDomainMap, \* domain -> start time; 0 when it is not connected
    timer,              \* units until recvfrom gives up
    late,               \* units the receiver has been late
    domainCommands,     \* commands on their way to the main loop
    domainMap,          \* domains the main loop knows
    announced,          \* known_domains of the last DomainUpdate published
    synchronizerCommands, \* commands on their way to the synchronizer
    syncMap             \* domains the synchronizer follows

remoteVars == <<up, starttime, sleep>>
receiverVars == <<receivedCountMap, expectedMsgTimeMap, connectedDomainMap,
                  timer, late>>
mainVars == <<domainMap, announced>>
synchronizerVars == <<synchronizerCommands, syncMap>>
vars == <<remoteVars, datagrams, receiverVars, domainCommands, mainVars,
          synchronizerVars>>

-----------------------------------------------------------------------------
Forever == -1           \* a timeout of 0 makes recvfrom wait for ever
Oldest == -(2 * Rate + MaxLate)     \* a bound for expected times
Known == {d \in Domains : receivedCountMap[d] # 0}

Command(kind, d) == [kind |-> kind, domain |-> d]

TypeOK ==
    /\ up \in [Domains -> BOOLEAN]
    /\ starttime \in [Domains -> 1..MaxStarts]
    /\ sleep \in [Domains -> 0..Rate]
    /\ datagrams \in Seq([domain : Domains, starttime : 1..MaxStarts])
    /\ Len(datagrams) <= MaxDatagrams
    /\ receivedCountMap \in [Domains -> 0..MAX_RECEIVE_COUNT]
    /\ expectedMsgTimeMap \in [Domains -> Oldest..Rate]
    /\ connectedDomainMap \in [Domains -> 0..MaxStarts]
    /\ timer \in {Forever} \cup 0..(Rate + 1)
    /\ late \in 0..MaxLate
    /\ \A commands \in {domainCommands, synchronizerCommands} :
         commands \in Seq([kind : {"Add", "Update", "Remove"}, domain : Domains])
    /\ domainMap \subseteq Domains
    /\ announced \subseteq Domains
    /\ syncMap \subseteq Domains

Init ==
    /\ up = [d \in Domains |-> d = OwnDomain /\ BroadcastEnabled]
    /\ starttime = [d \in Domains |-> 1]
    /\ sleep = [d \in Domains |-> 0]
    /\ datagrams = << >>
    /\ receivedCountMap = [d \in Domains |-> 0]
    /\ expectedMsgTimeMap = [d \in Domains |-> 0]
    /\ connectedDomainMap = [d \in Domains |-> 0]
    /\ timer = Forever
    /\ late = 0
    /\ domainCommands = << >>
    /\ domainMap = {}
    /\ announced = {}
    /\ synchronizerCommands = << >>
    /\ syncMap = {}

-----------------------------------------------------------------------------
(* The broadcasters.                                                       *)

\* A directory of another domain starts, perhaps in the second in which an
\* earlier one did.
Start(d) ==
    /\ d # OwnDomain /\ ~up[d]
    /\ up' = [up EXCEPT ![d] = TRUE]
    /\ \E s \in starttime[d]..MaxStarts : starttime' = [starttime EXCEPT ![d] = s]
    /\ sleep' = [sleep EXCEPT ![d] = 0]
    /\ UNCHANGED <<datagrams, receiverVars, domainCommands, mainVars,
                   synchronizerVars>>

Stop(d) ==
    /\ d # OwnDomain /\ up[d]
    /\ up' = [up EXCEPT ![d] = FALSE]
    /\ sleep' = [sleep EXCEPT ![d] = 0]
    /\ UNCHANGED <<starttime, datagrams, receiverVars, domainCommands, mainVars,
                   synchronizerVars>>

\* A broadcast, which reaches the socket or is lost, and then to sleep.  The
\* own broadcast does not leave the host; it is lost only to a full socket.
Broadcast(d) ==
    /\ up[d] /\ sleep[d] = 0
    /\ sleep' = [sleep EXCEPT ![d] = Rate]
    /\ \/ /\ Len(datagrams) < MaxDatagrams
          /\ datagrams' = Append(datagrams,
               [domain |-> d, starttime |-> starttime[d]])
       \/ /\ d # OwnDomain \/ Len(datagrams) = MaxDatagrams
          /\ UNCHANGED datagrams
    /\ UNCHANGED <<up, starttime, receiverVars, domainCommands, mainVars,
                   synchronizerVars>>

-----------------------------------------------------------------------------
(* The receiver.                                                           *)

\* The timeout that the loop over expectedMsgTimeMap ends with.  The loop
\* takes a time to wait of 0, which subtractTime returns when none is left,
\* for one that is not set: only the domains behind the last one whose time
\* has come are looked at, and the timeout is 0 when there are none.
Timeout(expected, domains) ==
    LET order == SetToSeq(domains)
        behind == {i \in 1..Len(order) :
                     \A j \in i..Len(order) : expected[order[j]] > 0}
    IN  IF behind = {} THEN 0 ELSE Min({expected[order[i]] : i \in behind})

\* subtractTime does not borrow from the seconds: when the fraction of the
\* expected time is the smaller one, the result is up to a unit too long.
Timers(timeout) == IF timeout = 0 THEN {Forever} ELSE {timeout, timeout + 1}

\* Expected times that have passed are counted; the domains in gone are
\* forgotten, and those in removed are removed.
CountMisses(count, expected, connected, commands, gone, removed) ==
    LET missed == {d \in Domains : count[d] # 0 /\ expected[d] <= 0}
    IN  /\ receivedCountMap' = [d \in Domains |->
             IF d \in gone THEN 0
             ELSE IF d \in missed /\ count[d] > 1 THEN count[d] - 1 ELSE count[d]]
        /\ expectedMsgTimeMap' = [d \in Domains |->
             IF d \in gone THEN 0
             ELSE IF d \in missed THEN expected[d] + Rate ELSE expected[d]]
        /\ connectedDomainMap' = [d \in Domains |->
             IF d \in gone THEN 0 ELSE connected[d]]
        /\ domainCommands' = commands \o
             [i \in 1..Cardinality(removed) |-> Command("Remove", SetToSeq(removed)[i])]
        /\ timer' \in Timers(Timeout(expectedMsgTimeMap',
                                    {d \in Domains : receivedCountMap'[d] # 0}))

\* The domains whose count is used up by a missed message.
UsedUp(count, expected) == {d \in Domains : count[d] = 1 /\ expected[d] <= 0}

\* Mutant of CheckExpected: the last count is never used up.
CheckExpectedKeeps(count, expected, connected, commands) ==
    CountMisses(count, expected, connected, commands, {}, {})

\* The second half of every round of the loop: a domain whose count is used
\* up is forgotten, and removed if it was connected.
CheckExpected(count, expected, connected, commands) ==
    LET gone == UsedUp(count, expected)
    IN  CountMisses(count, expected, connected, commands, gone,
                    {d \in gone : connected[d] # 0})

\* The count after a broadcast of d, which has been seen before or not.
Counted(d) ==
    IF receivedCountMap[d] = MAX_RECEIVE_COUNT THEN MAX_RECEIVE_COUNT
    ELSE receivedCountMap[d] + 1

\* Enough broadcasts have been seen, this not being the first.
Enough(d) == receivedCountMap[d] # 0 /\ Counted(d) >= MAX_RECEIVE_COUNT

\* The command that a broadcast gives rise to, if any.
CommandFor(m) ==
    IF ~Enough(m.domain) THEN << >>
    ELSE IF connectedDomainMap[m.domain] = 0 THEN <<Command("Add", m.domain)>>
    ELSE IF connectedDomainMap[m.domain] # m.starttime
         THEN <<Command("Update", m.domain)>> ELSE << >>

\* Mutant of ConnectedWith: the start time of an update is not kept.
ConnectedWithFirst(m) ==
    IF Enough(m.domain) /\ connectedDomainMap[m.domain] = 0
    THEN [connectedDomainMap EXCEPT ![m.domain] = m.starttime]
    ELSE connectedDomainMap

ConnectedWith(m) ==
    IF Enough(m.domain)
    THEN [connectedDomainMap EXCEPT ![m.domain] = m.starttime]
    ELSE connectedDomainMap

\* isValidDomain, and not the own domain.
Valid(d) == d # OwnDomain /\ d \in ValidDomains

\* recvfrom returns a message.  Those of the own domain and of domains that
\* are not in the list are ignored.
Receive ==
    /\ datagrams # << >>
    /\ datagrams' = Tail(datagrams)
    /\ late' = 0
    /\ LET m == Head(datagrams)
           d == m.domain
       IN \/ /\ Valid(d)
             /\ CheckExpected([receivedCountMap EXCEPT ![d] = Counted(d)],
                              [expectedMsgTimeMap EXCEPT ![d] = Rate],
                              ConnectedWith(m), domainCommands \o CommandFor(m))
          \/ /\ ~Valid(d)
             /\ CheckExpected(receivedCountMap, expectedMsgTimeMap,
                              connectedDomainMap, domainCommands)
    /\ UNCHANGED <<remoteVars, mainVars, synchronizerVars>>

\* recvfrom gives up.
ReceiveTimeout ==
    /\ datagrams = << >> /\ timer = 0
    /\ late' = 0
    /\ CheckExpected(receivedCountMap, expectedMsgTimeMap, connectedDomainMap,
                     domainCommands)
    /\ UNCHANGED <<remoteVars, datagrams, mainVars, synchronizerVars>>

-----------------------------------------------------------------------------
(* The main loop and the synchronizer.                                     *)

\* Mutant of MainLoop: a removed domain is announced before it is erased.
MainLoopAnnouncesFirst ==
    /\ domainCommands # << >>
    /\ domainCommands' = Tail(domainCommands)
    /\ LET c == Head(domainCommands)
       IN /\ domainMap' = IF c.kind = "Remove" THEN domainMap \ {c.domain}
                          ELSE domainMap \cup {c.domain}
          /\ announced' = IF c.kind = "Update" THEN announced
                          ELSE domainMap \cup {c.domain}
          /\ synchronizerCommands' = Append(synchronizerCommands, c)
    /\ UNCHANGED <<remoteVars, datagrams, receiverVars, syncMap>>

\* Add, Update and Remove: the map, the DomainUpdate message of an Add or a
\* Remove, and the command for the synchronizer.
MainLoop ==
    /\ domainCommands # << >>
    /\ domainCommands' = Tail(domainCommands)
    /\ LET c == Head(domainCommands)
       IN /\ domainMap' = IF c.kind = "Remove" THEN domainMap \ {c.domain}
                          ELSE domainMap \cup {c.domain}
          /\ announced' = IF c.kind = "Update" THEN announced ELSE domainMap'
          /\ synchronizerCommands' = Append(synchronizerCommands, c)
    /\ UNCHANGED <<remoteVars, datagrams, receiverVars, syncMap>>

\* What the commands do to the synchronizer's map.
Synchronize ==
    /\ synchronizerCommands # << >>
    /\ synchronizerCommands' = Tail(synchronizerCommands)
    /\ LET c == Head(synchronizerCommands)
       IN syncMap' = IF c.kind = "Remove" THEN syncMap \ {c.domain}
                     ELSE syncMap \cup {c.domain}
    /\ UNCHANGED <<remoteVars, datagrams, receiverVars, domainCommands, mainVars>>

-----------------------------------------------------------------------------
\* A unit of time passes, unless a thread would be later than it may be.
Tick ==
    /\ \A d \in Domains : up[d] => sleep[d] > 0
    /\ Len(domainCommands) + Len(synchronizerCommands) <= MaxCommands
    /\ LET due == datagrams # << >> \/ timer = 0
       IN /\ due => late < MaxLate
          /\ late' = IF due THEN late + 1 ELSE 0
    /\ sleep' = [d \in Domains |-> IF up[d] THEN sleep[d] - 1 ELSE 0]
    /\ timer' = IF timer > 0 THEN timer - 1 ELSE timer
    /\ expectedMsgTimeMap' = [d \in Domains |->
         IF d \in Known /\ expectedMsgTimeMap[d] > Oldest
         THEN expectedMsgTimeMap[d] - 1 ELSE expectedMsgTimeMap[d]]
    /\ UNCHANGED <<up, starttime, datagrams, receivedCountMap,
                   connectedDomainMap, domainCommands, mainVars, synchronizerVars>>

Next ==
    \/ \E d \in Domains : Start(d) \/ Stop(d) \/ Broadcast(d)
    \/ Receive \/ ReceiveTimeout \/ MainLoop \/ Synchronize \/ Tick

\* The threads run, and time passes.  Directories need not start or stop.
Spec ==
    /\ Init /\ [][Next]_vars
    /\ \A d \in Domains : WF_vars(Broadcast(d))
    /\ WF_vars(Receive) /\ WF_vars(ReceiveTimeout)
    /\ WF_vars(MainLoop) /\ WF_vars(Synchronize)
    /\ []<><<Tick>>_vars

-----------------------------------------------------------------------------
Connected == {d \in Domains : connectedDomainMap[d] # 0}

\* What a map becomes once the commands have been carried out: the last
\* command about a domain decides.
Applied(commands, domains) ==
    LET last(d, i) == /\ commands[i].domain = d
                      /\ \A j \in (i + 1)..Len(commands) : commands[j].domain # d
    IN  {d \in Domains :
           \/ d \in domains /\ \A i \in 1..Len(commands) : commands[i].domain # d
           \/ \E i \in 1..Len(commands) : last(d, i) /\ commands[i].kind # "Remove"}

\* The main loop and the synchronizer follow the receiver: once they have
\* carried out what is on its way, all three know the same domains, which
\* are the ones clients were last told of.  The commands come in an order
\* that the synchronizer can follow: it looks up the domain of an Update
\* without checking that it has it.
ThreadsAgree ==
    /\ TypeOK
    /\ Applied(domainCommands, domainMap) = Connected
    /\ Applied(synchronizerCommands, syncMap) = domainMap
    /\ announced = domainMap
    /\ LET commands == synchronizerCommands \o domainCommands
       IN \A i \in 1..Len(commands) :
            LET before == Applied(SubSeq(commands, 1, i - 1), syncMap)
            IN (commands[i].kind = "Add") <=> (commands[i].domain \notin before)

\* A domain whose directory stays down is removed by all threads, however
\* late the receiver is, because the own broadcasts wake it up.
DeadDomainIsRemoved ==
    \A d \in Domains \ {OwnDomain} :
      <>[](~up[d]) => <>[](d \notin Connected \cup domainMap \cup syncMap)

\* A domain that stays up, and of which no more message is missed, is added
\* by all threads, with the start time of the directory that runs.
LiveDomainIsAdded ==
    \A d \in ValidDomains \ {OwnDomain} :
      <>[](up[d] /\ receivedCountMap[d] # 0)
        /\ <>[][receivedCountMap'[d] >= receivedCountMap[d]]_vars
      => <>[](/\ connectedDomainMap[d] = starttime[d]
              /\ d \in domainMap \cap syncMap)
=============================================================================
