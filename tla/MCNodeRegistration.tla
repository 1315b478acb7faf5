------------------------ MODULE MCNodeRegistration ------------------------
(***************************************************************************)
(* Model values for checking NodeRegistration: two nodes, with a port each *)
(* or with one port to compete for.                                        *)
(***************************************************************************)
EXTENDS NodeRegistration, TLC

CONSTANTS own, rp, p1, p2, s1, s2, u1, u2, a, b

MCDomains == {own}
MCProductIDs == {rp, p1, p2}
MCServiceIDs == {s1, s2}
MCUrls == {u1, u2, EmptyUrl}
MCTwoNodes == {a, b}

Data(id) == [type |-> "DATA", id |-> id]
Service(id) == [type |-> "SERVICE", id |-> id]

\* One node publishes p1, the other provides s1.
MCProductOrService == (a :> {Data(p1)}) @@ (b :> {Service(s1)})
\* One node publishes p1, the other as well, and provides two services.
MCTwoServices == (a :> {Data(p1)}) @@ (b :> {Data(p1), Service(s1), Service(s2)})
\* Both nodes publish p1.
MCSharedProduct == (a :> {Data(p1)}) @@ (b :> {Data(p1)})
\* Both nodes provide s1.
MCSharedService == (a :> {Service(s1)}) @@ (b :> {Service(s1)})

\* Each node publishes a product of its own.
MCTwoProducts == (a :> {Data(p1)}) @@ (b :> {Data(p2)})

\* A port for each node; one port for all.
MCOwnPorts == (a :> {u1}) @@ (b :> {u2})
MCSamePort == (a :> {u1}) @@ (b :> {u1})
=============================================================================
