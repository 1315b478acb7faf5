------------------------- MODULE MCServiceRequests -------------------------
(***************************************************************************)
(* Model values for checking ServiceRequests: one service, whose providers *)
(* follow one another at one port, and up to two requests of either kind.  *)
(***************************************************************************)
EXTENDS ServiceRequests, TLC

CONSTANTS own, rp, s1, u1, q1, q2, q3

MCDomains == {own}
MCProductIDs == {rp}
MCServiceIDs == {s1}
MCUrls == {u1}
MCOneAsync == {q1}
MCTwoAsync == {q1, q2}
MCNoSync == {}
MCOneSync == {q3}
MCOffers == [u \in Urls |-> ServiceIDs]
MCServiceOf == [q \in Requests |-> s1]
=============================================================================
