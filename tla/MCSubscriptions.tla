-------------------------- MODULE MCSubscriptions --------------------------
(***************************************************************************)
(* Model values for checking Subscriptions: a port that publishers of two  *)
(* products take over from one another, and two subscribers, of which one  *)
(* joins the other's subscription.                                         *)
(***************************************************************************)
EXTENDS Subscriptions, TLC

CONSTANTS own, rp, p1, p2, sd, u1, a, b, m1

MCDomains == {own}
MCProductIDs == {rp, p1, p2}
MCServiceIDs == {}
MCUrls == {sd, u1}
MCSubscribers == {a, b}
MCOneSubscriber == {a}
MCMonitors == {m1}
MCNoMonitors == {}
MCNoUses == {}
MCLateUses == {"publishEarly", "bindLate"}
MCSymmetry == Permutations(MCSubscribers)
=============================================================================
