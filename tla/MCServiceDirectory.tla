------------------------ MODULE MCServiceDirectory ------------------------
(***************************************************************************)
(* Model values for checking ServiceDirectory.  Two URLs and two products  *)
(* besides RegisteredPublishers let a URL change hands; three timestamps   *)
(* in two seconds let two registrations fall in the same second.           *)
(***************************************************************************)
EXTENDS ServiceDirectory, TLC

CONSTANTS own, foreign, rp, p1, p2, s1, u1, u2

MCOneDomain == {own}
MCTwoDomains == {own, foreign}
MCProductIDs == {rp, p1, p2}
MCTwoProducts == {rp, p1}
MCNoServices == {}
MCServiceIDs == {s1}
MCUrls == {u1, u2}
=============================================================================
