----------------------------- MODULE MCPlayback -----------------------------
(***************************************************************************)
(* Model values for checking Playback: a product of interest and another.  *)
(***************************************************************************)
EXTENDS Playback

CONSTANTS p, q

MCProductIDs == {p, q}
MCList == {p}

\* The definition without recursion is the one of the standard module.
ASSUME InterestingIsSelectSeq ==
    \A n \in 0..5 : \A ids \in [1..n -> ProductIDs] :
        LET products == [i \in 1..n |-> [id |-> ids[i], number |-> i]]
        IN  Interesting(products) = SelectSeq(products, OfInterest)
=============================================================================
