------------------------------- MODULE Replay -------------------------------
(***************************************************************************)
(* What recording and replaying promise: the products of interest that     *)
(* were archived are published in the order of the archive, each of them   *)
(* once, up to the end that the archive had at one moment.                 *)
(***************************************************************************)
EXTENDS Integers, Sequences

CONSTANTS Products

VARIABLES
    archive,    \* the archived products of interest
    published,  \* what has been published
    end,        \* where the archive ends for the replay; NoEnd before
    over        \* is the replay over?

vars == <<archive, published, end, over>>

NoEnd == -1

Init ==
    /\ archive = << >>
    /\ published = << >>
    /\ end = NoEnd
    /\ over = FALSE

Record(p) ==
    /\ archive' = Append(archive, p)
    /\ UNCHANGED <<published, end, over>>

\* The replay has seen everything there is.
ReachEnd ==
    /\ end = NoEnd
    /\ end' = Len(archive)
    /\ UNCHANGED <<archive, published, over>>

Publish ==
    /\ Len(published) < IF end = NoEnd THEN Len(archive) ELSE end
    /\ published' = Append(published, archive[Len(published) + 1])
    /\ UNCHANGED <<archive, end, over>>

\* Everything up to the end, which may be found only now, is published.
Finish ==
    /\ ~over
    /\ Len(published) = IF end = NoEnd THEN Len(archive) ELSE end
    /\ end' = Len(published)
    /\ over' = TRUE
    /\ UNCHANGED <<archive, published>>

Next == (\E p \in Products : Record(p)) \/ ReachEnd \/ Publish \/ Finish

Spec ==
    /\ Init /\ [][Next]_vars
    /\ WF_vars(ReachEnd \/ Publish \/ Finish)
=============================================================================
