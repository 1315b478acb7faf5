---------------------------- MODULE MCHeartbeats ----------------------------
(***************************************************************************)
(* Model values for checking Heartbeats.                                   *)
(***************************************************************************)
EXTENDS Heartbeats

CONSTANTS a, b

\* One component that restarts its heartbeat while old threads still run.
MCOne == {a}
MCOverlap == {"overlap"}
MCOverlapAgain == {"overlap", "again"}
MCEarly == {"earlyStop"}

\* Two components, one of which never sends, and listeners that change their
\* intervals.
MCTwo == {a, b}
MCSenders == {a}
MCPeriod == [c \in Components |-> 1]
MCIntervals == [c \in Components |-> IF c = a THEN {2} ELSE {1}]
MCChanging == [c \in Components |-> IF c = a THEN {2, 3} ELSE {1}]
MCAgain == {"again"}
MCOrderly == {}
=============================================================================
