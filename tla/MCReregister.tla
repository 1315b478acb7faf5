---------------------------- MODULE MCReregister ----------------------------
(***************************************************************************)
(* Node n1 publishes the topic and provides a service; node n2, which      *)
(* starts later, subscribes to the topic.                                  *)
(***************************************************************************)
EXTENDS Reregister, TLC

CONSTANTS n1, n2

MCOffersOf == (n1 :> {[type |-> "DATA", id |-> Topic],
                      [type |-> "SERVICE", id |-> "service"]})
              @@ (n2 :> {})
=============================================================================
