---------------------------- MODULE MCDomainSync ----------------------------
(***************************************************************************)
(* One product at one URL besides those of the leader itself, and two      *)
(* starts of the leader.                                                   *)
(***************************************************************************)
EXTENDS DomainSync
=============================================================================
