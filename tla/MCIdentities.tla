------------------------------ MODULE MCIdentities ------------------------------
(* Small instances of Identities for TLC. *)
EXTENDS Identities

CONSTANTS iss1, iss2, r1, r2, o1, o2
=============================================================================
