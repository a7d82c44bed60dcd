------------------------ MODULE MCConnectorCredentials ------------------------
(* Small instances of ConnectorCredentials for TLC. *)
EXTENDS ConnectorCredentials

CONSTANTS m1, m2, s1, s2, s3, k1, k2, k3, d1, r1
=============================================================================
