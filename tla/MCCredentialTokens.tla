-------------------------- MODULE MCCredentialTokens --------------------------
(* Small instances of CredentialTokens for TLC. *)
EXTENDS CredentialTokens, TLC

CONSTANTS p1, p2, t1, t2, t3, l1, k1, k2, k3

(* Two threads of one process and one of another. *)
HomeOf == (t1 :> p1) @@ (t2 :> p1) @@ (t3 :> p2)
=============================================================================
