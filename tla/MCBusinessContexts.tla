-------------------------- MODULE MCBusinessContexts --------------------------
(* Small instances of BusinessContexts for TLC. *)
EXTENDS BusinessContexts

CONSTANTS c1, c2, t1, t2, g1, g2, e1, e2, l1, l2, l3, x1, x2
=============================================================================
