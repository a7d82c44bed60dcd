-------------------------- MODULE MCWorkflowActions --------------------------
(* Small instances of WorkflowActions for TLC. *)
EXTENDS WorkflowActions

CONSTANTS a1, r1, r2, r3, gm, ms
=============================================================================
