--------------------------- MODULE ApprovedDelivery ---------------------------
(***************************************************************************)
(* What approval-gated workflow actions promise, with no requests, no      *)
(* database and no network: an action is a reply a person decides about;   *)
(* only an approved reply is ever attempted; an attempted reply reaches    *)
(* the mailbox provider's outbox at most once; and the record only says    *)
(* "executed" of a reply that was delivered and "failed" of one that was   *)
(* not, and then never changes again.  WorkflowActions implements this.    *)
(***************************************************************************)
EXTENDS Naturals

CONSTANT Actions

VARIABLES
  status,     \* [Actions -> lifecycle status, "absent" before creation]
  delivered   \* [Actions -> number of replies the provider sent for it]

vars == <<status, delivered>>

Init ==
  /\ status = [a \in Actions |-> "absent"]
  /\ delivered = [a \in Actions |-> 0]

Move(a, from, to) ==
  /\ status[a] = from
  /\ status' = [status EXCEPT ![a] = to]
  /\ UNCHANGED delivered

Propose(a) == Move(a, "absent", "pending")
Approve(a) == Move(a, "pending", "approved")
Reject(a)  == Move(a, "pending", "rejected")
Attempt(a) == Move(a, "approved", "executing")

(* The provider sends the reply; nothing about the record changes. *)
Deliver(a) ==
  /\ status[a] = "executing"
  /\ delivered[a] = 0
  /\ delivered' = [delivered EXCEPT ![a] = 1]
  /\ UNCHANGED status

RecordExecuted(a) == delivered[a] = 1 /\ Move(a, "executing", "executed")
RecordFailed(a)   == delivered[a] = 0 /\ Move(a, "executing", "failed")

Next ==
  \E a \in Actions :
    \/ Propose(a) \/ Approve(a) \/ Reject(a)
    \/ Attempt(a) \/ Deliver(a)
    \/ RecordExecuted(a) \/ RecordFailed(a)

Spec == Init /\ [][Next]_vars
=============================================================================
