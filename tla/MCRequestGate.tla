----------------------------- MODULE MCRequestGate -----------------------------
(* Every route under every accepted deployment; tokens with no permission,  *)
(* with all but one, and with the two that some routes ask for.             *)
EXTENDS RequestGate

SomeClaims ==
  {[scp |-> {}, scope |-> g \ {"read"}, roles |-> g \cap {"read"}] :
     g \in {p \in SUBSET Permissions : Cardinality(p) \in {0, 4}} \cup {{"read", "analyze"}}}
=============================================================================
