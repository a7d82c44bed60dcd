------------------------------ MODULE Identities ------------------------------
(***************************************************************************)
(* Users of the service: the first request of a verified principal creates *)
(* its user, requests of owners are told from others by the stored role,   *)
(* and an operator promotes the first owner from the command line.         *)
(*                                                                         *)
(* Each statement is an action of its own (PostgreSQL, READ COMMITTED); an *)
(* INSERT and the COMMIT after it are one, because the unique index makes  *)
(* competitors wait for the commit.  A user is named after the request     *)
(* that makes it, which is what a fresh UUID does.                         *)
(***************************************************************************)
CONSTANTS
  Principals,   \* verified (issuer, subject) pairs
  Callers,      \* HTTP requests, each served once
  Operators     \* runs of promote_owner

VARIABLES
  role,         \* users.application_role by user id, "absent" when no row
  identities,   \* external_identities
  caller,       \* a request: place, principal, the user it found
  operator      \* a promotion: place, target, the role it read

peopleVars == <<role, identities, caller, operator>>

Identity == [principal : Principals, user : Callers]
Roles == {"absent", "user", "owner"}
(* "answered" is with a user id; "as_owner" and "as_user" are the answers   *)
(* about a role; "lost" is the 503 of a duplicate that cannot be found.     *)
Answers == {"answered", "as_owner", "as_user", "lost"}
CallerPoints == {"idle", "create", "insert", "reread", "role", "unavailable"} \cup Answers
OperatorPoints == {"idle", "mapped", "count", "promote", "promoted",
                   "already_owner", "refused", "unavailable"}

PeopleInit ==
  /\ role = [u \in Callers |-> "absent"]
  /\ identities = {}
  /\ caller \in [Callers -> [at : {"idle"}, principal : Principals, found : {{}}]]
  /\ operator \in [Operators -> [at : {"idle"}, target : Callers, role : {"absent"}]]

UsersOf(p) == {i.user : i \in {j \in identities : j.principal = p}}
Owners == {u \in Callers : role[u] = "owner"}

CallerGoes(r, point, found) ==
  caller' = [caller EXCEPT ![r] = [at |-> point, principal |-> @.principal, found |-> found]]
OperatorGoes(o, point) ==
  operator' = [operator EXCEPT ![o] = [at |-> point, target |-> @.target, role |-> @.role]]

-----------------------------------------------------------------------------
(* resolve_or_create *)

(* The user the identity maps to, if there is a mapping. *)
Lookup(r) ==
  /\ caller[r].at = "idle"
  /\ LET found == UsersOf(caller[r].principal)
     IN CallerGoes(r, IF found = {} THEN "create" ELSE "answered", found)
  /\ UNCHANGED <<role, identities, operator>>

(* create_user_with_external_identity looks once more before it inserts. *)
LookAgain(r) ==
  /\ caller[r].at = "create"
  /\ CallerGoes(r, IF UsersOf(caller[r].principal) = {} THEN "insert" ELSE "reread", {})
  /\ UNCHANGED <<role, identities, operator>>

(* Mutants: no unique constraint; the user row is kept when the identity    *)
(* is refused.                                                              *)
InsertUserUnchecked(r) ==
  /\ caller[r].at = "insert"
  /\ role' = [role EXCEPT ![r] = "user"]
  /\ identities' = identities \cup {[principal |-> caller[r].principal, user |-> r]}
  /\ CallerGoes(r, "answered", {r})
  /\ UNCHANGED operator

(* User and identity in one savepoint; the violation of the unique          *)
(* (issuer, subject) rolls both back.  The commit may be durable although   *)
(* it is reported as failed.                                                *)
InsertUser(r) ==
  /\ caller[r].at = "insert"
  /\ LET found == UsersOf(caller[r].principal)
     IN \/ /\ found = {}
           /\ role' = [role EXCEPT ![r] = "user"]
           /\ identities' = identities
                \cup {[principal |-> caller[r].principal, user |-> r]}
           /\ \/ CallerGoes(r, "answered", {r}) \/ CallerGoes(r, "unavailable", {})
        \/ found # {} /\ CallerGoes(r, "reread", {}) /\ UNCHANGED <<role, identities>>
  /\ UNCHANGED operator

(* Mutant: the loser answers with the user it failed to insert. *)
RereadOwn(r) ==
  /\ caller[r].at = "reread"
  /\ CallerGoes(r, "answered", {r})
  /\ UNCHANGED <<role, identities, operator>>

(* A new transaction after the rollback: the winner's user. *)
Reread(r) ==
  /\ caller[r].at = "reread"
  /\ LET found == UsersOf(caller[r].principal)
     IN CallerGoes(r, IF found = {} THEN "lost" ELSE "answered", found)
  /\ UNCHANGED <<role, identities, operator>>

(* Any statement may fail; the handler answers 503. *)
FailCaller(r) ==
  /\ caller[r].at \in {"create", "insert", "reread", "role"}
  /\ CallerGoes(r, "unavailable", {})
  /\ UNCHANGED <<role, identities, operator>>

-----------------------------------------------------------------------------
(* get_me and require_owner: identity and role are two statements *)

ReadIdentity(r) ==
  /\ caller[r].at = "idle"
  /\ LET found == UsersOf(caller[r].principal)
     IN IF found = {} THEN CallerGoes(r, "as_user", {}) ELSE CallerGoes(r, "role", found)
  /\ UNCHANGED <<role, identities, operator>>

ReadRole(r) ==
  /\ caller[r].at = "role"
  /\ \E u \in caller[r].found :
       CallerGoes(r, IF role[u] = "owner" THEN "as_owner" ELSE "as_user", {u})
  /\ UNCHANGED <<role, identities, operator>>

-----------------------------------------------------------------------------
(* promote_first_owner *)

ReadTarget(o) ==
  /\ operator[o].at = "idle"
  /\ LET found == role[operator[o].target]
         point == IF found = "absent" THEN "refused" ELSE "mapped"
     IN operator' = [operator EXCEPT ![o] = [at |-> point, target |-> @.target, role |-> found]]
  /\ UNCHANGED <<role, identities, caller>>

CheckMapped(o) ==
  /\ operator[o].at = "mapped"
  /\ OperatorGoes(o, IF \E i \in identities : i.user = operator[o].target
                       THEN "count" ELSE "refused")
  /\ UNCHANGED <<role, identities, caller>>

CountOwners(o) ==
  /\ operator[o].at = "count"
  /\ OperatorGoes(o, IF operator[o].role = "owner" THEN "already_owner"
                     ELSE IF Owners # {} THEN "refused" ELSE "promote")
  /\ UNCHANGED <<role, identities, caller>>

(* The conditional UPDATE and its commit, which may be durable although it  *)
(* is reported as failed.                                                   *)
Promote(o) ==
  /\ operator[o].at = "promote"
  /\ \/ /\ role[operator[o].target] = "user"
        /\ role' = [role EXCEPT ![operator[o].target] = "owner"]
        /\ \/ OperatorGoes(o, "promoted") \/ OperatorGoes(o, "unavailable")
     \/ /\ role[operator[o].target] # "user"
        /\ OperatorGoes(o, "refused") /\ UNCHANGED role
  /\ UNCHANGED <<identities, caller>>

FailOperator(o) ==
  /\ operator[o].at \in {"mapped", "count", "promote"}
  /\ OperatorGoes(o, "unavailable")
  /\ UNCHANGED <<role, identities, caller>>

PeopleNext ==
  \/ \E r \in Callers :
       \/ Lookup(r) \/ LookAgain(r) \/ InsertUser(r) \/ Reread(r)
       \/ ReadIdentity(r) \/ ReadRole(r) \/ FailCaller(r)
  \/ \E o \in Operators :
       \/ ReadTarget(o) \/ CheckMapped(o) \/ CountOwners(o)
       \/ Promote(o) \/ FailOperator(o)

PeopleSpec == PeopleInit /\ [][PeopleNext]_peopleVars

-----------------------------------------------------------------------------
(* Properties *)

(* However many first requests of a principal race, it has one user, every  *)
(* user row has its identity, and no rejected request leaves a row behind.  *)
OneUserPerPrincipal ==
  /\ \A i, j \in identities : i.principal = j.principal => i = j
  /\ \A u \in Callers :
       role[u] # "absent" => \E i \in identities : i.user = u

(* Every request of a principal is told the same user, the loser of a race  *)
(* the winner's; it is never told that there is none after it was refused;  *)
(* and who is taken for an owner is one.                                    *)
AnswersAgree ==
  \A r \in Callers :
    /\ caller[r].at # "lost"
    /\ caller[r].at = "answered" => caller[r].found = UsersOf(caller[r].principal)
    /\ caller[r].at = "as_owner" =>
         /\ caller[r].found = UsersOf(caller[r].principal)
         /\ caller[r].found \subseteq Owners

(* owner_bootstrap.py promotes "to the sole platform owner" and "fails      *)
(* closed when another owner already exists".                               *)
SoleOwner == \A u, w \in Owners : u = w

-----------------------------------------------------------------------------
(* The inductive invariant *)

IdentityTypeOK ==
  /\ role \in [Callers -> Roles]
  /\ identities \in SUBSET Identity
  /\ caller \in [Callers -> [at : CallerPoints, principal : Principals,
                             found : SUBSET Callers]]
  /\ operator \in [Operators -> [at : OperatorPoints, target : Callers, role : Roles]]

(* A request that has not inserted yet has no row; one that found a user    *)
(* keeps the user its identity maps to.                                     *)
CallersTrack ==
  \A r \in Callers :
    /\ caller[r].at \in {"idle", "create", "insert", "reread"} =>
         role[r] = "absent" /\ \A i \in identities : i.user # r
    /\ caller[r].at = "reread" => UsersOf(caller[r].principal) # {}
    /\ caller[r].at \in {"role", "answered", "as_owner"} =>
         caller[r].found # {} /\ caller[r].found = UsersOf(caller[r].principal)

IdentityIInv ==
  /\ IdentityTypeOK
  /\ CallersTrack
  /\ OneUserPerPrincipal
  /\ AnswersAgree
=============================================================================
