------------------------------ MODULE Parts_proofs ------------------------------
(***************************************************************************)
(* Proofs about three parts of the system that share no state: Identities, *)
(* for any principals, requests and operators; MailboxOAuth, for any       *)
(* directories, scopes and numbers of rotations; and Workbook, for any     *)
(* workbooks and any bounds.                                               *)
(***************************************************************************)
EXTENDS Identities, MailboxOAuth, Workbook, FiniteSetTheorems, SequenceTheorems, TLAPS

-----------------------------------------------------------------------------
(* Identities *)

LEMMA InitIdentities == PeopleInit => IdentityIInv
  BY DEF PeopleInit, IdentityIInv, IdentityTypeOK, CallersTrack, OneUserPerPrincipal,
         AnswersAgree, Identity, Roles, CallerPoints, OperatorPoints, UsersOf, Answers

-----------------------------------------------------------------------------
(* Steps that write no row *)

(* A request may go anywhere without touching a row, as long as what its    *)
(* new place says of it is true.                                            *)
LEMMA CallerStep ==
  ASSUME IdentityIInv, UNCHANGED <<role, identities, operator>>,
         NEW r \in Callers, NEW point \in CallerPoints, NEW found \in SUBSET Callers,
         CallerGoes(r, point, found),
         point # "lost",
         point \in {"idle", "create", "insert", "reread"} =>
           caller[r].at \in {"idle", "create", "insert", "reread"},
         point = "reread" => UsersOf(caller[r].principal) # {},
         point \in {"role", "answered", "as_owner"} =>
           found # {} /\ found = UsersOf(caller[r].principal),
         point = "as_owner" => found \subseteq Owners
  PROVE  IdentityIInv'
  <1>t. IdentityTypeOK
    BY DEF IdentityIInv
  <1>1. IdentityTypeOK'
    BY <1>t DEF IdentityTypeOK, CallerGoes
  <1>2. ASSUME NEW q \in Callers
        PROVE  /\ q # r => caller'[q] = caller[q]
               /\ caller'[q].principal = caller[q].principal
    BY <1>t DEF IdentityTypeOK, CallerGoes
  <1>3. caller'[r].at = point /\ caller'[r].found = found
    BY <1>t DEF IdentityTypeOK, CallerGoes
  <1>4. \A p : UsersOf(p)' = UsersOf(p)
    BY DEF UsersOf
  <1>5. Owners' = Owners
    BY DEF Owners
  <1>6. CallersTrack'
    BY <1>2, <1>3, <1>4 DEF IdentityIInv, CallersTrack
  <1>7. AnswersAgree'
    BY <1>2, <1>3, <1>4, <1>5 DEF IdentityIInv, AnswersAgree
  <1>8. OneUserPerPrincipal'
    BY DEF IdentityIInv, OneUserPerPrincipal
  <1>9. QED
    BY <1>1, <1>6, <1>7, <1>8 DEF IdentityIInv

LEMMA UsersAreCallers == ASSUME IdentityTypeOK, NEW p PROVE UsersOf(p) \in SUBSET Callers
  BY DEF IdentityTypeOK, Identity, UsersOf

(* The mapping of a principal is a single user. *)
LEMMA UsersAreOne ==
  ASSUME OneUserPerPrincipal, NEW p, NEW u \in UsersOf(p)
  PROVE  UsersOf(p) = {u}
  BY DEF OneUserPerPrincipal, UsersOf

-----------------------------------------------------------------------------
(* The two writers *)

LEMMA InsertKeeps ==
  ASSUME IdentityIInv, NEW r \in Callers, InsertUser(r)
  PROVE  IdentityIInv'
  <1> DEFINE p == caller[r].principal
             i == [principal |-> p, user |-> r]
  <1>t. IdentityTypeOK /\ p \in Principals
    BY DEF IdentityIInv, IdentityTypeOK
  <1>1. CASE UsersOf(p) # {} /\ CallerGoes(r, "reread", {}) /\ UNCHANGED <<role, identities>>
    BY <1>1, CallerStep DEF InsertUser, CallerPoints
  <1>2. ASSUME UsersOf(p) = {}, role' = [role EXCEPT ![r] = "user"],
               identities' = identities \cup {i},
               NEW point \in {"answered", "unavailable"}, NEW found \in SUBSET Callers,
               point = "answered" => found = {r},
               CallerGoes(r, point, found)
        PROVE  IdentityIInv'
    <2>1. role[r] = "absent" /\ (\A j \in identities : j.user # r)
      BY DEF InsertUser, IdentityIInv, CallersTrack
    <2>2. IdentityTypeOK'
      BY <1>t, <1>2 DEF IdentityTypeOK, CallerGoes, Identity, Roles, CallerPoints, Answers,
            InsertUser
    <2>3. \A j \in identities : j.principal # p
      BY <1>2 DEF UsersOf
    <2>4. OneUserPerPrincipal'
      <3>1. \A j, k \in identities' : j.principal = k.principal => j = k
        BY <1>2, <2>3 DEF IdentityIInv, OneUserPerPrincipal
      <3>2. ASSUME NEW u \in Callers, role'[u] # "absent"
            PROVE  \E j \in identities' : j.user = u
        <4>1. CASE u = r
          <5>1. i \in identities' /\ i.user = u
            BY <1>2, <4>1
          <5>2. QED
            BY <5>1
        <4>2. CASE u # r
          <5>1. role[u] # "absent"
            BY <1>t, <1>2, <3>2, <4>2 DEF IdentityTypeOK
          <5>2. QED
            BY <1>2, <5>1 DEF IdentityIInv, OneUserPerPrincipal
        <4>3. QED
          BY <4>1, <4>2
      <3>3. QED
        BY <3>1, <3>2 DEF OneUserPerPrincipal
    <2> DEFINE After(x) == {k.user : k \in {j \in identities' : j.principal = x}}
    <2>5. After(p) = {r} /\ \A x : x # p => After(x) = UsersOf(x)
      <3>1. {j \in identities' : j.principal = p} = {i}
        BY <1>2, <2>3
      <3>2. ASSUME NEW x, x # p
            PROVE  {j \in identities' : j.principal = x} = {j \in identities : j.principal = x}
        BY <1>2, <3>2
      <3>3. {k.user : k \in {i}} = {r}
        OBVIOUS
      <3>4. QED
        BY <3>1, <3>2, <3>3, Zenon DEF UsersOf
    <2>6. ASSUME NEW q \in Callers
          PROVE  /\ q # r => caller'[q] = caller[q]
                 /\ caller'[q].principal = caller[q].principal
      BY <1>t, <1>2 DEF CallerGoes, IdentityTypeOK
    <2>7. caller'[r].at = point /\ caller'[r].found = found
      BY <1>t, <1>2 DEF CallerGoes, IdentityTypeOK
    <2>8. ASSUME NEW q \in Callers
          PROVE  /\ UsersOf(caller[q].principal)' = After(caller[q].principal)
                 /\ UsersOf(caller[q].principal) # {} =>
                      After(caller[q].principal) = UsersOf(caller[q].principal)
      BY <1>2, <2>5, <2>6 DEF UsersOf
    <2>9. ASSUME NEW q \in Callers
          PROVE /\ caller'[q].at \in {"idle", "create", "insert", "reread"} =>
                     role'[q] = "absent" /\ \A j \in identities' : j.user # q
                /\ caller'[q].at = "reread" => After(caller[q].principal) # {}
                /\ caller'[q].at \in {"role", "answered", "as_owner"} =>
                     /\ caller'[q].found # {}
                     /\ caller'[q].found = After(caller[q].principal)
      <3> HIDE DEF After
      <3>1. CASE q = r
        BY <1>2, <2>5, <2>7, <3>1
      <3>2. CASE q # r
        <4>1. role'[q] = role[q] /\ caller'[q] = caller[q]
          BY <1>t, <1>2, <2>6, <3>2 DEF IdentityTypeOK
        <4>2. caller[q].at \in {"idle", "create", "insert", "reread"} =>
                role[q] = "absent" /\ \A j \in identities' : j.user # q
          BY <1>2, <3>2 DEF IdentityIInv, CallersTrack
        <4>3. /\ caller[q].at = "reread" => UsersOf(caller[q].principal) # {}
              /\ caller[q].at \in {"role", "answered", "as_owner"} =>
                   /\ caller[q].found # {}
                   /\ caller[q].found = UsersOf(caller[q].principal)
          BY DEF IdentityIInv, CallersTrack
        <4>4. QED
          BY <2>8, <4>1, <4>2, <4>3
      <3>3. QED
        BY <3>1, <3>2
    <2>10. CallersTrack'
      BY <2>8, <2>9, Zenon DEF CallersTrack
    <2>11. ASSUME NEW q \in Callers
           PROVE /\ caller'[q].at # "lost"
                 /\ caller'[q].at = "as_owner" => caller'[q].found \subseteq Owners'
      <3>1. CASE q = r
        BY <1>2, <2>7, <3>1
      <3>2. CASE q # r
        <4>1. Owners \subseteq Owners'
          BY <1>t, <1>2, <2>1 DEF Owners, IdentityTypeOK
        <4>2. QED
          BY <2>6, <3>2, <4>1 DEF IdentityIInv, AnswersAgree
      <3>3. QED
        BY <3>1, <3>2
    <2>12. AnswersAgree'
      BY <2>8, <2>9, <2>11, Zenon DEF AnswersAgree
    <2>13. QED
      BY <2>2, <2>4, <2>10, <2>12 DEF IdentityIInv
  <1>3. QED
    BY <1>1, <1>2 DEF InsertUser

LEMMA PromoteKeeps ==
  ASSUME IdentityIInv, NEW o \in Operators, Promote(o)
  PROVE  IdentityIInv'
  <1> DEFINE u == operator[o].target
  <1>t. IdentityTypeOK /\ u \in Callers
    BY DEF IdentityIInv, IdentityTypeOK
  <1>1. /\ UNCHANGED <<identities, caller>>
        /\ \/ UNCHANGED role
           \/ role[u] = "user" /\ role' = [role EXCEPT ![u] = "owner"]
    BY DEF Promote
  <1>2. IdentityTypeOK'
    <2>1. role' \in [Callers -> Roles]
      BY <1>t, <1>1 DEF IdentityTypeOK, Roles
    <2>2. \E point \in OperatorPoints : OperatorGoes(o, point)
      BY DEF Promote, OperatorPoints
    <2>3. operator' \in [Operators -> [at : OperatorPoints, target : Callers, role : Roles]]
      BY <1>t, <2>2 DEF OperatorGoes, IdentityTypeOK
    <2>4. QED
      BY <1>t, <1>1, <2>1, <2>3 DEF IdentityTypeOK
  <1>3. \A q \in Callers : (role'[q] = "absent") <=> (role[q] = "absent")
    BY <1>t, <1>1 DEF IdentityTypeOK
  <1>4. Owners \subseteq Owners'
    BY <1>t, <1>1 DEF Owners, IdentityTypeOK
  <1>5. \A p : UsersOf(p)' = UsersOf(p)
    BY <1>1 DEF UsersOf
  <1>6. CallersTrack'
    BY <1>1, <1>3, <1>5 DEF IdentityIInv, CallersTrack
  <1>7. OneUserPerPrincipal'
    BY <1>1, <1>3 DEF IdentityIInv, OneUserPerPrincipal
  <1>8. AnswersAgree'
    BY <1>1, <1>4, <1>5 DEF IdentityIInv, AnswersAgree
  <1>9. QED
    BY <1>2, <1>6, <1>7, <1>8 DEF IdentityIInv

-----------------------------------------------------------------------------
(* Every other step of an operator leaves rows and requests alone. *)
LEMMA OperatorStep ==
  ASSUME IdentityIInv, UNCHANGED <<role, identities, caller>>, IdentityTypeOK'
  PROVE  IdentityIInv'
  BY DEF IdentityIInv, OneUserPerPrincipal, AnswersAgree, CallersTrack, UsersOf, Owners

LEMMA StepKeeps == IdentityIInv /\ [PeopleNext]_peopleVars => IdentityIInv'
  <1> SUFFICES ASSUME IdentityIInv, [PeopleNext]_peopleVars PROVE IdentityIInv'
    OBVIOUS
  <1>t. IdentityTypeOK
    BY DEF IdentityIInv
  <1>1. ASSUME NEW r \in Callers, Lookup(r) \/ LookAgain(r) \/ Reread(r)
        PROVE  IdentityIInv'
    <2> DEFINE found == UsersOf(caller[r].principal)
    <2>1. found \in SUBSET Callers
      BY <1>t, UsersAreCallers
    <2>2. CASE Lookup(r)
      BY <2>1, <2>2, CallerStep DEF Lookup, CallerPoints, Answers
    <2>3. CASE LookAgain(r)
      BY <2>1, <2>3, CallerStep DEF LookAgain, CallerPoints
    <2>4. CASE Reread(r)
      <3>1. found # {}
        BY <2>4 DEF Reread, IdentityIInv, CallersTrack
      <3>2. QED
        BY <2>1, <2>4, <3>1, CallerStep DEF Reread, CallerPoints, Answers
    <2>5. QED
      BY <1>1, <2>2, <2>3, <2>4
  <1>2. ASSUME NEW r \in Callers, ReadIdentity(r) \/ FailCaller(r)
        PROVE  IdentityIInv'
    <2> DEFINE found == UsersOf(caller[r].principal)
    <2>1. found \in SUBSET Callers
      BY <1>t, UsersAreCallers
    <2>2. CASE ReadIdentity(r)
      BY <2>1, <2>2, CallerStep DEF ReadIdentity, CallerPoints, Answers
    <2>3. CASE FailCaller(r)
      BY <2>3, CallerStep DEF FailCaller, CallerPoints
    <2>4. QED
      BY <1>2, <2>2, <2>3
  <1>3. ASSUME NEW r \in Callers, ReadRole(r) PROVE IdentityIInv'
    <2>1. PICK u \in caller[r].found :
            CallerGoes(r, IF role[u] = "owner" THEN "as_owner" ELSE "as_user", {u})
      BY <1>3 DEF ReadRole
    <2>2. caller[r].found = UsersOf(caller[r].principal)
      BY <1>3 DEF ReadRole, IdentityIInv, CallersTrack
    <2>3. UsersOf(caller[r].principal) = {u} /\ u \in Callers
      BY <1>t, <2>1, <2>2, UsersAreOne, UsersAreCallers DEF IdentityIInv
    <2>4. UNCHANGED <<role, identities, operator>>
      BY <1>3 DEF ReadRole
    <2>5. CASE role[u] = "owner"
      <3>1. CallerGoes(r, "as_owner", {u})
        BY <2>1, <2>5
      <3>2. {u} \subseteq Owners
        BY <2>3, <2>5 DEF Owners
      <3>3. QED
        BY <2>3, <2>4, <3>1, <3>2, CallerStep DEF CallerPoints, Answers
    <2>6. CASE role[u] # "owner"
      <3>1. CallerGoes(r, "as_user", {u})
        BY <2>1, <2>6
      <3>2. QED
        BY <2>3, <2>4, <3>1, CallerStep DEF CallerPoints, Answers
    <2>7. QED
      BY <2>5, <2>6
  <1>4. ASSUME NEW o \in Operators, ReadTarget(o) PROVE IdentityIInv'
    <2>1. IdentityTypeOK'
      BY <1>t, <1>4 DEF ReadTarget, IdentityTypeOK, OperatorPoints
    <2>2. QED
      BY <1>4, <2>1, OperatorStep DEF ReadTarget
  <1>5. ASSUME NEW o \in Operators, CheckMapped(o) \/ CountOwners(o) \/ FailOperator(o)
        PROVE  IdentityIInv'
    <2>1. IdentityTypeOK'
      BY <1>t, <1>5 DEF CheckMapped, CountOwners, FailOperator, OperatorGoes,
            IdentityTypeOK, OperatorPoints
    <2>2. QED
      BY <1>5, <2>1, OperatorStep DEF CheckMapped, CountOwners, FailOperator
  <1>6. CASE UNCHANGED peopleVars
    BY <1>t, <1>6, OperatorStep DEF peopleVars, IdentityTypeOK
  <1>7. QED
    BY <1>1, <1>2, <1>3, <1>4, <1>5, <1>6, InsertKeeps, PromoteKeeps DEF PeopleNext

(* The inductive invariant of users, identities and requests. *)
THEOREM IdentityInvariance == PeopleSpec => []IdentityIInv
  BY InitIdentities, StepKeeps, PTL DEF PeopleSpec

(* A principal has one user, however its first requests race. *)
THEOREM PrincipalsAreUnique == PeopleSpec => []OneUserPerPrincipal
  <1>1. IdentityIInv => OneUserPerPrincipal
    BY DEF IdentityIInv
  <1>2. QED
    BY <1>1, IdentityInvariance, PTL

(* All requests of a principal are told the same user, and owners are owners. *)
THEOREM AnswersAreConsistent == PeopleSpec => []AnswersAgree
  <1>1. IdentityIInv => AnswersAgree
    BY DEF IdentityIInv
  <1>2. QED
    BY <1>1, IdentityInvariance, PTL

-----------------------------------------------------------------------------
(* Mailbox OAuth *)

Grants ==
  [mailbox : [tid : Directories \cup {Unset}, oid : Objects], scopes : SUBSET Scopes,
   alive : BOOLEAN, issued : Nat]

(* The provider knows a grant from the consent on, and one that is read or *)
(* refreshed is known.                                                     *)
GrantIsKnown ==
  /\ grant # Unset => grant \in Grants
  /\ asked \in {"fetching", "verifying", "verified", "refreshing", "revoking"} => grant \in Grants
  /\ material # Unset => grant \in Grants

(* Nothing is stored and nothing was asked for while a person consents. *)
ConsentIsFirst == asked = "consenting" => material = Unset /\ answer = "url"

ClaimsAreOfTheConsent == asked = "verified" => claims.mailbox = grant.mailbox

(* What is refreshed is stored, and the token endpoint refuses dead grants. *)
RefreshIsOfTheGrant ==
  asked = "refreshing" =>
    /\ material # Unset
    /\ IsFailure(response) => response \in Failures
    /\ response.status = "400" /\ response.error = "invalid_grant" => ~grant.alive

OAuthIInv ==
  /\ GrantIsKnown /\ ConsentIsFirst /\ ClaimsAreOfTheConsent /\ RefreshIsOfTheGrant
  /\ SecretIsOfTheConsent

-----------------------------------------------------------------------------
(* A field of a grant changes without the others. *)
LEMMA GrantEnds ==
  ASSUME grant \in Grants, NEW g, g = [grant EXCEPT !.alive = FALSE]
  PROVE  g \in Grants /\ ~g.alive /\ g.mailbox = grant.mailbox /\ g.scopes = grant.scopes
  BY DEF Grants

LEMMA GrantRotates ==
  ASSUME grant \in Grants, NEW g, g = [grant EXCEPT !.issued = @ + 1]
  PROVE  /\ g \in Grants /\ g.alive = grant.alive
         /\ g.mailbox = grant.mailbox /\ g.scopes = grant.scopes
  BY DEF Grants

LEMMA OAuthInitially == OAuthInit => OAuthIInv
  BY OAuthAssumption
  DEF OAuthInit, OAuthIInv, GrantIsKnown, ConsentIsFirst, ClaimsAreOfTheConsent,
      RefreshIsOfTheGrant, SecretIsOfTheConsent

(* Returning an error ends the request and touches neither grant nor secret. *)
LEMMA FailKeeps ==
  ASSUME OAuthIInv, NEW error, Fail(error)
  PROVE  OAuthIInv'
  BY DEF OAuthIInv, GrantIsKnown, ConsentIsFirst, ClaimsAreOfTheConsent, RefreshIsOfTheGrant,
         SecretIsOfTheConsent, Fail, TenantAdmits, Capabilities

LEMMA OAuthStep == OAuthIInv /\ [OAuthNext]_oauthVars => OAuthIInv'
<1> SUFFICES ASSUME OAuthIInv, [OAuthNext]_oauthVars PROVE OAuthIInv'
  OBVIOUS
<1> USE DEF OAuthIInv, GrantIsKnown, ConsentIsFirst, ClaimsAreOfTheConsent, RefreshIsOfTheGrant,
            SecretIsOfTheConsent, TenantAdmits, Capabilities
<1>1. CASE BuildAuthorizationUrl
  BY <1>1 DEF BuildAuthorizationUrl
<1>2. CASE GiveConsent
  <2>1. PICK mailbox \in Mailboxes, scopes \in SUBSET Scopes :
          grant' = [mailbox |-> mailbox, scopes |-> scopes, alive |-> TRUE, issued |-> 1]
    BY <1>2 DEF GiveConsent
  <2>2. grant' \in Grants
    BY <2>1 DEF Grants, Mailboxes
  <2> QED
    BY <1>2, <2>2 DEF GiveConsent
<1>3. CASE FetchTokens
  <2>1. CASE \E r \in Failures :
               Fail(IF Unavailable(r) THEN "service_unavailable" ELSE "authorization_failed")
    BY <2>1, FailKeeps
  <2>2. CASE asked' = "verifying" /\ UNCHANGED <<config, grant, claims, material, result, answer>>
    BY <1>3, <2>2 DEF FetchTokens
  <2>3. CASE Fail("authorization_failed")
    BY <2>3, FailKeeps
  <2> QED
    BY <1>3, <2>1, <2>2, <2>3 DEF FetchTokens
<1>4. CASE VerifyIdToken
  <2>1. CASE Fail("service_unavailable") \/ Fail("authorization_failed")
    BY <2>1, FailKeeps
  <2>2. CASE /\ claims'.mailbox = grant.mailbox /\ asked' = "verified"
             /\ UNCHANGED <<config, grant, response, material, result, answer>>
    BY <1>4, <2>2 DEF VerifyIdToken
  <2> QED
    BY <1>4, <2>1, <2>2 DEF VerifyIdToken
<1>5. CASE RefuseTenant
  BY <1>5, FailKeeps DEF RefuseTenant
<1>6. CASE AcceptConsent
  <2>1. PICK name \in ProfileNames :
          result' = [mailbox |-> claims.mailbox, capabilities |-> Capabilities(grant.scopes),
                     display |-> sanitize_mailbox_display_identity(name)]
    BY <1>6 DEF AcceptConsent
  <2>2. /\ material' = [token |-> grant.issued, scopes |-> grant.scopes, mailbox |-> claims.mailbox]
        /\ claims.mailbox = grant.mailbox /\ asked' = "idle" /\ answer' = "authorized"
        /\ config # "gmail" => TenantAdmits(claims.mailbox.tid)
        /\ UNCHANGED <<config, grant>> /\ grant \in Grants
    BY <1>6 DEF AcceptConsent, SecretMaterial, Admitted
  <2>3. result'.display # "durable"
    BY <2>1, OAuthAssumption DEF sanitize_mailbox_display_identity
  <2> QED
    BY <2>1, <2>2, <2>3
<1>7. CASE SendRefresh
  <2>1. /\ asked = "idle" /\ material # Unset /\ asked' = "refreshing"
        /\ UNCHANGED <<config, claims, material, result, answer>> /\ grant \in Grants
        /\ response' \in TokenAnswers
        /\ grant' = grant \/ grant' = [grant EXCEPT !.issued = @ + 1]
    BY <1>7 DEF SendRefresh
  <2>2. /\ IsFailure(response') => response' \in Failures
        /\ response'.status = "400" /\ response'.error = "invalid_grant" => ~grant.alive
    BY <2>1 DEF TokenAnswers, Failures, IsFailure
  <2>3. /\ grant' \in Grants /\ grant'.alive = grant.alive
        /\ grant'.mailbox = grant.mailbox /\ grant'.scopes = grant.scopes
    BY <2>1, GrantRotates
  <2> QED
    BY <2>1, <2>2, <2>3
<1>8. CASE RefreshFails
  BY <1>8, FailKeeps DEF RefreshFails
<1>9. CASE RefreshUnusable
  BY <1>9, FailKeeps DEF RefreshUnusable
<1>10. CASE RefreshSucceeds
  BY <1>10 DEF RefreshSucceeds, Replacement, SecretMaterial
<1>11. CASE Disconnect
  BY <1>11, OAuthAssumption DEF Disconnect
<1>12. CASE Revoke
  <2>1. /\ asked = "revoking" /\ asked' = "idle" /\ UNCHANGED <<config, response, claims, material, result>>
        /\ grant \in Grants
        /\ grant' = grant \/ grant' = [grant EXCEPT !.alive = FALSE]
    BY <1>12 DEF Revoke
  <2>2. /\ grant' \in Grants /\ grant'.mailbox = grant.mailbox /\ grant'.scopes = grant.scopes
    BY <2>1, GrantEnds
  <2> QED
    BY <2>1, <2>2
<1>13. CASE EndGrant
  <2>1. /\ grant' = [grant EXCEPT !.alive = FALSE] /\ grant \in Grants
        /\ UNCHANGED <<config, asked, response, claims, material, result, answer>>
    BY <1>13 DEF EndGrant
  <2>2. /\ grant' \in Grants /\ ~grant'.alive
        /\ grant'.mailbox = grant.mailbox /\ grant'.scopes = grant.scopes
    BY <2>1, GrantEnds
  <2> QED
    BY <2>1, <2>2 DEF IsFailure
<1>14. CASE UNCHANGED oauthVars
  BY <1>14 DEF oauthVars, IsFailure
<1> QED
  BY <1>1, <1>2, <1>3, <1>4, <1>5, <1>6, <1>7, <1>8, <1>9, <1>10, <1>11, <1>12, <1>13, <1>14
  DEF OAuthNext

-----------------------------------------------------------------------------
(* The inductive invariant of consents, grants and stored secrets. *)
THEOREM OAuthInvariance == OAuthSpec => []OAuthIInv
  BY OAuthInitially, OAuthStep, PTL DEF OAuthSpec

(* A stored secret is of the mailbox that consented, which the configured  *)
(* tenant admits, through any number of rotations.                         *)
THEOREM SecretsAreOfTheConsent == OAuthSpec => []SecretIsOfTheConsent
  BY OAuthInvariance, PTL DEF OAuthIInv

(* A refresh that ends with a request to authorize again either met a grant  *)
(* that is dead or, at Google, an invalid_grant in an answer that is not of  *)
(* the token endpoint and has a status that Google's library does not list.  *)
THEOREM LiveGrantsAreKept == OAuthSpec => OnlyDeadGrantsAreGivenUp
<1> DEFINE GivesUp == /\ asked = "refreshing" /\ asked' = "idle"
                      /\ answer' = "reauthorization_required"
<1>1. OAuthIInv /\ [OAuthNext]_oauthVars =>
        [GivesUp => ~grant.alive \/ Misleading(response)]_oauthVars
  <2> SUFFICES ASSUME OAuthIInv, OAuthNext, GivesUp PROVE ~grant.alive \/ Misleading(response)
    OBVIOUS
  <2>1. CASE RefreshFails
    <3>1. ConfirmedInvalidGrant(response) /\ IsFailure(response)
      BY <2>1 DEF RefreshFails, Fail
    <3>2. response \in Failures
      BY <3>1 DEF OAuthIInv, RefreshIsOfTheGrant
    <3>3. CASE response.status = "400"
      BY <3>1, <3>3 DEF OAuthIInv, RefreshIsOfTheGrant, ConfirmedInvalidGrant
    <3>4. CASE response.status # "400"
      <4>1. config = "gmail"
        BY <3>1, <3>4 DEF ConfirmedInvalidGrant
      <4>2. response.status \in {"403", "502"}
        BY <3>1, <3>2, <3>4, <4>1
           DEF ConfirmedInvalidGrant, Retryable, LibraryRetryable, Failures
      <4> QED
        BY <4>1, <4>2 DEF Misleading
    <3> QED
      BY <3>3, <3>4
  <2>2. CASE RefreshUnusable \/ RefreshSucceeds
    BY <2>2 DEF RefreshUnusable, RefreshSucceeds, Fail
  <2>3. CASE EndGrant
    BY <2>3 DEF EndGrant
  <2> QED
    BY <2>1, <2>2, <2>3
       DEF OAuthNext, BuildAuthorizationUrl, GiveConsent, FetchTokens, VerifyIdToken,
           RefuseTenant, AcceptConsent, SendRefresh, Disconnect, Revoke
<1>2. QED
  BY <1>1, OAuthInvariance, PTL DEF OAuthSpec, OnlyDeadGrantsAreGivenUp

-----------------------------------------------------------------------------
(* Extraction of workbooks *)

USE WorkbookAssumption

(* The texts that come before a row of a sheet. *)
TextsBefore(s, r) == {t \in Texts : t[1] < s \/ (t[1] = s /\ t[2] < r)}

(* What has been rendered of the row, as it would be handed on. *)
Rendered == {<<sheet, row, c, rendered[c]>> : c \in {c \in DOMAIN rendered : rendered[c] > 0}}

TextAt(c) == IF c <= Len(book[sheet].rows[row]) THEN book[sheet].rows[row][c] ELSE 0

WorkbookTypeOK ==
  /\ book \in Workbooks
  /\ at \in {"sheet", "row", "cell", "keep", "end", "done"}
  /\ sheet \in Nat \ {0} /\ row \in Nat \ {0} /\ column \in Nat \ {0}
  /\ width \in Nat /\ cells \in Nat /\ chars \in Nat
  /\ rendered \in Seq(Nat) /\ kept \in Seq(Seq(Nat))
  /\ handed \in SUBSET (Nat \X Nat \X Nat \X Nat) /\ IsFiniteSet(handed)
  /\ stop \in BOOLEAN
  /\ parsed \in [outcome : {"none", "parse_error", "no_extractable_text", "parsed"},
                 truncated : BOOLEAN, length : Nat]

(* Where the extraction is in the workbook. *)
PointExists ==
  /\ at \in {"row", "cell", "keep", "end"} => sheet <= Len(book)
  /\ at \in {"cell", "keep"} => row <= Len(book[sheet].rows)
  /\ at # "done" => parsed = Nothing

(* The row in progress: its width is that of its last text. *)
RowIsRendered ==
  at \in {"cell", "keep"} =>
    /\ Len(rendered) = column - 1 /\ column <= MaxColumns + 1
    /\ width <= Len(rendered)
    /\ \A c \in DOMAIN rendered : rendered[c] <= MaxCellChars /\ (rendered[c] > 0 => c <= width)
    /\ Cardinality(handed \cup Rendered) <= cells

TextsAreCounted == Cardinality(handed) <= cells

(* As long as no reason for truncation was noted. *)
Untold == reasons = {} /\ ~stop

(* Then the workbook fits the bounds, and every text up to here was handed   *)
(* on in full.                                                              *)
NothingLostSoFar ==
  DimensionsDeclared /\ Untold =>
    /\ Len(book) <= MaxSheets
    /\ at # "end"
    /\ at \in {"row", "cell", "keep"} =>
         /\ Len(book[sheet].rows) <= MaxRows + 1
         /\ \A j \in DOMAIN book[sheet].rows : Len(book[sheet].rows[j]) <= MaxColumns
         /\ handed = TextsBefore(sheet, row)
    /\ at \in {"cell", "keep"} => \A c \in DOMAIN rendered : rendered[c] = TextAt(c)
    /\ at = "keep" => column > MaxColumns
    /\ at = "sheet" => handed = TextsBefore(sheet, 0)

WorkbookIInv ==
  /\ WorkbookTypeOK /\ PointExists /\ RowIsRendered /\ TextsAreCounted /\ NothingLostSoFar
  /\ StaysBounded /\ NothingLostSilently

-----------------------------------------------------------------------------
(* What a book is made of. *)
LEMMA BookTyped ==
  ASSUME WorkbookTypeOK
  PROVE  /\ Len(book) \in Nat /\ DOMAIN book = 1..Len(book)
         /\ \A i \in DOMAIN book :
              /\ book[i] \in Sheets
              /\ Len(book[i].rows) \in Nat /\ DOMAIN book[i].rows = 1..Len(book[i].rows)
              /\ \A j \in DOMAIN book[i].rows :
                   /\ book[i].rows[j] \in Seq(Nat)
                   /\ Len(book[i].rows[j]) \in Nat
                   /\ DOMAIN book[i].rows[j] = 1..Len(book[i].rows[j])
<1>1. book \in Seq(Sheets)
  BY DEF WorkbookTypeOK
<1>2. Len(book) \in Nat /\ DOMAIN book = 1..Len(book) /\ \A i \in DOMAIN book : book[i] \in Sheets
  BY <1>1
<1>3. ASSUME NEW i \in DOMAIN book
      PROVE  book[i].rows \in Seq(Seq(Nat))
  BY <1>2, <1>3 DEF Sheets
<1>4. ASSUME NEW i \in DOMAIN book, NEW j \in DOMAIN book[i].rows
      PROVE  book[i].rows[j] \in Seq(Nat)
  BY <1>3, <1>4
<1> QED
  BY <1>2, <1>3, <1>4, LenProperties

LEMMA TextsAre ==
  \A t : t \in Texts <=>
    \E i \in DOMAIN book : \E j \in DOMAIN book[i].rows : \E c \in DOMAIN book[i].rows[j] :
      book[i].rows[j][c] > 0 /\ t = <<i, j, c, book[i].rows[j][c]>>
<1> DEFINE OfRow(i, j) == {<<i, j, c, book[i].rows[j][c]>> :
                             c \in {c \in DOMAIN book[i].rows[j] : book[i].rows[j][c] > 0}}
           OfSheet(i) == UNION {OfRow(i, j) : j \in DOMAIN book[i].rows}
<1>1. Texts = UNION {OfSheet(i) : i \in DOMAIN book}
  BY DEF Texts
<1>2. ASSUME NEW i, NEW j, NEW t
      PROVE  t \in OfRow(i, j) <=>
               \E c \in DOMAIN book[i].rows[j] :
                 book[i].rows[j][c] > 0 /\ t = <<i, j, c, book[i].rows[j][c]>>
  OBVIOUS
<1> HIDE DEF OfRow
<1>3. ASSUME NEW i, NEW t
      PROVE  t \in OfSheet(i) <=> \E j \in DOMAIN book[i].rows : t \in OfRow(i, j)
  OBVIOUS
<1> HIDE DEF OfSheet
<1>4. \A t : t \in Texts <=> \E i \in DOMAIN book : t \in OfSheet(i)
  BY <1>1
<1> QED
  BY <1>2, <1>3, <1>4

LEMMA TextsTyped ==
  ASSUME WorkbookTypeOK, NEW t \in Texts
  PROVE  /\ t[1] \in 1..Len(book) /\ Len(book) \in Nat
         /\ t[2] \in 1..Len(book[t[1]].rows) /\ Len(book[t[1]].rows) \in Nat
<1>1. PICK i \in DOMAIN book : \E j \in DOMAIN book[i].rows : \E c \in DOMAIN book[i].rows[j] :
        book[i].rows[j][c] > 0 /\ t = <<i, j, c, book[i].rows[j][c]>>
  BY TextsAre
<1>2. PICK j \in DOMAIN book[i].rows : \E c \in DOMAIN book[i].rows[j] :
        book[i].rows[j][c] > 0 /\ t = <<i, j, c, book[i].rows[j][c]>>
  BY <1>1
<1>3. t[1] = i /\ t[2] = j
  BY <1>2
<1>4. /\ Len(book) \in Nat /\ DOMAIN book = 1..Len(book)
      /\ Len(book[i].rows) \in Nat /\ DOMAIN book[i].rows = 1..Len(book[i].rows)
  BY BookTyped
<1> QED
  BY <1>3, <1>4

(* A row adds its own texts to those before it, and only them. *)
LEMMA NextRow ==
  ASSUME WorkbookTypeOK, sheet \in DOMAIN book, row \in DOMAIN book[sheet].rows,
         NEW T, \A t : t \in T <=>
           \E c \in DOMAIN book[sheet].rows[row] :
             book[sheet].rows[row][c] > 0 /\ t = <<sheet, row, c, book[sheet].rows[row][c]>>
  PROVE  TextsBefore(sheet, row + 1) = TextsBefore(sheet, row) \cup T
<1>1. T \subseteq Texts
  BY TextsAre
<1>2. \A t \in T : t[1] = sheet /\ t[2] = row
  OBVIOUS
<1>3. ASSUME NEW t \in Texts, t[1] = sheet, t[2] = row
      PROVE  t \in T
  <2>1. PICK i \in DOMAIN book : \E j \in DOMAIN book[i].rows : \E c \in DOMAIN book[i].rows[j] :
          book[i].rows[j][c] > 0 /\ t = <<i, j, c, book[i].rows[j][c]>>
    BY <1>3, TextsAre
  <2>2. PICK j \in DOMAIN book[i].rows : \E c \in DOMAIN book[i].rows[j] :
          book[i].rows[j][c] > 0 /\ t = <<i, j, c, book[i].rows[j][c]>>
    BY <2>1
  <2>3. i = sheet /\ j = row
    BY <1>3, <2>2
  <2> QED
    BY <2>2, <2>3
<1>4. \A t \in Texts : t[1] \in Nat /\ t[2] \in Nat
  BY TextsTyped
<1>5. sheet \in Nat /\ row \in Nat
  BY DEF WorkbookTypeOK
<1>6. ASSUME NEW t \in TextsBefore(sheet, row + 1)
      PROVE  t \in TextsBefore(sheet, row) \cup T
  BY <1>3, <1>4, <1>5 DEF TextsBefore
<1>7. ASSUME NEW t \in TextsBefore(sheet, row) \cup T
      PROVE  t \in TextsBefore(sheet, row + 1)
  BY <1>1, <1>2, <1>4, <1>5 DEF TextsBefore
<1> QED
  BY <1>6, <1>7

(* After the last row of a sheet comes the next sheet. *)
LEMMA NextSheet ==
  ASSUME WorkbookTypeOK, sheet \in DOMAIN book, Len(book[sheet].rows) < row
  PROVE  TextsBefore(sheet, row) = TextsBefore(sheet + 1, 0)
<1>1. ASSUME NEW t \in Texts
      PROVE  /\ t[1] \in Nat /\ t[2] \in Nat /\ t[2] >= 1
             /\ t[1] = sheet => t[2] <= Len(book[sheet].rows)
  BY <1>1, TextsTyped
<1>2. sheet \in Nat /\ row \in Nat /\ Len(book[sheet].rows) \in Nat
  BY BookTyped DEF WorkbookTypeOK
<1> QED
  BY <1>1, <1>2, SMTT(30) DEF TextsBefore

(* Before the first row of a sheet, and after the last sheet. *)
LEMMA FirstRow ==
  ASSUME WorkbookTypeOK
  PROVE  /\ TextsBefore(sheet, 1) = TextsBefore(sheet, 0)
         /\ TextsBefore(1, 0) = {}
         /\ Len(book) < sheet => TextsBefore(sheet, 0) = Texts
<1>1. ASSUME NEW t \in Texts
      PROVE  t[1] \in Nat /\ t[1] >= 1 /\ t[1] <= Len(book) /\ t[2] \in Nat /\ t[2] >= 1
  BY <1>1, TextsTyped
<1>2. sheet \in Nat /\ Len(book) \in Nat
  BY BookTyped DEF WorkbookTypeOK
<1> QED
  BY <1>1, <1>2 DEF TextsBefore

LEMMA InitWorkbook == Init => WorkbookIInv
<1> SUFFICES ASSUME Init PROVE WorkbookIInv
  OBVIOUS
<1>1. WorkbookTypeOK
  <2>1. IsFiniteSet({})
    BY FS_EmptySet
  <2>2. <<>> \in Seq(Nat) /\ <<>> \in Seq(Seq(Nat))
    OBVIOUS
  <2>3. parsed \in [outcome : {"none", "parse_error", "no_extractable_text", "parsed"},
                    truncated : BOOLEAN, length : Nat]
    BY DEF Init, Nothing
  <2>4. sheet \in Nat \ {0} /\ row \in Nat \ {0} /\ column \in Nat \ {0}
    BY DEF Init
  <2>5. width \in Nat /\ cells \in Nat /\ chars \in Nat
    BY DEF Init
  <2>6. rendered = <<>> /\ kept = <<>> /\ handed = {} /\ stop = FALSE /\ at = "sheet"
    BY DEF Init
  <2>7. book \in Workbooks
    BY DEF Init
  <2>8. handed \in SUBSET (Nat \X Nat \X Nat \X Nat) /\ IsFiniteSet(handed) /\ stop \in BOOLEAN
    BY <2>1, <2>6
  <2> QED
    BY <2>2, <2>3, <2>4, <2>5, <2>6, <2>7, <2>8 DEF WorkbookTypeOK
<1>2. StaysBounded /\ TextsAreCounted
  BY FS_EmptySet DEF Init, StaysBounded, TextsAreCounted, Nothing
<1>3. PointExists /\ RowIsRendered /\ NothingLostSilently
  BY DEF Init, PointExists, RowIsRendered, NothingLostSilently, Nothing
<1>4. NothingLostSoFar
  <2>1. Len(book) \in Nat
    BY <1>1, BookTyped
  <2>2. TextsBefore(1, 0) = {}
    BY <1>1, FirstRow
  <2>3. at = "sheet" /\ sheet = 1 /\ handed = {}
    BY DEF Init
  <2>4. reasons = {} => Len(book) <= MaxSheets
    <3>1. reasons = IF Len(book) > MaxSheets THEN {"sheets"} ELSE {}
      BY DEF Init
    <3>2. CASE Len(book) > MaxSheets
      BY <3>1, <3>2
    <3>3. CASE ~(Len(book) > MaxSheets)
      BY <2>1, <3>3, WorkbookAssumption
    <3> QED
      BY <3>2, <3>3
  <2> QED
    BY <2>2, <2>3, <2>4 DEF NothingLostSoFar, Untold
<1> QED
  BY <1>1, <1>2, <1>3, <1>4 DEF WorkbookIInv

-----------------------------------------------------------------------------
(* Steps *)

LEMMA BookStays ==
  ASSUME book' = book
  PROVE  /\ Texts' = Texts /\ (DimensionsDeclared' <=> DimensionsDeclared)
         /\ \A s, r : {t \in Texts' : t[1] < s \/ (t[1] = s /\ t[2] < r)} = TextsBefore(s, r)
<1>1. Texts' = Texts
  BY DEF Texts
<1>2. DimensionsDeclared' <=> DimensionsDeclared
  BY DEF DimensionsDeclared
<1> QED
  BY <1>1, <1>2 DEF TextsBefore

(* A step outside rows that emits nothing. *)
LEMMA StepOutsideRows ==
  ASSUME WorkbookIInv, UNCHANGED <<book, column, rendered, width, cells, chars, handed>>,
         row' \in {row, row + 1},
         kept' \in {kept, <<>>}, at' \in {"sheet", "row", "end", "done"}, stop' \in BOOLEAN,
         sheet' \in {sheet, sheet + 1},
         parsed'.length <= MaxChars, parsed'.outcome = "parsed" => FALSE,
         parsed' \in [outcome : {"none", "parse_error", "no_extractable_text", "parsed"},
                      truncated : BOOLEAN, length : Nat],
         PointExists', NothingLostSoFar'
  PROVE  WorkbookIInv'
<1>1. WorkbookTypeOK'
  <2> USE DEF WorkbookIInv, WorkbookTypeOK
  <2>1. sheet' \in Nat \ {0}
    OBVIOUS
  <2>2. kept' \in Seq(Seq(Nat))
    <3>1. <<>> \in Seq(Seq(Nat))
      OBVIOUS
    <3> QED
      BY <3>1
  <2>3. row' \in Nat \ {0}
    OBVIOUS
  <2>4. column' \in Nat \ {0} /\ width' \in Nat /\ cells' \in Nat /\ chars' \in Nat
    OBVIOUS
  <2>5. /\ book' \in Workbooks /\ rendered' \in Seq(Nat)
        /\ handed' \in SUBSET (Nat \X Nat \X Nat \X Nat) /\ IsFiniteSet(handed')
    OBVIOUS
  <2> QED
    BY <2>1, <2>2, <2>3, <2>4, <2>5
<1>2. RowIsRendered'
  BY DEF RowIsRendered
<1>3. TextsAreCounted'
  BY DEF WorkbookIInv, TextsAreCounted
<1>4. StaysBounded'
  <2>1. Len(kept') <= MaxRows + 1 /\ \A i \in DOMAIN kept' : Len(kept'[i]) <= MaxColumns
    <3>1. CASE kept' = kept
      BY <3>1 DEF WorkbookIInv, StaysBounded
    <3>2. CASE kept' = <<>>
      BY <3>2
    <3> QED
      BY <3>1, <3>2
  <2> QED
    BY <2>1 DEF WorkbookIInv, StaysBounded
<1>5. NothingLostSilently'
  BY DEF NothingLostSilently
<1> QED
  BY <1>1, <1>2, <1>3, <1>4, <1>5 DEF WorkbookIInv

LEMMA SkipSheetStep ==
  ASSUME WorkbookIInv, SkipSheet PROVE WorkbookIInv'
<1>1. PointExists' /\ parsed' = Nothing
  BY DEF WorkbookIInv, SkipSheet, PointExists
<1>2. NothingLostSoFar'
  <2> SUFFICES ASSUME DimensionsDeclared', Untold' PROVE FALSE
    BY DEF NothingLostSoFar
  <2>1. DimensionsDeclared /\ reasons = {} /\ ~stop
    BY BookStays DEF SkipSheet, Untold
  <2>2. Len(book) <= MaxSheets
    BY <2>1 DEF WorkbookIInv, NothingLostSoFar, Untold
  <2>3. sheet > MaxSheets /\ sheet <= Len(book) /\ Len(book) \in Nat /\ sheet \in Nat
    BY <2>1, BookTyped DEF SkipSheet, Skips, WorkbookIInv, WorkbookTypeOK
  <2> QED
    BY <2>2, <2>3
<1>3. stop' \in BOOLEAN
  BY DEF SkipSheet, WorkbookIInv, WorkbookTypeOK
<1> QED
  BY <1>1, <1>2, <1>3, StepOutsideRows DEF SkipSheet, Nothing

(* Declared dimensions that are true and within the bounds leave nothing out. *)
LEMMA NoHintFits ==
  ASSUME WorkbookTypeOK, DimensionsDeclared, NEW i \in DOMAIN book, Hints(book[i]) = {}
  PROVE  /\ Len(book[i].rows) <= MaxRows + 1
         /\ \A j \in DOMAIN book[i].rows : Len(book[i].rows[j]) <= MaxColumns
<1> DEFINE s == book[i]
<1>1. s.max_row \in Nat /\ s.max_column \in Nat
  BY BookTyped DEF Sheets, DimensionsDeclared
<1>2. /\ s.max_row >= Len(s.rows)
      /\ \A j \in DOMAIN s.rows : s.max_column >= Len(s.rows[j])
  BY DEF DimensionsDeclared
<1>3. s.max_row <= MaxRows + 1 /\ s.max_column <= MaxColumns
  <2>1. ~Exceeds(s.max_row, MaxRows + 1) /\ ~Exceeds(s.max_column, MaxColumns)
    BY DEF Hints
  <2> QED
    BY <1>1, <2>1 DEF Exceeds
<1>4. Len(s.rows) \in Nat /\ \A j \in DOMAIN s.rows : Len(s.rows[j]) \in Nat
  BY BookTyped
<1> QED
  BY <1>1, <1>2, <1>3, <1>4

LEMMA BeginSheetStep ==
  ASSUME WorkbookIInv, BeginSheet PROVE WorkbookIInv'
<1>1. PointExists' /\ parsed' = Nothing
  BY DEF WorkbookIInv, BeginSheet, PointExists
<1>2. sheet \in DOMAIN book
  BY BookTyped DEF WorkbookIInv, WorkbookTypeOK, BeginSheet
<1>3. NothingLostSoFar'
  <2> SUFFICES ASSUME DimensionsDeclared', Untold'
               PROVE  /\ Len(book) <= MaxSheets
                      /\ Len(book[sheet].rows) <= MaxRows + 1
                      /\ \A j \in DOMAIN book[sheet].rows : Len(book[sheet].rows[j]) <= MaxColumns
                      /\ handed = {t \in Texts' : t[1] < sheet \/ (t[1] = sheet /\ t[2] < 1)}
    BY DEF NothingLostSoFar, BeginSheet, TextsBefore
  <2>1. DimensionsDeclared /\ reasons = {} /\ ~stop /\ Hints(book[sheet]) = {}
    BY BookStays DEF BeginSheet, Untold
  <2>2. Len(book) <= MaxSheets /\ handed = TextsBefore(sheet, 0)
    BY <2>1 DEF WorkbookIInv, NothingLostSoFar, Untold, BeginSheet
  <2>3. handed = TextsBefore(sheet, 1)
    BY <2>2, FirstRow DEF WorkbookIInv
  <2>4. {t \in Texts' : t[1] < sheet \/ (t[1] = sheet /\ t[2] < 1)} = TextsBefore(sheet, 1)
    BY BookStays DEF BeginSheet
  <2> QED
    BY <1>2, <2>1, <2>2, <2>3, <2>4, NoHintFits DEF WorkbookIInv
<1> QED
  <2>1. WorkbookTypeOK'
    BY <1>1 DEF WorkbookIInv, WorkbookTypeOK, BeginSheet, Nothing
  <2>2. RowIsRendered' /\ TextsAreCounted' /\ NothingLostSilently'
    BY <1>1 DEF RowIsRendered, BeginSheet, WorkbookIInv, TextsAreCounted, NothingLostSilently,
                Nothing
  <2>3. StaysBounded'
    BY <1>1 DEF StaysBounded, BeginSheet, WorkbookIInv, Nothing
  <2> QED
    BY <1>1, <1>3, <2>1, <2>2, <2>3 DEF WorkbookIInv

LEMMA StopAtRowStep ==
  ASSUME WorkbookIInv, StopAtRow PROVE WorkbookIInv'
<1>1. PointExists' /\ parsed' = Nothing
  BY DEF WorkbookIInv, StopAtRow, Stop, PointExists
<1>2. NothingLostSoFar'
  BY DEF StopAtRow, Stop, NothingLostSoFar, Untold
<1> QED
  BY <1>1, <1>2, StepOutsideRows DEF StopAtRow, Stop, Nothing

LEMMA BreakStep ==
  ASSUME WorkbookIInv, Break PROVE WorkbookIInv'
<1>1. PointExists'
  BY DEF Break, PointExists
<1>2. NothingLostSoFar'
  <2> SUFFICES ASSUME DimensionsDeclared', Untold' PROVE Len(book) <= MaxSheets
    BY DEF NothingLostSoFar, Break
  <2> QED
    BY BookStays DEF Break, NothingLostSoFar, WorkbookIInv, Untold
<1>3. stop' \in BOOLEAN
  BY DEF Break, WorkbookIInv, WorkbookTypeOK
<1> QED
  BY <1>1, <1>2, <1>3, StepOutsideRows DEF Break

LEMMA EndSheetStep ==
  ASSUME WorkbookIInv, EndSheet PROVE WorkbookIInv'
<1>1. PointExists' /\ parsed' = Nothing
  BY DEF WorkbookIInv, EndSheet, PointExists
<1>2. NothingLostSoFar'
  <2> SUFFICES ASSUME DimensionsDeclared', Untold'
               PROVE  /\ Len(book) <= MaxSheets
                      /\ handed = {t \in Texts' : t[1] < sheet + 1 \/ (t[1] = sheet + 1 /\ t[2] < 0)}
    BY DEF NothingLostSoFar, EndSheet, TextsBefore
  <2>1. DimensionsDeclared /\ Untold
    BY BookStays DEF EndSheet, Untold
  <2>2. at = "row" /\ ~RowsLeft
    BY <2>1 DEF WorkbookIInv, NothingLostSoFar, Untold, EndSheet
  <2>3. /\ Len(book) <= MaxSheets /\ Len(book[sheet].rows) <= MaxRows + 1
        /\ handed = TextsBefore(sheet, row)
    BY <2>1, <2>2 DEF WorkbookIInv, NothingLostSoFar
  <2>4. sheet \in DOMAIN book
    BY <2>2, BookTyped DEF WorkbookIInv, PointExists, WorkbookTypeOK
  <2>5. Len(book[sheet].rows) < row
    BY <2>2, <2>3, <2>4, BookTyped, SMTT(30) DEF RowsLeft, WorkbookIInv, WorkbookTypeOK
  <2>6. handed = TextsBefore(sheet + 1, 0)
    BY <2>3, <2>4, <2>5, NextSheet DEF WorkbookIInv
  <2> QED
    BY <2>3, <2>6, BookStays DEF EndSheet
<1>3. stop' \in BOOLEAN
  BY DEF EndSheet, WorkbookIInv, WorkbookTypeOK
<1> QED
  BY <1>1, <1>2, <1>3, StepOutsideRows DEF EndSheet, Nothing
-----------------------------------------------------------------------------
(* Steps within a row *)

(* A step of the row in progress that neither counts nor keeps a text. *)
LEMMA StepInRow ==
  ASSUME WorkbookIInv, UNCHANGED <<book, sheet, row, kept, handed, cells, chars, parsed>>,
         at \in {"row", "cell"}, at' \in {"cell", "keep"}, stop' \in BOOLEAN,
         column' \in Nat \ {0}, rendered' \in Seq(Nat), width' \in Nat,
         row <= Len(book[sheet].rows), RowIsRendered', NothingLostSoFar'
  PROVE  WorkbookIInv'
<1>1. parsed = Nothing /\ sheet <= Len(book)
  BY DEF WorkbookIInv, PointExists
<1>2. PointExists'
  BY <1>1 DEF PointExists, Nothing
<1>3. WorkbookTypeOK'
  <2> USE DEF WorkbookIInv, WorkbookTypeOK
  <2>1. sheet' \in Nat \ {0} /\ row' \in Nat \ {0}
    OBVIOUS
  <2>2. /\ cells' \in Nat /\ chars' \in Nat /\ book' \in Workbooks /\ kept' \in Seq(Seq(Nat))
        /\ handed' \in SUBSET (Nat \X Nat \X Nat \X Nat) /\ IsFiniteSet(handed')
    OBVIOUS
  <2>3. parsed' \in [outcome : {"none", "parse_error", "no_extractable_text", "parsed"},
                     truncated : BOOLEAN, length : Nat]
    BY <1>1 DEF Nothing
  <2> QED
    BY <2>1, <2>2, <2>3
<1>4. TextsAreCounted' /\ NothingLostSilently'
  BY <1>1 DEF WorkbookIInv, TextsAreCounted, NothingLostSilently, Nothing
<1>5. StaysBounded'
  BY DEF WorkbookIInv, StaysBounded
<1> QED
  BY <1>2, <1>3, <1>4, <1>5 DEF WorkbookIInv

(* The row and the sheet of a step within a row are in the workbook. *)
LEMMA RowExists ==
  ASSUME WorkbookIInv,
         at \in {"cell", "keep"} \/ (at = "row" /\ row <= Len(book[sheet].rows))
  PROVE  /\ sheet \in DOMAIN book /\ row \in DOMAIN book[sheet].rows
         /\ row <= Len(book[sheet].rows) /\ parsed = Nothing
<1>1. sheet <= Len(book) /\ sheet \in Nat \ {0} /\ row <= Len(book[sheet].rows)
      /\ row \in Nat \ {0} /\ parsed = Nothing
  BY DEF WorkbookIInv, PointExists, WorkbookTypeOK
<1>2. sheet \in DOMAIN book
  BY <1>1, BookTyped DEF WorkbookIInv
<1> QED
  BY <1>1, <1>2, BookTyped DEF WorkbookIInv

LEMMA BeginRowStep ==
  ASSUME WorkbookIInv, BeginRow PROVE WorkbookIInv'
<1>1. row <= Len(book[sheet].rows)
  BY DEF BeginRow, RowsLeft
<1>2. RowIsRendered'
  <2>1. Rendered' = {}
    BY DEF Rendered, BeginRow
  <2>2. (handed \cup Rendered)' = handed
    BY <2>1 DEF BeginRow
  <2>3. Cardinality(handed) <= cells
    BY DEF WorkbookIInv, TextsAreCounted
  <2>4. /\ Len(rendered') = 0 /\ DOMAIN rendered' = {} /\ column' = 1 /\ width' = 0
        /\ cells' = cells /\ MaxColumns \in Nat
    BY DEF BeginRow
  <2>5. Cardinality(handed' \cup Rendered') <= cells'
    BY <2>2, <2>3, <2>4
  <2>6. Len(rendered') = column' - 1 /\ column' <= MaxColumns + 1 /\ width' <= Len(rendered')
    BY <2>4
  <2> QED
    BY <2>4, <2>5, <2>6 DEF RowIsRendered
<1>3. NothingLostSoFar'
  <2> SUFFICES ASSUME DimensionsDeclared', Untold'
               PROVE  /\ Len(book) <= MaxSheets /\ Len(book[sheet].rows) <= MaxRows + 1
                      /\ \A j \in DOMAIN book[sheet].rows : Len(book[sheet].rows[j]) <= MaxColumns
                      /\ handed = {t \in Texts' : t[1] < sheet \/ (t[1] = sheet /\ t[2] < row)}
    BY DEF NothingLostSoFar, BeginRow, TextsBefore
  <2>1. DimensionsDeclared /\ Untold
    BY BookStays DEF BeginRow, Untold
  <2> QED
    BY <2>1, BookStays DEF WorkbookIInv, NothingLostSoFar, BeginRow
<1>4. stop' \in BOOLEAN
  BY DEF BeginRow, WorkbookIInv, WorkbookTypeOK
<1> QED
  BY <1>1, <1>2, <1>3, <1>4, StepInRow DEF BeginRow

LEMMA StopAtCellStep ==
  ASSUME WorkbookIInv, StopAtCell PROVE WorkbookIInv'
<1>1. row <= Len(book[sheet].rows)
  BY RowExists DEF StopAtCell
<1>2. RowIsRendered'
  BY DEF RowIsRendered, StopAtCell, Stop, WorkbookIInv, Rendered
<1>3. NothingLostSoFar'
  BY DEF NothingLostSoFar, Untold, StopAtCell, Stop
<1>4. column' \in Nat \ {0} /\ rendered' \in Seq(Nat) /\ width' \in Nat
  BY DEF StopAtCell, WorkbookIInv, WorkbookTypeOK
<1> QED
  BY <1>1, <1>2, <1>3, <1>4, StepInRow DEF StopAtCell, Stop

LEMMA EndRowStep ==
  ASSUME WorkbookIInv, EndRow PROVE WorkbookIInv'
<1>1. row <= Len(book[sheet].rows)
  BY RowExists DEF EndRow
<1>2. RowIsRendered'
  BY DEF RowIsRendered, EndRow, WorkbookIInv, Rendered
<1>3. NothingLostSoFar'
  <2> SUFFICES ASSUME DimensionsDeclared', Untold'
               PROVE  /\ Len(book) <= MaxSheets /\ Len(book[sheet].rows) <= MaxRows + 1
                      /\ \A j \in DOMAIN book[sheet].rows : Len(book[sheet].rows[j]) <= MaxColumns
                      /\ handed = {t \in Texts' : t[1] < sheet \/ (t[1] = sheet /\ t[2] < row)}
                      /\ \A c \in DOMAIN rendered : rendered[c] = TextAt(c)
    BY DEF NothingLostSoFar, EndRow, TextsBefore, TextAt
  <2>1. DimensionsDeclared /\ Untold
    BY BookStays DEF EndRow, Untold
  <2> QED
    BY <2>1, BookStays DEF WorkbookIInv, NothingLostSoFar, EndRow
<1>4. column' \in Nat \ {0} /\ rendered' \in Seq(Nat) /\ width' \in Nat
  BY DEF EndRow, WorkbookIInv, WorkbookTypeOK
<1>5. stop' \in BOOLEAN
  BY DEF EndRow, WorkbookIInv, WorkbookTypeOK
<1> QED
  BY <1>1, <1>2, <1>3, <1>4, <1>5, StepInRow DEF EndRow
(* What a cell emits is within the bound of a cell and what is left of the  *)
(* text's, and is the text itself as long as no reason is noted.            *)
LEMMA EmittedWithinBounds ==
  ASSUME WorkbookIInv, at = "cell", UsedUp = {}
  PROVE  /\ Text \in Nat /\ Text = TextAt(column)
         /\ Emitted(Text) \in Nat /\ Emitted(Text) <= MaxCellChars
         /\ chars + Emitted(Text) <= MaxChars /\ cells + 1 <= MaxCells
         /\ Emitted(Text) > 0 => Least(Text, MaxCellChars) # 0
         /\ Text <= MaxCellChars /\ ~(Least(Text, MaxCellChars) > MaxChars - chars)
              => Emitted(Text) = Text
<1>1. sheet \in DOMAIN book /\ row \in DOMAIN book[sheet].rows
  BY RowExists
<1>2. /\ book[sheet].rows[row] \in Seq(Nat) /\ Len(book[sheet].rows[row]) \in Nat
      /\ column \in Nat \ {0} /\ cells \in Nat /\ chars \in Nat
  BY <1>1, BookTyped DEF WorkbookIInv, WorkbookTypeOK
<1>3. Text \in Nat /\ Text = TextAt(column)
  <2>1. CASE column <= Len(book[sheet].rows[row])
    <3>1. column \in 1..Len(book[sheet].rows[row])
      BY <1>2, <2>1
    <3>2. book[sheet].rows[row][column] \in Nat
      BY <1>2, <3>1, ElementOfSeq
    <3> QED
      BY <2>1, <3>2 DEF Text, TextAt
  <2>2. CASE ~(column <= Len(book[sheet].rows[row]))
    BY <2>2 DEF Text, TextAt
  <2> QED
    BY <2>1, <2>2
<1>4. cells < MaxCells /\ chars < MaxChars
  <2>1. ~(cells >= MaxCells)
    BY DEF UsedUp
  <2>2. ~(chars >= MaxChars)
    BY <2>1 DEF UsedUp
  <2>3. MaxCells \in Nat /\ MaxChars \in Nat
    OBVIOUS
  <2> QED
    BY <1>2, <2>1, <2>2, <2>3
<1>5. MaxCellChars \in Nat /\ MaxChars \in Nat /\ MaxCells \in Nat
  OBVIOUS
<1> QED
  BY <1>2, <1>3, <1>4, <1>5, SMTT(30) DEF Emitted, Least

(* One more text rendered is at most one more text. *)
LEMMA OneMoreRendered ==
  ASSUME WorkbookIInv, Cell
  PROVE  /\ Rendered' \subseteq Rendered \cup {<<sheet, row, column, Emitted(Text)>>}
         /\ Emitted(Text) = 0 => Rendered' \subseteq Rendered
         /\ DOMAIN rendered = 1..(column - 1) /\ DOMAIN rendered' = 1..column
         /\ rendered'[column] = Emitted(Text)
         /\ \A c \in DOMAIN rendered : rendered'[c] = rendered[c]
<1>1. Emitted(Text) \in Nat /\ rendered \in Seq(Nat) /\ column \in Nat \ {0}
  BY EmittedWithinBounds DEF Cell, WorkbookIInv, WorkbookTypeOK
<1>2. Len(rendered) = column - 1 /\ rendered' = Append(rendered, Emitted(Text))
  BY DEF WorkbookIInv, RowIsRendered, Cell
<1>3. DOMAIN rendered = 1..(column - 1) /\ DOMAIN rendered' = 1..column
  BY <1>1, <1>2
<1>4. /\ rendered'[column] = Emitted(Text)
      /\ \A c \in DOMAIN rendered : rendered'[c] = rendered[c]
  BY <1>1, <1>2
<1>5. ASSUME NEW t \in Rendered'
      PROVE  t \in Rendered \/ (t = <<sheet, row, column, Emitted(Text)>> /\ Emitted(Text) > 0)
  <2>1. PICK c \in 1..column : rendered'[c] > 0 /\ t = <<sheet, row, c, rendered'[c]>>
    BY <1>3 DEF Rendered, Cell
  <2>2. CASE c = column
    BY <1>4, <2>1, <2>2
  <2>3. CASE c # column
    <3>1. c \in DOMAIN rendered
      BY <1>1, <1>3, <2>3
    <3>2. rendered'[c] = rendered[c]
      BY <1>4, <3>1
    <3> QED
      BY <2>1, <3>1, <3>2 DEF Rendered
  <2> QED
    BY <2>2, <2>3
<1> QED
  BY <1>1, <1>3, <1>4, <1>5

LEMMA FiniteRendered ==
  ASSUME WorkbookTypeOK PROVE IsFiniteSet(Rendered)
<1>1. rendered \in Seq(Nat) /\ Len(rendered) \in Nat /\ DOMAIN rendered = 1..Len(rendered)
  BY DEF WorkbookTypeOK
<1> DEFINE Places == {c \in DOMAIN rendered : rendered[c] > 0}
           At(c) == <<sheet, row, c, rendered[c]>>
<1>2. IsFiniteSet(1..Len(rendered))
  BY <1>1, FS_Interval
<1>3. IsFiniteSet(Places)
  <2>1. Places \subseteq 1..Len(rendered)
    BY <1>1
  <2> HIDE DEF Places
  <2> QED
    BY <1>2, <2>1, FS_Subset
<1> DEFINE TextOf == [c \in Places |-> At(c)]
<1>4. Rendered = {At(c) : c \in Places}
  BY DEF Rendered
<1> HIDE DEF Places, At
<1>5. TextOf \in Surjection(Places, Rendered)
  BY <1>4 DEF Surjection
<1> QED
  BY <1>3, <1>5, FS_Surjection

LEMMA CellStep ==
  ASSUME WorkbookIInv, Cell PROVE WorkbookIInv'
<1>1. /\ Text \in Nat /\ Text = TextAt(column)
      /\ Emitted(Text) \in Nat /\ Emitted(Text) <= MaxCellChars
      /\ chars + Emitted(Text) <= MaxChars /\ cells + 1 <= MaxCells
      /\ Emitted(Text) > 0 => Least(Text, MaxCellChars) # 0
  BY EmittedWithinBounds DEF Cell
<1>2. /\ DOMAIN rendered = 1..(column - 1) /\ DOMAIN rendered' = 1..column
      /\ rendered'[column] = Emitted(Text)
      /\ \A c \in DOMAIN rendered : rendered'[c] = rendered[c]
  BY OneMoreRendered
<1>3. /\ column \in Nat \ {0} /\ width \in Nat /\ cells \in Nat /\ chars \in Nat
      /\ rendered \in Seq(Nat)
  BY DEF WorkbookIInv, WorkbookTypeOK
<1>4. /\ cells' \in {cells, cells + 1} /\ (Emitted(Text) > 0 => cells' = cells + 1)
      /\ width' \in {width, column} /\ (Emitted(Text) > 0 => width' = column)
      /\ column' = column + 1 /\ chars' = chars + Emitted(Text)
      /\ rendered' = Append(rendered, Emitted(Text))
  BY <1>1 DEF Cell
<1>5. /\ Len(rendered) = column - 1 /\ column <= MaxColumns /\ width <= column - 1
      /\ \A c \in DOMAIN rendered : rendered[c] <= MaxCellChars /\ (rendered[c] > 0 => c <= width)
      /\ Cardinality(handed \cup Rendered) <= cells /\ Cardinality(handed) <= cells
  BY DEF WorkbookIInv, RowIsRendered, TextsAreCounted, Cell
<1>6. IsFiniteSet(handed \cup Rendered) /\ IsFiniteSet(handed)
  BY FiniteRendered, FS_Union DEF WorkbookIInv, WorkbookTypeOK
<1>7. Cardinality(handed' \cup Rendered') <= cells'
  <2> DEFINE all == handed \cup Rendered
             one == <<sheet, row, column, Emitted(Text)>>
  <2>1. handed' = handed
    BY DEF Cell
  <2>2. Cardinality(all) \in Nat /\ Cardinality(all) <= cells
    BY <1>5, <1>6, FS_CardinalityType
  <2>3. CASE Emitted(Text) = 0
    <3>1. handed' \cup Rendered' \subseteq all
      BY <2>1, <2>3, OneMoreRendered
    <3>2. /\ Cardinality(handed' \cup Rendered') <= Cardinality(all)
          /\ Cardinality(handed' \cup Rendered') \in Nat
      BY <1>6, <3>1, FS_Subset, FS_CardinalityType
    <3> QED
      BY <1>3, <1>4, <2>2, <3>2, SMTT(30)
  <2>4. CASE Emitted(Text) > 0
    <3>1. handed' \cup Rendered' \subseteq all \cup {one}
      BY <2>1, OneMoreRendered
    <3>2. IsFiniteSet(all \cup {one}) /\ Cardinality(all \cup {one}) \in {Cardinality(all), Cardinality(all) + 1}
      BY <1>6, FS_AddElement
    <3>3. /\ Cardinality(handed' \cup Rendered') <= Cardinality(all \cup {one})
          /\ Cardinality(handed' \cup Rendered') \in Nat
      BY <3>1, <3>2, FS_Subset, FS_CardinalityType
    <3>4. cells' = cells + 1
      BY <1>4, <2>4
    <3> HIDE DEF all, one
    <3> QED
      BY <1>3, <2>2, <3>2, <3>3, <3>4
  <2> QED
    BY <1>1, <2>3, <2>4
<1>8. RowIsRendered'
  <2>1. at' = "cell" /\ MaxColumns \in Nat /\ MaxCellChars \in Nat
    BY DEF Cell
  <2>2. Len(rendered') = column' - 1 /\ column' <= MaxColumns + 1 /\ width' <= Len(rendered')
    BY <1>1, <1>3, <1>4, <1>5, <2>1, SMTT(30)
  <2>3. ASSUME NEW c \in DOMAIN rendered'
        PROVE  rendered'[c] <= MaxCellChars /\ (rendered'[c] > 0 => c <= width')
    <3>1. CASE c = column
      BY <1>1, <1>2, <1>3, <1>4, <3>1, SMTT(30)
    <3>2. CASE c # column
      <4>1. c \in DOMAIN rendered /\ c \in Nat
        BY <1>2, <1>3, <2>3, <3>2
      <4>2. rendered'[c] = rendered[c] /\ rendered[c] <= MaxCellChars /\ (rendered[c] > 0 => c <= width)
        BY <1>2, <1>5, <4>1
      <4>3. width <= width'
        BY <1>3, <1>4, <1>5
      <4> QED
        BY <1>3, <1>4, <4>1, <4>2, <4>3, SMTT(30)
    <3> QED
      BY <3>1, <3>2
  <2> QED
    BY <1>7, <2>2, <2>3 DEF RowIsRendered
<1>9. PointExists' /\ parsed' = Nothing
  BY RowExists DEF Cell, PointExists, WorkbookIInv
<1>10. NothingLostSoFar'
  <2> SUFFICES ASSUME DimensionsDeclared', Untold'
               PROVE  /\ Len(book) <= MaxSheets /\ Len(book[sheet].rows) <= MaxRows + 1
                      /\ \A j \in DOMAIN book[sheet].rows : Len(book[sheet].rows[j]) <= MaxColumns
                      /\ handed = {t \in Texts' : t[1] < sheet \/ (t[1] = sheet /\ t[2] < row)}
                      /\ \A c \in DOMAIN rendered' : rendered'[c] = TextAt(c)
    BY DEF NothingLostSoFar, Cell, TextsBefore, TextAt
  <2>1. DimensionsDeclared /\ Untold
    BY BookStays DEF Cell, Untold
  <2>2. Text <= MaxCellChars /\ ~(Least(Text, MaxCellChars) > MaxChars - chars)
    <3>1. ~stop' /\ reasons' = {}
      BY DEF Untold
    <3>2. ~(Least(Text, MaxCellChars) > MaxChars - chars)
      BY <3>1 DEF Cell
    <3>3. ~(Text > MaxCellChars)
      BY <3>1 DEF Cell
    <3> QED
      BY <1>1, <3>2, <3>3
  <2>3. Emitted(Text) = TextAt(column)
    BY <2>2, EmittedWithinBounds DEF Cell
  <2>4. \A c \in DOMAIN rendered : rendered[c] = TextAt(c)
    BY <2>1 DEF WorkbookIInv, NothingLostSoFar, Cell
  <2>5. \A c \in DOMAIN rendered' : rendered'[c] = TextAt(c)
    <3> SUFFICES ASSUME NEW c \in 1..column PROVE rendered'[c] = TextAt(c)
      BY <1>2
    <3>1. CASE c = column
      BY <1>2, <2>3, <3>1
    <3>2. CASE c # column
      <4>1. c \in DOMAIN rendered
        BY <1>2, <1>3, <3>2
      <4> QED
        BY <1>2, <2>4, <4>1
    <3> QED
      BY <3>1, <3>2
  <2> QED
    BY <2>1, <2>5, BookStays DEF WorkbookIInv, NothingLostSoFar, Cell
<1>11. StaysBounded'
  <2>1. cells' <= MaxCells /\ chars' <= MaxChars
    <3>1. cells <= MaxCells
      BY <1>1, <1>3
    <3> QED
      BY <1>1, <1>4, <3>1
  <2> QED
    BY <1>9, <2>1 DEF StaysBounded, WorkbookIInv, Cell, Nothing
<1>12. TextsAreCounted'
  <2>1. handed' = handed /\ Cardinality(handed) \in Nat
    BY <1>6, FS_CardinalityType DEF Cell
  <2> QED
    BY <1>3, <1>4, <1>5, <2>1 DEF TextsAreCounted
<1>13. WorkbookTypeOK'
  <2>1. /\ column' \in Nat \ {0} /\ width' \in Nat /\ cells' \in Nat /\ chars' \in Nat
        /\ rendered' \in Seq(Nat)
    <3>1. rendered' \in Seq(Nat)
      BY <1>1, <1>3, <1>4
    <3>2. column' \in Nat \ {0} /\ width' \in Nat /\ cells' \in Nat /\ chars' \in Nat
      BY <1>1, <1>3, <1>4, SMTT(30)
    <3> QED
      BY <3>1, <3>2
  <2>2. stop' \in BOOLEAN
    BY DEF Cell, WorkbookIInv, WorkbookTypeOK
  <2>3. /\ sheet' \in Nat \ {0} /\ row' \in Nat \ {0} /\ book' \in Workbooks
        /\ at' \in {"sheet", "row", "cell", "keep", "end", "done"} /\ kept' \in Seq(Seq(Nat))
        /\ handed' \in SUBSET (Nat \X Nat \X Nat \X Nat) /\ IsFiniteSet(handed')
    BY DEF Cell, WorkbookIInv, WorkbookTypeOK
  <2>4. parsed' \in [outcome : {"none", "parse_error", "no_extractable_text", "parsed"},
                     truncated : BOOLEAN, length : Nat]
    BY <1>9 DEF Nothing
  <2> QED
    BY <2>1, <2>2, <2>3, <2>4 DEF WorkbookTypeOK
<1>14. NothingLostSilently'
  BY <1>9 DEF NothingLostSilently, Nothing
<1> QED
  BY <1>8, <1>9, <1>10, <1>11, <1>12, <1>13, <1>14 DEF WorkbookIInv
-----------------------------------------------------------------------------
(* Keeping a row, and the end *)

(* A row is kept up to its last text, with all of them. *)
LEMMA KeptRowIsRendered ==
  ASSUME WorkbookIInv, KeepRow, ~(HasValue /\ Len(kept) > MaxRows)
  PROVE  handed' = handed \cup Rendered
<1>1. /\ rendered \in Seq(Nat) /\ Len(rendered) \in Nat /\ DOMAIN rendered = 1..Len(rendered)
      /\ width \in Nat /\ width <= Len(rendered)
      /\ \A c \in DOMAIN rendered : rendered[c] > 0 => c <= width
  BY SMTT(30) DEF WorkbookIInv, WorkbookTypeOK, RowIsRendered, KeepRow
<1>2. {c \in 1..width : rendered[c] > 0} = {c \in DOMAIN rendered : rendered[c] > 0}
  BY <1>1
<1>3. TextsOfRow = Rendered
  BY <1>2 DEF TextsOfRow, Rendered
<1>4. CASE HasValue
  BY <1>3, <1>4 DEF KeepRow
<1>5. CASE ~HasValue
  <2>1. width = 0
    BY <1>1, <1>5 DEF HasValue
  <2>2. TextsOfRow = {}
    BY <2>1 DEF TextsOfRow
  <2> QED
    BY <1>3, <1>5, <2>2 DEF KeepRow
<1> QED
  BY <1>4, <1>5

(* Unless a reason is noted, these are the texts of the workbook's row. *)
LEMMA RenderedAreTheRow ==
  ASSUME WorkbookIInv, at = "keep", DimensionsDeclared, Untold, NEW t
  PROVE  t \in Rendered <=>
           \E c \in DOMAIN book[sheet].rows[row] :
             book[sheet].rows[row][c] > 0 /\ t = <<sheet, row, c, book[sheet].rows[row][c]>>
<1> DEFINE texts == book[sheet].rows[row]
<1>1. sheet \in DOMAIN book /\ row \in DOMAIN book[sheet].rows
  BY RowExists
<1>2. texts \in Seq(Nat) /\ Len(texts) \in Nat /\ DOMAIN texts = 1..Len(texts)
  BY <1>1, BookTyped DEF WorkbookIInv
<1>3. Len(texts) <= MaxColumns /\ column > MaxColumns
  BY <1>1 DEF WorkbookIInv, NothingLostSoFar
<1>4. \A c \in DOMAIN rendered : rendered[c] = TextAt(c)
  BY DEF WorkbookIInv, NothingLostSoFar
<1>5. /\ Len(rendered) = column - 1 /\ column <= MaxColumns + 1 /\ column \in Nat
      /\ rendered \in Seq(Nat) /\ MaxColumns \in Nat
  BY DEF WorkbookIInv, RowIsRendered, WorkbookTypeOK
<1>6. DOMAIN rendered = 1..MaxColumns
  BY <1>3, <1>5
<1>7. \A c \in 1..Len(texts) : c \in DOMAIN rendered /\ rendered[c] = texts[c]
  <2> SUFFICES ASSUME NEW c \in 1..Len(texts)
               PROVE  c \in DOMAIN rendered /\ rendered[c] = texts[c]
    OBVIOUS
  <2>1. c \in DOMAIN rendered /\ c <= Len(texts)
    BY <1>2, <1>3, <1>5, <1>6
  <2>2. TextAt(c) = texts[c]
    BY <2>1 DEF TextAt
  <2> QED
    BY <1>4, <2>1, <2>2
<1>8. \A c \in DOMAIN rendered : rendered[c] > 0 => c \in 1..Len(texts)
  <2> SUFFICES ASSUME NEW c \in DOMAIN rendered, rendered[c] > 0 PROVE c \in 1..Len(texts)
    OBVIOUS
  <2>1. TextAt(c) > 0
    BY <1>4
  <2>2. c <= Len(texts)
    BY <2>1 DEF TextAt
  <2> QED
    BY <1>2, <1>6, <2>2
<1> HIDE DEF texts
<1>9. t \in Rendered <=> \E c \in 1..Len(texts) : texts[c] > 0 /\ t = <<sheet, row, c, texts[c]>>
  BY <1>7, <1>8 DEF Rendered
<1> QED
  BY <1>2, <1>9 DEF texts

LEMMA KeepRowStep ==
  ASSUME WorkbookIInv, KeepRow PROVE WorkbookIInv'
<1>1. /\ sheet \in DOMAIN book /\ row \in DOMAIN book[sheet].rows /\ parsed = Nothing
      /\ sheet <= Len(book)
  BY RowExists DEF KeepRow, WorkbookIInv, PointExists
<1>2. stop' = stop /\ stop' \in BOOLEAN /\ parsed' = Nothing
  BY <1>1 DEF KeepRow, WorkbookIInv, WorkbookTypeOK
<1>3. PointExists'
  BY <1>1, <1>2 DEF KeepRow, PointExists, Nothing
<1>4. CASE HasValue /\ Len(kept) > MaxRows
  <2>1. at' = "end" /\ UNCHANGED <<kept, handed>> /\ row' = row + 1
    BY <1>4 DEF KeepRow
  <2>2. reasons' # {}
    BY <1>4 DEF KeepRow
  <2>3. NothingLostSoFar'
    BY <2>2 DEF NothingLostSoFar, Untold
  <2> QED
    BY <1>2, <1>3, <2>1, <2>3, StepOutsideRows DEF KeepRow, Nothing
<1>5. CASE ~(HasValue /\ Len(kept) > MaxRows)
  <2>1. at' = "row" /\ reasons' = reasons /\ row' = row + 1
    BY <1>5 DEF KeepRow
  <2>2. handed' = handed \cup Rendered
    BY <1>5, KeptRowIsRendered
  <2>3. /\ rendered \in Seq(Nat) /\ Len(rendered) \in Nat /\ DOMAIN rendered = 1..Len(rendered)
        /\ width \in Nat /\ width <= Len(rendered) /\ Len(rendered) <= MaxColumns
        /\ kept \in Seq(Seq(Nat)) /\ row \in Nat \ {0} /\ sheet \in Nat \ {0}
    <3>1. column \in Nat /\ MaxColumns \in Nat /\ Len(rendered) = column - 1 /\ column <= MaxColumns + 1
      BY DEF WorkbookIInv, WorkbookTypeOK, RowIsRendered, KeepRow
    <3>2. rendered \in Seq(Nat) /\ width \in Nat /\ width <= Len(rendered)
      BY DEF WorkbookIInv, WorkbookTypeOK, RowIsRendered, KeepRow
    <3>3. kept \in Seq(Seq(Nat)) /\ row \in Nat \ {0} /\ sheet \in Nat \ {0}
      BY DEF WorkbookIInv, WorkbookTypeOK
    <3> QED
      BY <3>1, <3>2, <3>3
  <2>4. IsFiniteSet(handed') /\ Cardinality(handed') <= cells'
    BY <2>2, FiniteRendered, FS_Union
       DEF WorkbookIInv, WorkbookTypeOK, RowIsRendered, KeepRow
  <2>5. handed' \in SUBSET (Nat \X Nat \X Nat \X Nat)
    <3>1. Rendered \subseteq Nat \X Nat \X Nat \X Nat
      <4>1. \A c \in DOMAIN rendered : c \in Nat /\ rendered[c] \in Nat
        BY <2>3
      <4>2. ASSUME NEW t \in Rendered PROVE t \in Nat \X Nat \X Nat \X Nat
        <5>1. PICK c \in DOMAIN rendered : t = <<sheet, row, c, rendered[c]>>
          BY DEF Rendered
        <5>2. sheet \in Nat /\ row \in Nat /\ c \in Nat /\ rendered[c] \in Nat
          BY <2>3, <4>1
        <5> QED
          BY <5>1, <5>2
      <4> QED
        BY <4>2
    <3> QED
      BY <2>2, <3>1 DEF WorkbookIInv, WorkbookTypeOK
  <2>6. /\ kept' \in Seq(Seq(Nat)) /\ Len(kept') <= MaxRows + 1
        /\ \A i \in DOMAIN kept' : Len(kept'[i]) <= MaxColumns
    <3>1. CASE HasValue
      <4>1. kept' = Append(kept, SubSeq(rendered, 1, width)) /\ ~(Len(kept) > MaxRows)
        BY <1>5, <3>1 DEF KeepRow
      <4>2. SubSeq(rendered, 1, width) \in Seq(Nat) /\ Len(SubSeq(rendered, 1, width)) = width
        <5>1. \A i \in 1..width : rendered[i] \in Nat
          BY <2>3
        <5> QED
          BY <2>3, <5>1, SubSeqProperties
      <4>3. Len(kept) \in Nat /\ MaxRows \in Nat /\ MaxColumns \in Nat
        BY <2>3
      <4>4. /\ kept' \in Seq(Seq(Nat)) /\ Len(kept') = Len(kept) + 1
            /\ \A i \in DOMAIN kept : kept'[i] = kept[i]
            /\ kept'[Len(kept) + 1] = SubSeq(rendered, 1, width)
            /\ DOMAIN kept' = 1..(Len(kept) + 1) /\ DOMAIN kept = 1..Len(kept)
        BY <2>3, <4>1, <4>2, AppendProperties, SMTT(30)
      <4>5. \A i \in DOMAIN kept : Len(kept[i]) <= MaxColumns
        BY DEF WorkbookIInv, StaysBounded
      <4>6. ASSUME NEW i \in DOMAIN kept' PROVE Len(kept'[i]) <= MaxColumns
        <5>1. CASE i = Len(kept) + 1
          BY <2>3, <4>2, <4>3, <4>4, <5>1
        <5>2. CASE i # Len(kept) + 1
          <6>1. i \in DOMAIN kept
            BY <4>3, <4>4, <4>6, <5>2
          <6> QED
            BY <4>4, <4>5, <6>1
        <5> QED
          BY <5>1, <5>2
      <4> QED
        BY <4>1, <4>3, <4>4, <4>6, SMTT(30)
    <3>2. CASE ~HasValue
      <4>1. kept' = kept
        BY <1>5, <3>2 DEF KeepRow
      <4> QED
        BY <2>3, <4>1 DEF WorkbookIInv, StaysBounded
    <3> QED
      BY <3>1, <3>2
  <2>7. WorkbookTypeOK'
    <3>1. /\ row' \in Nat \ {0} /\ sheet' \in Nat \ {0} /\ column' \in Nat \ {0}
      BY <2>1, <2>3 DEF KeepRow, WorkbookIInv, WorkbookTypeOK
    <3>2. /\ width' \in Nat /\ cells' \in Nat /\ chars' \in Nat /\ rendered' \in Seq(Nat)
          /\ book' \in Workbooks
      BY DEF KeepRow, WorkbookIInv, WorkbookTypeOK
    <3>3. parsed' \in [outcome : {"none", "parse_error", "no_extractable_text", "parsed"},
                       truncated : BOOLEAN, length : Nat]
      BY <1>2 DEF Nothing
    <3> QED
      BY <1>2, <2>1, <2>4, <2>5, <2>6, <3>1, <3>2, <3>3 DEF WorkbookTypeOK
  <2>8. RowIsRendered' /\ TextsAreCounted' /\ NothingLostSilently'
    BY <1>2, <2>1, <2>4 DEF RowIsRendered, TextsAreCounted, NothingLostSilently, Nothing
  <2>9. StaysBounded'
    <3>1. cells' = cells /\ chars' = chars /\ cells <= MaxCells /\ chars <= MaxChars
      BY DEF KeepRow, WorkbookIInv, StaysBounded
    <3>2. Cardinality(handed') <= MaxCells
      <4>1. Cardinality(handed') \in Nat /\ cells \in Nat /\ MaxCells \in Nat
        BY <2>4, FS_CardinalityType DEF WorkbookIInv, WorkbookTypeOK
      <4> QED
        BY <2>4, <3>1, <4>1
    <3>3. \A text \in handed' : text[4] <= MaxCellChars
      <4>1. \A text \in handed : text[4] <= MaxCellChars
        BY DEF WorkbookIInv, StaysBounded
      <4>2. \A c \in DOMAIN rendered : rendered[c] <= MaxCellChars
        BY DEF WorkbookIInv, RowIsRendered, KeepRow
      <4>3. \A text \in Rendered : text[4] <= MaxCellChars
        BY <4>2 DEF Rendered
      <4> QED
        BY <2>2, <4>1, <4>3
    <3>4. parsed'.length <= MaxChars
      BY <1>2 DEF Nothing
    <3> QED
      BY <2>6, <3>1, <3>2, <3>3, <3>4 DEF StaysBounded
  <2>10. NothingLostSoFar'
    <3> SUFFICES ASSUME DimensionsDeclared', Untold'
                 PROVE  /\ Len(book) <= MaxSheets /\ Len(book[sheet].rows) <= MaxRows + 1
                        /\ \A j \in DOMAIN book[sheet].rows :
                             Len(book[sheet].rows[j]) <= MaxColumns
                        /\ handed' = {t \in Texts' :
                                       t[1] < sheet \/ (t[1] = sheet /\ t[2] < row + 1)}
      BY <2>1 DEF NothingLostSoFar, KeepRow, TextsBefore
    <3>1. DimensionsDeclared /\ Untold
      BY <1>2, <2>1, BookStays DEF KeepRow, Untold
    <3>2. /\ Len(book) <= MaxSheets /\ Len(book[sheet].rows) <= MaxRows + 1
          /\ \A j \in DOMAIN book[sheet].rows : Len(book[sheet].rows[j]) <= MaxColumns
          /\ handed = TextsBefore(sheet, row)
      BY <3>1 DEF WorkbookIInv, NothingLostSoFar, KeepRow
    <3>3. at = "keep"
      BY DEF KeepRow
    <3>4. TextsBefore(sheet, row + 1) = TextsBefore(sheet, row) \cup Rendered
      BY <1>1, <3>1, <3>3, RenderedAreTheRow, NextRow DEF WorkbookIInv
    <3>5. handed' = TextsBefore(sheet, row + 1)
      BY <2>2, <3>2, <3>4
    <3> QED
      BY <3>2, <3>5, BookStays DEF KeepRow
  <2> QED
    BY <1>3, <2>7, <2>8, <2>9, <2>10 DEF WorkbookIInv
<1> QED
  BY <1>4, <1>5

LEMMA FinishStep ==
  ASSUME WorkbookIInv, Finish PROVE WorkbookIInv'
<1>1. at' = "done" /\ at = "sheet" /\ sheet > Len(book) /\ book' = book
  BY DEF Finish
<1>2. chars \in Nat /\ cells \in Nat /\ stop \in BOOLEAN /\ MaxChars \in Nat
  BY DEF WorkbookIInv, WorkbookTypeOK
<1>3. /\ parsed' \in [outcome : {"none", "parse_error", "no_extractable_text", "parsed"},
                      truncated : BOOLEAN, length : Nat]
      /\ parsed'.length <= MaxChars
      /\ parsed'.outcome = "parsed" => parsed'.truncated \/ Untold
  <2>1. CASE parsed' = [outcome |-> "no_extractable_text", truncated |-> FALSE, length |-> 0]
    BY <1>2, <2>1
  <2>2. CASE \E length \in (chars + 1)..MaxChars :
               parsed' = [outcome |-> "parsed", length |-> length,
                          truncated |-> stop \/ reasons # {}]
    <3>1. PICK length \in (chars + 1)..MaxChars :
            parsed' = [outcome |-> "parsed", length |-> length,
                       truncated |-> stop \/ reasons # {}]
      BY <2>2
    <3>2. length \in Nat /\ length <= MaxChars
      BY <1>2
    <3>3. CASE stop \/ reasons # {}
      <4>1. parsed' = [outcome |-> "parsed", length |-> length, truncated |-> TRUE]
        BY <3>1, <3>3
      <4> QED
        BY <3>2, <4>1
    <3>4. CASE ~(stop \/ reasons # {})
      <4>1. parsed' = [outcome |-> "parsed", length |-> length, truncated |-> FALSE]
        BY <3>1, <3>4
      <4> QED
        BY <3>2, <3>4, <4>1 DEF Untold
    <3> QED
      BY <3>3, <3>4
  <2>3. CASE parsed' = [outcome |-> "parsed", length |-> MaxChars, truncated |-> TRUE]
    BY <1>2, <2>3
  <2> QED
    BY <2>1, <2>2, <2>3 DEF Finish
<1>4. WorkbookTypeOK'
  <2>1. /\ row' \in Nat \ {0} /\ sheet' \in Nat \ {0} /\ column' \in Nat \ {0}
        /\ width' \in Nat /\ cells' \in Nat /\ chars' \in Nat /\ rendered' \in Seq(Nat)
    BY DEF Finish, WorkbookIInv, WorkbookTypeOK
  <2>2. /\ book' \in Workbooks /\ kept' \in Seq(Seq(Nat))
        /\ handed' \in SUBSET (Nat \X Nat \X Nat \X Nat) /\ IsFiniteSet(handed')
    BY DEF Finish, WorkbookIInv, WorkbookTypeOK
  <2>3. stop' \in BOOLEAN
    BY DEF Finish, WorkbookIInv, WorkbookTypeOK
  <2> QED
    BY <1>1, <1>3, <2>1, <2>2, <2>3 DEF WorkbookTypeOK
<1>5. PointExists' /\ RowIsRendered'
  BY <1>1 DEF PointExists, RowIsRendered
<1>6. TextsAreCounted'
  BY DEF TextsAreCounted, Finish, WorkbookIInv
<1>7. StaysBounded'
  BY <1>3 DEF StaysBounded, Finish, WorkbookIInv
<1>8. NothingLostSoFar'
  <2> SUFFICES ASSUME DimensionsDeclared', Untold' PROVE Len(book) <= MaxSheets
    BY <1>1 DEF NothingLostSoFar
  <2>1. reasons \subseteq reasons' /\ stop' = stop
    BY DEF Finish
  <2>2. DimensionsDeclared /\ Untold
    BY <1>1, <2>1, BookStays DEF Untold
  <2> QED
    BY <2>2 DEF NothingLostSoFar, WorkbookIInv
<1>9. NothingLostSilently'
  <2> SUFFICES ASSUME parsed'.outcome = "parsed", DimensionsDeclared', ~parsed'.truncated
               PROVE  Complete'
    BY DEF NothingLostSilently
  <2>1. DimensionsDeclared /\ Untold /\ Texts' = Texts
    BY <1>1, <1>3, BookStays
  <2>2. handed = TextsBefore(sheet, 0)
    BY <1>1, <2>1 DEF NothingLostSoFar, WorkbookIInv
  <2>3. TextsBefore(sheet, 0) = Texts
    <3>1. sheet \in Nat /\ Len(book) \in Nat
      BY BookTyped DEF WorkbookIInv, WorkbookTypeOK
    <3>2. Len(book) < sheet
      BY <1>1, <3>1
    <3> QED
      BY <3>2, FirstRow DEF WorkbookIInv
  <2>4. handed' = handed
    BY DEF Finish
  <2> QED
    BY <2>1, <2>2, <2>3, <2>4 DEF Complete
<1> QED
  BY <1>4, <1>5, <1>6, <1>7, <1>8, <1>9 DEF WorkbookIInv

LEMMA WorkbookStutters ==
  ASSUME WorkbookIInv, UNCHANGED vars PROVE WorkbookIInv'
<1>1. WorkbookTypeOK'
  BY DEF vars, WorkbookIInv, WorkbookTypeOK
<1>2. PointExists' /\ RowIsRendered' /\ TextsAreCounted'
  BY DEF vars, WorkbookIInv, PointExists, RowIsRendered, TextsAreCounted, Rendered
<1>3. StaysBounded'
  BY DEF vars, WorkbookIInv, StaysBounded
<1>4. NothingLostSilently'
  BY BookStays DEF vars, WorkbookIInv, NothingLostSilently, Complete
<1>5. NothingLostSoFar'
  <2> SUFFICES ASSUME DimensionsDeclared', Untold'
               PROVE  NothingLostSoFar'
    BY DEF NothingLostSoFar
  <2>1. DimensionsDeclared /\ Untold
    BY BookStays DEF vars, Untold
  <2> QED
    BY <2>1, BookStays DEF vars, WorkbookIInv, NothingLostSoFar, TextsBefore, TextAt
<1> QED
  BY <1>1, <1>2, <1>3, <1>4, <1>5 DEF WorkbookIInv

-----------------------------------------------------------------------------
(* What the loops of xlsx.py over sheets, rows and cells keep: counters agree *)
(* with what was emitted, and nothing was lost while no reason is known.      *)
THEOREM WorkbookInvariance == Spec => []WorkbookIInv
<1>1. Init => WorkbookIInv
  BY InitWorkbook
<1>2. WorkbookIInv /\ [Next]_vars => WorkbookIInv'
  BY SkipSheetStep, BeginSheetStep, BreakStep, StopAtRowStep, BeginRowStep, StopAtCellStep,
     CellStep, EndRowStep, KeepRowStep, EndSheetStep, FinishStep, WorkbookStutters DEF Next
<1> QED
  BY <1>1, <1>2, PTL DEF Spec

(* Whatever a workbook holds or declares, for any bounds: the parser counts *)
(* no more cells and characters than its bounds, keeps no more rows and     *)
(* columns of a sheet, hands on no more and no longer texts, and returns no *)
(* longer text (src/app/infrastructure/attachments/xlsx.py).                *)
THEOREM ExtractionStaysBounded == Spec => []StaysBounded
<1>1. WorkbookIInv => StaysBounded
  BY DEF WorkbookIInv
<1> QED
  BY <1>1, WorkbookInvariance, PTL

(* Of any workbook whose worksheets declare true dimensions, whichever      *)
(* bound cuts it, a result that does not say it was truncated holds every   *)
(* text of every sheet, row and column in full.                             *)
THEOREM NothingIsLostSilently == Spec => []NothingLostSilently
<1>1. WorkbookIInv => NothingLostSilently
  BY DEF WorkbookIInv
<1> QED
  BY <1>1, WorkbookInvariance, PTL
=============================================================================
