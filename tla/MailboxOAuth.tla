------------------------------ MODULE MailboxOAuth ------------------------------
(***************************************************************************)
(* How the OAuth clients of Google (infrastructure/oauth/google.py) and    *)
(* Microsoft (infrastructure/oauth/microsoft.py) read the answers of the   *)
(* provider: the consent of a person becomes a secret that names the       *)
(* mailbox, refreshes exchange the secret for access tokens and may rotate *)
(* it, a disconnect revokes it. Who calls them, and in which order of      *)
(* several requests, is in ConnectorCredentials and CredentialTokens; here *)
(* every answer that may come back is met by every state of the grant.     *)
(***************************************************************************)
EXTENDS Naturals

CONSTANTS
  Directories,    \* directory tenants of Microsoft, the one of personal accounts among them
  MSA,            \* MSA_TENANT_ID
  Objects,        \* users of a directory, or subjects at Google
  Scopes,         \* scopes that may be granted
  MailScopes,     \* those that stand for a capability
  MaxTokens,      \* bound of the refresh tokens issued for one consent
  Unset

ASSUME OAuthAssumption ==
  /\ MSA \in Directories
  /\ Unset \notin Directories \cup {"durable", "reauthorization_required"}
  /\ MailScopes \subseteq Scopes /\ MaxTokens \in Nat

VARIABLES
  config,     \* "gmail", or the tenant that is configured for Microsoft
  asked,      \* where the request of the moment is
  grant,      \* at the provider: whose consent, for what, and whether it is alive
  response,   \* the provider's answer that is being read
  claims,     \* the verified claims of the ID token
  material,   \* the secret material in the credential store
  result,     \* what the exchange returned: the mailbox and its shown name
  answer      \* what the last call returned or raised

oauthVars == <<config, asked, grant, response, claims, material, result, answer>>

Configs == {"gmail", "common", "consumers", "organizations"} \cup Directories

(* A mailbox is (tid, oid) at Microsoft and a subject at Google. *)
Mailboxes ==
  [tid : IF config = "gmail" THEN {Unset} ELSE Directories, oid : Objects]

-----------------------------------------------------------------------------
(* Answers over HTTP: no connection, a status with an error, or a body. A   *)
(* status stands for those that no check tells from it: 400 for 400 and 401 *)
(* of the token endpoint, 403 and 502 for the 4xx and 5xx that no list of   *)
(* Google's library names, 500 for 500 and 503.                             *)

Failures ==
  [status : {"unreachable", "400", "403", "408", "429", "500", "502"},
   error : {"invalid_grant", "other"}]

IsFailure(r) == r.status # "200"

OAuthInit ==
  /\ config \in Configs
  /\ asked = "idle" /\ answer = Unset
  /\ grant = Unset /\ response = Unset /\ claims = Unset /\ material = Unset /\ result = Unset

-----------------------------------------------------------------------------
(* build_authorization_url: what goes to the browser is parsed again and   *)
(* compared with the session. Google's URL is the work of a library.       *)

LibraryUrls == BOOLEAN
OwnUrls == {TRUE}
UrlMatches == IF config = "gmail" THEN LibraryUrls ELSE OwnUrls

BuildAuthorizationUrl ==
  /\ asked = "idle" /\ material = Unset /\ grant = Unset
  /\ \E matches \in UrlMatches :
       /\ asked' = IF matches THEN "consenting" ELSE "idle"
       /\ answer' = IF matches THEN "url" ELSE "authorization_failed"
  /\ UNCHANGED <<config, grant, response, claims, material, result>>

(* The person picks a mailbox and the scopes; the code comes back. *)
GiveConsent ==
  /\ asked = "consenting"
  /\ \E mailbox \in Mailboxes : \E scopes \in SUBSET Scopes :
       grant' = [mailbox |-> mailbox, scopes |-> scopes, alive |-> TRUE, issued |-> 1]
  /\ asked' = "fetching"
  /\ UNCHANGED <<config, response, claims, material, result, answer>>

Fail(error) ==
  /\ answer' = error /\ asked' = "idle"
  /\ response' = Unset /\ claims' = Unset
  /\ UNCHANGED <<config, grant, material, result>>

(* _fetch_token_response, and the tokens that must be in it. *)
Unavailable(r) ==
  \/ r.status = "unreachable"
  \/ config # "gmail" /\ r.status \in {"429", "500", "502"}

FetchTokens ==
  /\ asked = "fetching"
  /\ \/ \E r \in Failures :
          Fail(IF Unavailable(r) THEN "service_unavailable" ELSE "authorization_failed")
     \/ \E r \in [status : {"200"}, refresh_token : BOOLEAN, id_token : BOOLEAN] :
          IF r.refresh_token /\ r.id_token
          THEN /\ response' = r /\ asked' = "verifying"
               /\ UNCHANGED <<config, grant, claims, material, result, answer>>
          ELSE Fail("authorization_failed")

(* _verify_id_token: signature, audience and expiry. The token speaks of    *)
(* the mailbox that consented; its issuer is a directory, in a form of      *)
(* which only one is expected.                                              *)
VerifyIdToken ==
  /\ asked = "verifying"
  /\ \/ Fail("service_unavailable")        \* the signing keys are out of reach
     \/ Fail("authorization_failed")       \* the token is not valid, or names nobody
     \/ \E iss \in [tid : IF config = "gmail" THEN {Unset} ELSE Directories, v2 : BOOLEAN] :
          /\ claims' = [mailbox |-> grant.mailbox, iss |-> iss]
          /\ asked' = "verified"
          /\ UNCHANGED <<config, grant, response, material, result, answer>>

(* _require_issuer_matches_tenant; Google has one issuer. *)
IssuerMatches == claims.iss.v2 /\ claims.iss.tid = claims.mailbox.tid
TenantAdmits(tid) ==
  \/ config = "common"
  \/ config = "consumers" /\ tid = MSA
  \/ config = "organizations" /\ tid # MSA
  \/ config = tid

(* Mutant: the configured tenant is not compared. *)
AdmittedByIssuer == config = "gmail" \/ IssuerMatches
Admitted == config = "gmail" \/ (IssuerMatches /\ TenantAdmits(claims.mailbox.tid))

RefuseTenant == asked = "verified" /\ ~Admitted /\ Fail("authorization_failed")

(* The shown name is a preferred name or address, never the durable identity. *)
sanitize_mailbox_display_identity(name) == IF name = "address" THEN name ELSE Unset

ProfileNames == {"address", "durable", Unset}

(* The secret material that is stored: the token, its scopes and whose it is. *)
SecretMaterial(token, scopes, mailbox) == [token |-> token, scopes |-> scopes, mailbox |-> mailbox]
Capabilities(scopes) == scopes \cap MailScopes

AcceptConsent ==
  /\ asked = "verified" /\ Admitted
  /\ material' = SecretMaterial(grant.issued, grant.scopes, claims.mailbox)
  /\ \E name \in ProfileNames :
       result' = [mailbox |-> claims.mailbox, capabilities |-> Capabilities(grant.scopes),
                  display |-> sanitize_mailbox_display_identity(name)]
  /\ answer' = "authorized" /\ asked' = "idle" /\ response' = Unset /\ claims' = Unset
  /\ UNCHANGED <<config, grant>>

-----------------------------------------------------------------------------
(* acquire_access_token. What the provider answers depends on the grant: an *)
(* invalid_grant of the token endpoint itself only of one that is dead, a   *)
(* body only of a live one; whatever else answers may wear any error.       *)

TokenAnswers ==
  {r \in Failures : r.status = "400" /\ r.error = "invalid_grant" => ~grant.alive}
    \cup (IF grant.alive
          THEN [status : {"200"}, access_token : BOOLEAN, expires : BOOLEAN,
                rotated : BOOLEAN]
          ELSE {})

SendRefresh ==
  /\ asked = "idle" /\ material # Unset
  /\ response' \in TokenAnswers
  /\ ~IsFailure(response') /\ response'.rotated => grant.issued < MaxTokens
  /\ grant' = IF ~IsFailure(response') /\ response'.rotated
              THEN [grant EXCEPT !.issued = @ + 1] ELSE grant
  /\ asked' = "refreshing"
  /\ UNCHANGED <<config, claims, material, result, answer>>

(* What is taken for a passing failure, before the error is read: what      *)
(* RefreshError.retryable of Google's library says, which names its         *)
(* statuses, and every 5xx and 429 for Microsoft.                           *)
LibraryRetryable == {"unreachable", "408", "429", "500"}
MicrosoftRetryable == {"unreachable", "429", "500", "502"}
Retryable(r) == r.status \in IF config = "gmail" THEN LibraryRetryable ELSE MicrosoftRetryable

(* Mutant: the error is read whatever the status. *)
ConfirmedAnyway(r) == r.status # "unreachable" /\ r.error = "invalid_grant"

(* Microsoft's error is read in a 400 only, Google's in all that is left. *)
ConfirmedInvalidGrant(r) ==
  /\ ~Retryable(r) /\ r.error = "invalid_grant"
  /\ config # "gmail" => r.status = "400"

RefreshFails ==
  /\ asked = "refreshing" /\ IsFailure(response)
  /\ Fail(IF ConfirmedInvalidGrant(response) THEN "reauthorization_required" ELSE "unavailable")

RefreshUnusable ==
  /\ asked = "refreshing" /\ ~IsFailure(response)
  /\ ~response.access_token \/ ~response.expires
  /\ Fail("unavailable")

(* _replacement_secret_material: a rotated token keeps scopes and identity. *)
Replacement == SecretMaterial(grant.issued, material.scopes, material.mailbox)

RefreshSucceeds ==
  /\ asked = "refreshing" /\ ~IsFailure(response)
  /\ response.access_token /\ response.expires
  /\ material' = IF response.rotated THEN Replacement ELSE material
  /\ answer' = "token" /\ asked' = "idle" /\ response' = Unset
  /\ UNCHANGED <<config, grant, claims, result>>

-----------------------------------------------------------------------------
(* A disconnect removes the secret here and, at Google, revokes it there:   *)
(* an answer of 4xx counts as done, whatever it was about.                  *)

RevokeAnswers == {"200", "4xx", "5xx", "unreachable"}

Disconnect ==
  /\ asked = "idle" /\ material # Unset
  /\ material' = Unset /\ result' = Unset /\ answer' = Unset
  /\ asked' = IF config = "gmail" THEN "revoking" ELSE "idle"
  /\ UNCHANGED <<config, grant, response, claims>>

Revoke ==
  /\ asked = "revoking"
  /\ \E status \in RevokeAnswers :
       /\ answer' = IF status \in {"200", "4xx"} THEN "revoked" ELSE "unavailable"
       /\ grant' \in IF status = "200" THEN {[grant EXCEPT !.alive = FALSE]}
                     ELSE {grant, [grant EXCEPT !.alive = FALSE]}
  /\ asked' = "idle"
  /\ UNCHANGED <<config, response, claims, material, result>>

(* The provider ends a grant at any time: a password change, a withdrawal. *)
EndGrant ==
  /\ grant # Unset /\ grant.alive
  /\ grant' = [grant EXCEPT !.alive = FALSE]
  /\ UNCHANGED <<config, asked, response, claims, material, result, answer>>

OAuthNext ==
  \/ BuildAuthorizationUrl \/ GiveConsent \/ FetchTokens \/ VerifyIdToken
  \/ RefuseTenant \/ AcceptConsent
  \/ SendRefresh \/ RefreshFails \/ RefreshUnusable \/ RefreshSucceeds
  \/ Disconnect \/ Revoke \/ EndGrant

OAuthSpec == OAuthInit /\ [][OAuthNext]_oauthVars

-----------------------------------------------------------------------------
(* The stored secret is of the mailbox that consented, one that the          *)
(* configured tenant admits, and keeps the scopes of the consent through     *)
(* every rotation: the account's capabilities are what the secret can do.    *)
(* The name that is shown is not the durable identity.                       *)
SecretIsOfTheConsent ==
  material # Unset =>
    /\ material.mailbox = grant.mailbox /\ result.mailbox = grant.mailbox
    /\ config # "gmail" => TenantAdmits(material.mailbox.tid)
    /\ material.scopes = grant.scopes /\ result.capabilities = Capabilities(material.scopes)
    /\ result.display # "durable"

(* An answer with an error that is not of the token endpoint, but is read as *)
(* if it were: Google's library says nothing of these statuses.              *)
Misleading(r) == config = "gmail" /\ r.status \in {"403", "502"}

(* _is_confirmed_invalid_grant, _post_token_form: a person is only asked to  *)
(* authorize again for a grant that is really dead, whatever error a         *)
(* throttled or failing provider put into its answer, or, at Google, for an  *)
(* invalid_grant that something else than the token endpoint answered with a *)
(* status that the library does not take for passing. At Microsoft there is  *)
(* no such exception.                                                        *)
OnlyDeadGrantsAreGivenUp ==
  [][asked = "refreshing" /\ asked' = "idle" /\ answer' = "reauthorization_required" =>
       ~grant.alive \/ Misleading(response)]_oauthVars
=============================================================================
