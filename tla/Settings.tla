-------------------------------- MODULE Settings --------------------------------
(***************************************************************************)
(* The settings a process starts with: which combinations of environment   *)
(* variables are accepted, and what the accepted ones make the factories   *)
(* build.  Groups of variables that are only valid together are one field; *)
(* environments other than production are alike.                           *)
(***************************************************************************)

(* A variable is absent, blank, well formed or ill formed. *)
Raw == {"absent", "blank", "good", "bad"}
(* One that no validator looks into. *)
Text == Raw \ {"bad"}

(* Blank variables count as absent, ill-formed ones are refused. *)
Normalize(v) == IF v = "blank" THEN "absent" ELSE v

(* What variables that belong together amount to. *)
Together(values) ==
  LET normal == {Normalize(v) : v \in values}
  IN CASE "bad" \in normal -> "refused"
       [] normal = {"absent"} -> "unset"
       [] normal = {"good"} -> "complete"
       [] OTHER -> "partial"

ScannerVariables == {Together({host}) : host \in Raw}
AiVariables == {Together({v, w}) : v \in Raw, w \in Text}
OidcVariables == {Together({issuer, audience, jwks}) : issuer \in Raw, audience \in Text, jwks \in Raw}
GmailVariables == {Together({id, secret, uri}) : id \in Text, secret \in Text, uri \in Raw}
MicrosoftVariables ==
  {Together({id, secret, uri, tenant}) : id \in Text, secret \in Text, uri \in Raw, tenant \in Raw}
StoreVariables == {Together({v}) : v \in Raw}
(* Of the schemes a URL may have, two are supported. *)
DatabaseUrls == {"unset", "sqlite", "postgresql"}

(* The combinations that the field validators let through. *)
Environments ==
  LET Group(outcomes) == outcomes \ {"refused"}
      Complete(outcomes) == {outcome = "complete" : outcome \in Group(outcomes)}
  IN [app_env : {"development", "production"},
      auth_mode : {"disabled", "oidc"},
      oidc : Complete(OidcVariables),
      database_url : DatabaseUrls,
      gmail_oauth : Group(GmailVariables),
      microsoft_oauth : Group(MicrosoftVariables),
      credential_store_backend : {"unset", "memory", "azure_key_vault", "aws_secrets_manager"},
      azure_key_vault_url : Complete(StoreVariables),
      aws_secrets_manager_region : Complete(StoreVariables),
      ai_provider : {"mock", "microsoft_foundry", "amazon_bedrock", "unsupported"},
      ai_options : Complete(AiVariables),
      attachment_scanner_backend : {"none", "fake", "clamav"},
      attachment_scanner_host : Complete(ScannerVariables)]

Durable == {"azure_key_vault", "aws_secrets_manager"}

-----------------------------------------------------------------------------
(* The validators of Settings *)

validate_gmail_oauth_settings_together(s) == s.gmail_oauth # "partial"
validate_microsoft_oauth_settings_together(s) == s.microsoft_oauth # "partial"
gmail_oauth_is_configured(s) == s.gmail_oauth = "complete"
microsoft_oauth_is_configured(s) == s.microsoft_oauth = "complete"

durable_oauth_store_is_configured(s) ==
  \/ s.credential_store_backend = "azure_key_vault" /\ s.azure_key_vault_url
  \/ s.credential_store_backend = "aws_secrets_manager" /\ s.aws_secrets_manager_region

validate_credential_store_settings(s) ==
  /\ s.azure_key_vault_url <=> s.credential_store_backend = "azure_key_vault"
  /\ s.aws_secrets_manager_region <=> s.credential_store_backend = "aws_secrets_manager"
  /\ s.credential_store_backend \in Durable => s.database_url = "postgresql"
  /\ s.app_env = "production" =>
       /\ s.credential_store_backend # "memory"
       /\ gmail_oauth_is_configured(s) \/ microsoft_oauth_is_configured(s)
            => durable_oauth_store_is_configured(s)

validate_ai_settings_when_selected(s) ==
  s.ai_provider \in {"microsoft_foundry", "amazon_bedrock"} => s.ai_options

validate_attachment_scanner_backend(s) ==
  /\ s.app_env = "production" => s.attachment_scanner_backend # "fake"
  /\ s.attachment_scanner_backend = "clamav" => s.attachment_scanner_host

(* Mutant: production does not insist on OIDC. *)
validate_auth_settings_anywhere(s) == s.auth_mode = "oidc" => s.oidc

validate_auth_settings(s) ==
  /\ s.app_env = "production" => s.auth_mode = "oidc"
  /\ s.auth_mode = "oidc" => s.oidc

validate_database_settings(s) ==
  s.app_env = "production" => s.database_url = "postgresql"

Accepted ==
  {s \in Environments :
     /\ validate_gmail_oauth_settings_together(s)
     /\ validate_microsoft_oauth_settings_together(s)
     /\ validate_credential_store_settings(s)
     /\ validate_ai_settings_when_selected(s)
     /\ validate_attachment_scanner_backend(s)
     /\ validate_auth_settings(s)
     /\ validate_database_settings(s)}

-----------------------------------------------------------------------------
(* What the factories make of them *)

credential_store_ready(s) ==
  \/ durable_oauth_store_is_configured(s)
  \/ s.app_env # "production" /\ s.credential_store_backend \in {"unset", "memory"}

gmail_oauth_connect_available(s) == gmail_oauth_is_configured(s) /\ credential_store_ready(s)
microsoft_oauth_connect_available(s) ==
  microsoft_oauth_is_configured(s) /\ credential_store_ready(s)

(* get_shared_credential_store: an unset backend is process memory, which   *)
(* production refuses once more.                                            *)
Store(s) ==
  IF s.credential_store_backend \in Durable THEN "durable"
  ELSE IF s.app_env = "production" THEN "refused" ELSE "memory"

create_ai_provider(s) ==
  CASE s.ai_provider = "mock" -> "built"
    [] s.ai_provider = "unsupported" -> "ConfigurationError"
    [] OTHER -> IF s.ai_options THEN "built" ELSE "ConfigurationError"

create_attachment_scanner(s) ==
  IF s.attachment_scanner_backend = "none" THEN "UnavailableAttachmentScanner"
  ELSE s.attachment_scanner_backend

(* The part of it that requests meet. *)
Deployment(s) ==
  [app_env |-> s.app_env,
   auth_mode |-> s.auth_mode,
   database |-> s.database_url # "unset",
   gmail |-> gmail_oauth_connect_available(s),
   microsoft |-> microsoft_oauth_connect_available(s),
   store |-> Store(s),
   ai |-> create_ai_provider(s),
   fake_scanner |-> create_attachment_scanner(s) = "fake"]

Deployments == {Deployment(s) : s \in Accepted}
=============================================================================
