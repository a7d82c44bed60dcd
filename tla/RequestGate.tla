------------------------------ MODULE RequestGate ------------------------------
(***************************************************************************)
(* How a request reaches a service.  FastAPI parses the JSON of the body,  *)
(* then resolves the dependencies of the route's parameters in their       *)
(* order, each after its own, at most once per request; the first error is *)
(* the answer.  Only then is the parsed body held against its model.       *)
(* Dependencies authenticate, check permissions, and build what the        *)
(* handler works with.                                                     *)
(*                                                                         *)
(* Nothing but the order of parameters puts the permission check before    *)
(* the construction of a service.                                          *)
(***************************************************************************)
EXTENDS Naturals, SequencesExt, Settings

CONSTANT Claims   \* what the claims scp, scope and roles of a token may list

VARIABLES
  settings,   \* what the deployment configured
  request,    \* the route, the bearer token, the permissions it grants, and the body
  pending,    \* dependencies being resolved, innermost first
  resolved,   \* dependencies whose value is cached for the request
  built,      \* resources constructed for the request
  open,       \* request-scoped HTTP clients not closed yet
  answer      \* HTTP status, 0 before there is one

vars == <<settings, request, pending, resolved, built, open, answer>>

Permissions == {"analyze", "workflow", "send", "connect", "read"}
Resources == {"database", "http", "credentials", "ai", "scanner"}

-----------------------------------------------------------------------------
(* Functions of distinct names as one. *)
Merged(parts) ==
  [name \in UNION {DOMAIN part : part \in parts} |->
     (CHOOSE part \in parts : name \in DOMAIN part)[name]]

(* Dependencies: name |-> what its parameters depend on, in their order *)

Checks == {"require_communications_analyze", "require_communications_workflow",
           "require_communications_send", "require_communications_connect",
           "require_communications_read", "require_communications_read_and_analyze"}

(* The permissions a check demands; all of them must be in the token. *)
Demanded ==
  [require_communications_analyze |-> {"analyze"},
   require_communications_workflow |-> {"workflow"},
   require_communications_send |-> {"send"},
   require_communications_connect |-> {"connect"},
   require_communications_read |-> {"read"},
   require_communications_read_and_analyze |-> {"read", "analyze"}]

CheckNeeds == [c \in Checks |-> <<"authenticate_caller", "get_token_validator">>]

(* The variants that do not accept AUTH_MODE=disabled. *)
PrincipalNeeds ==
  [require_authenticated_communications_analyze |-> <<"require_communications_analyze">>,
   require_authenticated_communications_workflow |-> <<"require_communications_workflow">>,
   require_authenticated_communications_send |-> <<"require_communications_send">>,
   require_authenticated_communications_connect |-> <<"require_communications_connect">>,
   require_authenticated_communications_read |-> <<"require_communications_read">>,
   require_authenticated_communications_read_and_analyze |->
     <<"require_communications_read_and_analyze">>]

GateNeeds ==
  [get_token_validator |-> <<>>,
   authenticate_caller |-> <<"get_token_validator">>,
   require_owner |-> <<"authenticate_caller", "get_unit_of_work_factory">>]

Sending == "require_authenticated_communications_send"
Reading == "require_authenticated_communications_read"
Connecting == "require_authenticated_communications_connect"
Analyzing == "require_authenticated_communications_analyze"
Working == "require_authenticated_communications_workflow"
ReadingAndAnalyzing == "require_authenticated_communications_read_and_analyze"

ResourceNeeds ==
  [get_ai_provider |-> <<>>,
   get_attachment_scanner |-> <<>>,
   get_database_readiness_probe |-> <<>>,
   get_unit_of_work_factory |-> <<>>,
   require_unit_of_work_factory |-> <<"get_unit_of_work_factory">>,
   get_execution_unit_of_work_factory |-> <<Sending>>,
   get_communication_http_client |-> <<Sending>>,
   get_communication_credential_resolver |-> <<Sending>>,
   get_communication_action_executor_factory |->
     <<Sending, "get_communication_http_client", "get_communication_credential_resolver">>,
   get_mailbox_read_http_client |-> <<Reading>>,
   get_mailbox_read_credential_resolver |-> <<Reading>>,
   get_communication_connector_factory |->
     <<Reading, "get_mailbox_read_http_client", "get_mailbox_read_credential_resolver">>]

AnalysisNeeds ==
  [get_communication_analysis_service |-> <<"get_ai_provider">>,
   get_communication_analysis_workflow_service |->
     <<"require_communications_analyze", "get_communication_analysis_service",
       "get_unit_of_work_factory">>,
   get_connected_mailbox_analysis_service |->
     <<ReadingAndAnalyzing, "get_communication_analysis_service",
       "require_unit_of_work_factory", "get_communication_connector_factory">>,
   get_connected_mailbox_attachment_analysis_service |->
     <<ReadingAndAnalyzing, "get_communication_analysis_service",
       "require_unit_of_work_factory", "get_communication_connector_factory",
       "get_attachment_scanner">>]

ListingNeeds ==
  [get_connected_mailbox_attachment_listing_service |->
     <<Reading, "require_unit_of_work_factory", "get_communication_connector_factory">>,
   get_connected_mailbox_listing_service |->
     <<Reading, "require_unit_of_work_factory", "get_communication_connector_factory">>,
   get_attachment_analysis_history_service |-> <<"require_unit_of_work_factory">>,
   get_identity_resolver |-> <<"require_unit_of_work_factory">>,
   get_analysis_history_service |-> <<"require_unit_of_work_factory">>]

(* Services of the caller's own rows: none of them checks a permission. *)
OwnedNeeds ==
  LET Both == <<"get_identity_resolver", "require_unit_of_work_factory">>
  IN [get_workflow_action_service |-> Both,
      get_business_context_service |-> Both,
      get_business_context_communication_link_service |-> Both,
      get_business_context_suggestion_service |->
        <<"get_identity_resolver", "require_unit_of_work_factory", "get_ai_provider">>,
      get_context_timeline_service |-> Both,
      get_work_item_service |-> Both,
      get_workflow_action_execution_service |->
        <<Sending, "get_execution_unit_of_work_factory",
          "get_communication_action_executor_factory">>]

OAuthNeeds ==
  [get_gmail_mailbox_oauth_service |-> <<Connecting>>,
   get_gmail_mailbox_oauth_callback_service |-> <<>>,
   get_microsoft_mailbox_oauth_service |-> <<Connecting>>,
   get_microsoft_mailbox_oauth_callback_service |-> <<>>]

AccountNeeds ==
  [get_connector_account_listing_service |-> <<Reading, "require_unit_of_work_factory">>,
   get_connector_account_service |-> <<Connecting>>,
   get_connector_account_oauth_service |-> <<Connecting>>]

Needs == Merged({CheckNeeds, PrincipalNeeds, GateNeeds, ResourceNeeds, AnalysisNeeds,
                 ListingNeeds, OwnedNeeds, OAuthNeeds, AccountNeeds})

-----------------------------------------------------------------------------
(* Routes: handler |-> what its parameters depend on, in their order *)

Each(handlers, needs) == [h \in handlers |-> needs]

HealthRoutes == [get_liveness |-> <<>>, get_health |-> <<>>,
                 get_readiness |-> <<"get_database_readiness_probe">>]
MeRoutes == [get_me |-> <<"authenticate_caller", "get_unit_of_work_factory">>]
AdminRoutes == [admin_ping |-> <<"require_owner">>]
CommunicationRoutes == [analyze_communication |-> <<"get_communication_analysis_workflow_service">>]
AnalysisRoutes ==
  Each({"list_analyses", "get_analysis", "delete_analysis"},
       <<Analyzing, "get_identity_resolver", "get_analysis_history_service">>)
AttachmentAnalysisRoutes ==
  Each({"list_attachment_analyses", "get_attachment_analysis"},
       <<Analyzing, "get_identity_resolver", "get_attachment_analysis_history_service">>)
(* Mutant: the service comes before the principal. *)
ContextRoutesServiceFirst ==
  Each({"create_business_context", "list_business_contexts", "get_business_context",
        "update_business_context", "archive_business_context", "restore_business_context"},
       <<"get_business_context_service", Analyzing>>)
ContextRoutes ==
  Each({"create_business_context", "list_business_contexts", "get_business_context",
        "update_business_context", "archive_business_context", "restore_business_context"},
       <<Analyzing, "get_business_context_service">>)
SuggestionRoutes == [suggest_business_contexts |->
                      <<ReadingAndAnalyzing, "get_business_context_suggestion_service">>]
LinkRoutes ==
  Each({"associate_communication", "list_communications", "remove_communication"},
       <<ReadingAndAnalyzing, "get_business_context_communication_link_service">>)
TimelineRoutes == [list_context_timeline |-> <<Analyzing, "get_context_timeline_service">>]
ConnectorAccountRoutes ==
  [list_owned_connector_accounts |-> <<Reading, "get_connector_account_listing_service">>,
   disconnect_connector_account |-> <<Connecting, "get_connector_account_service">>,
   reauthorize_connector_account |-> <<Connecting, "get_connector_account_oauth_service">>]
GmailRoutes ==
  [start_gmail_authorization |-> <<Connecting, "get_gmail_mailbox_oauth_service">>,
   start_gmail_connect_another_authorization |-> <<Connecting, "get_gmail_mailbox_oauth_service">>,
   complete_gmail_authorization |-> <<"get_gmail_mailbox_oauth_callback_service">>]
MicrosoftRoutes ==
  [start_microsoft_authorization |-> <<Connecting, "get_microsoft_mailbox_oauth_service">>,
   start_microsoft_connect_another_authorization |->
     <<Connecting, "get_microsoft_mailbox_oauth_service">>,
   complete_microsoft_authorization |-> <<"get_microsoft_mailbox_oauth_callback_service">>]
AttachmentRoutes ==
  [list_connected_mailbox_attachments |->
     <<Reading, "get_connected_mailbox_attachment_listing_service">>,
   analyze_connected_mailbox_attachment |->
     <<ReadingAndAnalyzing, "get_connected_mailbox_attachment_analysis_service">>]
MessageRoutes ==
  [list_connected_mailbox_messages |-> <<Reading, "get_connected_mailbox_listing_service">>,
   analyze_connected_mailbox_message |->
     <<ReadingAndAnalyzing, "get_connected_mailbox_analysis_service">>]
WorkItemRoutes ==
  Each({"create_work_item", "list_work_items", "work_item_candidates",
        "create_work_item_from_analysis", "get_work_item", "patch_work_item",
        "status_work_item", "archive_work_item", "restore_work_item", "work_item_events"},
       <<Analyzing, "get_work_item_service">>)
WorkflowActionRoutes ==
  Each({"create_workflow_action", "list_workflow_actions", "get_workflow_action",
        "approve_workflow_action", "reject_workflow_action"},
       <<Working, "get_workflow_action_service">>)
ExecuteRoutes == [execute_workflow_action |-> <<Sending, "get_workflow_action_execution_service">>]

Routes ==
  Merged({HealthRoutes, MeRoutes, AdminRoutes, CommunicationRoutes, AnalysisRoutes,
          AttachmentAnalysisRoutes, ContextRoutes, SuggestionRoutes, LinkRoutes, TimelineRoutes,
          ConnectorAccountRoutes, GmailRoutes, MicrosoftRoutes, AttachmentRoutes, MessageRoutes,
          WorkItemRoutes, WorkflowActionRoutes, ExecuteRoutes})

Parameters == Merged({Needs, Routes})

(* The routes that read a JSON body: one that is what their model says, one  *)
(* that is JSON but not that, and one that cannot be parsed or decoded.      *)
BodyRoutes ==
  {"create_business_context", "suggest_business_contexts", "update_business_context",
   "associate_communication", "analyze_communication", "analyze_connected_mailbox_message",
   "analyze_connected_mailbox_attachment", "create_work_item",
   "create_work_item_from_analysis", "patch_work_item", "status_work_item",
   "archive_work_item", "restore_work_item", "create_workflow_action"}
Bodies == {"valid", "invalid", "malformed"}

-----------------------------------------------------------------------------
(* What a dependency's own body does, once its parameters are there *)

Oidc == settings.auth_mode = "oidc"

(* A bearer token: absent, signed by a key that the JWKS endpoint does not  *)
(* have or does not serve now, refused for its claims or signature, or good. *)
Tokens == {"none", "unknown_signing_key", "invalid_token", "valid"}
(* A claim of another form than the one expected lists nothing. *)
extract_permissions(payload) == (payload.scp \cup payload.scope \cup payload.roles) \cap Permissions
authenticate(token) == token = "valid"
authorize(permissions, required) == required \in permissions
authorize_all(permissions, required) == \A p \in required : authorize(permissions, p)

(* The status a body raises, 0 when it returns. *)
GateRefusal(d) ==
  CASE d = "authenticate_caller" -> IF Oidc /\ ~authenticate(request.token) THEN 401 ELSE 0
    [] d \in Checks ->
         IF Oidc /\ ~authorize_all(request.permissions, Demanded[d]) THEN 403 ELSE 0
    [] d \in DOMAIN PrincipalNeeds -> IF Oidc THEN 0 ELSE 401
    [] d = "require_owner" ->
         IF ~Oidc THEN 401 ELSE IF ~settings.database THEN 503 ELSE 0
    [] OTHER -> 0

ResourceRefusal(d) ==
  CASE d \in {"require_unit_of_work_factory", "get_execution_unit_of_work_factory"} ->
         IF settings.database THEN 0 ELSE 503
    [] d = "get_ai_provider" -> IF settings.ai = "built" THEN 0 ELSE 500
    [] OTHER -> 0

(* Builders that configure themselves, behind the check of the permission. *)
ServiceRefusal(d) ==
  LET Requires(condition) ==
        IF condition /\ settings.database /\ settings.store # "refused" THEN 0 ELSE 503
  IN CASE d \in {"get_gmail_mailbox_oauth_service",
                 "get_gmail_mailbox_oauth_callback_service"} -> Requires(settings.gmail)
       [] d \in {"get_microsoft_mailbox_oauth_service",
                 "get_microsoft_mailbox_oauth_callback_service"} -> Requires(settings.microsoft)
       [] d \in {"get_connector_account_service", "get_connector_account_oauth_service"} ->
            Requires(settings.gmail \/ settings.microsoft)
       [] OTHER -> 0

Refusal(d) == GateRefusal(d) + ResourceRefusal(d) + ServiceRefusal(d)

HttpClients == {"get_communication_http_client", "get_mailbox_read_http_client"}

(* What a body leaves built when it returns. *)
Builds(d) ==
  CASE d = "get_ai_provider" -> {"ai"}
    [] d = "get_attachment_scanner" -> {"scanner"}
    [] d \in HttpClients -> {"http"}
    [] d \in {"get_communication_credential_resolver", "get_mailbox_read_credential_resolver"} ->
         {"credentials"}
    [] d \in {"get_unit_of_work_factory", "get_execution_unit_of_work_factory",
              "get_database_readiness_probe", "get_connector_account_listing_service"} ->
         {r \in {"database"} : settings.database}
    [] d \in DOMAIN OAuthNeeds \cup {"get_connector_account_service",
                                     "get_connector_account_oauth_service"} ->
         {"database", "credentials"}
    [] OTHER -> {}

(* The statuses of the exception handlers of the application. Any handler   *)
(* of a route is given all of them: nothing here tells them apart.          *)
ApplicationErrors == {400, 404, 409, 422, 500, 503}

(* Creating a work item from mailbox analyses asks for one more permission. *)
SourcePermission(h) ==
  IF h \in {"create_work_item", "create_work_item_from_analysis"}
     /\ "read" \notin request.permissions
  THEN {403} ELSE {}

(* What the handler itself may answer. *)
HandlerAnswers(h) ==
  CASE h \in {"get_liveness", "get_health"} -> {200}
    [] h = "get_readiness" -> {200} \cup {s \in {503} : settings.database}
    [] h = "get_me" -> IF ~Oidc THEN {401}
                       ELSE IF settings.database THEN {200, 404, 503} ELSE {503}
    [] h \in {"complete_gmail_authorization", "complete_microsoft_authorization"} ->
         {200, 302} \cup ApplicationErrors
    [] OTHER -> {200} \cup ApplicationErrors \cup SourcePermission(h)

-----------------------------------------------------------------------------
(* FastAPI's handling of a request *)

Parsed == request.body # "malformed"
ParseErrors == {400, 422}

(* The first parameter that has no value yet, 0 when all have one. *)
FirstMissing(d) == SelectInSeq(Parameters[d], LAMBDA n : n \notin resolved)

Init ==
  /\ settings \in Deployments
  /\ request \in [route : DOMAIN Routes, token : Tokens,
                  permissions : {extract_permissions(payload) : payload \in Claims},
                  body : Bodies]
  /\ request.token # "valid" => request.permissions = {}
  /\ request.body # "valid" => request.route \in BodyRoutes
  /\ pending = <<request.route>>
  /\ resolved = {}
  /\ built = {}
  /\ open = {}
  /\ answer = 0

Descend ==
  /\ answer = 0 /\ Parsed
  /\ FirstMissing(Head(pending)) # 0
  /\ LET d == Head(pending)
     IN pending' = <<Parameters[d][FirstMissing(d)]>> \o pending
  /\ UNCHANGED <<settings, request, resolved, built, open, answer>>

Return(d) ==
  /\ pending' = Tail(pending)
  /\ resolved' = resolved \cup {d}
  /\ built' = built \cup Builds(d)
  /\ open' = open \cup ({d} \cap HttpClients)
  /\ UNCHANGED answer

Raise(statuses) ==
  /\ answer' \in statuses
  /\ UNCHANGED <<pending, resolved, built, open>>

(* The body is read before anything is resolved: syntax that is not JSON's   *)
(* and text that cannot be decoded are answered whoever asks.                *)
RefuseBody ==
  /\ answer = 0 /\ ~Parsed
  /\ Raise(ParseErrors)
  /\ UNCHANGED <<settings, request>>

(* The body of a dependency; require_owner also asks the database. *)
CallDependency ==
  LET d == Head(pending)
  IN /\ answer = 0 /\ Parsed
     /\ d \in DOMAIN Needs
     /\ FirstMissing(d) = 0
     /\ \/ Refusal(d) # 0 /\ Raise({Refusal(d)})
        \/ Refusal(d) = 0 /\ Return(d)
        \/ Refusal(d) = 0 /\ d = "require_owner" /\ Raise({403, 503})
     /\ UNCHANGED <<settings, request>>

(* The handler, or instead of it the errors that the validation of the body  *)
(* has collected meanwhile.                                                  *)
CallHandler ==
  LET h == Head(pending)
  IN /\ answer = 0 /\ Parsed
     /\ h \in DOMAIN Routes
     /\ FirstMissing(h) = 0
     /\ Raise(IF request.body = "invalid" THEN {422} ELSE HandlerAnswers(h))
     /\ UNCHANGED <<settings, request>>

(* Mutant: the generator has no finally. *)
CloseClientsOnSuccess ==
  /\ answer = 200
  /\ open # {}
  /\ open' = {}
  /\ UNCHANGED <<settings, request, pending, resolved, built, answer>>

(* The exit stack of the request closes what generators opened. *)
CloseClients ==
  /\ answer # 0
  /\ open # {}
  /\ open' = {}
  /\ UNCHANGED <<settings, request, pending, resolved, built, answer>>

Next == RefuseBody \/ Descend \/ CallDependency \/ CallHandler \/ CloseClients

Spec == Init /\ [][Next]_vars /\ WF_vars(Next)

-----------------------------------------------------------------------------
(* Properties *)

Public == {"get_liveness", "get_health", "get_readiness",
           "complete_gmail_authorization", "complete_microsoft_authorization"}

(* docs/api/error-handling.md, the permission of each route. *)
Documented(route) ==
  CASE route \in Public \cup {"get_me", "admin_ping"} -> {}
    [] route \in DOMAIN WorkflowActionRoutes -> {"workflow"}
    [] route \in DOMAIN ExecuteRoutes -> {"send"}
    [] route \in {"disconnect_connector_account", "reauthorize_connector_account"}
         \cup DOMAIN GmailRoutes \cup DOMAIN MicrosoftRoutes -> {"connect"}
    [] route \in {"list_owned_connector_accounts", "list_connected_mailbox_messages",
                  "list_connected_mailbox_attachments"} -> {"read"}
    [] route \in {"analyze_connected_mailbox_message", "analyze_connected_mailbox_attachment"}
         \cup DOMAIN SuggestionRoutes \cup DOMAIN LinkRoutes -> {"read", "analyze"}
    [] OTHER -> {"analyze"}

Authenticated == Oidc /\ authenticate(request.token)
Entitled == Authenticated /\ Documented(request.route) \subseteq request.permissions

(* The answers to a caller that its token sends away with a status. *)
Refused(status) == IF Parsed THEN {status} ELSE ParseErrors

(* With OIDC, a caller without the documented permissions is refused before *)
(* anything is built for the request, by a status that depends on its token *)
(* alone, or on nothing but the syntax of a body that cannot be parsed: not *)
(* on whether a parsed body is valid, nor on what is configured, available  *)
(* or misconfigured.  An entitled caller is never refused for its           *)
(* permissions.                                                             *)
RefusedBeforeBuilt ==
  Oidc /\ request.route \notin Public =>
    /\ ~Entitled =>
         built = {} /\ answer \in {0} \cup Refused(IF Authenticated THEN 403 ELSE 401)
    /\ Entitled /\ request.route # "admin_ping" =>
         answer \notin {401, 403} \ SourcePermission(request.route)

(* Whatever settings are accepted: in production nobody is served on a      *)
(* protected route without a token, who gets 401 or the error of a body     *)
(* that cannot be parsed, and no credential goes to a store in the memory   *)
(* of the process or an attachment to the fake scanner.  Outside production *)
(* only direct-text analysis works without authentication.                  *)
ProductionIsClosed ==
  /\ settings.app_env = "production" =>
       /\ request.route \notin Public /\ answer \notin {0} \cup Refused(401) => Authenticated
       /\ {"credentials"} \subseteq built /\ (settings.gmail \/ settings.microsoft)
            => settings.store = "durable"
       /\ {"scanner"} \subseteq built => ~settings.fake_scanner
  /\ ~Oidc /\ request.route \notin Public \cup {"analyze_communication"} =>
       answer \in {0} \cup Refused(401)

(* Every request is answered, and its HTTP clients are closed whoever       *)
(* raised: a later parameter, the handler or nobody.                        *)
AnsweredAndClosed == <>(answer # 0 /\ open = {})
=============================================================================
