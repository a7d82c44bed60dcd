--------------------------- MODULE RequestGate_proofs ---------------------------
(***************************************************************************)
(* Proofs about RequestGate, for every accepted combination of settings,   *)
(* every route and whatever claims a token lists.                          *)
(*                                                                         *)
(* The facts about which dependency asks for which are lemmas over the     *)
(* tables of the module, one for each table.  The invariant says where in  *)
(* its resolution a request can be that its caller is not entitled to.     *)
(***************************************************************************)
EXTENDS RequestGate, TLAPS

(* The names that a sequence of parameters lists. *)
Listed(params) == {params[i] : i \in 1..Len(params)}

(* A caller is authenticated by these, whatever is asked of it. *)
Authentication == {"authenticate_caller", "get_token_validator"}
Principals == DOMAIN PrincipalNeeds

(* Where a permission is demanded: by a dependency itself, or by one that   *)
(* it asks for.                                                             *)
Demanding ==
  [analyze |->
     {Analyzing, ReadingAndAnalyzing, "require_communications_analyze",
      "require_communications_read_and_analyze", "get_communication_analysis_workflow_service",
      "get_connected_mailbox_analysis_service",
      "get_connected_mailbox_attachment_analysis_service"},
   workflow |-> {Working, "require_communications_workflow"},
   send |->
     {Sending, "require_communications_send", "get_execution_unit_of_work_factory",
      "get_communication_http_client", "get_communication_credential_resolver",
      "get_communication_action_executor_factory", "get_workflow_action_execution_service"},
   connect |->
     {Connecting, "require_communications_connect", "get_gmail_mailbox_oauth_service",
      "get_microsoft_mailbox_oauth_service", "get_connector_account_service",
      "get_connector_account_oauth_service"},
   read |->
     {Reading, ReadingAndAnalyzing, "require_communications_read",
      "require_communications_read_and_analyze", "get_mailbox_read_http_client",
      "get_mailbox_read_credential_resolver", "get_communication_connector_factory",
      "get_connected_mailbox_attachment_listing_service",
      "get_connected_mailbox_listing_service", "get_connector_account_listing_service",
      "get_connected_mailbox_analysis_service",
      "get_connected_mailbox_attachment_analysis_service"}]

DemandsOf(d) == {p \in Permissions : d \in Demanding[p]}

(* The routes whose first parameter is a principal. *)
Guarded == DOMAIN Routes \ (Public \cup {"get_me", "admin_ping", "analyze_communication"})

(* What is resolved before the permissions of the route are checked. *)
BeforeGate(d) ==
  \/ d = request.route
  \/ d \in Authentication
  \/ /\ request.route \in Guarded /\ d \in Checks \cup Principals
     /\ DemandsOf(d) = Documented(request.route)
  \/ /\ request.route = "analyze_communication"
     /\ d \in {"get_communication_analysis_workflow_service", "require_communications_analyze"}
  \/ request.route = "admin_ping" /\ d = "require_owner"

(* Parameters are being resolved up to the route's, which is the last. *)
PendingOK ==
  /\ pending \in Seq(DOMAIN Needs \cup {request.route})
  /\ Len(pending) >= 1 /\ pending[Len(pending)] = request.route

(* A caller that is not entitled never gets past the gate of the route. *)
StopsUnentitled ==
  Oidc /\ request.route \notin Public /\ ~Entitled =>
    /\ \A d \in Listed(pending) : BeforeGate(d)
    /\ resolved \subseteq {"get_token_validator"} \cup {d \in {"authenticate_caller"} : Authenticated}
    /\ built = {}
    /\ answer \in {0} \cup Refused(IF Authenticated THEN 403 ELSE 401)

(* Without authentication nobody gets past a principal. *)
StopsEverybody ==
  ~Oidc /\ request.route \notin Public \cup {"analyze_communication"} =>
    /\ \A d \in Listed(pending) : BeforeGate(d) \/ d = "get_unit_of_work_factory"
    /\ resolved \subseteq Authentication \cup Checks \cup {"get_unit_of_work_factory"}
    /\ answer \in {0} \cup Refused(401)

(* An entitled caller only meets checks that it passes. *)
PassesEntitled ==
  Oidc /\ request.route \notin Public \cup {"admin_ping"} /\ Entitled =>
    /\ \A d \in Listed(pending) :
         \/ d = request.route
         \/ /\ d \in DOMAIN Needs \ {"require_owner"}
            /\ DemandsOf(d) \subseteq Documented(request.route)
    /\ answer \notin {401, 403} \ SourcePermission(request.route)

GateIInv ==
  /\ settings \in Deployments /\ request.route \in DOMAIN Routes /\ PendingOK
  /\ request.body # "valid" => request.route \in BodyRoutes
  /\ StopsUnentitled /\ StopsEverybody /\ PassesEntitled

USE DEF Sending, Reading, Connecting, Analyzing, Working, ReadingAndAnalyzing

-----------------------------------------------------------------------------
(* Sequences and tables *)

LEMMA ListedAre ==
  /\ Listed(<<>>) = {}
  /\ \A a : Listed(<<a>>) = {a}
  /\ \A a, b : Listed(<<a, b>>) = {a, b}
  /\ \A a, b, c : Listed(<<a, b, c>>) = {a, b, c}
  /\ \A a, b, c, d : Listed(<<a, b, c, d>>) = {a, b, c, d}
  /\ \A a, b, c, d, e : Listed(<<a, b, c, d, e>>) = {a, b, c, d, e}
<1>1. Listed(<<>>) = {}
  BY DEF Listed
<1>2. \A a : Listed(<<a>>) = {a}
  BY DEF Listed
<1>3. \A a, b : Listed(<<a, b>>) = {a, b}
  BY DEF Listed
<1>4. \A a, b, c : Listed(<<a, b, c>>) = {a, b, c}
  BY DEF Listed
<1>5. \A a, b, c, d : Listed(<<a, b, c, d>>) = {a, b, c, d}
  BY DEF Listed
<1>6. \A a, b, c, d, e : Listed(<<a, b, c, d, e>>) = {a, b, c, d, e}
  BY DEF Listed
<1> QED
  BY <1>1, <1>2, <1>3, <1>4, <1>5, <1>6

(* A merged name has the value of a part that has the name. *)
LEMMA MergedNames ==
  ASSUME NEW parts
  PROVE  /\ \A name : name \in DOMAIN Merged(parts) <=> \E part \in parts : name \in DOMAIN part
         /\ \A name \in DOMAIN Merged(parts) :
              \E part \in parts : name \in DOMAIN part /\ Merged(parts)[name] = part[name]
<1>1. DOMAIN Merged(parts) = UNION {DOMAIN part : part \in parts}
  BY DEF Merged
<1>2. ASSUME NEW name
      PROVE  name \in DOMAIN Merged(parts) <=> \E part \in parts : name \in DOMAIN part
  BY <1>1
<1>3. ASSUME NEW name \in DOMAIN Merged(parts)
      PROVE  \E part \in parts : name \in DOMAIN part /\ Merged(parts)[name] = part[name]
  <2>1. \E part \in parts : name \in DOMAIN part
    BY <1>2, <1>3
  <2> DEFINE one == CHOOSE part \in parts : name \in DOMAIN part
  <2>2. one \in parts /\ name \in DOMAIN one
    BY <2>1
  <2>3. Merged(parts)[name] = one[name]
    BY <1>1, <1>3 DEF Merged
  <2> QED
    BY <2>2, <2>3
<1> QED
  BY <1>2, <1>3

NeedsParts == {CheckNeeds, PrincipalNeeds, GateNeeds, ResourceNeeds, AnalysisNeeds, ListingNeeds,
               OwnedNeeds, OAuthNeeds, AccountNeeds}
RoutesParts == {HealthRoutes, MeRoutes, AdminRoutes, CommunicationRoutes, AnalysisRoutes,
                AttachmentAnalysisRoutes, ContextRoutes, SuggestionRoutes, LinkRoutes,
                TimelineRoutes, ConnectorAccountRoutes, GmailRoutes, MicrosoftRoutes,
                AttachmentRoutes, MessageRoutes, WorkItemRoutes, WorkflowActionRoutes,
                ExecuteRoutes}

LEMMA NeedsNames ==
  /\ \A part \in NeedsParts : DOMAIN part \subseteq DOMAIN Needs
  /\ \A d \in DOMAIN Needs : \E part \in NeedsParts : d \in DOMAIN part /\ Needs[d] = part[d]
<1>1. Needs = Merged(NeedsParts)
  BY DEF Needs, NeedsParts
<1> QED
  BY <1>1, MergedNames

LEMMA RoutesNames ==
  /\ \A part \in RoutesParts : DOMAIN part \subseteq DOMAIN Routes
  /\ \A h \in DOMAIN Routes : \E part \in RoutesParts : h \in DOMAIN part /\ Routes[h] = part[h]
<1>1. Routes = Merged(RoutesParts)
  BY DEF Routes, RoutesParts
<1> QED
  BY <1>1, MergedNames

LEMMA PrincipalNames ==
  Principals = {Sending, Reading, Connecting, Analyzing, Working, ReadingAndAnalyzing}
BY DEF Principals, PrincipalNeeds

LEMMA NamesInNeeds ==
  /\ Checks \cup Principals \cup Authentication \cup {"require_owner"} \subseteq DOMAIN Needs
  /\ DOMAIN ResourceNeeds \subseteq DOMAIN Needs /\ DOMAIN AnalysisNeeds \subseteq DOMAIN Needs
  /\ DOMAIN ListingNeeds \subseteq DOMAIN Needs /\ DOMAIN OwnedNeeds \subseteq DOMAIN Needs
  /\ DOMAIN OAuthNeeds \subseteq DOMAIN Needs /\ DOMAIN AccountNeeds \subseteq DOMAIN Needs
<1>1. DOMAIN CheckNeeds = Checks
  BY DEF CheckNeeds
<1>2. DOMAIN GateNeeds = Authentication \cup {"require_owner"}
  BY DEF GateNeeds, Authentication
<1> QED
  BY <1>1, <1>2, NeedsNames DEF NeedsParts, Principals

LEMMA DemandsAre ==
  /\ DemandsOf("require_communications_analyze") = {"analyze"}
  /\ DemandsOf("require_communications_workflow") = {"workflow"}
  /\ DemandsOf("require_communications_send") = {"send"}
  /\ DemandsOf("require_communications_connect") = {"connect"}
  /\ DemandsOf("require_communications_read") = {"read"}
  /\ DemandsOf("require_communications_read_and_analyze") = {"read", "analyze"}
  /\ DemandsOf(Analyzing) = {"analyze"}
  /\ DemandsOf(Working) = {"workflow"}
  /\ DemandsOf(Sending) = {"send"}
  /\ DemandsOf(Connecting) = {"connect"}
  /\ DemandsOf(Reading) = {"read"}
  /\ DemandsOf(ReadingAndAnalyzing) = {"read", "analyze"}
BY DEF DemandsOf, Permissions, Demanding

LEMMA ChecksDemand == \A c \in Checks : DemandsOf(c) = Demanded[c]
BY DemandsAre DEF Checks, Demanded

-----------------------------------------------------------------------------
(* Which dependency asks for which *)

(* Permissions that a parameter demands are demanded by what asks for it,   *)
(* and the ways to the gate are these.                                      *)
Wired(d, params) ==
  /\ Len(params) \in 0..5
  /\ Listed(params) \subseteq DOMAIN Needs \ {"require_owner"}
  /\ \A n \in Listed(params) : \A p \in Permissions : n \in Demanding[p] => d \in Demanding[p]
  /\ d \in Principals => \E c \in Checks : params = <<c>> /\ DemandsOf(c) = DemandsOf(d)
  /\ d \in Checks => params = <<"authenticate_caller", "get_token_validator">>
  /\ d = "authenticate_caller" => params = <<"get_token_validator">>
  /\ d \in {"get_token_validator", "get_unit_of_work_factory"} => params = <<>>
  /\ d = "require_owner" => params = <<"authenticate_caller", "get_unit_of_work_factory">>
  /\ d = "get_communication_analysis_workflow_service" =>
       Len(params) >= 1 /\ params[1] = "require_communications_analyze"

LEMMA ChecksWired == \A d \in DOMAIN CheckNeeds : Wired(d, CheckNeeds[d])
BY ListedAre, NamesInNeeds, PrincipalNames
   DEF Wired, CheckNeeds, Checks, Permissions, Demanding, Authentication

LEMMA PrincipalsWired == \A d \in DOMAIN PrincipalNeeds : Wired(d, PrincipalNeeds[d])
<1>1. ASSUME NEW d \in DOMAIN PrincipalNeeds, NEW c \in Checks,
             PrincipalNeeds[d] = <<c>>, DemandsOf(c) = DemandsOf(d),
             d \notin Checks \cup Authentication \cup {"get_unit_of_work_factory", "require_owner",
                "get_communication_analysis_workflow_service"}
      PROVE  Wired(d, PrincipalNeeds[d])
  <2>1. Len(PrincipalNeeds[d]) = 1 /\ Listed(PrincipalNeeds[d]) = {c}
    BY <1>1, ListedAre
  <2>2. c \in DOMAIN Needs /\ c # "require_owner"
    BY <1>1, NamesInNeeds DEF Checks
  <2>3. \A p \in Permissions : c \in Demanding[p] => d \in Demanding[p]
    BY <1>1 DEF DemandsOf
  <2> QED
    BY <1>1, <2>1, <2>2, <2>3 DEF Wired, Authentication
<1>2. ASSUME NEW d \in DOMAIN PrincipalNeeds
      PROVE  /\ \E c \in Checks : PrincipalNeeds[d] = <<c>> /\ DemandsOf(c) = DemandsOf(d)
             /\ d \notin Checks \cup Authentication \cup {"get_unit_of_work_factory",
                  "require_owner", "get_communication_analysis_workflow_service"}
  <2>1. \E c \in Checks : PrincipalNeeds[d] = <<c>> /\ DemandsOf(c) = DemandsOf(d)
    <3> DEFINE Of(c) == PrincipalNeeds[d] = <<c>> /\ DemandsOf(c) = DemandsOf(d)
    <3>1. CASE d = Analyzing
      <4>1. Of("require_communications_analyze")
        BY <3>1, DemandsAre DEF PrincipalNeeds
      <4> QED
        BY <4>1 DEF Checks
    <3>2. CASE d = Working
      <4>1. Of("require_communications_workflow")
        BY <3>2, DemandsAre DEF PrincipalNeeds
      <4> QED
        BY <4>1 DEF Checks
    <3>3. CASE d = Sending
      <4>1. Of("require_communications_send")
        BY <3>3, DemandsAre DEF PrincipalNeeds
      <4> QED
        BY <4>1 DEF Checks
    <3>4. CASE d = Connecting
      <4>1. Of("require_communications_connect")
        BY <3>4, DemandsAre DEF PrincipalNeeds
      <4> QED
        BY <4>1 DEF Checks
    <3>5. CASE d = Reading
      <4>1. Of("require_communications_read")
        BY <3>5, DemandsAre DEF PrincipalNeeds
      <4> QED
        BY <4>1 DEF Checks
    <3>6. CASE d = ReadingAndAnalyzing
      <4>1. Of("require_communications_read_and_analyze")
        BY <3>6, DemandsAre DEF PrincipalNeeds
      <4> QED
        BY <4>1 DEF Checks
    <3> QED
      BY <1>2, <3>1, <3>2, <3>3, <3>4, <3>5, <3>6, PrincipalNames DEF Principals
  <2>2. d \notin Checks \cup Authentication \cup {"get_unit_of_work_factory", "require_owner",
                "get_communication_analysis_workflow_service"}
    BY <1>2, PrincipalNames DEF Principals, Checks, Authentication
  <2> QED
    BY <2>1, <2>2
<1> QED
  BY <1>1, <1>2

LEMMA GatesWired == \A d \in DOMAIN GateNeeds : Wired(d, GateNeeds[d])
BY ListedAre, NamesInNeeds, PrincipalNames
   DEF Wired, GateNeeds, Checks, Permissions, Demanding, Authentication, ResourceNeeds

LEMMA ResourcesWired == \A d \in DOMAIN ResourceNeeds : Wired(d, ResourceNeeds[d])
BY ListedAre, NamesInNeeds, PrincipalNames
   DEF Wired, ResourceNeeds, Checks, Permissions, Demanding, Authentication

LEMMA AnalysisWired == \A d \in DOMAIN AnalysisNeeds : Wired(d, AnalysisNeeds[d])
BY ListedAre, NamesInNeeds, PrincipalNames
   DEF Wired, AnalysisNeeds, Checks, Permissions, Demanding, Authentication, ResourceNeeds

LEMMA ListingsWired == \A d \in DOMAIN ListingNeeds : Wired(d, ListingNeeds[d])
BY ListedAre, NamesInNeeds, PrincipalNames
   DEF Wired, ListingNeeds, Checks, Permissions, Demanding, Authentication, ResourceNeeds

LEMMA OwnedWired == \A d \in DOMAIN OwnedNeeds : Wired(d, OwnedNeeds[d])
<1>1. {"get_identity_resolver", "require_unit_of_work_factory", "get_ai_provider",
       "get_execution_unit_of_work_factory", "get_communication_action_executor_factory"}
        \subseteq DOMAIN Needs
  BY NamesInNeeds DEF ListingNeeds, ResourceNeeds
<1> QED
  BY <1>1, ListedAre, NamesInNeeds, PrincipalNames
     DEF Wired, OwnedNeeds, Checks, Permissions, Demanding, Authentication

LEMMA OAuthWired == \A d \in DOMAIN OAuthNeeds : Wired(d, OAuthNeeds[d])
BY ListedAre, NamesInNeeds, PrincipalNames
   DEF Wired, OAuthNeeds, Checks, Permissions, Demanding, Authentication

LEMMA AccountsWired == \A d \in DOMAIN AccountNeeds : Wired(d, AccountNeeds[d])
BY ListedAre, NamesInNeeds, PrincipalNames
   DEF Wired, AccountNeeds, Checks, Permissions, Demanding, Authentication, ResourceNeeds

LEMMA NeedsWired == \A d \in DOMAIN Needs : Wired(d, Needs[d])
<1>1. \A part \in NeedsParts : \A d \in DOMAIN part : Wired(d, part[d])
  BY ChecksWired, PrincipalsWired, GatesWired, ResourcesWired, AnalysisWired, ListingsWired,
     OwnedWired, OAuthWired, AccountsWired DEF NeedsParts
<1> QED
  BY <1>1, NeedsNames

(* The parameters of a protected route demand no more than is documented,   *)
(* and the first of them leads to the gate.                                 *)
RouteWired(h, params) ==
  /\ h \notin DOMAIN Needs
  /\ Len(params) \in 0..5 /\ Listed(params) \subseteq DOMAIN Needs
  /\ h \notin Public =>
       \A n \in Listed(params) : \A p \in Permissions : n \in Demanding[p] => p \in Documented(h)
  /\ h # "admin_ping" => "require_owner" \notin Listed(params)
  /\ h \in Guarded =>
       Len(params) >= 1 /\ params[1] \in Principals /\ DemandsOf(params[1]) = Documented(h)
  /\ h = "get_me" => params = <<"authenticate_caller", "get_unit_of_work_factory">>
  /\ h = "admin_ping" => params = <<"require_owner">>
  /\ h = "analyze_communication" => params = <<"get_communication_analysis_workflow_service">>

LEMMA NeedsAre ==
  DOMAIN Needs =
    Checks \cup Principals \cup Authentication \cup {"require_owner"} \cup DOMAIN ResourceNeeds
      \cup DOMAIN AnalysisNeeds \cup DOMAIN ListingNeeds \cup DOMAIN OwnedNeeds
      \cup DOMAIN OAuthNeeds \cup DOMAIN AccountNeeds
<1>1. DOMAIN CheckNeeds = Checks
  BY DEF CheckNeeds
<1>2. DOMAIN GateNeeds = Authentication \cup {"require_owner"}
  BY DEF GateNeeds, Authentication
<1> QED
  BY <1>1, <1>2, NeedsNames, NamesInNeeds DEF NeedsParts, Principals

LEMMA RouteNames ==
  /\ DOMAIN AnalysisRoutes = {"list_analyses", "get_analysis", "delete_analysis"}
  /\ DOMAIN AttachmentAnalysisRoutes = {"list_attachment_analyses", "get_attachment_analysis"}
  /\ DOMAIN ContextRoutes =
       {"create_business_context", "list_business_contexts", "get_business_context",
        "update_business_context", "archive_business_context", "restore_business_context"}
  /\ DOMAIN SuggestionRoutes = {"suggest_business_contexts"}
  /\ DOMAIN LinkRoutes = {"associate_communication", "list_communications", "remove_communication"}
  /\ DOMAIN TimelineRoutes = {"list_context_timeline"}
  /\ DOMAIN GmailRoutes =
       {"start_gmail_authorization", "start_gmail_connect_another_authorization",
        "complete_gmail_authorization"}
  /\ DOMAIN MicrosoftRoutes =
       {"start_microsoft_authorization", "start_microsoft_connect_another_authorization",
        "complete_microsoft_authorization"}
  /\ DOMAIN WorkflowActionRoutes =
       {"create_workflow_action", "list_workflow_actions", "get_workflow_action",
        "approve_workflow_action", "reject_workflow_action"}
  /\ DOMAIN ExecuteRoutes = {"execute_workflow_action"}
BY DEF AnalysisRoutes, AttachmentAnalysisRoutes, ContextRoutes, SuggestionRoutes, LinkRoutes,
       TimelineRoutes, GmailRoutes, MicrosoftRoutes, WorkflowActionRoutes, ExecuteRoutes, Each

LEMMA NoRouteIsNeeded ==
  \A part \in RoutesParts : \A h \in DOMAIN part : h \notin DOMAIN Needs
<1> USE NeedsAre, PrincipalNames
    DEF Each, Checks, Authentication, ResourceNeeds, AnalysisNeeds, ListingNeeds, OwnedNeeds,
        OAuthNeeds, AccountNeeds
<1>1. \A h \in DOMAIN HealthRoutes : h \notin DOMAIN Needs
  BY DEF HealthRoutes
<1>2. \A h \in DOMAIN MeRoutes : h \notin DOMAIN Needs
  BY DEF MeRoutes
<1>3. \A h \in DOMAIN AdminRoutes : h \notin DOMAIN Needs
  BY DEF AdminRoutes
<1>4. \A h \in DOMAIN CommunicationRoutes : h \notin DOMAIN Needs
  BY DEF CommunicationRoutes
<1>5. \A h \in DOMAIN AnalysisRoutes : h \notin DOMAIN Needs
  BY DEF AnalysisRoutes
<1>6. \A h \in DOMAIN AttachmentAnalysisRoutes : h \notin DOMAIN Needs
  BY DEF AttachmentAnalysisRoutes
<1>7. \A h \in DOMAIN ContextRoutes : h \notin DOMAIN Needs
  BY DEF ContextRoutes
<1>8. \A h \in DOMAIN SuggestionRoutes : h \notin DOMAIN Needs
  BY DEF SuggestionRoutes
<1>9. \A h \in DOMAIN LinkRoutes : h \notin DOMAIN Needs
  BY DEF LinkRoutes
<1>10. \A h \in DOMAIN TimelineRoutes : h \notin DOMAIN Needs
  BY DEF TimelineRoutes
<1>11. \A h \in DOMAIN WorkItemRoutes : h \notin DOMAIN Needs
  BY DEF WorkItemRoutes
<1>12. \A h \in DOMAIN WorkflowActionRoutes : h \notin DOMAIN Needs
  BY DEF WorkflowActionRoutes
<1>13. \A h \in DOMAIN ExecuteRoutes : h \notin DOMAIN Needs
  BY DEF ExecuteRoutes
<1>14. \A h \in DOMAIN ConnectorAccountRoutes : h \notin DOMAIN Needs
  BY DEF ConnectorAccountRoutes
<1>15. \A h \in DOMAIN GmailRoutes : h \notin DOMAIN Needs
  BY DEF GmailRoutes
<1>16. \A h \in DOMAIN MicrosoftRoutes : h \notin DOMAIN Needs
  BY DEF MicrosoftRoutes
<1>17. \A h \in DOMAIN AttachmentRoutes : h \notin DOMAIN Needs
  BY DEF AttachmentRoutes
<1>18. \A h \in DOMAIN MessageRoutes : h \notin DOMAIN Needs
  BY DEF MessageRoutes
<1>19. \A part \in RoutesParts : part \in {HealthRoutes, MeRoutes, AdminRoutes, CommunicationRoutes, AnalysisRoutes, AttachmentAnalysisRoutes, ContextRoutes, SuggestionRoutes, LinkRoutes, TimelineRoutes, WorkItemRoutes, WorkflowActionRoutes, ExecuteRoutes, ConnectorAccountRoutes, GmailRoutes, MicrosoftRoutes, AttachmentRoutes, MessageRoutes}
  BY DEF RoutesParts
<1> HIDE NeedsAre, PrincipalNames
    DEF Each, Checks, Authentication, ResourceNeeds, AnalysisNeeds, ListingNeeds, OwnedNeeds,
        OAuthNeeds, AccountNeeds
<1> QED
  BY <1>1, <1>2, <1>3, <1>4, <1>5, <1>6, <1>7, <1>8, <1>9, <1>10, <1>11, <1>12, <1>13, <1>14, <1>15, <1>16, <1>17, <1>18, <1>19

(* A route with a principal before its services. *)
LEMMA PrincipalFirst ==
  ASSUME NEW h, NEW params, NEW principal \in Principals, NEW services,
         Len(params) \in 1..5, params[1] = principal, Listed(params) = {principal} \cup services,
         h \notin DOMAIN Needs \cup {"get_me", "admin_ping", "analyze_communication"},
         services \subseteq DOMAIN Needs \ {"require_owner"},
         DemandsOf(principal) = Documented(h),
         \A n \in services : DemandsOf(n) \subseteq Documented(h)
  PROVE  RouteWired(h, params)
<1>1. principal \in DOMAIN Needs \ {"require_owner"}
  BY NamesInNeeds, PrincipalNames
<1>2. \A n \in Listed(params) : \A p \in Permissions : n \in Demanding[p] => p \in Documented(h)
  BY DEF DemandsOf
<1> QED
  BY <1>1, <1>2 DEF RouteWired

LEMMA PrincipalThenOne ==
  ASSUME NEW h, NEW principal \in Principals, NEW service \in DOMAIN Needs \ {"require_owner"},
         h \notin DOMAIN Needs \cup {"get_me", "admin_ping", "analyze_communication"},
         DemandsOf(principal) = Documented(h), DemandsOf(service) \subseteq Documented(h)
  PROVE  RouteWired(h, <<principal, service>>)
<1> DEFINE params == <<principal, service>>
<1>1. Len(params) \in 1..5 /\ params[1] = principal
  OBVIOUS
<1>2. Listed(params) = {principal} \cup {service}
  BY ListedAre
<1> HIDE DEF params
<1>3. RouteWired(h, params)
  BY <1>1, <1>2, PrincipalFirst
<1> QED
  BY <1>3 DEF params

LEMMA PrincipalThenTwo ==
  ASSUME NEW h, NEW principal \in Principals, NEW service \in DOMAIN Needs \ {"require_owner"},
         NEW other \in DOMAIN Needs \ {"require_owner"},
         h \notin DOMAIN Needs \cup {"get_me", "admin_ping", "analyze_communication"},
         DemandsOf(principal) = Documented(h), DemandsOf(service) \subseteq Documented(h),
         DemandsOf(other) \subseteq Documented(h)
  PROVE  RouteWired(h, <<principal, service, other>>)
<1> DEFINE params == <<principal, service, other>>
<1>1. Len(params) \in 1..5 /\ params[1] = principal
  OBVIOUS
<1>2. Listed(params) = {principal} \cup {service, other}
  BY ListedAre
<1> HIDE DEF params
<1>3. RouteWired(h, params)
  BY <1>1, <1>2, PrincipalFirst, ZenonT(30)
<1> QED
  BY <1>3 DEF params

LEMMA ServicesDemand ==
  /\ \A n \in {"get_identity_resolver", "get_analysis_history_service",
               "get_attachment_analysis_history_service", "get_business_context_service",
               "get_business_context_suggestion_service",
               "get_business_context_communication_link_service", "get_context_timeline_service",
               "get_work_item_service", "get_workflow_action_service"} :
       n \in DOMAIN Needs \ {"require_owner"} /\ DemandsOf(n) = {}
  /\ \A n \in {"get_gmail_mailbox_oauth_service", "get_microsoft_mailbox_oauth_service",
               "get_connector_account_service", "get_connector_account_oauth_service"} :
       n \in DOMAIN Needs \ {"require_owner"} /\ DemandsOf(n) = {"connect"}
  /\ \A n \in {"get_connector_account_listing_service", "get_connected_mailbox_listing_service",
               "get_connected_mailbox_attachment_listing_service"} :
       n \in DOMAIN Needs \ {"require_owner"} /\ DemandsOf(n) = {"read"}
  /\ \A n \in {"get_connected_mailbox_analysis_service",
               "get_connected_mailbox_attachment_analysis_service"} :
       n \in DOMAIN Needs \ {"require_owner"} /\ DemandsOf(n) = {"read", "analyze"}
  /\ \A n \in {"get_workflow_action_execution_service"} :
       n \in DOMAIN Needs \ {"require_owner"} /\ DemandsOf(n) = {"send"}
BY NamesInNeeds
   DEF DemandsOf, Permissions, Demanding, AnalysisNeeds, ListingNeeds, OwnedNeeds, OAuthNeeds,
       AccountNeeds

LEMMA AnalysisRoutesWired == \A h \in DOMAIN AnalysisRoutes : RouteWired(h, AnalysisRoutes[h])
<1> SUFFICES ASSUME NEW h \in DOMAIN AnalysisRoutes
             PROVE  RouteWired(h, AnalysisRoutes[h])
  OBVIOUS
<1>1. h \notin DOMAIN Needs
  BY NoRouteIsNeeded DEF RoutesParts
<1>2. Documented(h) = {"analyze"} /\ h \notin {"get_me", "admin_ping", "analyze_communication"}
  BY RouteNames DEF AnalysisRoutes, Each, Documented, Public
<1>3. AnalysisRoutes[h] = <<Analyzing, "get_identity_resolver", "get_analysis_history_service">>
  BY DEF AnalysisRoutes, Each
<1>4. Analyzing \in Principals /\ DemandsOf(Analyzing) = {"analyze"}
  BY PrincipalNames, DemandsAre
<1>5. \A n \in {"get_identity_resolver", "get_analysis_history_service"} :
        n \in DOMAIN Needs \ {"require_owner"} /\ DemandsOf(n) \subseteq {"analyze"}
  BY ServicesDemand
<1> QED
  BY <1>1, <1>2, <1>3, <1>4, <1>5, PrincipalThenTwo

LEMMA AttachmentAnalysisRoutesWired == \A h \in DOMAIN AttachmentAnalysisRoutes : RouteWired(h, AttachmentAnalysisRoutes[h])
<1> SUFFICES ASSUME NEW h \in DOMAIN AttachmentAnalysisRoutes
             PROVE  RouteWired(h, AttachmentAnalysisRoutes[h])
  OBVIOUS
<1>1. h \notin DOMAIN Needs
  BY NoRouteIsNeeded DEF RoutesParts
<1>2. Documented(h) = {"analyze"} /\ h \notin {"get_me", "admin_ping", "analyze_communication"}
  BY RouteNames DEF AttachmentAnalysisRoutes, Each, Documented, Public
<1>3. AttachmentAnalysisRoutes[h] = <<Analyzing, "get_identity_resolver", "get_attachment_analysis_history_service">>
  BY DEF AttachmentAnalysisRoutes, Each
<1>4. Analyzing \in Principals /\ DemandsOf(Analyzing) = {"analyze"}
  BY PrincipalNames, DemandsAre
<1>5. \A n \in {"get_identity_resolver", "get_attachment_analysis_history_service"} :
        n \in DOMAIN Needs \ {"require_owner"} /\ DemandsOf(n) \subseteq {"analyze"}
  BY ServicesDemand
<1> QED
  BY <1>1, <1>2, <1>3, <1>4, <1>5, PrincipalThenTwo

LEMMA ContextRoutesWired == \A h \in DOMAIN ContextRoutes : RouteWired(h, ContextRoutes[h])
<1> SUFFICES ASSUME NEW h \in DOMAIN ContextRoutes
             PROVE  RouteWired(h, ContextRoutes[h])
  OBVIOUS
<1>1. h \notin DOMAIN Needs
  BY NoRouteIsNeeded DEF RoutesParts
<1>2. Documented(h) = {"analyze"} /\ h \notin {"get_me", "admin_ping", "analyze_communication"}
  BY RouteNames DEF ContextRoutes, Each, Documented, Public
<1>3. ContextRoutes[h] = <<Analyzing, "get_business_context_service">>
  BY DEF ContextRoutes, Each
<1>4. Analyzing \in Principals /\ DemandsOf(Analyzing) = {"analyze"}
  BY PrincipalNames, DemandsAre
<1>5. \A n \in {"get_business_context_service"} :
        n \in DOMAIN Needs \ {"require_owner"} /\ DemandsOf(n) \subseteq {"analyze"}
  BY ServicesDemand
<1> QED
  BY <1>1, <1>2, <1>3, <1>4, <1>5, PrincipalThenOne

LEMMA SuggestionRoutesWired == \A h \in DOMAIN SuggestionRoutes : RouteWired(h, SuggestionRoutes[h])
<1> SUFFICES ASSUME NEW h \in DOMAIN SuggestionRoutes
             PROVE  RouteWired(h, SuggestionRoutes[h])
  OBVIOUS
<1>1. h \notin DOMAIN Needs
  BY NoRouteIsNeeded DEF RoutesParts
<1>2. Documented(h) = {"read", "analyze"} /\ h \notin {"get_me", "admin_ping", "analyze_communication"}
  BY RouteNames DEF SuggestionRoutes, Each, Documented, Public
<1>3. SuggestionRoutes[h] = <<ReadingAndAnalyzing, "get_business_context_suggestion_service">>
  BY DEF SuggestionRoutes, Each
<1>4. ReadingAndAnalyzing \in Principals /\ DemandsOf(ReadingAndAnalyzing) = {"read", "analyze"}
  BY PrincipalNames, DemandsAre
<1>5. \A n \in {"get_business_context_suggestion_service"} :
        n \in DOMAIN Needs \ {"require_owner"} /\ DemandsOf(n) \subseteq {"read", "analyze"}
  BY ServicesDemand
<1> QED
  BY <1>1, <1>2, <1>3, <1>4, <1>5, PrincipalThenOne

LEMMA LinkRoutesWired == \A h \in DOMAIN LinkRoutes : RouteWired(h, LinkRoutes[h])
<1> SUFFICES ASSUME NEW h \in DOMAIN LinkRoutes
             PROVE  RouteWired(h, LinkRoutes[h])
  OBVIOUS
<1>1. h \notin DOMAIN Needs
  BY NoRouteIsNeeded DEF RoutesParts
<1>2. Documented(h) = {"read", "analyze"} /\ h \notin {"get_me", "admin_ping", "analyze_communication"}
  BY RouteNames DEF LinkRoutes, Each, Documented, Public
<1>3. LinkRoutes[h] = <<ReadingAndAnalyzing, "get_business_context_communication_link_service">>
  BY DEF LinkRoutes, Each
<1>4. ReadingAndAnalyzing \in Principals /\ DemandsOf(ReadingAndAnalyzing) = {"read", "analyze"}
  BY PrincipalNames, DemandsAre
<1>5. \A n \in {"get_business_context_communication_link_service"} :
        n \in DOMAIN Needs \ {"require_owner"} /\ DemandsOf(n) \subseteq {"read", "analyze"}
  BY ServicesDemand
<1> QED
  BY <1>1, <1>2, <1>3, <1>4, <1>5, PrincipalThenOne

LEMMA TimelineRoutesWired == \A h \in DOMAIN TimelineRoutes : RouteWired(h, TimelineRoutes[h])
<1> SUFFICES ASSUME NEW h \in DOMAIN TimelineRoutes
             PROVE  RouteWired(h, TimelineRoutes[h])
  OBVIOUS
<1>1. h \notin DOMAIN Needs
  BY NoRouteIsNeeded DEF RoutesParts
<1>2. Documented(h) = {"analyze"} /\ h \notin {"get_me", "admin_ping", "analyze_communication"}
  BY RouteNames DEF TimelineRoutes, Each, Documented, Public
<1>3. TimelineRoutes[h] = <<Analyzing, "get_context_timeline_service">>
  BY DEF TimelineRoutes, Each
<1>4. Analyzing \in Principals /\ DemandsOf(Analyzing) = {"analyze"}
  BY PrincipalNames, DemandsAre
<1>5. \A n \in {"get_context_timeline_service"} :
        n \in DOMAIN Needs \ {"require_owner"} /\ DemandsOf(n) \subseteq {"analyze"}
  BY ServicesDemand
<1> QED
  BY <1>1, <1>2, <1>3, <1>4, <1>5, PrincipalThenOne

LEMMA WorkItemRoutesWired == \A h \in DOMAIN WorkItemRoutes : RouteWired(h, WorkItemRoutes[h])
<1> SUFFICES ASSUME NEW h \in DOMAIN WorkItemRoutes
             PROVE  RouteWired(h, WorkItemRoutes[h])
  OBVIOUS
<1>1. h \notin DOMAIN Needs
  BY NoRouteIsNeeded DEF RoutesParts
<1>2. Documented(h) = {"analyze"} /\ h \notin {"get_me", "admin_ping", "analyze_communication"}
  BY RouteNames DEF WorkItemRoutes, Each, Documented, Public
<1>3. WorkItemRoutes[h] = <<Analyzing, "get_work_item_service">>
  BY DEF WorkItemRoutes, Each
<1>4. Analyzing \in Principals /\ DemandsOf(Analyzing) = {"analyze"}
  BY PrincipalNames, DemandsAre
<1>5. \A n \in {"get_work_item_service"} :
        n \in DOMAIN Needs \ {"require_owner"} /\ DemandsOf(n) \subseteq {"analyze"}
  BY ServicesDemand
<1> QED
  BY <1>1, <1>2, <1>3, <1>4, <1>5, PrincipalThenOne

LEMMA WorkflowActionRoutesWired == \A h \in DOMAIN WorkflowActionRoutes : RouteWired(h, WorkflowActionRoutes[h])
<1> SUFFICES ASSUME NEW h \in DOMAIN WorkflowActionRoutes
             PROVE  RouteWired(h, WorkflowActionRoutes[h])
  OBVIOUS
<1>1. h \notin DOMAIN Needs
  BY NoRouteIsNeeded DEF RoutesParts
<1>2. Documented(h) = {"workflow"} /\ h \notin {"get_me", "admin_ping", "analyze_communication"}
  BY RouteNames DEF WorkflowActionRoutes, Each, Documented, Public
<1>3. WorkflowActionRoutes[h] = <<Working, "get_workflow_action_service">>
  BY DEF WorkflowActionRoutes, Each
<1>4. Working \in Principals /\ DemandsOf(Working) = {"workflow"}
  BY PrincipalNames, DemandsAre
<1>5. \A n \in {"get_workflow_action_service"} :
        n \in DOMAIN Needs \ {"require_owner"} /\ DemandsOf(n) \subseteq {"workflow"}
  BY ServicesDemand
<1> QED
  BY <1>1, <1>2, <1>3, <1>4, <1>5, PrincipalThenOne

LEMMA ExecuteRoutesWired == \A h \in DOMAIN ExecuteRoutes : RouteWired(h, ExecuteRoutes[h])
<1> SUFFICES ASSUME NEW h \in DOMAIN ExecuteRoutes
             PROVE  RouteWired(h, ExecuteRoutes[h])
  OBVIOUS
<1>1. h \notin DOMAIN Needs
  BY NoRouteIsNeeded DEF RoutesParts
<1>2. Documented(h) = {"send"} /\ h \notin {"get_me", "admin_ping", "analyze_communication"}
  BY RouteNames DEF ExecuteRoutes, Each, Documented, Public
<1>3. ExecuteRoutes[h] = <<Sending, "get_workflow_action_execution_service">>
  BY DEF ExecuteRoutes, Each
<1>4. Sending \in Principals /\ DemandsOf(Sending) = {"send"}
  BY PrincipalNames, DemandsAre
<1>5. \A n \in {"get_workflow_action_execution_service"} :
        n \in DOMAIN Needs \ {"require_owner"} /\ DemandsOf(n) \subseteq {"send"}
  BY ServicesDemand
<1> QED
  BY <1>1, <1>2, <1>3, <1>4, <1>5, PrincipalThenOne

LEMMA ConnectorAccountRoutesWired == \A h \in DOMAIN ConnectorAccountRoutes : RouteWired(h, ConnectorAccountRoutes[h])
<1>1. \A h \in DOMAIN ConnectorAccountRoutes : h \notin DOMAIN Needs
  BY NoRouteIsNeeded DEF RoutesParts
<1>2. ASSUME NEW h \in DOMAIN ConnectorAccountRoutes, h = "list_owned_connector_accounts"
      PROVE  RouteWired(h, ConnectorAccountRoutes[h])
  <2>1. Documented(h) = {"read"} /\ h \notin {"get_me", "admin_ping", "analyze_communication"}
    BY <1>2, RouteNames DEF Documented, Public
  <2>2. ConnectorAccountRoutes[h] = <<Reading, "get_connector_account_listing_service">>
    BY <1>2 DEF ConnectorAccountRoutes
  <2>3. Reading \in Principals /\ DemandsOf(Reading) = {"read"}
    BY PrincipalNames, DemandsAre
  <2>4. /\ "get_connector_account_listing_service" \in DOMAIN Needs \ {"require_owner"}
        /\ DemandsOf("get_connector_account_listing_service") \subseteq {"read"}
    BY ServicesDemand
  <2> QED
    BY <1>1, <2>1, <2>2, <2>3, <2>4, PrincipalThenOne
<1>3. ASSUME NEW h \in DOMAIN ConnectorAccountRoutes, h = "disconnect_connector_account"
      PROVE  RouteWired(h, ConnectorAccountRoutes[h])
  <2>1. Documented(h) = {"connect"} /\ h \notin {"get_me", "admin_ping", "analyze_communication"}
    BY <1>3, RouteNames DEF Documented, Public
  <2>2. ConnectorAccountRoutes[h] = <<Connecting, "get_connector_account_service">>
    BY <1>3 DEF ConnectorAccountRoutes
  <2>3. Connecting \in Principals /\ DemandsOf(Connecting) = {"connect"}
    BY PrincipalNames, DemandsAre
  <2>4. /\ "get_connector_account_service" \in DOMAIN Needs \ {"require_owner"}
        /\ DemandsOf("get_connector_account_service") \subseteq {"connect"}
    BY ServicesDemand
  <2> QED
    BY <1>1, <2>1, <2>2, <2>3, <2>4, PrincipalThenOne
<1>4. ASSUME NEW h \in DOMAIN ConnectorAccountRoutes, h = "reauthorize_connector_account"
      PROVE  RouteWired(h, ConnectorAccountRoutes[h])
  <2>1. Documented(h) = {"connect"} /\ h \notin {"get_me", "admin_ping", "analyze_communication"}
    BY <1>4, RouteNames DEF Documented, Public
  <2>2. ConnectorAccountRoutes[h] = <<Connecting, "get_connector_account_oauth_service">>
    BY <1>4 DEF ConnectorAccountRoutes
  <2>3. Connecting \in Principals /\ DemandsOf(Connecting) = {"connect"}
    BY PrincipalNames, DemandsAre
  <2>4. /\ "get_connector_account_oauth_service" \in DOMAIN Needs \ {"require_owner"}
        /\ DemandsOf("get_connector_account_oauth_service") \subseteq {"connect"}
    BY ServicesDemand
  <2> QED
    BY <1>1, <2>1, <2>2, <2>3, <2>4, PrincipalThenOne
<1>5. DOMAIN ConnectorAccountRoutes = {"list_owned_connector_accounts", "disconnect_connector_account", "reauthorize_connector_account"}
  BY DEF ConnectorAccountRoutes
<1> QED
  BY <1>2, <1>3, <1>4, <1>5

LEMMA AttachmentRoutesWired == \A h \in DOMAIN AttachmentRoutes : RouteWired(h, AttachmentRoutes[h])
<1>1. \A h \in DOMAIN AttachmentRoutes : h \notin DOMAIN Needs
  BY NoRouteIsNeeded DEF RoutesParts
<1>2. ASSUME NEW h \in DOMAIN AttachmentRoutes, h = "list_connected_mailbox_attachments"
      PROVE  RouteWired(h, AttachmentRoutes[h])
  <2>1. Documented(h) = {"read"} /\ h \notin {"get_me", "admin_ping", "analyze_communication"}
    BY <1>2, RouteNames DEF Documented, Public
  <2>2. AttachmentRoutes[h] = <<Reading, "get_connected_mailbox_attachment_listing_service">>
    BY <1>2 DEF AttachmentRoutes
  <2>3. Reading \in Principals /\ DemandsOf(Reading) = {"read"}
    BY PrincipalNames, DemandsAre
  <2>4. /\ "get_connected_mailbox_attachment_listing_service" \in DOMAIN Needs \ {"require_owner"}
        /\ DemandsOf("get_connected_mailbox_attachment_listing_service") \subseteq {"read"}
    BY ServicesDemand
  <2> QED
    BY <1>1, <2>1, <2>2, <2>3, <2>4, PrincipalThenOne
<1>3. ASSUME NEW h \in DOMAIN AttachmentRoutes, h = "analyze_connected_mailbox_attachment"
      PROVE  RouteWired(h, AttachmentRoutes[h])
  <2>1. Documented(h) = {"read", "analyze"} /\ h \notin {"get_me", "admin_ping", "analyze_communication"}
    BY <1>3, RouteNames DEF Documented, Public
  <2>2. AttachmentRoutes[h] = <<ReadingAndAnalyzing, "get_connected_mailbox_attachment_analysis_service">>
    BY <1>3 DEF AttachmentRoutes
  <2>3. ReadingAndAnalyzing \in Principals /\ DemandsOf(ReadingAndAnalyzing) = {"read", "analyze"}
    BY PrincipalNames, DemandsAre
  <2>4. /\ "get_connected_mailbox_attachment_analysis_service" \in DOMAIN Needs \ {"require_owner"}
        /\ DemandsOf("get_connected_mailbox_attachment_analysis_service") \subseteq {"read", "analyze"}
    BY ServicesDemand
  <2> QED
    BY <1>1, <2>1, <2>2, <2>3, <2>4, PrincipalThenOne
<1>4. DOMAIN AttachmentRoutes = {"list_connected_mailbox_attachments", "analyze_connected_mailbox_attachment"}
  BY DEF AttachmentRoutes
<1> QED
  BY <1>2, <1>3, <1>4

LEMMA MessageRoutesWired == \A h \in DOMAIN MessageRoutes : RouteWired(h, MessageRoutes[h])
<1>1. \A h \in DOMAIN MessageRoutes : h \notin DOMAIN Needs
  BY NoRouteIsNeeded DEF RoutesParts
<1>2. ASSUME NEW h \in DOMAIN MessageRoutes, h = "list_connected_mailbox_messages"
      PROVE  RouteWired(h, MessageRoutes[h])
  <2>1. Documented(h) = {"read"} /\ h \notin {"get_me", "admin_ping", "analyze_communication"}
    BY <1>2, RouteNames DEF Documented, Public
  <2>2. MessageRoutes[h] = <<Reading, "get_connected_mailbox_listing_service">>
    BY <1>2 DEF MessageRoutes
  <2>3. Reading \in Principals /\ DemandsOf(Reading) = {"read"}
    BY PrincipalNames, DemandsAre
  <2>4. /\ "get_connected_mailbox_listing_service" \in DOMAIN Needs \ {"require_owner"}
        /\ DemandsOf("get_connected_mailbox_listing_service") \subseteq {"read"}
    BY ServicesDemand
  <2> QED
    BY <1>1, <2>1, <2>2, <2>3, <2>4, PrincipalThenOne
<1>3. ASSUME NEW h \in DOMAIN MessageRoutes, h = "analyze_connected_mailbox_message"
      PROVE  RouteWired(h, MessageRoutes[h])
  <2>1. Documented(h) = {"read", "analyze"} /\ h \notin {"get_me", "admin_ping", "analyze_communication"}
    BY <1>3, RouteNames DEF Documented, Public
  <2>2. MessageRoutes[h] = <<ReadingAndAnalyzing, "get_connected_mailbox_analysis_service">>
    BY <1>3 DEF MessageRoutes
  <2>3. ReadingAndAnalyzing \in Principals /\ DemandsOf(ReadingAndAnalyzing) = {"read", "analyze"}
    BY PrincipalNames, DemandsAre
  <2>4. /\ "get_connected_mailbox_analysis_service" \in DOMAIN Needs \ {"require_owner"}
        /\ DemandsOf("get_connected_mailbox_analysis_service") \subseteq {"read", "analyze"}
    BY ServicesDemand
  <2> QED
    BY <1>1, <2>1, <2>2, <2>3, <2>4, PrincipalThenOne
<1>4. DOMAIN MessageRoutes = {"list_connected_mailbox_messages", "analyze_connected_mailbox_message"}
  BY DEF MessageRoutes
<1> QED
  BY <1>2, <1>3, <1>4

LEMMA GmailRoutesWired == \A h \in DOMAIN GmailRoutes : RouteWired(h, GmailRoutes[h])
<1>1. \A h \in DOMAIN GmailRoutes : h \notin DOMAIN Needs
  BY NoRouteIsNeeded DEF RoutesParts
<1>2. ASSUME NEW h \in DOMAIN GmailRoutes, h = "start_gmail_authorization"
      PROVE  RouteWired(h, GmailRoutes[h])
  <2>1. Documented(h) = {"connect"} /\ h \notin {"get_me", "admin_ping", "analyze_communication"}
    BY <1>2, RouteNames DEF Documented, Public
  <2>2. GmailRoutes[h] = <<Connecting, "get_gmail_mailbox_oauth_service">>
    BY <1>2 DEF GmailRoutes
  <2>3. Connecting \in Principals /\ DemandsOf(Connecting) = {"connect"}
    BY PrincipalNames, DemandsAre
  <2>4. /\ "get_gmail_mailbox_oauth_service" \in DOMAIN Needs \ {"require_owner"}
        /\ DemandsOf("get_gmail_mailbox_oauth_service") \subseteq {"connect"}
    BY ServicesDemand
  <2> QED
    BY <1>1, <2>1, <2>2, <2>3, <2>4, PrincipalThenOne
<1>3. ASSUME NEW h \in DOMAIN GmailRoutes, h = "start_gmail_connect_another_authorization"
      PROVE  RouteWired(h, GmailRoutes[h])
  <2>1. Documented(h) = {"connect"} /\ h \notin {"get_me", "admin_ping", "analyze_communication"}
    BY <1>3, RouteNames DEF Documented, Public
  <2>2. GmailRoutes[h] = <<Connecting, "get_gmail_mailbox_oauth_service">>
    BY <1>3 DEF GmailRoutes
  <2>3. Connecting \in Principals /\ DemandsOf(Connecting) = {"connect"}
    BY PrincipalNames, DemandsAre
  <2>4. /\ "get_gmail_mailbox_oauth_service" \in DOMAIN Needs \ {"require_owner"}
        /\ DemandsOf("get_gmail_mailbox_oauth_service") \subseteq {"connect"}
    BY ServicesDemand
  <2> QED
    BY <1>1, <2>1, <2>2, <2>3, <2>4, PrincipalThenOne
<1>4. ASSUME NEW h \in DOMAIN GmailRoutes, h = "complete_gmail_authorization"
      PROVE  RouteWired(h, GmailRoutes[h])
  <2>1. GmailRoutes[h] = <<"get_gmail_mailbox_oauth_callback_service">> /\ h \in Public
    BY <1>4 DEF GmailRoutes, Public
  <2>2. "get_gmail_mailbox_oauth_callback_service" \in DOMAIN Needs \ {"require_owner"}
    BY NamesInNeeds DEF OAuthNeeds
  <2>3. h \notin {"get_me", "admin_ping", "analyze_communication"}
    BY <1>4
  <2> QED
    BY <1>1, <2>1, <2>2, <2>3, ListedAre DEF RouteWired, Guarded
<1>5. DOMAIN GmailRoutes = {"start_gmail_authorization", "start_gmail_connect_another_authorization", "complete_gmail_authorization"}
  BY DEF GmailRoutes
<1> QED
  BY <1>2, <1>3, <1>4, <1>5

LEMMA MicrosoftRoutesWired == \A h \in DOMAIN MicrosoftRoutes : RouteWired(h, MicrosoftRoutes[h])
<1>1. \A h \in DOMAIN MicrosoftRoutes : h \notin DOMAIN Needs
  BY NoRouteIsNeeded DEF RoutesParts
<1>2. ASSUME NEW h \in DOMAIN MicrosoftRoutes, h = "start_microsoft_authorization"
      PROVE  RouteWired(h, MicrosoftRoutes[h])
  <2>1. Documented(h) = {"connect"} /\ h \notin {"get_me", "admin_ping", "analyze_communication"}
    BY <1>2, RouteNames DEF Documented, Public
  <2>2. MicrosoftRoutes[h] = <<Connecting, "get_microsoft_mailbox_oauth_service">>
    BY <1>2 DEF MicrosoftRoutes
  <2>3. Connecting \in Principals /\ DemandsOf(Connecting) = {"connect"}
    BY PrincipalNames, DemandsAre
  <2>4. /\ "get_microsoft_mailbox_oauth_service" \in DOMAIN Needs \ {"require_owner"}
        /\ DemandsOf("get_microsoft_mailbox_oauth_service") \subseteq {"connect"}
    BY ServicesDemand
  <2> QED
    BY <1>1, <2>1, <2>2, <2>3, <2>4, PrincipalThenOne
<1>3. ASSUME NEW h \in DOMAIN MicrosoftRoutes, h = "start_microsoft_connect_another_authorization"
      PROVE  RouteWired(h, MicrosoftRoutes[h])
  <2>1. Documented(h) = {"connect"} /\ h \notin {"get_me", "admin_ping", "analyze_communication"}
    BY <1>3, RouteNames DEF Documented, Public
  <2>2. MicrosoftRoutes[h] = <<Connecting, "get_microsoft_mailbox_oauth_service">>
    BY <1>3 DEF MicrosoftRoutes
  <2>3. Connecting \in Principals /\ DemandsOf(Connecting) = {"connect"}
    BY PrincipalNames, DemandsAre
  <2>4. /\ "get_microsoft_mailbox_oauth_service" \in DOMAIN Needs \ {"require_owner"}
        /\ DemandsOf("get_microsoft_mailbox_oauth_service") \subseteq {"connect"}
    BY ServicesDemand
  <2> QED
    BY <1>1, <2>1, <2>2, <2>3, <2>4, PrincipalThenOne
<1>4. ASSUME NEW h \in DOMAIN MicrosoftRoutes, h = "complete_microsoft_authorization"
      PROVE  RouteWired(h, MicrosoftRoutes[h])
  <2>1. MicrosoftRoutes[h] = <<"get_microsoft_mailbox_oauth_callback_service">> /\ h \in Public
    BY <1>4 DEF MicrosoftRoutes, Public
  <2>2. "get_microsoft_mailbox_oauth_callback_service" \in DOMAIN Needs \ {"require_owner"}
    BY NamesInNeeds DEF OAuthNeeds
  <2>3. h \notin {"get_me", "admin_ping", "analyze_communication"}
    BY <1>4
  <2> QED
    BY <1>1, <2>1, <2>2, <2>3, ListedAre DEF RouteWired, Guarded
<1>5. DOMAIN MicrosoftRoutes = {"start_microsoft_authorization", "start_microsoft_connect_another_authorization", "complete_microsoft_authorization"}
  BY DEF MicrosoftRoutes
<1> QED
  BY <1>2, <1>3, <1>4, <1>5

LEMMA HealthRoutesWired == \A h \in DOMAIN HealthRoutes : RouteWired(h, HealthRoutes[h])
<1>1. \A h \in DOMAIN HealthRoutes : h \notin DOMAIN Needs
  BY NoRouteIsNeeded DEF RoutesParts
<1>2. "get_database_readiness_probe" \in DOMAIN Needs \ {"require_owner"}
  BY NamesInNeeds DEF ResourceNeeds
<1>3. \A h \in DOMAIN HealthRoutes :
        h \in Public /\ h \notin {"get_me", "admin_ping", "analyze_communication"}
  BY DEF HealthRoutes, Public
<1>4. \A h \in DOMAIN HealthRoutes :
        /\ Len(HealthRoutes[h]) \in 0..5
        /\ Listed(HealthRoutes[h]) \subseteq {"get_database_readiness_probe"}
  BY ListedAre DEF HealthRoutes
<1> QED
  BY <1>1, <1>2, <1>3, <1>4 DEF RouteWired, Guarded

(* The routes that demand no permission of a caller, or no principal. *)
LEMMA OtherRoutesWired ==
  /\ \A h \in DOMAIN MeRoutes : RouteWired(h, MeRoutes[h])
  /\ \A h \in DOMAIN AdminRoutes : RouteWired(h, AdminRoutes[h])
  /\ \A h \in DOMAIN CommunicationRoutes : RouteWired(h, CommunicationRoutes[h])
<1>1. /\ \A h \in DOMAIN MeRoutes : h \notin DOMAIN Needs
      /\ \A h \in DOMAIN AdminRoutes : h \notin DOMAIN Needs
      /\ \A h \in DOMAIN CommunicationRoutes : h \notin DOMAIN Needs
  BY NoRouteIsNeeded DEF RoutesParts
<1>2. \A n \in {"authenticate_caller", "get_unit_of_work_factory", "require_owner",
                "get_communication_analysis_workflow_service"} : n \in DOMAIN Needs
  BY NamesInNeeds DEF Authentication, ResourceNeeds, AnalysisNeeds
<1>3. \A n \in {"authenticate_caller", "get_unit_of_work_factory", "require_owner"} :
        \A p \in Permissions : n \notin Demanding[p]
  BY DEF Permissions, Demanding
<1>4. RouteWired("get_me", <<"authenticate_caller", "get_unit_of_work_factory">>)
  <2>1. "get_me" \notin DOMAIN Needs
    BY <1>1 DEF MeRoutes
  <2> QED
    BY <1>2, <1>3, <2>1, ListedAre DEF RouteWired, Guarded
<1>5. RouteWired("admin_ping", <<"require_owner">>)
  <2>1. "admin_ping" \notin DOMAIN Needs
    BY <1>1 DEF AdminRoutes
  <2> QED
    BY <1>2, <1>3, <2>1, ListedAre DEF RouteWired, Guarded
<1>6. RouteWired("analyze_communication", <<"get_communication_analysis_workflow_service">>)
  <2>1. "analyze_communication" \notin DOMAIN Needs
    BY <1>1 DEF CommunicationRoutes
  <2>2. Documented("analyze_communication") = {"analyze"}
    BY RouteNames DEF Documented, Public
  <2>3. \A p \in Permissions :
          "get_communication_analysis_workflow_service" \in Demanding[p] => p = "analyze"
    BY DEF Permissions, Demanding
  <2> QED
    BY <1>2, <2>1, <2>2, <2>3, ListedAre DEF RouteWired, Guarded
<1> QED
  BY <1>4, <1>5, <1>6 DEF MeRoutes, AdminRoutes, CommunicationRoutes

LEMMA RoutesWired == \A h \in DOMAIN Routes : RouteWired(h, Routes[h])
<1>1. \A part \in RoutesParts : \A h \in DOMAIN part : RouteWired(h, part[h])
  BY HealthRoutesWired, OtherRoutesWired, AnalysisRoutesWired, AttachmentAnalysisRoutesWired,
     ContextRoutesWired, SuggestionRoutesWired, LinkRoutesWired, TimelineRoutesWired,
     ConnectorAccountRoutesWired, GmailRoutesWired, MicrosoftRoutesWired, AttachmentRoutesWired,
     MessageRoutesWired, WorkItemRoutesWired, WorkflowActionRoutesWired, ExecuteRoutesWired
     DEF RoutesParts
<1> QED
  BY <1>1, RoutesNames

(* The table of parameters holds both. *)
LEMMA ParametersWired ==
  /\ \A d \in DOMAIN Needs : Wired(d, Parameters[d]) /\ d \notin DOMAIN Routes
  /\ \A h \in DOMAIN Routes : RouteWired(h, Parameters[h])
<1>1. \A h \in DOMAIN Routes : h \notin DOMAIN Needs
  BY RoutesWired DEF RouteWired
<1>2. \A d \in DOMAIN Needs \cup DOMAIN Routes :
        \E part \in {Needs, Routes} : d \in DOMAIN part /\ Parameters[d] = part[d]
  BY MergedNames DEF Parameters
<1>3. \A d \in DOMAIN Needs : Parameters[d] = Needs[d]
  BY <1>1, <1>2
<1>4. \A h \in DOMAIN Routes : Parameters[h] = Routes[h]
  BY <1>1, <1>2
<1> QED
  BY <1>1, <1>3, <1>4, NeedsWired, RoutesWired

-----------------------------------------------------------------------------
(* Resolution *)

LEMMA FirstMissingIs ==
  ASSUME NEW d, Len(Parameters[d]) \in 0..5
  PROVE  /\ FirstMissing(d) = 0 => Listed(Parameters[d]) \subseteq resolved
         /\ FirstMissing(d) # 0 =>
              /\ FirstMissing(d) \in 1..Len(Parameters[d])
              /\ Parameters[d][FirstMissing(d)] \in Listed(Parameters[d]) \ resolved
              /\ Len(Parameters[d]) >= 1 /\ Parameters[d][1] \notin resolved => FirstMissing(d) = 1
<1> DEFINE p == Parameters[d]
           I == {i \in 1..Len(p) : p[i] \notin resolved}
<1>1. FirstMissing(d) = IF I # {} THEN Min(I) ELSE 0
  BY DEF FirstMissing, SelectInSeq
<1>2. Len(p) \in 0..5
  OBVIOUS
<1> HIDE DEF p
<1>3. ASSUME I # {} PROVE Min(I) \in I /\ \A j \in I : Min(I) <= j
  <2>1. I \subseteq 1..5
    BY <1>2
  <2>2. \E x \in I : \A y \in I : x <= y
    <3> HIDE DEF I
    <3>1. CASE 1 \in I
      BY <2>1, <3>1
    <3>2. CASE 1 \notin I /\ 2 \in I
      BY <2>1, <3>2
    <3>3. CASE 1 \notin I /\ 2 \notin I /\ 3 \in I
      BY <2>1, <3>3
    <3>4. CASE 1 \notin I /\ 2 \notin I /\ 3 \notin I /\ 4 \in I
      BY <2>1, <3>4
    <3>5. CASE 1 \notin I /\ 2 \notin I /\ 3 \notin I /\ 4 \notin I
      <4>1. I \subseteq {5}
        BY <2>1, <3>5
      <4>2. PICK x : x \in I
        BY <1>3
      <4>3. I = {5}
        BY <4>1, <4>2
      <4> QED
        BY <4>3
    <3> QED
      BY <3>1, <3>2, <3>3, <3>4, <3>5
  <2> HIDE DEF I
  <2> QED
    BY <2>2 DEF Min
<1>4. ASSUME FirstMissing(d) = 0
      PROVE  I = {}
  <2>1. 0 \notin I
    OBVIOUS
  <2> HIDE DEF I
  <2> QED
    BY <1>1, <1>3, <1>4, <2>1
<1>5. I = {} => Listed(p) \subseteq resolved
  BY DEF Listed
<1>6. ASSUME FirstMissing(d) # 0
      PROVE  FirstMissing(d) \in I /\ \A j \in I : FirstMissing(d) <= j
  <2> HIDE DEF I
  <2> QED
    BY <1>1, <1>3, <1>6
<1>7. ASSUME FirstMissing(d) # 0
      PROVE  /\ FirstMissing(d) \in 1..Len(p) /\ p[FirstMissing(d)] \in Listed(p) \ resolved
             /\ Len(p) >= 1 /\ p[1] \notin resolved => FirstMissing(d) = 1
  <2>1. FirstMissing(d) \in 1..Len(p) /\ p[FirstMissing(d)] \notin resolved
    BY <1>6, <1>7
  <2>2. p[FirstMissing(d)] \in Listed(p)
    BY <2>1 DEF Listed
  <2>3. ASSUME Len(p) >= 1, p[1] \notin resolved PROVE FirstMissing(d) = 1
    <3>1. 1 \in I
      BY <1>2, <2>3
    <3>2. FirstMissing(d) <= 1
      BY <1>6, <1>7, <3>1
    <3> QED
      BY <1>2, <2>1, <3>2
  <2> QED
    BY <2>1, <2>2, <2>3
<1> QED
  BY <1>4, <1>5, <1>7 DEF p

(* The innermost dependency is the route itself or one that it needs. *)
LEMMA HeadIs ==
  ASSUME PendingOK
  PROVE  /\ Head(pending) \in Listed(pending) /\ Head(pending) \in DOMAIN Needs \cup {request.route}
         /\ Listed(pending) \subseteq DOMAIN Needs \cup {request.route}
<1>1. pending \in Seq(DOMAIN Needs \cup {request.route}) /\ Len(pending) \in Nat /\ Len(pending) >= 1
  BY DEF PendingOK
<1>2. Head(pending) = pending[1] /\ 1 \in 1..Len(pending)
  BY <1>1
<1>3. \A i \in 1..Len(pending) : pending[i] \in DOMAIN Needs \cup {request.route}
  BY <1>1
<1> QED
  BY <1>2, <1>3 DEF Listed

LEMMA PendingGrows ==
  ASSUME PendingOK, NEW n \in DOMAIN Needs, pending' = <<n>> \o pending, request' = request
  PROVE  PendingOK' /\ Listed(pending') = {n} \cup Listed(pending)
<1> DEFINE S == DOMAIN Needs \cup {request.route}
<1>1. pending \in Seq(S) /\ Len(pending) \in Nat /\ Len(pending) >= 1 /\ <<n>> \in Seq(S)
  BY DEF PendingOK
<1>2. /\ pending' \in Seq(S) /\ Len(pending') = Len(pending) + 1
      /\ pending'[1] = n /\ \A i \in 1..Len(pending) : pending'[i + 1] = pending[i]
  <2> HIDE DEF S
  <2>1. pending' \in Seq(S) /\ Len(pending') = Len(pending) + 1
    BY <1>1
  <2>2. pending'[1] = n
    BY <1>1
  <2>3. \A i \in 1..Len(pending) : pending'[i + 1] = pending[i]
    BY <1>1
  <2> QED
    BY <2>1, <2>2, <2>3
<1>3. pending'[Len(pending')] = request.route
  BY <1>1, <1>2 DEF PendingOK
<1>4. PendingOK'
  BY <1>1, <1>2, <1>3 DEF PendingOK
<1>5. Listed(pending') \subseteq {n} \cup Listed(pending)
  <2> SUFFICES ASSUME NEW i \in 1..Len(pending'), i # 1
               PROVE  pending'[i] \in Listed(pending)
    BY <1>2 DEF Listed
  <2>1. i - 1 \in 1..Len(pending) /\ (i - 1) + 1 = i
    BY <1>1, <1>2
  <2>2. pending'[i] = pending[i - 1]
    BY <1>2, <2>1
  <2> QED
    BY <2>1, <2>2 DEF Listed
<1>6. {n} \cup Listed(pending) \subseteq Listed(pending')
  <2>1. n \in Listed(pending')
    <3>1. 1 \in 1..Len(pending')
      BY <1>1, <1>2
    <3> QED
      BY <1>2, <3>1 DEF Listed
  <2>2. ASSUME NEW i \in 1..Len(pending) PROVE pending[i] \in Listed(pending')
    <3>1. i + 1 \in 1..Len(pending') /\ pending'[i + 1] = pending[i]
      BY <1>1, <1>2
    <3> QED
      BY <3>1 DEF Listed
  <2> QED
    BY <2>1, <2>2 DEF Listed
<1> QED
  BY <1>4, <1>5, <1>6

LEMMA PendingShrinks ==
  ASSUME PendingOK, Head(pending) # request.route, pending' = Tail(pending), request' = request
  PROVE  PendingOK' /\ Listed(pending') \subseteq Listed(pending)
<1> DEFINE S == DOMAIN Needs \cup {request.route}
<1>1. pending \in Seq(S) /\ Len(pending) \in Nat /\ Len(pending) >= 1
  BY DEF PendingOK
<1>2. Len(pending) # 1
  BY <1>1 DEF PendingOK
<1>3. /\ pending' \in Seq(S) /\ Len(pending') = Len(pending) - 1
      /\ \A i \in 1..Len(pending') : pending'[i] = pending[i + 1]
  <2> HIDE DEF S
  <2> QED
    BY <1>1, <1>2
<1>4. Len(pending') >= 1 /\ pending'[Len(pending')] = request.route
  BY <1>1, <1>2, <1>3 DEF PendingOK
<1>5. ASSUME NEW i \in 1..Len(pending') PROVE pending'[i] \in Listed(pending)
  <2>1. i + 1 \in 1..Len(pending)
    BY <1>1, <1>3
  <2> QED
    BY <1>3, <2>1 DEF Listed
<1>6. Listed(pending') \subseteq Listed(pending)
  BY <1>5 DEF Listed
<1> QED
  BY <1>3, <1>4, <1>6 DEF PendingOK

(* What bodies refuse, and what they build. *)
LEMMA RefusalIs ==
  ASSUME NEW d
  PROVE  /\ d = "get_token_validator" => Refusal(d) = 0 /\ Builds(d) = {}
         /\ d = "get_unit_of_work_factory" => Refusal(d) = 0
         /\ d = "authenticate_caller" =>
              /\ Refusal(d) = (IF Oidc /\ ~authenticate(request.token) THEN 401 ELSE 0)
              /\ Builds(d) = {}
         /\ d \in Checks =>
              Refusal(d) = (IF Oidc /\ ~authorize_all(request.permissions, Demanded[d])
                            THEN 403 ELSE 0)
         /\ d \in Principals => Refusal(d) = (IF Oidc THEN 0 ELSE 401)
         /\ d = "require_owner" /\ ~Oidc => Refusal(d) = 401
         /\ d \notin Checks \cup Principals \cup {"authenticate_caller", "require_owner"} =>
              Refusal(d) \notin {401, 403}
<1> USE DEF Refusal, GateRefusal, ResourceRefusal, ServiceRefusal
<1>1. d = "get_token_validator" => Refusal(d) = 0 /\ Builds(d) = {}
  BY PrincipalNames DEF Checks, Principals, Builds, HttpClients, OAuthNeeds
<1>2. d = "get_unit_of_work_factory" => Refusal(d) = 0
  BY PrincipalNames DEF Checks, Principals
<1>3. d = "authenticate_caller" =>
        /\ Refusal(d) = (IF Oidc /\ ~authenticate(request.token) THEN 401 ELSE 0)
        /\ Builds(d) = {}
  BY PrincipalNames DEF Checks, Principals, Builds, HttpClients, OAuthNeeds
<1>4. d \in Checks =>
        Refusal(d) = (IF Oidc /\ ~authorize_all(request.permissions, Demanded[d]) THEN 403 ELSE 0)
  BY PrincipalNames DEF Checks, Principals
<1>5. d \in Principals => Refusal(d) = (IF Oidc THEN 0 ELSE 401)
  BY PrincipalNames DEF Checks, Principals
<1>6. d = "require_owner" /\ ~Oidc => Refusal(d) = 401
  BY PrincipalNames DEF Checks, Principals
<1>7. ASSUME d \notin Checks \cup Principals \cup {"authenticate_caller", "require_owner"}
      PROVE  Refusal(d) \notin {401, 403}
  <2>1. GateRefusal(d) = 0
    BY <1>7 DEF Principals
  <2>2. ResourceRefusal(d) \in {0, 500, 503}
    OBVIOUS
  <2>3. ServiceRefusal(d) \in {0, 503}
    OBVIOUS
  <2> HIDE DEF GateRefusal, ResourceRefusal, ServiceRefusal
  <2> QED
    BY <2>1, <2>2, <2>3
<1> QED
  BY <1>1, <1>2, <1>3, <1>4, <1>5, <1>6, <1>7

(* What no step changes. *)
LEMMA RequestStays ==
  ASSUME UNCHANGED <<settings, request>>
  PROVE  /\ (Oidc' <=> Oidc) /\ (Authenticated' <=> Authenticated) /\ (Entitled' <=> Entitled)
         /\ \A d : (BeforeGate(d))' <=> BeforeGate(d)
         /\ SourcePermission(request.route)' = SourcePermission(request.route)
         /\ \A status : Refused(status)' = Refused(status)
<1>1. Oidc' <=> Oidc
  BY DEF Oidc
<1>2. Authenticated' <=> Authenticated
  BY <1>1 DEF Authenticated
<1>3. Entitled' <=> Entitled
  BY <1>2 DEF Entitled
<1>4. \A d : (BeforeGate(d))' <=> BeforeGate(d)
  BY DEF BeforeGate
<1>5. SourcePermission(request.route)' = SourcePermission(request.route)
  BY DEF SourcePermission
<1>6. \A status : Refused(status)' = Refused(status)
  BY DEF Refused, Parsed
<1> QED
  BY <1>1, <1>2, <1>3, <1>4, <1>5, <1>6

LEMMA DocumentedOutsideGuarded ==
  /\ Documented("get_me") = {} /\ Documented("admin_ping") = {}
  /\ Documented("analyze_communication") = {"analyze"}
BY RouteNames DEF Documented, Public

LEMMA NamesDiffer ==
  /\ Checks \cap Principals = {} /\ Authentication \cap (Checks \cup Principals) = {}
  /\ {"require_owner", "get_unit_of_work_factory", "get_communication_analysis_workflow_service"}
       \cap (Checks \cup Principals \cup Authentication) = {}
  /\ "require_communications_analyze" \in Checks
BY PrincipalNames DEF Checks, Authentication

(* Whatever is needed next before the gate is before the gate as well: the  *)
(* order of parameters puts everything else behind it.                      *)
LEMMA GateComesFirst ==
  ASSUME request.route \in DOMAIN Routes, request.route \notin Public,
         NEW d \in DOMAIN Needs \cup {request.route}, BeforeGate(d),
         resolved \cap (Principals \cup {"require_owner"}) = {},
         request.route = "analyze_communication" =>
           resolved \cap {"get_communication_analysis_workflow_service",
                          "require_communications_analyze"} = {},
         NEW n \in Listed(Parameters[d]),
         Len(Parameters[d]) >= 1 /\ Parameters[d][1] \notin resolved => n = Parameters[d][1]
  PROVE  \/ BeforeGate(n)
         \/ /\ n = "get_unit_of_work_factory" /\ "authenticate_caller" \in resolved
            /\ request.route \in {"get_me", "admin_ping"}
<1>1. CASE d = request.route
  <2>1. RouteWired(d, Parameters[d])
    BY <1>1, ParametersWired
  <2>2. CASE request.route \in Guarded
    <3>1. /\ Len(Parameters[d]) >= 1 /\ Parameters[d][1] \in Principals
          /\ DemandsOf(Parameters[d][1]) = Documented(d)
      BY <1>1, <2>1, <2>2 DEF RouteWired
    <3>2. n = Parameters[d][1]
      BY <3>1
    <3> QED
      BY <1>1, <2>2, <3>1, <3>2 DEF BeforeGate
  <2>3. CASE request.route = "get_me"
    <3>1. Parameters[d] = <<"authenticate_caller", "get_unit_of_work_factory">>
      BY <1>1, <2>1, <2>3 DEF RouteWired
    <3>2. n \in {"authenticate_caller", "get_unit_of_work_factory"}
      BY <3>1, ListedAre
    <3>3. Len(Parameters[d]) >= 1 /\ Parameters[d][1] = "authenticate_caller"
      BY <3>1
    <3> QED
      BY <2>3, <3>2, <3>3 DEF BeforeGate, Authentication
  <2>4. CASE request.route = "admin_ping"
    <3>1. n = "require_owner"
      BY <1>1, <2>1, <2>4, ListedAre DEF RouteWired
    <3> QED
      BY <2>4, <3>1 DEF BeforeGate
  <2>5. CASE request.route = "analyze_communication"
    <3>1. n = "get_communication_analysis_workflow_service"
      BY <1>1, <2>1, <2>5, ListedAre DEF RouteWired
    <3> QED
      BY <2>5, <3>1 DEF BeforeGate
  <2> QED
    BY <2>2, <2>3, <2>4, <2>5 DEF Guarded
<1>2. CASE d # request.route
  <2>1. Wired(d, Parameters[d])
    BY <1>2, ParametersWired
  <2>2. CASE d \in Authentication
    <3>1. CASE d = "authenticate_caller"
      <4>1. Parameters[d] = <<"get_token_validator">>
        BY <2>1, <3>1 DEF Wired
      <4> QED
        BY <4>1, ListedAre DEF BeforeGate, Authentication
    <3>2. CASE d = "get_token_validator"
      <4>1. Parameters[d] = <<>>
        BY <2>1, <3>2 DEF Wired
      <4> QED
        BY <4>1, ListedAre
    <3> QED
      BY <2>2, <3>1, <3>2 DEF Authentication
  <2>3. CASE d \in Checks
    <3>1. Parameters[d] = <<"authenticate_caller", "get_token_validator">>
      BY <2>1, <2>3 DEF Wired
    <3> QED
      BY <3>1, ListedAre DEF BeforeGate, Authentication
  <2>4. CASE request.route \in Guarded /\ d \in Principals /\ DemandsOf(d) = Documented(request.route)
    <3>1. PICK c \in Checks : Parameters[d] = <<c>> /\ DemandsOf(c) = DemandsOf(d)
      BY <2>1, <2>4 DEF Wired
    <3>2. n = c
      BY <3>1, ListedAre
    <3> QED
      BY <2>4, <3>1, <3>2 DEF BeforeGate
  <2>5. CASE request.route = "analyze_communication"
             /\ d = "get_communication_analysis_workflow_service"
    <3>1. Len(Parameters[d]) >= 1 /\ Parameters[d][1] = "require_communications_analyze"
      BY <2>1, <2>5 DEF Wired
    <3>2. n = "require_communications_analyze"
      BY <2>5, <3>1
    <3> QED
      BY <2>5, <3>2 DEF BeforeGate
  <2>6. CASE request.route = "admin_ping" /\ d = "require_owner"
    <3>1. Parameters[d] = <<"authenticate_caller", "get_unit_of_work_factory">>
      BY <2>1, <2>6 DEF Wired
    <3>2. n \in {"authenticate_caller", "get_unit_of_work_factory"}
      BY <3>1, ListedAre
    <3>3. Len(Parameters[d]) >= 1 /\ Parameters[d][1] = "authenticate_caller"
      BY <3>1
    <3> QED
      BY <2>6, <3>2, <3>3 DEF BeforeGate, Authentication
  <2> QED
    BY <1>2, <2>2, <2>3, <2>4, <2>5, <2>6, NamesDiffer DEF BeforeGate
<1> QED
  BY <1>1, <1>2

(* Where a descent leads. *)
LEMMA DescendTo ==
  ASSUME GateIInv, Descend
  PROVE  \E n \in Listed(Parameters[Head(pending)]) \ resolved :
           /\ n \in DOMAIN Needs /\ pending' = <<n>> \o pending
           /\ Len(Parameters[Head(pending)]) >= 1 /\ Parameters[Head(pending)][1] \notin resolved
                => n = Parameters[Head(pending)][1]
<1> DEFINE d == Head(pending)
           n == Parameters[d][FirstMissing(d)]
<1>1. d \in DOMAIN Needs \cup {request.route} /\ request.route \in DOMAIN Routes
  BY HeadIs DEF GateIInv
<1>2. Len(Parameters[d]) \in 0..5 /\ Listed(Parameters[d]) \subseteq DOMAIN Needs
  BY <1>1, ParametersWired DEF Wired, RouteWired
<1>3. FirstMissing(d) # 0 /\ pending' = <<n>> \o pending
  BY DEF Descend
<1> HIDE DEF d
<1>4. /\ n \in Listed(Parameters[d]) \ resolved
      /\ Len(Parameters[d]) >= 1 /\ Parameters[d][1] \notin resolved => n = Parameters[d][1]
  BY <1>2, <1>3, FirstMissingIs
<1> HIDE DEF n
<1> QED
  BY <1>2, <1>3, <1>4 DEF d

LEMMA DescendStep ==
  ASSUME GateIInv, Descend PROVE GateIInv'
<1> DEFINE d == Head(pending)
<1>1. PICK n \in Listed(Parameters[d]) \ resolved :
        /\ n \in DOMAIN Needs /\ pending' = <<n>> \o pending
        /\ Len(Parameters[d]) >= 1 /\ Parameters[d][1] \notin resolved => n = Parameters[d][1]
  BY DescendTo
<1>2. UNCHANGED <<settings, request, resolved, built, answer>> /\ answer = 0
  BY DEF Descend
<1>3. PendingOK /\ request.route \in DOMAIN Routes
  BY DEF GateIInv
<1>4. d \in Listed(pending) /\ d \in DOMAIN Needs \cup {request.route}
  BY <1>3, HeadIs
<1>5. PendingOK' /\ Listed(pending') = {n} \cup Listed(pending)
  BY <1>1, <1>2, <1>3, PendingGrows
<1> HIDE DEF d
<1>6. StopsUnentitled'
  <2> SUFFICES ASSUME Oidc', request'.route \notin Public, ~Entitled'
               PROVE  /\ \A e \in Listed(pending') : BeforeGate(e)'
                      /\ resolved' \subseteq {"get_token_validator"}
                           \cup {e \in {"authenticate_caller"} : Authenticated}'
                      /\ built' = {}
                      /\ (answer \in {0} \cup Refused(IF Authenticated THEN 403 ELSE 401))'
    BY DEF StopsUnentitled
  <2>1. Oidc /\ request.route \notin Public /\ ~Entitled
    BY <1>2, RequestStays
  <2>2. /\ \A e \in Listed(pending) : BeforeGate(e)
        /\ resolved \subseteq {"get_token_validator"} \cup {e \in {"authenticate_caller"} : Authenticated}
        /\ built = {}
    BY <2>1 DEF GateIInv, StopsUnentitled
  <2>3. BeforeGate(n)
    <3>1. /\ resolved \cap (Principals \cup {"require_owner"}) = {}
          /\ resolved \cap {"get_communication_analysis_workflow_service",
                            "require_communications_analyze"} = {}
      BY <2>2, NamesDiffer DEF Authentication
    <3>2. ASSUME "authenticate_caller" \in resolved
          PROVE  request.route \notin {"get_me", "admin_ping"}
      <4>1. Authenticated
        BY <2>2, <3>2
      <4> QED
        BY <2>1, <4>1, DocumentedOutsideGuarded DEF Entitled
    <3>3. BeforeGate(d)
      BY <1>4, <2>2
    <3> QED
      BY <1>1, <1>3, <1>4, <2>1, <3>1, <3>2, <3>3, GateComesFirst
  <2>4. \A e \in Listed(pending') : BeforeGate(e)
    BY <1>5, <2>2, <2>3
  <2> QED
    BY <1>2, <2>2, <2>4, RequestStays
<1>7. StopsEverybody'
  <2> SUFFICES ASSUME ~Oidc', request'.route \notin Public \cup {"analyze_communication"}
               PROVE  /\ \A e \in Listed(pending') :
                           BeforeGate(e)' \/ e = "get_unit_of_work_factory"
                      /\ resolved' \subseteq Authentication \cup Checks
                                               \cup {"get_unit_of_work_factory"}
                      /\ (answer \in {0} \cup Refused(401))'
    BY DEF StopsEverybody
  <2>1. ~Oidc /\ request.route \notin Public /\ request.route # "analyze_communication"
    BY <1>2, RequestStays
  <2>2. /\ \A e \in Listed(pending) : BeforeGate(e) \/ e = "get_unit_of_work_factory"
        /\ resolved \subseteq Authentication \cup Checks \cup {"get_unit_of_work_factory"}
    BY <2>1 DEF GateIInv, StopsEverybody
  <2>3. BeforeGate(n) \/ n = "get_unit_of_work_factory"
    <3>1. resolved \cap (Principals \cup {"require_owner"}) = {}
      BY <2>2, NamesDiffer
    <3>2. d # "get_unit_of_work_factory"
      <4> SUFFICES ASSUME d = "get_unit_of_work_factory" PROVE FALSE
        OBVIOUS
      <4>1. d \in DOMAIN Needs
        BY NamesInNeeds DEF ResourceNeeds
      <4>2. Parameters[d] = <<>>
        BY <4>1, ParametersWired DEF Wired
      <4> QED
        BY <1>1, <4>2, ListedAre
    <3>3. BeforeGate(d)
      BY <1>4, <2>2, <3>2
    <3> QED
      BY <1>1, <1>3, <1>4, <2>1, <3>1, <3>3, GateComesFirst
  <2>4. \A e \in Listed(pending') : BeforeGate(e) \/ e = "get_unit_of_work_factory"
    BY <1>5, <2>2, <2>3
  <2> QED
    BY <1>2, <2>2, <2>4, RequestStays
<1>8. PassesEntitled'
  <2> SUFFICES ASSUME Oidc', request'.route \notin Public \cup {"admin_ping"}, Entitled'
               PROVE  /\ \A e \in Listed(pending') :
                           \/ e = request.route
                           \/ /\ e \in DOMAIN Needs \ {"require_owner"}
                              /\ DemandsOf(e) \subseteq Documented(request.route)
                      /\ 0 \notin {401, 403} \ SourcePermission(request.route)
    BY <1>2, RequestStays DEF PassesEntitled
  <2>1. Oidc /\ request.route \notin Public /\ request.route # "admin_ping" /\ Entitled
    BY <1>2, RequestStays
  <2>2. \A e \in Listed(pending) :
          \/ e = request.route
          \/ /\ e \in DOMAIN Needs \ {"require_owner"}
             /\ DemandsOf(e) \subseteq Documented(request.route)
    BY <2>1 DEF GateIInv, PassesEntitled
  <2>3. n # "require_owner" /\ DemandsOf(n) \subseteq Documented(request.route)
    <3>1. CASE d = request.route
      <4>1. RouteWired(d, Parameters[d])
        BY <1>3, <3>1, ParametersWired
      <4> QED
        BY <1>1, <2>1, <3>1, <4>1 DEF RouteWired, DemandsOf
    <3>2. CASE d # request.route
      <4>1. Wired(d, Parameters[d]) /\ DemandsOf(d) \subseteq Documented(request.route)
        BY <1>4, <2>2, <3>2, ParametersWired
      <4> QED
        BY <1>1, <4>1 DEF Wired, DemandsOf
    <3> QED
      BY <3>1, <3>2
  <2> QED
    BY <1>1, <1>5, <2>2, <2>3
<1> QED
  BY <1>2, <1>3, <1>5, <1>6, <1>7, <1>8 DEF GateIInv

-----------------------------------------------------------------------------
(* Bodies *)

(* A body runs when all that it asks for is there. *)
LEMMA CalledDependency ==
  ASSUME GateIInv, CallDependency
  PROVE  /\ Head(pending) \in DOMAIN Needs /\ Head(pending) \in Listed(pending)
         /\ Head(pending) # request.route
         /\ Wired(Head(pending), Parameters[Head(pending)])
         /\ Listed(Parameters[Head(pending)]) \subseteq resolved
         /\ answer = 0
<1>1. Head(pending) \in DOMAIN Needs /\ FirstMissing(Head(pending)) = 0 /\ answer = 0
  BY DEF CallDependency
<1>2. Wired(Head(pending), Parameters[Head(pending)]) /\ Head(pending) # request.route
  BY <1>1, ParametersWired DEF GateIInv
<1>3. Head(pending) \in Listed(pending)
  BY HeadIs DEF GateIInv
<1>4. Len(Parameters[Head(pending)]) \in 0..5
  BY <1>2 DEF Wired
<1>5. Listed(Parameters[Head(pending)]) \subseteq resolved
  BY <1>1, <1>4, FirstMissingIs
<1> QED
  BY <1>1, <1>2, <1>3, <1>5

(* Of a caller that is not entitled, only authentication returns; the       *)
(* check of the route's permissions answers for the rest.                   *)
LEMMA UnentitledCall ==
  ASSUME GateIInv, CallDependency, Oidc, request.route \notin Public, ~Entitled,
         NEW d, d = Head(pending)
  PROVE  \/ d = "get_token_validator"
         \/ d = "authenticate_caller"
         \/ Authenticated /\ d # "require_owner" /\ Refusal(d) = 403
<1>1. /\ d \in DOMAIN Needs /\ d \in Listed(pending) /\ d # request.route
      /\ Wired(d, Parameters[d]) /\ Listed(Parameters[d]) \subseteq resolved
  BY CalledDependency
<1>2. /\ BeforeGate(d)
      /\ resolved \subseteq {"get_token_validator"} \cup {e \in {"authenticate_caller"} : Authenticated}
  BY <1>1 DEF GateIInv, StopsUnentitled
<1>3. CASE d \in Checks /\ DemandsOf(d) = Documented(request.route)
  <2>1. Parameters[d] = <<"authenticate_caller", "get_token_validator">>
    BY <1>1, <1>3 DEF Wired
  <2>2. "authenticate_caller" \in resolved
    BY <1>1, <2>1, ListedAre
  <2>3. Authenticated
    BY <1>2, <2>2
  <2>4. ~(Documented(request.route) \subseteq request.permissions)
    BY <2>3 DEF Entitled
  <2>5. Demanded[d] = Documented(request.route)
    BY <1>3, ChecksDemand
  <2>6. ~authorize_all(request.permissions, Demanded[d])
    BY <2>4, <2>5 DEF authorize_all, authorize
  <2> QED
    BY <1>3, <2>3, <2>6, RefusalIs, NamesDiffer
<1>4. CASE d \in Principals
  <2>1. PICK c \in Checks : Parameters[d] = <<c>>
    BY <1>1, <1>4 DEF Wired
  <2>2. c \in resolved
    BY <1>1, <2>1, ListedAre
  <2> QED
    BY <1>2, <2>1, <2>2, NamesDiffer DEF Authentication
<1>5. CASE d = "get_communication_analysis_workflow_service"
  <2>1. Len(Parameters[d]) \in Nat /\ Len(Parameters[d]) >= 1
        /\ Parameters[d][1] = "require_communications_analyze"
    BY <1>1, <1>5 DEF Wired
  <2>2. "require_communications_analyze" \in Listed(Parameters[d])
    BY <2>1 DEF Listed
  <2> QED
    BY <1>1, <1>2, <2>2
<1>6. CASE request.route = "admin_ping" /\ d = "require_owner"
  <2>1. Parameters[d] = <<"authenticate_caller", "get_unit_of_work_factory">>
    BY <1>1, <1>6 DEF Wired
  <2>2. "authenticate_caller" \in resolved
    BY <1>1, <2>1, ListedAre
  <2>3. Authenticated
    BY <1>2, <2>2
  <2> QED
    BY <1>6, <2>3, DocumentedOutsideGuarded DEF Entitled
<1>7. CASE request.route = "analyze_communication" /\ d = "require_communications_analyze"
  BY <1>3, <1>7, DocumentedOutsideGuarded, DemandsAre, NamesDiffer
<1> QED
  BY <1>1, <1>2, <1>3, <1>4, <1>5, <1>6, <1>7 DEF BeforeGate, Authentication

LEMMA CallDependencyStep ==
  ASSUME GateIInv, CallDependency PROVE GateIInv'
<1> DEFINE d == Head(pending)
<1>1. /\ d \in DOMAIN Needs /\ d \in Listed(pending) /\ d # request.route
      /\ Wired(d, Parameters[d]) /\ Listed(Parameters[d]) \subseteq resolved /\ answer = 0
  BY CalledDependency
<1>2. UNCHANGED <<settings, request>> /\ \A status : Refused(status) = {status}
  BY DEF CallDependency, Refused
<1>3. \/ Refusal(d) # 0 /\ Raise({Refusal(d)})
      \/ Refusal(d) = 0 /\ Return(d)
      \/ Refusal(d) = 0 /\ d = "require_owner" /\ Raise({403, 503})
  BY DEF CallDependency
<1>4. PendingOK
  BY DEF GateIInv
<1>5. PendingOK' /\ Listed(pending') \subseteq Listed(pending)
  <2>1. CASE pending' = pending
    BY <1>2, <1>4, <2>1 DEF PendingOK
  <2>2. CASE pending' = Tail(pending)
    BY <1>1, <1>2, <1>4, <2>2, PendingShrinks
  <2> QED
    BY <1>3, <2>1, <2>2 DEF Raise, Return
<1> HIDE DEF d
<1>6. StopsUnentitled'
  <2> SUFFICES ASSUME Oidc', request'.route \notin Public, ~Entitled'
               PROVE  /\ \A e \in Listed(pending') : BeforeGate(e)'
                      /\ resolved' \subseteq {"get_token_validator"}
                           \cup {e \in {"authenticate_caller"} : Authenticated}'
                      /\ built' = {}
                      /\ (answer \in {0} \cup Refused(IF Authenticated THEN 403 ELSE 401))'
    BY DEF StopsUnentitled
  <2>1. Oidc /\ request.route \notin Public /\ ~Entitled
    BY <1>2, RequestStays
  <2>2. /\ \A e \in Listed(pending) : BeforeGate(e)
        /\ resolved \subseteq {"get_token_validator"} \cup {e \in {"authenticate_caller"} : Authenticated}
        /\ built = {}
    BY <2>1 DEF GateIInv, StopsUnentitled
  <2>3. \A e \in Listed(pending') : BeforeGate(e)
    BY <1>5, <2>2
  <2>4. /\ resolved' \subseteq {"get_token_validator"} \cup {e \in {"authenticate_caller"} : Authenticated}
        /\ built' = {} /\ answer' \in {0, IF Authenticated THEN 403 ELSE 401}
    <3>1. CASE d = "get_token_validator"
      <4>1. Return(d) /\ Builds(d) = {}
        BY <1>3, <3>1, RefusalIs
      <4> QED
        BY <1>1, <2>2, <3>1, <4>1 DEF Return
    <3>2. CASE d = "authenticate_caller" /\ Authenticated
      <4>1. Refusal(d) = 0 /\ Builds(d) = {}
        BY <3>2, RefusalIs DEF Authenticated
      <4>2. Return(d)
        BY <1>3, <3>2, <4>1
      <4> QED
        BY <1>1, <2>2, <3>2, <4>1, <4>2 DEF Return
    <3>3. CASE d = "authenticate_caller" /\ ~Authenticated
      <4>1. Refusal(d) = 401
        BY <2>1, <3>3, RefusalIs DEF Authenticated
      <4>2. Raise({401})
        BY <1>3, <4>1
      <4> QED
        BY <2>2, <3>3, <4>2 DEF Raise
    <3>4. CASE Authenticated /\ d # "require_owner" /\ Refusal(d) = 403
      <4>1. Raise({403})
        BY <1>3, <3>4
      <4> QED
        BY <2>2, <3>4, <4>1 DEF Raise
    <3> QED
      BY <2>1, <3>1, <3>2, <3>3, <3>4, UnentitledCall DEF d
  <2> QED
    BY <1>2, <2>3, <2>4, RequestStays
<1>7. StopsEverybody'
  <2> SUFFICES ASSUME ~Oidc', request'.route \notin Public \cup {"analyze_communication"}
               PROVE  /\ \A e \in Listed(pending') :
                           BeforeGate(e)' \/ e = "get_unit_of_work_factory"
                      /\ resolved' \subseteq Authentication \cup Checks
                                               \cup {"get_unit_of_work_factory"}
                      /\ (answer \in {0} \cup Refused(401))'
    BY DEF StopsEverybody
  <2>1. ~Oidc /\ request.route \notin Public /\ request.route # "analyze_communication"
    BY <1>2, RequestStays
  <2>2. /\ \A e \in Listed(pending) : BeforeGate(e) \/ e = "get_unit_of_work_factory"
        /\ resolved \subseteq Authentication \cup Checks \cup {"get_unit_of_work_factory"}
    BY <2>1 DEF GateIInv, StopsEverybody
  <2>3. \A e \in Listed(pending') : BeforeGate(e) \/ e = "get_unit_of_work_factory"
    BY <1>5, <2>2
  <2>4. /\ resolved' \subseteq Authentication \cup Checks \cup {"get_unit_of_work_factory"}
        /\ answer' \in {0, 401}
    <3>1. CASE d \in Authentication \cup Checks \cup {"get_unit_of_work_factory"}
      <4>1. Refusal(d) = 0 /\ d # "require_owner"
        BY <2>1, <3>1, RefusalIs, NamesDiffer DEF Authentication
      <4>2. Return(d)
        BY <1>3, <4>1
      <4> QED
        BY <1>1, <2>2, <3>1, <4>2 DEF Return
    <3>2. CASE d \in Principals \cup {"require_owner"}
      <4>1. Refusal(d) = 401
        BY <2>1, <3>2, RefusalIs
      <4>2. Raise({401})
        BY <1>3, <4>1
      <4> QED
        BY <2>2, <4>2 DEF Raise
    <3> QED
      BY <1>1, <2>1, <2>2, <3>1, <3>2 DEF BeforeGate
  <2> QED
    BY <1>2, <2>3, <2>4, RequestStays
<1>8. PassesEntitled'
  <2> SUFFICES ASSUME Oidc', request'.route \notin Public \cup {"admin_ping"}, Entitled'
               PROVE  /\ \A e \in Listed(pending') :
                           \/ e = request.route
                           \/ /\ e \in DOMAIN Needs \ {"require_owner"}
                              /\ DemandsOf(e) \subseteq Documented(request.route)
                      /\ answer' \notin {401, 403} \ SourcePermission(request.route)
    BY <1>2, RequestStays DEF PassesEntitled
  <2>1. Oidc /\ request.route \notin Public /\ request.route # "admin_ping" /\ Entitled
    BY <1>2, RequestStays
  <2>2. \A e \in Listed(pending) :
          \/ e = request.route
          \/ /\ e \in DOMAIN Needs \ {"require_owner"}
             /\ DemandsOf(e) \subseteq Documented(request.route)
    BY <2>1 DEF GateIInv, PassesEntitled
  <2>3. \A e \in Listed(pending') :
          \/ e = request.route
          \/ /\ e \in DOMAIN Needs \ {"require_owner"}
             /\ DemandsOf(e) \subseteq Documented(request.route)
    BY <1>5, <2>2
  <2>4. d # "require_owner" /\ DemandsOf(d) \subseteq Documented(request.route)
    BY <1>1, <2>2
  <2>5. Refusal(d) \notin {401, 403}
    <3>1. CASE d = "authenticate_caller"
      BY <2>1, <3>1, RefusalIs DEF Entitled, Authenticated
    <3>2. CASE d \in Checks
      <4>1. Demanded[d] \subseteq request.permissions
        BY <2>1, <2>4, <3>2, ChecksDemand DEF Entitled
      <4>2. authorize_all(request.permissions, Demanded[d])
        BY <4>1 DEF authorize_all, authorize
      <4> QED
        BY <3>2, <4>2, RefusalIs
    <3>3. CASE d \in Principals
      BY <2>1, <3>3, RefusalIs
    <3> QED
      BY <2>4, <3>1, <3>2, <3>3, RefusalIs
  <2>6. answer' \in {0, Refusal(d)}
    BY <1>1, <1>3, <2>4 DEF Raise, Return
  <2> QED
    BY <2>3, <2>5, <2>6
<1> QED
  BY <1>2, <1>5, <1>6, <1>7, <1>8 DEF GateIInv

LEMMA CallHandlerStep ==
  ASSUME GateIInv, CallHandler PROVE GateIInv'
<1> DEFINE h == Head(pending)
<1>1. /\ h \in DOMAIN Routes /\ FirstMissing(h) = 0
      /\ answer' \in HandlerAnswers(h) \/ (answer' = 422 /\ request.body # "valid")
      /\ UNCHANGED <<settings, request, pending, resolved, built>>
      /\ \A status : Refused(status) = {status}
  BY DEF CallHandler, Raise, Refused
<1>2. h = request.route
  <2>1. h \in DOMAIN Needs \cup {request.route}
    BY HeadIs DEF GateIInv
  <2> QED
    BY <1>1, <2>1, ParametersWired
<1>3. RouteWired(h, Parameters[h])
  BY <1>1, ParametersWired
<1>4. Listed(Parameters[h]) \subseteq resolved
  <2>1. Len(Parameters[h]) \in 0..5
    BY <1>3 DEF RouteWired
  <2> QED
    BY <1>1, <2>1, FirstMissingIs
<1> HIDE DEF h
<1>5. /\ PendingOK' /\ settings' \in Deployments /\ request'.route \in DOMAIN Routes
      /\ request'.body # "valid" => request'.route \in BodyRoutes
  BY <1>1 DEF GateIInv, PendingOK
(* The handler of a guarded route runs after a principal. *)
<1>6. h \in Guarded => resolved \cap Principals # {}
  <2> SUFFICES ASSUME h \in Guarded PROVE resolved \cap Principals # {}
    OBVIOUS
  <2>1. Len(Parameters[h]) \in Nat /\ Len(Parameters[h]) >= 1 /\ Parameters[h][1] \in Principals
    BY <1>3 DEF RouteWired
  <2>2. Parameters[h][1] \in Listed(Parameters[h])
    BY <2>1 DEF Listed
  <2> QED
    BY <1>4, <2>1, <2>2
<1>7. h = "get_me" => "authenticate_caller" \in resolved
  BY <1>3, <1>4, ListedAre DEF RouteWired
<1>8. h = "admin_ping" => "require_owner" \in resolved
  BY <1>3, <1>4, ListedAre DEF RouteWired
<1>9. h = "analyze_communication" => "get_communication_analysis_workflow_service" \in resolved
  BY <1>3, <1>4, ListedAre DEF RouteWired
<1>10. h \in Guarded \cup Public \cup {"get_me", "admin_ping", "analyze_communication"}
  BY <1>1 DEF Guarded
<1>11. StopsUnentitled'
  <2> SUFFICES ASSUME Oidc', request'.route \notin Public, ~Entitled' PROVE FALSE
    BY DEF StopsUnentitled
  <2>1. Oidc /\ h \notin Public /\ ~Entitled
    BY <1>1, <1>2, RequestStays
  <2>2. resolved \subseteq {"get_token_validator"} \cup {e \in {"authenticate_caller"} : Authenticated}
    BY <1>2, <2>1 DEF GateIInv, StopsUnentitled
  <2>3. h = "get_me"
    BY <1>6, <1>8, <1>9, <1>10, <2>1, <2>2, NamesDiffer DEF Authentication
  <2>4. Authenticated
    BY <1>7, <2>2, <2>3
  <2> QED
    BY <1>2, <2>1, <2>3, <2>4, DocumentedOutsideGuarded DEF Entitled
<1>12. StopsEverybody'
  <2> SUFFICES ASSUME ~Oidc', request'.route \notin Public \cup {"analyze_communication"}
               PROVE  /\ \A e \in Listed(pending') :
                           BeforeGate(e)' \/ e = "get_unit_of_work_factory"
                      /\ resolved' \subseteq Authentication \cup Checks
                                               \cup {"get_unit_of_work_factory"}
                      /\ (answer \in {0} \cup Refused(401))'
    BY DEF StopsEverybody
  <2>1. ~Oidc /\ h \notin Public /\ h # "analyze_communication"
    BY <1>1, <1>2, RequestStays
  <2>2. /\ \A e \in Listed(pending) : BeforeGate(e) \/ e = "get_unit_of_work_factory"
        /\ resolved \subseteq Authentication \cup Checks \cup {"get_unit_of_work_factory"}
    BY <1>2, <2>1 DEF GateIInv, StopsEverybody
  <2>3. h = "get_me"
    BY <1>6, <1>8, <1>10, <2>1, <2>2, NamesDiffer
  <2>4. answer' = 401
    <3>1. request.body = "valid"
      BY <1>2, <2>3 DEF GateIInv, BodyRoutes
    <3> QED
      BY <1>1, <2>1, <2>3, <3>1 DEF HandlerAnswers
  <2> QED
    BY <1>1, <2>2, <2>4, RequestStays
<1>13. PassesEntitled'
  <2> SUFFICES ASSUME Oidc', request'.route \notin Public \cup {"admin_ping"}, Entitled'
               PROVE  /\ \A e \in Listed(pending) :
                           \/ e = request.route
                           \/ /\ e \in DOMAIN Needs \ {"require_owner"}
                              /\ DemandsOf(e) \subseteq Documented(request.route)
                      /\ answer' \notin {401, 403} \ SourcePermission(request.route)
    BY <1>1, RequestStays DEF PassesEntitled
  <2>1. Oidc /\ h \notin Public /\ h # "admin_ping" /\ Entitled
    BY <1>1, <1>2, RequestStays
  <2>2. \A e \in Listed(pending) :
          \/ e = request.route
          \/ /\ e \in DOMAIN Needs \ {"require_owner"}
             /\ DemandsOf(e) \subseteq Documented(request.route)
    BY <1>2, <2>1 DEF GateIInv, PassesEntitled
  <2>3. HandlerAnswers(h) \cap {401, 403} \subseteq SourcePermission(h)
    <3>1. CASE h = "get_me"
      BY <2>1, <3>1 DEF HandlerAnswers
    <3>2. CASE h # "get_me"
      <4>1. HandlerAnswers(h) = {200} \cup ApplicationErrors \cup SourcePermission(h)
        BY <2>1, <3>2 DEF HandlerAnswers, Public
      <4> QED
        BY <4>1 DEF ApplicationErrors
    <3> QED
      BY <3>1, <3>2
  <2> QED
    BY <1>1, <1>2, <2>2, <2>3
<1> QED
  BY <1>5, <1>11, <1>12, <1>13 DEF GateIInv

(* A body that cannot be parsed is refused before anything is resolved. *)
LEMMA RefuseBodyStep ==
  ASSUME GateIInv, RefuseBody PROVE GateIInv'
<1>1. /\ answer' \in {400, 422} /\ \A status : Refused(status) = {400, 422}
      /\ UNCHANGED <<settings, request, pending, resolved, built>>
  BY DEF RefuseBody, Raise, Refused, ParseErrors
<1>2. PendingOK' /\ settings' \in Deployments /\ request'.route \in DOMAIN Routes
  BY <1>1 DEF GateIInv, PendingOK
<1>3. StopsUnentitled'
  BY <1>1, RequestStays DEF GateIInv, StopsUnentitled
<1>4. StopsEverybody'
  BY <1>1, RequestStays DEF GateIInv, StopsEverybody
<1>5. PassesEntitled'
  BY <1>1, RequestStays DEF GateIInv, PassesEntitled
<1> QED
  BY <1>1, <1>2, <1>3, <1>4, <1>5 DEF GateIInv

(* Closing clients, or nothing at all. *)
LEMMA OtherGateSteps ==
  ASSUME GateIInv, UNCHANGED <<settings, request, pending, resolved, built, answer>>
  PROVE  GateIInv'
<1>1. PendingOK' /\ settings' \in Deployments /\ request'.route \in DOMAIN Routes
  BY DEF GateIInv, PendingOK
<1>2. StopsUnentitled'
  BY RequestStays DEF GateIInv, StopsUnentitled
<1>3. StopsEverybody'
  BY RequestStays DEF GateIInv, StopsEverybody
<1>4. PassesEntitled'
  BY RequestStays DEF GateIInv, PassesEntitled
<1> QED
  BY <1>1, <1>2, <1>3, <1>4 DEF GateIInv

LEMMA InitGate == Init => GateIInv
<1> SUFFICES ASSUME Init PROVE GateIInv
  OBVIOUS
<1>1. settings \in Deployments /\ request.route \in DOMAIN Routes /\ pending = <<request.route>>
  BY DEF Init
<1>2. /\ resolved = {} /\ built = {} /\ answer = 0
      /\ request.body # "valid" => request.route \in BodyRoutes
  BY DEF Init
<1>3. PendingOK
  BY <1>1 DEF PendingOK
<1>4. Listed(pending) = {request.route}
  BY <1>1, ListedAre
<1> QED
  BY <1>1, <1>2, <1>3, <1>4
     DEF GateIInv, StopsUnentitled, StopsEverybody, PassesEntitled, BeforeGate

(* Where a request may be in the resolution of its dependencies, by what the *)
(* caller is entitled to: dependencies.py puts the checks first.             *)
THEOREM GateInvariance == Spec => []GateIInv
<1>1. Init => GateIInv
  BY InitGate
<1>2. GateIInv /\ [Next]_vars => GateIInv'
  <2> SUFFICES ASSUME GateIInv, [Next]_vars PROVE GateIInv'
    OBVIOUS
  <2>1. CASE RefuseBody
    BY <2>1, RefuseBodyStep
  <2>2. CASE Descend
    BY <2>2, DescendStep
  <2>3. CASE CallDependency
    BY <2>3, CallDependencyStep
  <2>4. CASE CallHandler
    BY <2>4, CallHandlerStep
  <2>5. CASE CloseClients
    BY <2>5, OtherGateSteps DEF CloseClients
  <2>6. CASE UNCHANGED vars
    BY <2>6, OtherGateSteps DEF vars
  <2> QED
    BY <2>1, <2>2, <2>3, <2>4, <2>5, <2>6 DEF Next
<1> QED
  BY <1>1, <1>2, PTL DEF Spec

(* On every route that is not public, whatever the deployment and the       *)
(* claims of the token: a caller without the documented permissions is      *)
(* refused before any resource is built, by a status that its token alone   *)
(* decides unless its body cannot be parsed, which anybody is told first;   *)
(* an entitled caller is never refused for its permissions                  *)
(* (src/app/api/dependencies.py, src/app/api/routes/).                      *)
THEOREM RefusalComesFirst == Spec => []RefusedBeforeBuilt
<1>1. GateIInv => RefusedBeforeBuilt
  <2> SUFFICES ASSUME GateIInv, Oidc, request.route \notin Public
               PROVE  /\ ~Entitled =>
                           /\ built = {}
                           /\ answer \in {0} \cup Refused(IF Authenticated THEN 403 ELSE 401)
                      /\ Entitled /\ request.route # "admin_ping" =>
                           answer \notin {401, 403} \ SourcePermission(request.route)
    BY DEF RefusedBeforeBuilt
  <2>1. ~Entitled =>
          built = {} /\ answer \in {0} \cup Refused(IF Authenticated THEN 403 ELSE 401)
    BY DEF GateIInv, StopsUnentitled
  <2>2. Entitled /\ request.route # "admin_ping" =>
          answer \notin {401, 403} \ SourcePermission(request.route)
    BY DEF GateIInv, PassesEntitled
  <2> QED
    BY <2>1, <2>2
<1> QED
  BY <1>1, GateInvariance, PTL

(* What the validators of Settings let through in production. *)
LEMMA ProductionSettings ==
  ASSUME NEW d \in Deployments, d.app_env = "production"
  PROVE  /\ d.auth_mode = "oidc" /\ ~d.fake_scanner
         /\ d.gmail \/ d.microsoft => d.store = "durable"
<1>1. PICK s \in Accepted : d = Deployment(s)
  BY DEF Deployments
<1>2. /\ validate_auth_settings(s) /\ validate_attachment_scanner_backend(s)
  BY DEF Accepted
<1>3. /\ d.app_env = s.app_env /\ d.auth_mode = s.auth_mode
      /\ d.store = Store(s)
  BY <1>1 DEF Deployment
<1>4. d.auth_mode = "oidc"
  BY <1>2, <1>3 DEF validate_auth_settings
<1>5. ~d.fake_scanner
  <2>1. s.attachment_scanner_backend # "fake"
    BY <1>2, <1>3 DEF validate_attachment_scanner_backend
  <2>2. create_attachment_scanner(s) # "fake"
    BY <2>1 DEF create_attachment_scanner
  <2>3. d.fake_scanner = (create_attachment_scanner(s) = "fake")
    BY <1>1 DEF Deployment
  <2> QED
    BY <2>2, <2>3
<1>6. ASSUME d.gmail \/ d.microsoft PROVE d.store = "durable"
  <2>1. credential_store_ready(s)
    <3>1. d.gmail = gmail_oauth_connect_available(s)
          /\ d.microsoft = microsoft_oauth_connect_available(s)
      BY <1>1 DEF Deployment
    <3>2. gmail_oauth_connect_available(s) \/ microsoft_oauth_connect_available(s)
      BY <1>6, <3>1
    <3> QED
      BY <3>2 DEF gmail_oauth_connect_available, microsoft_oauth_connect_available
  <2>2. durable_oauth_store_is_configured(s)
    BY <1>3, <2>1 DEF credential_store_ready
  <2>3. s.credential_store_backend \in Durable
    BY <2>2 DEF durable_oauth_store_is_configured, Durable
  <2> QED
    BY <1>3, <2>3 DEF Store
<1> QED
  BY <1>4, <1>5, <1>6

(* Whatever settings are accepted: in production a protected route answers  *)
(* nothing but 401, or the error of a body that cannot be parsed, without a *)
(* valid token, credentials only go to a durable store and attachments      *)
(* never to the fake scanner; without authentication only direct-text       *)
(* analysis answers anything else (src/app/core/config.py,                  *)
(* src/app/api/dependencies.py).                                            *)
THEOREM ProductionStaysClosed == Spec => []ProductionIsClosed
<1>1. GateIInv => ProductionIsClosed
  <2> SUFFICES ASSUME GateIInv PROVE ProductionIsClosed
    OBVIOUS
  <2>1. ASSUME settings.app_env = "production"
        PROVE  /\ Oidc /\ ~settings.fake_scanner
               /\ settings.gmail \/ settings.microsoft => settings.store = "durable"
    BY <2>1, ProductionSettings DEF GateIInv, Oidc
  <2>2. ASSUME settings.app_env = "production", request.route \notin Public,
               answer \notin {0} \cup Refused(401)
        PROVE  Authenticated
    <3> SUFFICES ASSUME ~Authenticated PROVE FALSE
      OBVIOUS
    <3>1. answer \in {0} \cup Refused(401)
      BY <2>1, <2>2 DEF GateIInv, StopsUnentitled, Entitled
    <3> QED
      BY <2>2, <3>1
  <2>3. ~Oidc /\ request.route \notin Public \cup {"analyze_communication"} =>
          answer \in {0} \cup Refused(401)
    BY DEF GateIInv, StopsEverybody
  <2> QED
    BY <2>1, <2>2, <2>3 DEF ProductionIsClosed
<1> QED
  BY <1>1, GateInvariance, PTL
=============================================================================
