-------------------------------- MODULE MCParts --------------------------------
(***************************************************************************)
(* Parts of the system that share no state, each in a small instance and   *)
(* all in one run: an execution is about one part, and leaves the          *)
(* variables of the others as they were initially.                         *)
(***************************************************************************)
EXTENDS BusinessContexts, Identities, MailboxOAuth, MCWorkbook, ContextTimeline

CONSTANTS c1, c2, t1, g1, g2, e1, l1, l2, x1,     \* contexts
          iss1, iss2, r1, r2, r3, o1,             \* identities
          p1, h1, h2, k1, k2, n1,                 \* tokens
          d1, d2, msa, u1, openid, send           \* consents

VARIABLE part      \* the part that the execution is about

(* Those of CredentialTokens. *)
VARIABLES backend, secret, origin, issued, advisory, slipped, entry, users, holder, cache,
          pc, loc, lock, seen, attempt

Parts == {"contexts", "workbook", "identities", "tokens", "consent", "timeline"}

-----------------------------------------------------------------------------
(* Instances *)

(* Two threads of one process, one of which also deletes. *)
Tokens == INSTANCE CredentialTokens WITH
  Processes <- {p1}, Threads <- {h1, h2}, Home <- [h \in {h1, h2} |-> p1], Deleters <- {h2},
  Locators <- {n1}, Locks <- {k1, k2}, MaxVersion <- 2

-----------------------------------------------------------------------------
tokenVars == <<backend, secret, origin, issued, advisory, slipped, entry, users, holder, cache,
               pc, loc, lock, seen, attempt>>

PartsInit ==
  /\ part \in Parts
  /\ ContextInit
  /\ Tokens!Init /\ (part # "tokens" => backend = "azure_key_vault")
  /\ Init /\ (part # "workbook" => book = <<>>)
  /\ PeopleInit
  /\ part # "identities" =>
       /\ \A r \in Callers : caller[r].principal = CHOOSE p \in Principals : TRUE
       /\ \A o \in Operators : operator[o].target = CHOOSE u \in Callers : TRUE
  /\ OAuthInit /\ (part # "consent" => config = "gmail")
  /\ TimelineInit

(* What the other parts are left with. *)
Others(mine) ==
  /\ UNCHANGED part
  /\ mine # "contexts"   => UNCHANGED <<contextVars, linkVars>>
  /\ mine # "workbook"   => UNCHANGED vars
  /\ mine # "identities" => UNCHANGED peopleVars
  /\ mine # "tokens"     => UNCHANGED tokenVars
  /\ mine # "consent"    => UNCHANGED oauthVars
  /\ mine # "timeline"   => UNCHANGED timelineVars

ContextsStep == part = "contexts" /\ ContextNext /\ Others("contexts")
WorkbookStep == part = "workbook" /\ Next /\ Others("workbook")
PeopleStep == part = "identities" /\ PeopleNext /\ Others("identities")
TokenStep == part = "tokens" /\ Tokens!Next /\ Others("tokens")
ConsentStep == part = "consent" /\ OAuthNext /\ Others("consent")
TimelineStep == part = "timeline" /\ TimelineNext /\ Others("timeline")

PartsNext ==
  \/ ContextsStep \/ WorkbookStep \/ PeopleStep \/ TokenStep \/ ConsentStep \/ TimelineStep

allVars == <<part, contextVars, linkVars, vars, peopleVars, tokenVars, oauthVars, timelineVars>>

PartsSpec == PartsInit /\ [][PartsNext]_allVars

(* The fairness of the part that has a liveness property. *)
PartsFairSpec == PartsSpec /\ Tokens!Fairness

-----------------------------------------------------------------------------
(* credentials/oauth.py: threads never wait for one another forever. *)
CallsReturn == part = "tokens" => Tokens!CallsReturn
=============================================================================
