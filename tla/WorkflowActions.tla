---------------------------- MODULE WorkflowActions ----------------------------
(***************************************************************************)
(* Approval-gated workflow actions: creation, the human decision, and      *)
(* execution through a mailbox provider.                                   *)
(*                                                                         *)
(* Every HTTP request is a process: it reads rows in one statement, writes *)
(* them in a later conditional UPDATE, and other requests and other        *)
(* instances of the service run in between (PostgreSQL, READ COMMITTED).   *)
(* Execution is two transactions around an external call that no           *)
(* transaction covers.  A request can die at any point, its commit can be  *)
(* lost or be durable without the client learning of it, and the provider  *)
(* can answer late, never, or after the request stopped waiting.           *)
(*                                                                         *)
(* The reply text, the timestamps and the owner are not part of the state: *)
(* the text is copied once at approval and never written again, and every  *)
(* statement filters on the owner.                                         *)
(***************************************************************************)
EXTENDS Naturals, FiniteSets

CONSTANTS
  Actions,    \* workflow action ids
  Requests,   \* concurrent HTTP requests (worker threads of any instance)
  Accounts,   \* connector accounts of the owner
  Gmail,      \* those whose provider is Gmail; the others are Microsoft Graph
  NoTarget    \* the execution target of an action made from direct text

ASSUME AccountsAssumption == Gmail \subseteq Accounts /\ NoTarget \notin Accounts

VARIABLES
  status,     \* workflow_actions.status, "absent" before the INSERT
  target,     \* connector_account_id of the row's execution target, or NoTarget
  accStatus,  \* connector_accounts.status
  accSend,    \* whether the account's grants let it send mail
  pc,         \* where a request is in its handler
  job,        \* the action a request works on
  wire,       \* POSTs the provider has not processed yet
  delivered,  \* how many replies the provider sent for an action
  abandoned   \* actions whose executing request ended with no TX2

rowVars      == <<status, target>>
accountVars  == <<accStatus, accSend>>
requestVars  == <<pc, job>>
providerVars == <<wire, delivered>>
vars == <<rowVars, accountVars, requestVars, providerVars, abandoned>>

Statuses == {"absent", "pending", "approved", "rejected",
             "executing", "executed", "failed"}
AccountStatuses == {"active", "reauth_required", "disconnected"}

(* A request after TX1 committed EXECUTING and before TX2 ended. *)
ExecutionPoints == {"token", "prepare", "send", "waiting",
                    "accepted", "refused", "reauth"}
Points == {"idle", "approve", "reject", "load_account", "save_executing"}
            \cup ExecutionPoints

(* A send request as the provider sees it. *)
Posts == [action : Actions, by : Requests]

Init ==
  /\ status = [a \in Actions |-> "absent"]
  /\ target = [a \in Actions |-> NoTarget]
  /\ accStatus = [c \in Accounts |-> "active"]
  /\ accSend \in [Accounts -> BOOLEAN]
  /\ pc = [r \in Requests |-> "idle"]
  /\ job \in [Requests -> Actions]
  /\ wire = {}
  /\ delivered = [a \in Actions |-> 0]
  /\ abandoned = {}

Goto(r, point) == pc' = [pc EXCEPT ![r] = point]
SetStatus(a, s) == status' = [status EXCEPT ![a] = s]

(* A handler returns: the request's slot is free for the next one. *)
Return(r) == Goto(r, "idle") /\ UNCHANGED job

(* An execution that ends with no terminal record: HTTP 503 or a crash. *)
Abandon(r) == Return(r) /\ abandoned' = abandoned \cup {job[r]}

-----------------------------------------------------------------------------
(* Proposal and decision *)

(* WorkflowActionService.create: one transaction inserts a PENDING row with *)
(* the analysis' mailbox target, or none for a direct-text analysis.        *)
Create(a, t) ==
  /\ status[a] = "absent"
  /\ SetStatus(a, "pending")
  /\ target' = [target EXCEPT ![a] = t]
  /\ UNCHANGED <<accountVars, requestVars, providerVars, abandoned>>

(* _transition_pending reads the row; approve() and reject() raise unless   *)
(* it is PENDING.                                                           *)
ReadForDecision(r, a, decision) ==
  /\ pc[r] = "idle"
  /\ status[a] = "pending"
  /\ Goto(r, decision)
  /\ job' = [job EXCEPT ![r] = a]
  /\ UNCHANGED <<rowVars, accountVars, providerVars, abandoned>>

(* Mutant: the UPDATE forgets the status it was computed from. *)
SaveOwnedUnconditionally(a, expected, new) == SetStatus(a, new)

(* save_owned: an UPDATE that matches only the expected status. *)
SaveOwned(a, expected, new) ==
  /\ status[a] = expected
  /\ SetStatus(a, new)

SaveDecision(r) ==
  /\ \/ pc[r] = "approve" /\ SaveOwned(job[r], "pending", "approved")
     \/ pc[r] = "reject"  /\ SaveOwned(job[r], "pending", "rejected")
  /\ Return(r)
  /\ UNCHANGED <<target, accountVars, providerVars, abandoned>>

-----------------------------------------------------------------------------
(* Execution, first transaction *)

ReadForExecution(r, a) ==
  /\ pc[r] = "idle"
  /\ status[a] = "approved"
  /\ target[a] # NoTarget
  /\ Goto(r, "load_account")
  /\ job' = [job EXCEPT ![r] = a]
  /\ UNCHANGED <<rowVars, accountVars, providerVars, abandoned>>

(* _connector_account_is_usable *)
Usable(c) == accStatus[c] = "active" /\ accSend[c]

(* The account is read without a lock.  One that is not usable, or that the *)
(* executor factory cannot route (no locator, no resolver for it), ends the *)
(* request with WorkflowActionNotExecutableError; the row stays APPROVED.   *)
LoadAccount(r) ==
  /\ pc[r] = "load_account"
  /\ \/ Usable(target[job[r]]) /\ Goto(r, "save_executing") /\ UNCHANGED job
     \/ Return(r)
  /\ UNCHANGED <<rowVars, accountVars, providerVars, abandoned>>

(* TX1 commits.  The commit can be durable although the client sees an      *)
(* error: then the request answers 503 and never calls the executor.        *)
SaveExecuting(r) ==
  /\ pc[r] = "save_executing"
  /\ SaveOwned(job[r], "approved", "executing")
  /\ \/ Goto(r, "token") /\ UNCHANGED <<job, abandoned>>
     \/ Abandon(r)
  /\ UNCHANGED <<target, accountVars, providerVars>>

(* Mutant: an execution that lost the race waits for the row instead. *)
SaveConflictOfDecisions(r) ==
  /\ pc[r] \in {"approve", "reject"} /\ status[job[r]] # "pending"
  /\ Return(r)
  /\ UNCHANGED <<rowVars, accountVars, providerVars, abandoned>>

(* save_owned matched no row: another request moved it first (HTTP 409). *)
SaveConflict(r) ==
  /\ \/ pc[r] \in {"approve", "reject"} /\ status[job[r]] # "pending"
     \/ pc[r] = "save_executing" /\ status[job[r]] # "approved"
  /\ Return(r)
  /\ UNCHANGED <<rowVars, accountVars, providerVars, abandoned>>

-----------------------------------------------------------------------------
(* Execution, the provider call: no transaction is open *)

(* The access-token callable: a token, a confirmed permanent refusal of the *)
(* grant, or any other failure (ServiceUnavailableError, HTTP 503).         *)
AcquireToken(r) ==
  /\ pc[r] = "token"
  /\ \/ /\ Goto(r, IF target[job[r]] \in Gmail THEN "prepare" ELSE "send")
        /\ UNCHANGED <<job, abandoned>>
     \/ Goto(r, "reauth") /\ UNCHANGED <<job, abandoned>>
     \/ Abandon(r)
  /\ UNCHANGED <<rowVars, accountVars, providerVars>>

(* Gmail reads the profile and the original message before it sends: both   *)
(* succeed, one is definitely refused or unusable, or one is unavailable.   *)
PrepareReply(r) ==
  /\ pc[r] = "prepare"
  /\ \/ Goto(r, "send") /\ UNCHANGED <<job, abandoned>>
     \/ Goto(r, "refused") /\ UNCHANGED <<job, abandoned>>
     \/ Abandon(r)
  /\ UNCHANGED <<rowVars, accountVars, providerVars>>

(* Mutant: a transport that retries the POST. *)
PostReplyWithRetry(r) ==
  /\ pc[r] \in {"send", "waiting"}
  /\ wire' = wire \cup {[action |-> job[r], by |-> r]}
  /\ Goto(r, "waiting")
  /\ UNCHANGED <<job, delivered, rowVars, accountVars, abandoned>>

(* The one POST of the reply. *)
PostReply(r) ==
  /\ pc[r] = "send"
  /\ wire' = wire \cup {[action |-> job[r], by |-> r]}
  /\ Goto(r, "waiting")
  /\ UNCHANGED <<job, delivered, rowVars, accountVars, abandoned>>

(* The provider's answer to m reaches the request that still waits for it,  *)
(* or nobody: the request gave up, or the answer is lost or is a status     *)
(* the client does not take for an answer (408, 5xx, another 2xx).          *)
Answer(m, point) ==
  /\ \/ /\ pc[m.by] = "waiting" /\ job[m.by] = m.action
        /\ Goto(m.by, point)
     \/ UNCHANGED pc
  /\ UNCHANGED job

ProviderSends(m) ==
  /\ wire' = wire \ {m}
  /\ delivered' = [delivered EXCEPT ![m.action] = @ + 1]
  /\ Answer(m, "accepted")
  /\ UNCHANGED <<rowVars, accountVars, abandoned>>

ProviderRefuses(m) ==
  /\ wire' = wire \ {m}
  /\ Answer(m, "refused")
  /\ UNCHANGED <<delivered, rowVars, accountVars, abandoned>>

(* Mutants of a timeout: a definite failure, a chance to execute again, and *)
(* a client that waits for ever.                                            *)
StopWaitingAsFailed(r) ==
  /\ pc[r] = "waiting"
  /\ SetStatus(job[r], "failed")
  /\ Return(r)
  /\ UNCHANGED <<target, accountVars, providerVars, abandoned>>

StopWaitingAsApproved(r) ==
  /\ pc[r] = "waiting"
  /\ SetStatus(job[r], "approved")
  /\ Return(r)
  /\ UNCHANGED <<target, accountVars, providerVars, abandoned>>

StopWaitingNever(r) == FALSE /\ UNCHANGED vars

(* TimeoutException, RequestError, or a response of no definite meaning. *)
StopWaiting(r) ==
  /\ pc[r] = "waiting"
  /\ Abandon(r)
  /\ UNCHANGED <<rowVars, accountVars, providerVars>>

-----------------------------------------------------------------------------
(* Execution, second transaction *)

SaveTerminal(r) ==
  /\ \/ pc[r] = "accepted" /\ SaveOwned(job[r], "executing", "executed")
     \/ pc[r] = "refused"  /\ SaveOwned(job[r], "executing", "failed")
  /\ Return(r)
  /\ UNCHANGED <<target, accountVars, providerVars, abandoned>>

(* mark_reauth_required_owned: only an ACTIVE row matches the UPDATE. *)
MarkReauthRequired(c) ==
  accStatus' = IF accStatus[c] = "active"
                 THEN [accStatus EXCEPT ![c] = "reauth_required"]
                 ELSE accStatus

(* The account and the action change in one commit. *)
SaveReauthFailure(r) ==
  /\ pc[r] = "reauth"
  /\ MarkReauthRequired(target[job[r]])
  /\ SaveOwned(job[r], "executing", "failed")
  /\ Return(r)
  /\ UNCHANGED <<target, accSend, providerVars, abandoned>>

(* The process dies, or a statement or commit fails and rolls back.  What   *)
(* the request had in memory is gone; after TX1 the action is abandoned.    *)
GiveUp(r) ==
  /\ pc[r] # "idle"
  /\ IF pc[r] \in ExecutionPoints THEN Abandon(r)
                                  ELSE Return(r) /\ UNCHANGED abandoned
  /\ UNCHANGED <<rowVars, accountVars, providerVars>>

-----------------------------------------------------------------------------
(* The account's own lifecycle, which nothing here waits for *)

DisconnectAccount(c) ==
  /\ accStatus' = [accStatus EXCEPT ![c] = "disconnected"]
  /\ accSend' = [accSend EXCEPT ![c] = TRUE]  \* grants become NULL
  /\ UNCHANGED <<rowVars, requestVars, providerVars, abandoned>>

(* A completed consent, which may or may not include mail.send. *)
ReactivateAccount(c, send) ==
  /\ accStatus[c] \in {"disconnected", "reauth_required"}
  /\ accStatus' = [accStatus EXCEPT ![c] = "active"]
  /\ accSend' = [accSend EXCEPT ![c] = send]
  /\ UNCHANGED <<rowVars, requestVars, providerVars, abandoned>>

(* A mailbox listing or analysis saw a permanent refresh failure. *)
ReauthFromMailboxRead(c) ==
  /\ accStatus[c] = "active"
  /\ MarkReauthRequired(c)
  /\ UNCHANGED <<accSend, rowVars, requestVars, providerVars, abandoned>>

-----------------------------------------------------------------------------
RequestStep(r) ==
  \/ SaveDecision(r) \/ LoadAccount(r) \/ SaveExecuting(r) \/ SaveConflict(r)
  \/ AcquireToken(r) \/ PrepareReply(r) \/ PostReply(r) \/ StopWaiting(r)
  \/ SaveTerminal(r) \/ SaveReauthFailure(r)

Next ==
  \/ \E a \in Actions, t \in Accounts \cup {NoTarget} : Create(a, t)
  \/ \E r \in Requests, a \in Actions :
       \/ ReadForDecision(r, a, "approve")
       \/ ReadForDecision(r, a, "reject")
       \/ ReadForExecution(r, a)
  \/ \E r \in Requests : RequestStep(r) \/ GiveUp(r)
  \/ \E m \in wire : ProviderSends(m) \/ ProviderRefuses(m)
  \/ \E c \in Accounts :
       \/ DisconnectAccount(c)
       \/ \E send \in BOOLEAN : ReactivateAccount(c, send)
       \/ ReauthFromMailboxRead(c)

Spec == Init /\ [][Next]_vars

(* A running handler goes on: every statement, token call and HTTP call it  *)
(* makes has a timeout.  Nothing is promised about users, the provider or   *)
(* crashes.                                                                 *)
Fairness == \A r \in Requests : WF_vars(RequestStep(r))
FairSpec == Spec /\ Fairness

-----------------------------------------------------------------------------
(* Properties *)

TypeOK ==
  /\ status \in [Actions -> Statuses]
  /\ target \in [Actions -> Accounts \cup {NoTarget}]
  /\ accStatus \in [Accounts -> AccountStatuses]
  /\ accSend \in [Accounts -> BOOLEAN]
  /\ pc \in [Requests -> Points]
  /\ job \in [Requests -> Actions]
  /\ wire \in SUBSET Posts
  /\ delivered \in [Actions -> Nat]
  /\ abandoned \in SUBSET Actions

Executes(r, a) == pc[r] \in ExecutionPoints /\ job[r] = a
OnWire(a) == \E m \in wire : m.action = a

(* At any time at most one request is between TX1 and TX2 of an action, the *)
(* row says EXECUTING for as long as it is, and an execution that was given *)
(* up is never taken over by another request (no retry of an uncertain one).*)
ExecutionIsExclusive ==
  \A a \in Actions :
    /\ \A r, q \in Requests : Executes(r, a) /\ Executes(q, a) => r = q
    /\ (\E r \in Requests : Executes(r, a)) => status[a] = "executing"
    /\ a \in abandoned =>
         status[a] = "executing" /\ \A r \in Requests : ~Executes(r, a)

(* EXECUTED and FAILED are facts about the provider, not about the client's *)
(* luck: an executed action was sent exactly once, a failed one was not     *)
(* sent, and in neither case is a copy still on its way.                    *)
OutcomeIsTruthful ==
  \A a \in Actions :
    /\ status[a] = "executed" => delivered[a] = 1 /\ ~OnWire(a)
    /\ status[a] = "failed"   => delivered[a] = 0 /\ ~OnWire(a)

(* Nothing leaves for the provider before EXECUTING is durable, so never    *)
(* for an action nobody approved; and no action is ever sent twice, however *)
(* many requests execute it, die or time out.                               *)
SentOnceAndOnlyAfterApproval ==
  \A a \in Actions :
    /\ delivered[a] <= 1
    /\ delivered[a] > 0 \/ OnWire(a) => status[a] \in {"executing", "executed", "failed"}

(* The status machine of the domain model, over every interleaving: a       *)
(* decision is never overturned and a terminal status is never left.        *)
AllowedTransitions ==
  {<<"absent", "pending">>, <<"pending", "approved">>, <<"pending", "rejected">>,
   <<"approved", "executing">>, <<"executing", "executed">>, <<"executing", "failed">>}

StatusFollowsLifecycle ==
  [][\A a \in Actions : status'[a] # status[a]
                          => <<status[a], status'[a]>> \in AllowedTransitions]_status

(* The detailed system implements the abstract promise; requests, accounts  *)
(* and the wire are hidden.                                                 *)
Promise == INSTANCE ApprovedDelivery WITH Actions <- Actions, status <- status, delivered <- delivered
KeepsPromise == Promise!Spec

(* Every EXECUTING action is settled by its request, unless that request    *)
(* gave it up: a lost commit, a crash, or an outcome it could not know.     *)
ExecutionSettles ==
  \A a \in Actions :
    status[a] = "executing" ~> status[a] \in {"executed", "failed"} \/ a \in abandoned

(* No handler hangs: whatever other requests do to the row it read, a       *)
(* request returns.                                                         *)
RequestsReturn ==
  \A r \in Requests : pc[r] # "idle" ~> pc[r] = "idle"

-----------------------------------------------------------------------------
(* The inductive invariant behind the safety properties *)

NothingSent(a) == delivered[a] = 0 /\ ~OnWire(a)

(* A copy on the wire is the only one there ever was. *)
OneCopy ==
  /\ \A m \in wire : delivered[m.action] = 0 /\ status[m.action] = "executing"
  /\ \A m, n \in wire : m.action = n.action => m = n
  /\ \A a \in Actions : delivered[a] \in {0, 1}

(* What a request may conclude from where it is. *)
PointsAgree ==
  \A r \in Requests :
    /\ pc[r] \in {"token", "prepare", "send", "refused", "reauth"} => NothingSent(job[r])
    /\ pc[r] = "accepted" => delivered[job[r]] = 1 /\ ~OnWire(job[r])
    /\ pc[r] = "waiting" => \A m \in wire : m.action = job[r] => m.by = r

BeforeExecution ==
  \A a \in Actions :
    status[a] \in {"absent", "pending", "approved", "rejected"} => NothingSent(a)

IInv ==
  /\ TypeOK
  /\ ExecutionIsExclusive
  /\ OutcomeIsTruthful
  /\ OneCopy
  /\ PointsAgree
  /\ BeforeExecution
=============================================================================
