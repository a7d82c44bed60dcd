------------------------ MODULE WorkflowActions_proofs ------------------------
(***************************************************************************)
(* Machine-checked facts about WorkflowActions, for any sets of actions,   *)
(* requests and accounts: typing, the inductive invariant IInv, the safety *)
(* properties it implies, and the implementation of ApprovedDelivery.      *)
(***************************************************************************)
EXTENDS WorkflowActions, TLAPS

(* Every variable keeps its type, whatever request runs next. *)
LEMMA Typing == TypeOK /\ [Next]_vars => TypeOK'
<1> SUFFICES ASSUME TypeOK, [Next]_vars PROVE TypeOK'
  OBVIOUS
<1> USE DEF TypeOK, Statuses, AccountStatuses, Points, ExecutionPoints, Posts,
            rowVars, accountVars, requestVars, providerVars,
            Goto, Return, Abandon, SetStatus, SaveOwned
<1>1. ASSUME NEW a \in Actions, NEW t \in Accounts \cup {NoTarget}, Create(a, t)
      PROVE  TypeOK'
  BY <1>1 DEF Create
<1>2. ASSUME NEW r \in Requests, NEW a \in Actions,
             \/ ReadForDecision(r, a, "approve")
             \/ ReadForDecision(r, a, "reject")
             \/ ReadForExecution(r, a)
      PROVE  TypeOK'
  BY <1>2 DEF ReadForDecision, ReadForExecution
<1>3. ASSUME NEW r \in Requests, RequestStep(r) PROVE TypeOK'
  <2>1. CASE SaveDecision(r)
    BY <2>1 DEF SaveDecision
  <2>2. CASE LoadAccount(r) \/ SaveConflict(r)
    BY <2>2 DEF LoadAccount, SaveConflict
  <2>3. CASE SaveExecuting(r)
    BY <2>3 DEF SaveExecuting
  <2>4. CASE AcquireToken(r)
    BY <2>4 DEF AcquireToken
  <2>5. CASE PrepareReply(r) \/ StopWaiting(r)
    BY <2>5 DEF PrepareReply, StopWaiting
  <2>6. CASE PostReply(r)
    BY <2>6 DEF PostReply
  <2>7. CASE SaveTerminal(r)
    BY <2>7 DEF SaveTerminal
  <2>8. CASE SaveReauthFailure(r)
    BY <2>8 DEF SaveReauthFailure, MarkReauthRequired
  <2>9. QED
    BY <1>3, <2>1, <2>2, <2>3, <2>4, <2>5, <2>6, <2>7, <2>8 DEF RequestStep
<1>4. ASSUME NEW r \in Requests, GiveUp(r) PROVE TypeOK'
  BY <1>4 DEF GiveUp
<1>5. ASSUME NEW m \in wire, ProviderSends(m) \/ ProviderRefuses(m) PROVE TypeOK'
  BY <1>5 DEF ProviderSends, ProviderRefuses, Answer
<1>6. ASSUME NEW c \in Accounts,
             \/ DisconnectAccount(c)
             \/ \E send \in BOOLEAN : ReactivateAccount(c, send)
             \/ ReauthFromMailboxRead(c)
      PROVE  TypeOK'
  BY <1>6 DEF DisconnectAccount, ReactivateAccount, ReauthFromMailboxRead, MarkReauthRequired
<1>7. CASE UNCHANGED vars
  BY <1>7 DEF vars
<1>8. QED
  BY <1>1, <1>2, <1>3, <1>4, <1>5, <1>6, <1>7 DEF Next

(* Reading, losing a race and giving up move a request only outside of the *)
(* execution points, or out of them.                                       *)
LEMMA InvReads ==
  ASSUME IInv, TypeOK', NEW r \in Requests,
         \/ \E a \in Actions : \/ ReadForDecision(r, a, "approve")
                               \/ ReadForDecision(r, a, "reject")
                               \/ ReadForExecution(r, a)
         \/ LoadAccount(r)
         \/ SaveConflict(r)
  PROVE  IInv'
<1> USE DEF IInv, TypeOK, ExecutionPoints, Points, rowVars, accountVars, requestVars, providerVars,
            ReadForDecision, ReadForExecution, LoadAccount, SaveConflict, Goto, Return
<1>1. status' = status /\ wire' = wire /\ delivered' = delivered /\ abandoned' = abandoned
  OBVIOUS
<1>2. \A q \in Requests : pc'[q] \in ExecutionPoints => pc'[q] = pc[q] /\ job'[q] = job[q]
  OBVIOUS
<1>3. ExecutionIsExclusive'
  BY <1>1, <1>2 DEF ExecutionIsExclusive, Executes
<1>4. OutcomeIsTruthful' /\ OneCopy' /\ BeforeExecution'
  BY <1>1 DEF OutcomeIsTruthful, OneCopy, BeforeExecution, NothingSent, OnWire
<1>5. PointsAgree'
  BY <1>1, <1>2 DEF PointsAgree, NothingSent, OnWire
<1>6. QED
  BY <1>3, <1>4, <1>5
(* Creation and decisions change a row no request is executing, because it *)
(* is not EXECUTING.                                                       *)
LEMMA InvDecides ==
  ASSUME IInv, TypeOK',
         \/ \E a \in Actions, t \in Accounts \cup {NoTarget} : Create(a, t)
         \/ \E r \in Requests : SaveDecision(r)
  PROVE  IInv'
<1> USE DEF IInv, TypeOK, rowVars, accountVars, requestVars, providerVars
<1>1. PICK a \in Actions :
        /\ status[a] \in {"absent", "pending"}
        /\ status'[a] \in {"pending", "approved", "rejected"}
        /\ \A b \in Actions \ {a} : status'[b] = status[b]
  BY DEF Create, SaveDecision, SaveOwned, SetStatus
<1>2. wire' = wire /\ delivered' = delivered /\ abandoned' = abandoned
  BY DEF Create, SaveDecision
<1>3. \A q \in Requests : pc'[q] \in ExecutionPoints => pc'[q] = pc[q] /\ job'[q] = job[q]
  BY DEF Create, SaveDecision, Return, Goto, ExecutionPoints
<1>4. ExecutionIsExclusive'
  BY <1>1, <1>2, <1>3 DEF ExecutionIsExclusive, Executes
<1>5. OutcomeIsTruthful' /\ OneCopy' /\ BeforeExecution'
  BY <1>1, <1>2 DEF OutcomeIsTruthful, OneCopy, BeforeExecution, NothingSent, OnWire, Posts
<1>6. PointsAgree'
  BY <1>2, <1>3 DEF PointsAgree, NothingSent, OnWire, ExecutionPoints
<1>7. QED
  BY <1>4, <1>5, <1>6

(* TX1: the row was APPROVED, so nobody executes the action and nothing was *)
(* sent for it.                                                             *)
LEMMA InvBegins ==
  ASSUME IInv, TypeOK', NEW r \in Requests, SaveExecuting(r)
  PROVE  IInv'
<1> DEFINE a == job[r]
<1> USE DEF IInv, TypeOK, rowVars, accountVars, requestVars, providerVars
<1>1. /\ a \in Actions
      /\ status[a] = "approved"
      /\ status' = [status EXCEPT ![a] = "executing"]
      /\ wire' = wire /\ delivered' = delivered /\ job' = job
      /\ \/ pc' = [pc EXCEPT ![r] = "token"] /\ abandoned' = abandoned
         \/ pc' = [pc EXCEPT ![r] = "idle"] /\ abandoned' = abandoned \cup {a}
  BY DEF SaveExecuting, SaveOwned, SetStatus, Goto, Abandon, Return
<1>2. \A q \in Requests : ~Executes(q, a)
  BY <1>1 DEF ExecutionIsExclusive
<1>3. NothingSent(a) /\ a \notin abandoned
  BY <1>1 DEF BeforeExecution, ExecutionIsExclusive
<1>4. ExecutionIsExclusive'
  BY <1>1, <1>2, <1>3 DEF ExecutionIsExclusive, Executes, ExecutionPoints
<1>5. OutcomeIsTruthful' /\ OneCopy' /\ BeforeExecution'
  BY <1>1, <1>3 DEF OutcomeIsTruthful, OneCopy, BeforeExecution, NothingSent, OnWire, Posts
<1>6. PointsAgree'
  BY <1>1, <1>3 DEF PointsAgree, NothingSent, OnWire
<1>7. QED
  BY <1>4, <1>5, <1>6

(* The call: the request that executes the action goes on or lets go of it; *)
(* only PostReply touches the wire, and then nothing was sent before.       *)
LEMMA InvCalls ==
  ASSUME IInv, TypeOK', NEW r \in Requests,
         AcquireToken(r) \/ PrepareReply(r) \/ PostReply(r) \/ StopWaiting(r) \/ GiveUp(r)
  PROVE  IInv'
<1> USE DEF IInv, TypeOK, rowVars, accountVars, requestVars, providerVars
<1>1. status' = status /\ delivered' = delivered /\ job' = job
  BY DEF AcquireToken, PrepareReply, PostReply, StopWaiting, GiveUp, Abandon, Return
<1>2. \A q \in Requests \ {r} : pc'[q] = pc[q]
  BY DEF AcquireToken, PrepareReply, PostReply, StopWaiting, GiveUp, Abandon, Return, Goto
<1>3. \/ pc'[r] \in ExecutionPoints /\ pc[r] \in ExecutionPoints /\ abandoned' = abandoned
      \/ pc'[r] = "idle" /\ pc[r] \in ExecutionPoints /\ abandoned' = abandoned \cup {job[r]}
      \/ pc'[r] = "idle" /\ pc[r] \notin ExecutionPoints /\ abandoned' = abandoned
  BY DEF AcquireToken, PrepareReply, PostReply, StopWaiting, GiveUp, Abandon, Return, Goto,
         ExecutionPoints
<1>4. ExecutionIsExclusive'
  BY <1>1, <1>2, <1>3 DEF ExecutionIsExclusive, Executes, ExecutionPoints
<1>5. CASE wire' = wire
  <2>1. OutcomeIsTruthful' /\ OneCopy' /\ BeforeExecution'
    BY <1>1, <1>5 DEF OutcomeIsTruthful, OneCopy, BeforeExecution, NothingSent, OnWire
  <2>2. pc'[r] = "idle" \/ (pc'[r] \in {"prepare", "send", "refused", "reauth"}
                            /\ pc[r] \in {"token", "prepare"}) \/ PostReply(r)
    BY DEF AcquireToken, PrepareReply, StopWaiting, GiveUp, Abandon, Return, Goto
  <2>3. PostReply(r) => pc'[r] = "waiting" /\ NothingSent(job[r])
    BY DEF PostReply, Goto, PointsAgree
  <2>4. PointsAgree'
    BY <1>1, <1>2, <1>5, <2>2, <2>3 DEF PointsAgree, NothingSent, OnWire
  <2>5. QED
    BY <1>4, <2>1, <2>4
<1>6. CASE PostReply(r)
  <2> DEFINE a == job[r]
  <2>1. /\ pc[r] = "send" /\ pc' = [pc EXCEPT ![r] = "waiting"]
        /\ wire' = wire \cup {[action |-> a, by |-> r]}
        /\ a \in Actions
    BY <1>6 DEF PostReply, Goto
  <2>2. NothingSent(a) /\ status[a] = "executing"
    BY <2>1 DEF PointsAgree, ExecutionIsExclusive, Executes, ExecutionPoints
  <2>3. \A q \in Requests : Executes(q, a) => q = r
    BY <2>1 DEF ExecutionIsExclusive, Executes, ExecutionPoints
  <2>4. OutcomeIsTruthful' /\ BeforeExecution'
    BY <1>1, <2>1, <2>2 DEF OutcomeIsTruthful, BeforeExecution, NothingSent, OnWire
  <2>5. OneCopy'
    BY <1>1, <2>1, <2>2 DEF OneCopy, NothingSent, OnWire
  <2>6. PointsAgree'
    BY <1>1, <2>1, <2>2, <2>3 DEF PointsAgree, NothingSent, OnWire, Executes, ExecutionPoints
  <2>7. QED
    BY <1>4, <2>4, <2>5, <2>6
<1>7. QED
  BY <1>5, <1>6 DEF AcquireToken, PrepareReply, StopWaiting, GiveUp
(* The provider handles the only copy there is; the request that waits for *)
(* the answer, if any, is the one that posted it.                          *)
LEMMA InvProvider ==
  ASSUME IInv, TypeOK', NEW m \in wire, ProviderSends(m) \/ ProviderRefuses(m)
  PROVE  IInv'
<1> DEFINE a == m.action
<1> USE DEF IInv, TypeOK, rowVars, accountVars, requestVars, providerVars
<1>1. /\ a \in Actions /\ m.by \in Requests
      /\ status[a] = "executing" /\ delivered[a] = 0
      /\ \A n \in wire : n.action = a => n = m
  BY DEF Posts, OneCopy
<1>2. /\ status' = status /\ abandoned' = abandoned /\ job' = job
      /\ wire' = wire \ {m}
      /\ \A b \in Actions \ {a} : delivered'[b] = delivered[b]
  BY <1>1 DEF ProviderSends, ProviderRefuses, Answer
<1>3. /\ ~OnWire(a)'
      /\ \A b \in Actions \ {a} : OnWire(b)' => OnWire(b)
  BY <1>1, <1>2 DEF OnWire
<1>4. /\ delivered'[a] \in {0, 1}
      /\ ProviderRefuses(m) => delivered' = delivered
      /\ ProviderSends(m) => delivered'[a] = 1
  BY <1>1 DEF ProviderSends, ProviderRefuses
<1>5. \/ pc' = pc
      \/ /\ pc[m.by] = "waiting" /\ job[m.by] = a
         /\ pc' = [pc EXCEPT ![m.by] = IF ProviderSends(m) THEN "accepted" ELSE "refused"]
         /\ ProviderSends(m) \/ ProviderRefuses(m)
  <2>1. CASE ProviderSends(m)
    BY <2>1 DEF ProviderSends, Answer, Goto
  <2>2. CASE ProviderRefuses(m) /\ ~ProviderSends(m)
    BY <2>2 DEF ProviderRefuses, Answer, Goto
  <2>3. QED
    BY <2>1, <2>2
<1>6. ExecutionIsExclusive'
  BY <1>2, <1>5 DEF ExecutionIsExclusive, Executes, ExecutionPoints
<1>7. OutcomeIsTruthful' /\ BeforeExecution'
  BY <1>1, <1>2, <1>3 DEF OutcomeIsTruthful, BeforeExecution, NothingSent
<1>8. OneCopy'
  BY <1>1, <1>2, <1>4 DEF OneCopy, Posts
<1>9. PointsAgree'
  <2> SUFFICES ASSUME NEW q \in Requests
               PROVE  /\ pc'[q] \in {"token", "prepare", "send", "refused", "reauth"}
                           => NothingSent(job[q])'
                      /\ pc'[q] = "accepted" => delivered'[job[q]] = 1 /\ ~OnWire(job[q])'
                      /\ pc'[q] = "waiting" => \A n \in wire' : n.action = job[q] => n.by = q
    BY <1>2 DEF PointsAgree, NothingSent, OnWire
  <2>1. CASE job[q] # a
    BY <2>1, <1>2, <1>3, <1>5 DEF PointsAgree, NothingSent
  <2>2. CASE job[q] = a /\ pc'[q] = pc[q]
    <3>1. pc[q] \notin {"token", "prepare", "send", "refused", "reauth", "accepted"}
      BY <2>2, <1>1 DEF PointsAgree, NothingSent, OnWire
    <3>2. QED
      BY <2>2, <3>1, <1>2, <1>3 DEF OnWire
  <2>3. CASE job[q] = a /\ pc'[q] # pc[q]
    <3>1. q = m.by /\ pc'[q] = (IF ProviderSends(m) THEN "accepted" ELSE "refused")
      BY <2>3, <1>5
    <3>2. delivered'[a] = (IF ProviderSends(m) THEN 1 ELSE 0)
      BY <1>1, <1>4
    <3>3. job'[q] = a /\ ~OnWire(job[q])'
      BY <2>3, <1>2, <1>3
    <3>4. QED
      BY <2>3, <3>1, <3>2, <3>3 DEF NothingSent
  <2>4. QED
    BY <2>1, <2>2, <2>3
<1>10. QED
  BY <1>6, <1>7, <1>8, <1>9

(* TX2: only the request that executes the action is there, and it knows   *)
(* whether the reply was sent.                                             *)
LEMMA InvSettles ==
  ASSUME IInv, TypeOK', NEW r \in Requests, SaveTerminal(r) \/ SaveReauthFailure(r)
  PROVE  IInv'
<1> DEFINE a == job[r]
<1> USE DEF IInv, TypeOK, rowVars, accountVars, requestVars, providerVars
<1>1. /\ a \in Actions /\ pc[r] \in ExecutionPoints
      /\ status[a] = "executing"
      /\ \/ pc[r] = "accepted" /\ status' = [status EXCEPT ![a] = "executed"]
         \/ pc[r] \in {"refused", "reauth"} /\ status' = [status EXCEPT ![a] = "failed"]
      /\ pc' = [pc EXCEPT ![r] = "idle"] /\ job' = job
      /\ wire' = wire /\ delivered' = delivered /\ abandoned' = abandoned
  BY DEF SaveTerminal, SaveReauthFailure, SaveOwned, SetStatus, Return, Goto, ExecutionPoints
<1>2. \A q \in Requests \ {r} : ~Executes(q, a)
  BY <1>1 DEF ExecutionIsExclusive, Executes
<1>3. a \notin abandoned
  BY <1>1 DEF ExecutionIsExclusive, Executes
<1>4. ExecutionIsExclusive'
  BY <1>1, <1>2, <1>3 DEF ExecutionIsExclusive, Executes, ExecutionPoints
<1>5. /\ ~OnWire(a)
      /\ pc[r] = "accepted" => delivered[a] = 1
      /\ pc[r] # "accepted" => delivered[a] = 0
  BY <1>1 DEF PointsAgree, NothingSent
<1>6. OutcomeIsTruthful' /\ BeforeExecution'
  BY <1>1, <1>5 DEF OutcomeIsTruthful, BeforeExecution, NothingSent, OnWire
<1>7. OneCopy'
  BY <1>1, <1>5 DEF OneCopy, OnWire, Posts
<1>8. PointsAgree'
  BY <1>1 DEF PointsAgree, NothingSent, OnWire
<1>9. QED
  BY <1>4, <1>6, <1>7, <1>8

(* The account's lifecycle is invisible to the invariant. *)
LEMMA InvUnseen ==
  ASSUME IInv, TypeOK', UNCHANGED <<rowVars, requestVars, providerVars, abandoned>>
  PROVE  IInv'
BY DEF IInv, rowVars, requestVars, providerVars, ExecutionIsExclusive, Executes,
       OutcomeIsTruthful, OneCopy, BeforeExecution, PointsAgree, NothingSent, OnWire

LEMMA InvStep == IInv /\ [Next]_vars => IInv'
<1> SUFFICES ASSUME IInv, [Next]_vars PROVE IInv'
  OBVIOUS
<1>1. TypeOK'
  BY Typing DEF IInv
<1>2. CASE \E a \in Actions, t \in Accounts \cup {NoTarget} : Create(a, t)
  BY <1>1, <1>2, InvDecides
<1>3. CASE \E r \in Requests, a \in Actions :
             \/ ReadForDecision(r, a, "approve")
             \/ ReadForDecision(r, a, "reject")
             \/ ReadForExecution(r, a)
  BY <1>1, <1>3, InvReads
<1>4. CASE \E r \in Requests : RequestStep(r) \/ GiveUp(r)
  BY <1>1, <1>4, InvReads, InvDecides, InvBegins, InvCalls, InvSettles DEF RequestStep
<1>5. CASE \E m \in wire : ProviderSends(m) \/ ProviderRefuses(m)
  BY <1>1, <1>5, InvProvider
<1>6. CASE \E c \in Accounts :
             \/ DisconnectAccount(c)
             \/ \E send \in BOOLEAN : ReactivateAccount(c, send)
             \/ ReauthFromMailboxRead(c)
  BY <1>1, <1>6, InvUnseen DEF DisconnectAccount, ReactivateAccount, ReauthFromMailboxRead
<1>7. CASE UNCHANGED vars
  BY <1>1, <1>7, InvUnseen DEF vars
<1>8. QED
  BY <1>2, <1>3, <1>4, <1>5, <1>6, <1>7 DEF Next

LEMMA InvInit == Init => IInv
BY DEF Init, IInv, TypeOK, Statuses, AccountStatuses, Points, ExecutionPoints, Posts,
       ExecutionIsExclusive, Executes, OutcomeIsTruthful, OneCopy, PointsAgree,
       BeforeExecution, NothingSent, OnWire

-----------------------------------------------------------------------------
(* Every variable holds a value of its type in every reachable state. *)
THEOREM TypeCorrect == Spec => []TypeOK
<1>1. Init => TypeOK
  BY InvInit DEF IInv
<1>2. QED
  BY <1>1, Typing, PTL DEF Spec

(* The inductive invariant holds. *)
THEOREM Invariance == Spec => []IInv
BY InvInit, InvStep, PTL DEF Spec

(* Between TX1 and TX2 an action belongs to one request, and an execution  *)
(* that was given up is never taken over.                                  *)
THEOREM Exclusion == Spec => []ExecutionIsExclusive
<1>1. IInv => ExecutionIsExclusive
  BY DEF IInv
<1>2. QED
  BY <1>1, Invariance, PTL

(* EXECUTED is only recorded of a reply the provider sent, FAILED only of  *)
(* one it did not and will not send.                                       *)
THEOREM TruthfulOutcome == Spec => []OutcomeIsTruthful
<1>1. IInv => OutcomeIsTruthful
  BY DEF IInv
<1>2. QED
  BY <1>1, Invariance, PTL

(* No action is sent twice, and none that was not approved. *)
THEOREM AtMostOnceAfterApproval == Spec => []SentOnceAndOnlyAfterApproval
<1>1. IInv => SentOnceAndOnlyAfterApproval
  BY DEF IInv, TypeOK, Statuses, OneCopy, BeforeExecution, NothingSent,
         SentOnceAndOnlyAfterApproval
<1>2. QED
  BY <1>1, Invariance, PTL

-----------------------------------------------------------------------------
(* Creation, decisions and TX1 are steps of the abstract specification, and *)
(* so is each way an execution ends, because of what the invariant says of  *)
(* the request that ends it.                                                *)
LEMMA StepKeepsPromise == IInv /\ [Next]_vars => [Promise!Next]_(Promise!vars)
<1> SUFFICES ASSUME IInv, [Next]_vars PROVE [Promise!Next]_(Promise!vars)
  OBVIOUS
<1> USE DEF IInv, TypeOK, Promise!vars, providerVars, rowVars, SetStatus, SaveOwned
<1>1. ASSUME NEW a \in Actions, NEW t \in Accounts \cup {NoTarget}, Create(a, t)
      PROVE  Promise!Next
  <2>1. Promise!Propose(a)
    BY <1>1 DEF Create, Promise!Propose, Promise!Move
  <2>2. QED
    BY <2>1 DEF Promise!Next
<1>2. ASSUME NEW r \in Requests, SaveDecision(r) PROVE Promise!Next
  <2>1. Promise!Approve(job[r]) \/ Promise!Reject(job[r])
    BY <1>2 DEF SaveDecision, Promise!Approve, Promise!Reject, Promise!Move
  <2>2. QED
    BY <2>1 DEF Promise!Next
<1>3. ASSUME NEW r \in Requests, SaveExecuting(r) PROVE Promise!Next
  <2>1. Promise!Attempt(job[r])
    BY <1>3 DEF SaveExecuting, Promise!Attempt, Promise!Move
  <2>2. QED
    BY <2>1 DEF Promise!Next
<1>4. ASSUME NEW m \in wire, ProviderSends(m) PROVE Promise!Next
  <2>1. m.action \in Actions /\ delivered[m.action] = 0 /\ status[m.action] = "executing"
    BY DEF OneCopy, Posts
  <2>2. status' = status /\ delivered' = [delivered EXCEPT ![m.action] = 1]
    BY <1>4, <2>1 DEF ProviderSends
  <2>3. Promise!Deliver(m.action)
    BY <2>1, <2>2 DEF Promise!Deliver
  <2>4. QED
    BY <2>1, <2>3 DEF Promise!Next
<1>5. ASSUME NEW r \in Requests, SaveTerminal(r) \/ SaveReauthFailure(r) PROVE Promise!Next
  <2>1. /\ pc[r] = "accepted" => delivered[job[r]] = 1
        /\ pc[r] \in {"refused", "reauth"} => delivered[job[r]] = 0
    BY DEF PointsAgree, NothingSent
  <2>2. Promise!RecordExecuted(job[r]) \/ Promise!RecordFailed(job[r])
    BY <1>5, <2>1 DEF SaveTerminal, SaveReauthFailure,
                      Promise!RecordExecuted, Promise!RecordFailed, Promise!Move
  <2>3. QED
    BY <2>2 DEF Promise!Next
<1>6. ASSUME UNCHANGED <<status, delivered>> PROVE UNCHANGED Promise!vars
  BY <1>6
<1>7. CASE \E r \in Requests, a \in Actions :
             \/ ReadForDecision(r, a, "approve")
             \/ ReadForDecision(r, a, "reject")
             \/ ReadForExecution(r, a)
  BY <1>7, <1>6 DEF ReadForDecision, ReadForExecution
<1>8. CASE \E r \in Requests : RequestStep(r) \/ GiveUp(r)
  <2> PICK r \in Requests : RequestStep(r) \/ GiveUp(r)
    BY <1>8
  <2>1. CASE LoadAccount(r) \/ SaveConflict(r) \/ AcquireToken(r) \/ PrepareReply(r)
             \/ PostReply(r) \/ StopWaiting(r) \/ GiveUp(r)
    BY <2>1, <1>6 DEF LoadAccount, SaveConflict, AcquireToken, PrepareReply,
                      PostReply, StopWaiting, GiveUp
  <2>2. QED
    BY <2>1, <1>2, <1>3, <1>5 DEF RequestStep
<1>9. CASE \E m \in wire : ProviderSends(m) \/ ProviderRefuses(m)
  BY <1>9, <1>4, <1>6 DEF ProviderRefuses
<1>10. CASE \E c \in Accounts :
              \/ DisconnectAccount(c)
              \/ \E send \in BOOLEAN : ReactivateAccount(c, send)
              \/ ReauthFromMailboxRead(c)
  BY <1>10, <1>6 DEF DisconnectAccount, ReactivateAccount, ReauthFromMailboxRead
<1>11. CASE UNCHANGED vars
  BY <1>11, <1>6 DEF vars
<1>12. QED
  BY <1>1, <1>7, <1>8, <1>9, <1>10, <1>11 DEF Next

(* The system implements the abstract promise: whatever requests, crashes,  *)
(* timeouts and late answers do, what is recorded and delivered is a        *)
(* behaviour of ApprovedDelivery.                                           *)
THEOREM Implementation == Spec => KeepsPromise
<1>1. Init => Promise!Init
  BY DEF Init, Promise!Init
<1>2. QED
  BY <1>1, StepKeepsPromise, Invariance, PTL DEF Spec, KeepsPromise, Promise!Spec

(* A decision is never overturned and a terminal status is never left.      *)
THEOREM Lifecycle == Spec => StatusFollowsLifecycle
<1>1. IInv /\ [Promise!Next]_(Promise!vars)
        => [\A a \in Actions : status'[a] # status[a]
              => <<status[a], status'[a]>> \in AllowedTransitions]_status
  BY DEF Promise!vars, Promise!Next, Promise!Propose, Promise!Approve, Promise!Reject,
         Promise!Attempt, Promise!Deliver, Promise!RecordExecuted, Promise!RecordFailed,
         Promise!Move, AllowedTransitions, IInv, TypeOK
<1>2. QED
  BY <1>1, StepKeepsPromise, Invariance, PTL DEF Spec, StatusFollowsLifecycle
=============================================================================
