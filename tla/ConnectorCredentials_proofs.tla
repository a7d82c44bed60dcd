---------------------- MODULE ConnectorCredentials_proofs ----------------------
(***************************************************************************)
(* Machine-checked facts about ConnectorCredentials, for any sets of       *)
(* mailboxes, sessions and requests: typing, the inductive invariant IInv, *)
(* and the safety properties it implies.                                   *)
(***************************************************************************)
EXTENDS ConnectorCredentials, TLAPS

(* A request that goes on keeps what it read. *)
LEMMA RequestMoves ==
  ASSUME NEW points, NEW q \in Requests(points), NEW p \in points
  PROVE  [q EXCEPT !.at = p] \in Requests(points)
BY DEF Requests

(* Every variable keeps its type. *)
LEMMA Typing == IInv /\ [Next]_vars => TypeOK'
<1> SUFFICES ASSUME TypeOK, RequestsAgree, CallbackHasConsent, IdentityMatched, [Next]_vars
             PROVE  TypeOK'
  BY DEF IInv
<1> USE DEF TypeOK, AccountStatuses, Points, Attaching, Ended, Requests, Idle,
            accountVars, secretVars, sessionVars, callbackVars, Goto, Stays, Elsewhere
<1>1. ASSUME NEW s \in Sessions,
             (\E c \in Mailboxes \cup {None} : StartAuthorization(s, c)) \/ CloseSession(s)
      PROVE  TypeOK'
  BY <1>1 DEF StartAuthorization, CloseSession
<1>2. ASSUME NEW k \in Callbacks, NEW s \in Sessions, ConsumeState(k, s) PROVE TypeOK'
  BY <1>2 DEF ConsumeState
<1>3. ASSUME NEW k \in Callbacks, NEW m \in Mailboxes, ObtainCredential(k, m) PROVE TypeOK'
  BY <1>3 DEF ObtainCredential
<1>4. ASSUME NEW k \in Callbacks,
             LookUp(k) \/ LoadTarget(k) \/ FailStatement(k) \/ CrashCallback(k)
      PROVE  TypeOK'
  <2>1. CASE LookUp(k)
    BY <2>1 DEF LookUp
  <2>2. CASE LoadTarget(k)
    <3>1. identity[k] \in Mailboxes
      BY <2>2 DEF LoadTarget, CallbackHasConsent
    <3>2. QED
      BY <2>2, <3>1 DEF LoadTarget
  <2>3. CASE FailStatement(k) \/ CrashCallback(k)
    BY <2>3 DEF FailStatement, CrashCallback
  <2>4. QED
    BY <1>4, <2>1, <2>2, <2>3
<1>5. ASSUME NEW k \in Callbacks, Insert(k) \/ Reactivate(k) PROVE TypeOK'
  BY <1>5 DEF Insert, Reactivate, Attach
<1>6. ASSUME NEW k \in Callbacks, DeletePrevious(k) \/ Compensate(k) \/ RevokeGrant(k)
      PROVE  TypeOK'
  BY <1>6 DEF DeletePrevious, Compensate, RevokeGrant
<1>7. ASSUME NEW d \in Disconnects,
             \/ \E c \in Mailboxes : LoadForDisconnect(d, c)
             \/ DisconnectGivesUp(d)
      PROVE  TypeOK'
  BY <1>7 DEF LoadForDisconnect, DisconnectGivesUp
<1>8. ASSUME NEW d \in Disconnects, DisconnectStep(d) PROVE TypeOK'
  <2>1. CASE DeleteStoredCredential(d)
    <3>1. disconnect[d].credential \in Callbacks
      BY <2>1 DEF DeleteStoredCredential, RequestsAgree
    <3>2. disconnect' = [disconnect EXCEPT ![d].at = "save"]
            => disconnect' \in [Disconnects -> Requests({"idle", "delete", "save"})]
      OBVIOUS
    <3>3. disconnect' = [disconnect EXCEPT ![d] = Idle]
            => disconnect' \in [Disconnects -> Requests({"idle", "delete", "save"})]
      OBVIOUS
    <3>4. QED
      BY <2>1, <3>1, <3>2, <3>3 DEF DeleteStoredCredential
  <2>2. CASE SaveDisconnected(d)
    BY <2>2 DEF SaveDisconnected
  <2>3. QED
    BY <1>8, <2>1, <2>2 DEF DisconnectStep
<1>9. ASSUME NEW r \in Readers,
             \/ \E c \in Mailboxes : ReadAccount(r, c)
             \/ AcquireToken(r) \/ SaveReauthRequired(r) \/ ReaderGivesUp(r)
      PROVE  TypeOK'
  <2>1. CASE \E c \in Mailboxes : ReadAccount(r, c)
    BY <2>1 DEF ReadAccount
  <2>2. CASE AcquireToken(r)
    <3>1. reader' = [reader EXCEPT ![r].at = "mark"]
            => reader' \in [Readers -> Requests({"idle", "token", "mark"})]
      <4>1. [reader[r] EXCEPT !.at = "mark"] \in Requests({"idle", "token", "mark"})
        BY RequestMoves, SMTT(30) DEF TypeOK
      <4>2. QED
        BY <4>1
    <3>2. reader' = [reader EXCEPT ![r] = Idle]
            => reader' \in [Readers -> Requests({"idle", "token", "mark"})]
      OBVIOUS
    <3>3. QED
      BY <2>2, <3>1, <3>2 DEF AcquireToken
  <2>3. CASE SaveReauthRequired(r)
    BY <2>3 DEF SaveReauthRequired, MarkReauthRequired
  <2>4. CASE ReaderGivesUp(r)
    BY <2>4 DEF ReaderGivesUp
  <2>5. QED
    BY <1>9, <2>1, <2>2, <2>3, <2>4
<1>10. CASE UNCHANGED vars
  BY <1>10 DEF vars
<1>11. QED
  BY <1>1, <1>2, <1>3, <1>4, <1>5, <1>6, <1>7, <1>8, <1>9, <1>10 DEF Next, CallbackStep

(* Starting and closing a session touches no session a callback has        *)
(* consumed: those are closed already.                                     *)
LEMMA InvSessions ==
  ASSUME IInv, TypeOK', NEW s \in Sessions,
         (\E c \in Mailboxes \cup {None} : StartAuthorization(s, c)) \/ CloseSession(s)
  PROVE  IInv'
<1> USE DEF IInv, TypeOK, accountVars, secretVars, sessionVars, callbackVars
<1>1. /\ UNCHANGED <<accountVars, secretVars, callbackVars, disconnect, reader>>
      /\ \A t \in Sessions : session[t] = "closed" => session'[t] = "closed" /\ bound'[t] = bound[t]
  BY DEF StartAuthorization, CloseSession
<1>2. \A k \in Callbacks : pc[k] # "idle" =>
        /\ job[k] \in Sessions /\ session'[job[k]] = "closed"
        /\ bound'[job[k]] = bound[job[k]]
  BY <1>1 DEF CallbackHasConsent, NoneAssumption
<1>3. CallbackHasConsent'
  BY <1>1, <1>2 DEF CallbackHasConsent
<1>4. CredentialBelongsToMailbox'
  BY <1>1, <1>2 DEF CredentialBelongsToMailbox, ReadLocatorsArePublished, Published, Ended
<1>5. IdentityMatched'
  BY <1>1, <1>2 DEF IdentityMatched, Subject
<1>6. /\ ConsentUsedOnce' /\ ReleasedCredentialIsGone' /\ ActiveCredentialIsStored'
      /\ ReadLocatorsArePublished' /\ RowsAgree' /\ PreviousIsStale' /\ RequestsAgree'
  BY <1>1 DEF ConsentUsedOnce, ReleasedCredentialIsGone, ActiveCredentialIsStored,
              ReadLocatorsArePublished, Published, RowsAgree, PreviousIsStale, RequestsAgree
<1>7. QED
  BY <1>3, <1>4, <1>5, <1>6

(* The winner of the consume is the only callback with that session, as a  *)
(* consumed session is closed and this one was open.                       *)
LEMMA InvConsume ==
  ASSUME IInv, TypeOK', NEW k \in Callbacks, NEW s \in Sessions, ConsumeState(k, s)
  PROVE  IInv'
<1> USE DEF IInv, TypeOK, accountVars, secretVars, sessionVars, callbackVars
<1>1. /\ UNCHANGED <<bound, identity, seen, accountVars, secretVars, disconnect, reader>>
      /\ pc[k] = "idle" /\ session[s] = "open"
      /\ session' = [session EXCEPT ![s] = "closed"]
      /\ pc' = [pc EXCEPT ![k] = "obtain"] /\ job' = [job EXCEPT ![k] = s]
  BY DEF ConsumeState, Goto
<1>2. \A j \in Callbacks \ {k} : pc'[j] = pc[j] /\ job'[j] = job[j] /\ job[j] # s
  BY <1>1, NoneAssumption DEF CallbackHasConsent
<1>3. ConsentUsedOnce'
  BY <1>1, <1>2 DEF ConsentUsedOnce
<1>4. CallbackHasConsent'
  BY <1>1, <1>2, NoneAssumption DEF CallbackHasConsent, Attaching
<1>5. \A j \in Callbacks : Published(j) => j # k /\ pc'[j] = pc[j] /\ job'[j] = job[j]
  BY <1>1, <1>2 DEF Published, Ended
<1>6. CredentialBelongsToMailbox' /\ ReadLocatorsArePublished' /\ ActiveCredentialIsStored'
  BY <1>1, <1>5 DEF CredentialBelongsToMailbox, ReadLocatorsArePublished, Published,
                    ActiveCredentialIsStored, RowsAgree
<1>7. IdentityMatched' /\ ReleasedCredentialIsGone' /\ PreviousIsStale'
  BY <1>1, <1>2 DEF IdentityMatched, Subject, ReleasedCredentialIsGone, PreviousIsStale
<1>8. RowsAgree' /\ RequestsAgree'
  BY <1>1 DEF RowsAgree, RequestsAgree
<1>9. QED
  BY <1>3, <1>4, <1>6, <1>7, <1>8

(* A credential is new to the store: no row and no request knows it yet.   *)
LEMMA InvObtain ==
  ASSUME IInv, TypeOK', NEW k \in Callbacks, NEW m \in Mailboxes, ObtainCredential(k, m)
  PROVE  IInv'
<1> USE DEF IInv, TypeOK, accountVars, secretVars, sessionVars, callbackVars
<1>1. /\ UNCHANGED <<refused, withdrawn, job, seen, accountVars, sessionVars, disconnect, reader>>
      /\ pc[k] = "obtain"
      /\ \A j \in Callbacks \ {k} : /\ pc'[j] = pc[j] /\ identity'[j] = identity[j]
                                    /\ j \in store' <=> j \in store
  BY DEF ObtainCredential, Goto
<1>2. \/ /\ k \in store' /\ identity'[k] = m
         /\ \/ pc'[k] = "lookup" /\ bound[job[k]] = None
            \/ pc'[k] \in {"load", "lost"}
      \/ pc'[k] = "released" /\ k \notin store'
  BY <1>1 DEF ObtainCredential, Goto, CallbackHasConsent
<1>3. CallbackHasConsent'
  BY <1>1, <1>2, NoneAssumption DEF CallbackHasConsent, Attaching
<1>4. \A j \in Callbacks : Published(j) =>
        /\ j # k /\ pc'[j] = pc[j] /\ identity'[j] = identity[j]
        /\ j \in store' <=> j \in store
  BY <1>1 DEF Published, Ended
<1>5. CredentialBelongsToMailbox' /\ ReadLocatorsArePublished' /\ ActiveCredentialIsStored'
  <2>1. CredentialBelongsToMailbox'
    BY <1>1, <1>4 DEF CredentialBelongsToMailbox, ReadLocatorsArePublished
  <2>2. ReadLocatorsArePublished'
    BY <1>1, <1>4 DEF ReadLocatorsArePublished, Published, Requests
  <2>3. ActiveCredentialIsStored'
    BY <1>1, <1>4 DEF ActiveCredentialIsStored, ReadLocatorsArePublished, RowsAgree
  <2>4. QED
    BY <2>1, <2>2, <2>3
<1>6. IdentityMatched'
  BY <1>1, <1>2 DEF IdentityMatched, Subject
<1>7. ReleasedCredentialIsGone' /\ PreviousIsStale'
  BY <1>1, <1>2 DEF ReleasedCredentialIsGone, PreviousIsStale
<1>8. ConsentUsedOnce' /\ RowsAgree' /\ RequestsAgree'
  BY <1>1 DEF ConsentUsedOnce, RowsAgree, RequestsAgree
<1>9. QED
  BY <1>3, <1>5, <1>6, <1>7, <1>8

(* Reads, failing statements and crashes move one callback.  Only the read *)
(* of the reauthorization target leads to a delete of a previous locator,  *)
(* and only of a row that is not ACTIVE.                                   *)
LEMMA InvMoves ==
  ASSUME IInv, TypeOK', NEW k \in Callbacks,
         LookUp(k) \/ LoadTarget(k) \/ FailStatement(k) \/ CrashCallback(k)
  PROVE  IInv'
<1> USE DEF IInv, TypeOK, accountVars, secretVars, sessionVars, callbackVars, Stays, Elsewhere
<1>1. /\ UNCHANGED <<accountVars, secretVars, sessionVars, job, identity, disconnect, reader>>
      /\ \A j \in Callbacks \ {k} : pc'[j] = pc[j] /\ seen'[j] = seen[j]
  BY DEF LookUp, LoadTarget, FailStatement, CrashCallback, Goto
<1>2. pc[k] \in {"obtain", "compensate"} \cup Attaching /\ pc'[k] \notin {"idle", "obtain", "released"}
  BY DEF LookUp, LoadTarget, FailStatement, CrashCallback, Goto, Attaching
<1>3. \/ seen'[k] = seen[k] /\ pc'[k] # "delete_previous"
      \/ /\ identity[k] \in Mailboxes
         /\ accStatus[identity[k]] \in Reactivatable
         /\ seen'[k] = locator[identity[k]]
         /\ pc'[k] = "delete_previous" => seen'[k] # None
  <2>1. CASE LoadTarget(k)
    BY <2>1 DEF LoadTarget, Goto, CallbackHasConsent, Attaching
  <2>2. CASE LookUp(k)
    <3>1. pc'[k] # "delete_previous" /\ seen' = seen
      BY <2>2 DEF LookUp, Goto
    <3>2. QED
      BY <3>1
  <2>3. CASE FailStatement(k) \/ CrashCallback(k)
    BY <2>3 DEF FailStatement, CrashCallback, Goto
  <2>4. QED
    BY <2>1, <2>2, <2>3
<1>4. pc'[k] \in {"insert", "delete_previous", "reactivate"} => identity[k] = Subject(k)
  <2>1. CASE LoadTarget(k)
    BY <2>1 DEF LoadTarget, Goto
  <2>2. CASE LookUp(k)
    BY <2>2 DEF LookUp, IdentityMatched
  <2>3. CASE FailStatement(k) \/ CrashCallback(k)
    BY <2>3 DEF FailStatement, CrashCallback, Goto
  <2>4. QED
    BY <2>1, <2>2, <2>3
<1>5. pc'[k] # "lookup" /\ (pc'[k] \in Attaching => pc[k] \in Attaching)
  BY DEF LookUp, LoadTarget, FailStatement, CrashCallback, Goto, Attaching
<1>6. CallbackHasConsent'
  BY <1>1, <1>2, <1>5 DEF CallbackHasConsent, Attaching
<1>7. IdentityMatched'
  BY <1>1, <1>4, <1>5 DEF IdentityMatched, Subject
<1>8. \A j \in Callbacks : Published(j) => Published(j)'
  BY <1>1, <1>2 DEF Published, Ended, Attaching, LookUp, LoadTarget, FailStatement,
                    CrashCallback, Goto
<1>9. ReadLocatorsArePublished'
  BY <1>1, <1>3, <1>8 DEF ReadLocatorsArePublished, Published, Requests
<1>10. ActiveCredentialIsStored' /\ ReleasedCredentialIsGone'
  BY <1>1, <1>2 DEF ActiveCredentialIsStored, ReleasedCredentialIsGone, RowsAgree, Attaching
<1>11. PreviousIsStale'
  <2> SUFFICES ASSUME NEW j \in Callbacks, pc'[j] = "delete_previous"
               PROVE  /\ seen'[j] # None
                      /\ \A c \in Mailboxes : locator[c] = seen'[j] => accStatus[c] # "active"
    BY <1>1 DEF PreviousIsStale
  <2>1. CASE j # k
    BY <2>1, <1>1 DEF PreviousIsStale
  <2>2. CASE j = k
    BY <2>2, <1>3 DEF CredentialBelongsToMailbox, Reactivatable
  <2>3. QED
    BY <2>1, <2>2
<1>12. CredentialBelongsToMailbox' /\ ConsentUsedOnce' /\ RowsAgree' /\ RequestsAgree'
  BY <1>1 DEF CredentialBelongsToMailbox, ConsentUsedOnce, RowsAgree, RequestsAgree
<1>13. QED
  BY <1>6, <1>7, <1>9, <1>10, <1>11, <1>12

(* The row takes the locator of a callback that still had it to itself: a  *)
(* row that was ACTIVE keeps what it has.                                  *)
LEMMA InvAttach ==
  ASSUME IInv, TypeOK', NEW k \in Callbacks, Insert(k) \/ Reactivate(k)
  PROVE  IInv'
<1> DEFINE c == Subject(k)
<1> USE DEF IInv, TypeOK, accountVars, secretVars, sessionVars, callbackVars, Elsewhere
<1>1. /\ UNCHANGED <<secretVars, sessionVars, job, identity, seen, disconnect, reader>>
      /\ pc[k] \in {"insert", "reactivate"}
      /\ \A j \in Callbacks \ {k} : pc'[j] = pc[j]
      /\ pc'[k] \in {"attached", "compensate"}
  BY DEF Insert, Reactivate, Attach, Goto
<1>2. c \in Mailboxes /\ identity[k] = c /\ k \in store /\ bound[job[k]] \in {c, None}
  BY <1>1 DEF IdentityMatched, CallbackHasConsent, Attaching, Subject
<1>3. \/ UNCHANGED accountVars
      \/ /\ accStatus[c] # "active"
         /\ accStatus' = [accStatus EXCEPT ![c] = "active"]
         /\ locator' = [locator EXCEPT ![c] = k]
  BY DEF Insert, Reactivate, Attach, Reactivatable
<1>4. \A j \in Callbacks : Published(j) => j # k /\ pc'[j] = pc[j]
  BY <1>1 DEF Published, Ended
<1>5. k # None
  BY NoneAssumption
<1>6. CallbackHasConsent' /\ IdentityMatched' /\ ReleasedCredentialIsGone' /\ ConsentUsedOnce'
  BY <1>1 DEF CallbackHasConsent, Attaching, IdentityMatched, Subject,
              ReleasedCredentialIsGone, ConsentUsedOnce
<1>7. CredentialBelongsToMailbox' /\ RowsAgree'
  BY <1>1, <1>2, <1>3, <1>5 DEF CredentialBelongsToMailbox, RowsAgree
<1>8. ReadLocatorsArePublished'
  BY <1>1, <1>2, <1>3, <1>4 DEF ReadLocatorsArePublished, Published, Requests, Ended
<1>9. ActiveCredentialIsStored'
  <2> SUFFICES ASSUME NEW b \in Mailboxes, accStatus'[b] = "active", locator'[b] \notin store
               PROVE  locator'[b] \in withdrawn \/ pc'[locator'[b]] = "released"
    BY <1>1 DEF ActiveCredentialIsStored
  <2>1. locator'[b] = locator[b] /\ accStatus[b] = "active"
    BY <1>2, <1>3
  <2>2. QED
    BY <2>1, <1>4 DEF ActiveCredentialIsStored, ReadLocatorsArePublished, RowsAgree
<1>10. PreviousIsStale'
  <2> SUFFICES ASSUME NEW j \in Callbacks, pc'[j] = "delete_previous"
               PROVE  /\ seen[j] # None
                      /\ \A b \in Mailboxes : locator'[b] = seen[j] => accStatus'[b] # "active"
    BY <1>1 DEF PreviousIsStale
  <2>1. pc[j] = "delete_previous" /\ seen[j] # None /\ seen[j] # k
    BY <1>1, <1>4 DEF PreviousIsStale, ReadLocatorsArePublished
  <2>2. QED
    BY <2>1, <1>2, <1>3 DEF PreviousIsStale
<1>11. RequestsAgree'
  BY <1>1 DEF RequestsAgree
<1>12. QED
  BY <1>6, <1>7, <1>8, <1>9, <1>10, <1>11

(* What a callback deletes is its own credential, or one no ACTIVE account *)
(* uses and no other callback is about to attach.                          *)
LEMMA InvDeletes ==
  ASSUME IInv, TypeOK', NEW k \in Callbacks,
         DeletePrevious(k) \/ Compensate(k) \/ RevokeGrant(k)
  PROVE  IInv'
<1> USE DEF IInv, TypeOK, accountVars, secretVars, sessionVars, callbackVars, Elsewhere
<1>1. /\ UNCHANGED <<withdrawn, accountVars, sessionVars, job, identity, seen, disconnect, reader>>
      /\ \A j \in Callbacks \ {k} : pc'[j] = pc[j]
      /\ store' \subseteq store
  BY DEF DeletePrevious, Compensate, RevokeGrant, Goto
<1>2. \A j \in store \ store' :
        \/ j = k /\ pc[k] = "compensate" /\ pc'[k] = "released"
        \/ j = seen[k] /\ pc[k] = "delete_previous"
  BY DEF DeletePrevious, Compensate, RevokeGrant, Goto
<1>3. \/ pc' = pc
      \/ pc[k] = "delete_previous" /\ pc'[k] \in {"reactivate", "compensate"}
      \/ pc[k] = "compensate" /\ pc'[k] = "released" /\ k \notin store'
      \/ pc[k] = "compensate" /\ pc'[k] = "lost"
  BY DEF DeletePrevious, Compensate, RevokeGrant, Goto
<1>4. \A j \in store \ store' : Published(j)
  BY <1>2 DEF Published, ReadLocatorsArePublished, PreviousIsStale
<1>5. CallbackHasConsent'
  BY <1>1, <1>3, <1>4 DEF CallbackHasConsent, Attaching, Published, Ended
<1>6. IdentityMatched' /\ ReleasedCredentialIsGone' /\ ConsentUsedOnce'
  BY <1>1, <1>3 DEF IdentityMatched, Subject, ReleasedCredentialIsGone, ConsentUsedOnce
<1>7. CredentialBelongsToMailbox' /\ RowsAgree' /\ RequestsAgree'
  BY <1>1 DEF CredentialBelongsToMailbox, RowsAgree, RequestsAgree
<1>8. ReadLocatorsArePublished'
  BY <1>1, <1>3, SMTT(30) DEF ReadLocatorsArePublished, Published, Ended, Requests
<1>9. PreviousIsStale'
  BY <1>1, <1>3 DEF PreviousIsStale
<1>10. ActiveCredentialIsStored'
  <2> SUFFICES ASSUME NEW b \in Mailboxes, accStatus[b] = "active", locator[b] \notin store'
               PROVE  locator[b] \in withdrawn \/ pc'[locator[b]] = "released"
    BY <1>1 DEF ActiveCredentialIsStored
  <2>1. locator[b] \in Callbacks
    BY DEF RowsAgree
  <2>2. CASE locator[b] \in store
    BY <2>1, <2>2, <1>2 DEF PreviousIsStale
  <2>3. CASE locator[b] \notin store
    BY <2>1, <2>3, <1>1, <1>3 DEF ActiveCredentialIsStored
  <2>4. QED
    BY <2>2, <2>3
<1>11. QED
  BY <1>5, <1>6, <1>7, <1>8, <1>9, <1>10

(* A disconnect deletes a locator a row held, and records that it did; the *)
(* row it clears is no longer ACTIVE.                                      *)
LEMMA InvDisconnect ==
  ASSUME IInv, TypeOK', NEW d \in Disconnects,
         \/ \E c \in Mailboxes : LoadForDisconnect(d, c)
         \/ DisconnectStep(d)
         \/ DisconnectGivesUp(d)
  PROVE  IInv'
<1> USE DEF IInv, TypeOK, accountVars, secretVars, sessionVars, callbackVars, Idle
<1>1. UNCHANGED <<refused, sessionVars, callbackVars, reader>>
  BY DEF LoadForDisconnect, DisconnectStep, DeleteStoredCredential, SaveDisconnected,
         DisconnectGivesUp
<1>2. /\ \A e \in Disconnects \ {d} : disconnect'[e] = disconnect[e]
      /\ \/ disconnect'[d] = Idle
         \/ /\ disconnect'[d].account # None
            /\ disconnect'[d].credential # None => Published(disconnect'[d].credential)
            /\ disconnect'[d].at = "delete" => disconnect'[d].credential # None
  <2>1. CASE \E c \in Mailboxes : LoadForDisconnect(d, c)
    BY <2>1, NoneAssumption DEF LoadForDisconnect, ReadLocatorsArePublished
  <2>2. CASE DeleteStoredCredential(d)
    BY <2>2 DEF DeleteStoredCredential, Requests, RequestsAgree, ReadLocatorsArePublished
  <2>3. CASE SaveDisconnected(d) \/ DisconnectGivesUp(d)
    BY <2>3 DEF SaveDisconnected, DisconnectGivesUp
  <2>4. QED
    BY <2>1, <2>2, <2>3 DEF DisconnectStep
<1>3. \/ UNCHANGED accountVars
      \/ \E c \in Mailboxes : /\ accStatus' = [accStatus EXCEPT ![c] = "disconnected"]
                              /\ locator' = [locator EXCEPT ![c] = None]
  BY DEF LoadForDisconnect, DisconnectStep, DeleteStoredCredential, SaveDisconnected,
         DisconnectGivesUp, RequestsAgree, Requests
<1>4. /\ store' \subseteq store /\ withdrawn \subseteq withdrawn'
      /\ \A j \in store \ store' : j \in withdrawn' /\ Published(j)
  <2>1. CASE DeleteStoredCredential(d)
    BY <2>1 DEF DeleteStoredCredential, RequestsAgree, ReadLocatorsArePublished
  <2>2. CASE ~DeleteStoredCredential(d)
    BY <2>2 DEF LoadForDisconnect, DisconnectStep, SaveDisconnected, DisconnectGivesUp
  <2>3. QED
    BY <2>1, <2>2
<1>5. CallbackHasConsent'
  BY <1>1, <1>4 DEF CallbackHasConsent, Attaching, Published, Ended
<1>6. IdentityMatched' /\ ReleasedCredentialIsGone' /\ ConsentUsedOnce'
  BY <1>1, <1>4 DEF IdentityMatched, Subject, ReleasedCredentialIsGone, ConsentUsedOnce
<1>7. CredentialBelongsToMailbox' /\ RowsAgree' /\ PreviousIsStale'
  BY <1>1, <1>3 DEF CredentialBelongsToMailbox, RowsAgree, PreviousIsStale
<1>8. ReadLocatorsArePublished'
  BY <1>1, <1>2, <1>3 DEF ReadLocatorsArePublished, Published
<1>9. ActiveCredentialIsStored'
  BY <1>1, <1>3, <1>4 DEF ActiveCredentialIsStored, RowsAgree
<1>10. RequestsAgree'
  BY <1>1, <1>2 DEF RequestsAgree
<1>11. QED
  BY <1>5, <1>6, <1>7, <1>8, <1>9, <1>10

(* A reader only ever takes ACTIVE away from a row. *)
LEMMA InvReads ==
  ASSUME IInv, TypeOK', NEW r \in Readers,
         \/ \E c \in Mailboxes : ReadAccount(r, c)
         \/ AcquireToken(r) \/ SaveReauthRequired(r) \/ ReaderGivesUp(r)
  PROVE  IInv'
<1> USE DEF IInv, TypeOK, accountVars, secretVars, sessionVars, callbackVars, Idle
<1>1. UNCHANGED <<locator, secretVars, sessionVars, callbackVars, disconnect>>
  BY DEF ReadAccount, AcquireToken, SaveReauthRequired, ReaderGivesUp
<1>2. \A c \in Mailboxes :
        \/ accStatus'[c] = accStatus[c]
        \/ accStatus[c] = "active" /\ accStatus'[c] = "reauth_required"
  BY DEF ReadAccount, AcquireToken, SaveReauthRequired, ReaderGivesUp, MarkReauthRequired
<1>3. /\ \A q \in Readers \ {r} : reader'[q] = reader[q]
      /\ reader'[r] = Idle \/ reader'[r].account # None
  <2>1. CASE \E c \in Mailboxes : ReadAccount(r, c)
    BY <2>1, NoneAssumption DEF ReadAccount
  <2>2. CASE AcquireToken(r)
    BY <2>2 DEF AcquireToken, RequestsAgree, Requests
  <2>3. CASE SaveReauthRequired(r) \/ ReaderGivesUp(r)
    BY <2>3 DEF SaveReauthRequired, ReaderGivesUp
  <2>4. QED
    BY <2>1, <2>2, <2>3
<1>4. /\ CallbackHasConsent' /\ IdentityMatched' /\ ReleasedCredentialIsGone'
      /\ ConsentUsedOnce' /\ CredentialBelongsToMailbox' /\ ReadLocatorsArePublished'
  BY <1>1 DEF CallbackHasConsent, IdentityMatched, Subject, ReleasedCredentialIsGone,
              ConsentUsedOnce, CredentialBelongsToMailbox, ReadLocatorsArePublished, Published
<1>5. ActiveCredentialIsStored' /\ RowsAgree' /\ PreviousIsStale'
  BY <1>1, <1>2 DEF ActiveCredentialIsStored, RowsAgree, PreviousIsStale
<1>6. RequestsAgree'
  BY <1>1, <1>3 DEF RequestsAgree
<1>7. QED
  BY <1>4, <1>5, <1>6

LEMMA InvStutter == IInv /\ UNCHANGED vars => IInv'
BY DEF IInv, vars, accountVars, secretVars, sessionVars, callbackVars, TypeOK,
       ConsentUsedOnce, CredentialBelongsToMailbox, ReleasedCredentialIsGone,
       ActiveCredentialIsStored, CallbackHasConsent, IdentityMatched, Subject,
       ReadLocatorsArePublished, Published, RowsAgree, PreviousIsStale, RequestsAgree

LEMMA InvStep == IInv /\ [Next]_vars => IInv'
<1> SUFFICES ASSUME IInv, [Next]_vars PROVE IInv'
  OBVIOUS
<1>1. TypeOK'
  BY Typing
<1>2. CASE \E s \in Sessions :
             \/ \E c \in Mailboxes \cup {None} : StartAuthorization(s, c)
             \/ CloseSession(s)
  BY <1>1, <1>2, InvSessions
<1>3. CASE \E k \in Callbacks :
             \/ \E s \in Sessions : ConsumeState(k, s)
             \/ CallbackStep(k) \/ FailStatement(k) \/ CrashCallback(k)
             \/ RevokeGrant(k)
  BY <1>1, <1>3, InvConsume, InvObtain, InvMoves, InvAttach, InvDeletes DEF CallbackStep
<1>4. CASE \E d \in Disconnects :
             \/ \E c \in Mailboxes : LoadForDisconnect(d, c)
             \/ DisconnectStep(d) \/ DisconnectGivesUp(d)
  BY <1>1, <1>4, InvDisconnect
<1>5. CASE \E r \in Readers :
             \/ \E c \in Mailboxes : ReadAccount(r, c)
             \/ AcquireToken(r) \/ SaveReauthRequired(r) \/ ReaderGivesUp(r)
  BY <1>1, <1>5, InvReads
<1>6. CASE UNCHANGED vars
  BY <1>6, InvStutter
<1>7. QED
  BY <1>2, <1>3, <1>4, <1>5, <1>6 DEF Next

LEMMA InvInit == Init => IInv
BY NoneAssumption
   DEF Init, IInv, TypeOK, AccountStatuses, Points, Attaching, Ended, Requests, Idle,
       ConsentUsedOnce, CredentialBelongsToMailbox, ReleasedCredentialIsGone,
       ActiveCredentialIsStored, CallbackHasConsent, IdentityMatched,
       ReadLocatorsArePublished, RowsAgree, PreviousIsStale, RequestsAgree

-----------------------------------------------------------------------------
(* The inductive invariant holds. *)
THEOREM Invariance == Spec => []IInv
BY InvInit, InvStep, PTL DEF Spec

(* Every variable holds a value of its type in every reachable state. *)
THEOREM TypeCorrect == Spec => []TypeOK
<1>1. IInv => TypeOK
  BY DEF IInv
<1>2. QED
  BY <1>1, Invariance, PTL

(* A consent yields at most one credential, however often it is presented. *)
THEOREM SingleUse == Spec => []ConsentUsedOnce
<1>1. IInv => ConsentUsedOnce
  BY DEF IInv
<1>2. QED
  BY <1>1, Invariance, PTL

(* No account ever holds a credential of another mailbox, or of a consent  *)
(* that was given for another account.                                     *)
THEOREM CredentialMatches == Spec => []CredentialBelongsToMailbox
<1>1. IInv => CredentialBelongsToMailbox
  BY DEF IInv
<1>2. QED
  BY <1>1, Invariance, PTL

(* What a callback could not attach it deleted, crashes and failing stores *)
(* apart.                                                                  *)
THEOREM Compensation == Spec => []ReleasedCredentialIsGone
<1>1. IInv => ReleasedCredentialIsGone
  BY DEF IInv
<1>2. QED
  BY <1>1, Invariance, PTL

(* Only a disconnect, or a callback that was told its own commit failed,   *)
(* takes the credential of an ACTIVE account.                              *)
THEOREM ActiveAccountsWork == Spec => []ActiveCredentialIsStored
<1>1. IInv => ActiveCredentialIsStored
  BY DEF IInv
<1>2. QED
  BY <1>1, Invariance, PTL

(* A row gets a locator only from a callback whose credential is new to    *)
(* every row and still stored, and only while it is not ACTIVE; nothing    *)
(* but that revives a disconnected account.                                *)
LEMMA StepChangesByConsent ==
  IInv /\ [Next]_vars =>
    [\A c \in Mailboxes :
       /\ accStatus[c] = "active" /\ accStatus'[c] = "active" => locator'[c] = locator[c]
       /\ accStatus[c] = "disconnected" /\ accStatus'[c] # "disconnected" =>
            accStatus'[c] = "active" /\ locator'[c] \in store
       /\ locator'[c] \notin {locator[c], None} => pc[locator'[c]] \in {"insert", "reactivate"}
    ]_accountVars
<1> SUFFICES ASSUME IInv, [Next]_vars, NEW c \in Mailboxes, ~UNCHANGED accountVars
             PROVE  /\ accStatus[c] = "active" /\ accStatus'[c] = "active"
                         => locator'[c] = locator[c]
                    /\ accStatus[c] = "disconnected" /\ accStatus'[c] # "disconnected" =>
                         accStatus'[c] = "active" /\ locator'[c] \in store
                    /\ locator'[c] \notin {locator[c], None}
                         => pc[locator'[c]] \in {"insert", "reactivate"}
  OBVIOUS
<1> USE DEF IInv, TypeOK, accountVars
<1>1. \/ \E k \in Callbacks : Insert(k) \/ Reactivate(k)
      \/ \E d \in Disconnects : SaveDisconnected(d)
      \/ \E r \in Readers : SaveReauthRequired(r)
  BY DEF Next, vars, StartAuthorization, CloseSession, ConsumeState, CallbackStep,
         ObtainCredential, LookUp, LoadTarget, DeletePrevious, Compensate, FailStatement,
         CrashCallback, RevokeGrant, LoadForDisconnect, DisconnectStep,
         DeleteStoredCredential, DisconnectGivesUp, ReadAccount, AcquireToken,
         ReaderGivesUp, Stays
<1>2. ASSUME NEW k \in Callbacks, Insert(k) \/ Reactivate(k)
      PROVE  /\ pc[k] \in {"insert", "reactivate"} /\ k \in store
             /\ Subject(k) \in Mailboxes /\ accStatus[Subject(k)] # "active"
             /\ accStatus' = [accStatus EXCEPT ![Subject(k)] = "active"]
             /\ locator' = [locator EXCEPT ![Subject(k)] = k]
  <2>1. pc[k] \in {"insert", "reactivate"}
    BY <1>2 DEF Insert, Reactivate
  <2>2. k \in store /\ Subject(k) \in Mailboxes
    BY <2>1 DEF CallbackHasConsent, IdentityMatched, Attaching
  <2>3. QED
    BY <1>2, <2>1, <2>2 DEF Insert, Reactivate, Attach, Reactivatable
<1>3. CASE \E k \in Callbacks : Insert(k) \/ Reactivate(k)
  <2>1. PICK k \in Callbacks : Insert(k) \/ Reactivate(k)
    BY <1>3
  <2>2. QED
    BY <2>1, <1>2
<1>4. CASE \E d \in Disconnects : SaveDisconnected(d)
  BY <1>4 DEF SaveDisconnected, RequestsAgree, Requests
<1>5. CASE \E r \in Readers : SaveReauthRequired(r)
  BY <1>5 DEF SaveReauthRequired, MarkReauthRequired
<1>6. QED
  BY <1>1, <1>3, <1>4, <1>5

(* Rows change only as RowsChangeByConsent says. *)
THEOREM ConsentedRows == Spec => RowsChangeByConsent
BY StepChangesByConsent, Invariance, PTL DEF Spec, RowsChangeByConsent
=============================================================================
