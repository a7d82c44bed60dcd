-------------------------- MODULE ConnectorCredentials --------------------------
(***************************************************************************)
(* Connector accounts of one owner at one mailbox provider, the secret     *)
(* store that holds their OAuth credentials, and the requests that change  *)
(* both: the OAuth callback (connect and exact-account reauthorization),   *)
(* disconnect, and the REAUTH_REQUIRED mark of a mailbox read.             *)
(*                                                                         *)
(* The database and the secret store share no transaction.  A callback     *)
(* first creates a credential, then tries to attach its locator to a row,  *)
(* and deletes it again when it cannot; disconnect first deletes the       *)
(* credential, then clears the row.  Requests of several instances         *)
(* interleave between statements, a store call can fail, a commit can be   *)
(* durable although the client sees an error, and a request can die.       *)
(*                                                                         *)
(* A callback creates at most one credential, so the credential's locator  *)
(* is named by the callback.  Granted capabilities are in WorkflowActions. *)
(***************************************************************************)
EXTENDS Naturals, FiniteSets

CONSTANTS
  Mailboxes,    \* external mailbox identities; a row is unique per identity
  Sessions,     \* mailbox authorization sessions
  Callbacks,    \* OAuth callback requests that present a usable state and code
  Disconnects,  \* concurrent disconnect requests
  Readers,      \* concurrent mailbox reads (and executions) that need a token
  None

ASSUME NoneAssumption == None \notin Mailboxes \cup Sessions \cup Callbacks

VARIABLES
  accStatus,  \* connector_accounts.status by mailbox, "absent" without a row
  locator,    \* connector_accounts.credential_ref
  store,      \* credentials in the secret store
  refused,    \* credentials whose grant the provider revoked
  session,    \* mailbox_authorization_sessions: absent, open, closed
  bound,      \* the account a REAUTHORIZE session is bound to
  pc,         \* where a callback is
  job,        \* the session it consumed
  identity,   \* the mailbox its credential was granted for
  seen,       \* previous locator it read
  disconnect, \* the disconnect requests
  reader,     \* the mailbox reads
  withdrawn   \* credentials deleted by a disconnect (history)

accountVars  == <<accStatus, locator>>
secretVars   == <<store, refused, withdrawn>>
sessionVars  == <<session, bound>>
callbackVars == <<pc, job, identity, seen>>
vars == <<accountVars, secretVars, sessionVars, callbackVars, disconnect, reader>>

AccountStatuses == {"absent", "active", "reauth_required", "disconnected"}
Reactivatable == {"disconnected", "reauth_required"}

Attaching == {"lookup", "insert", "load", "delete_previous", "reactivate"}
Ended == {"attached", "released", "lost"}
Points == {"idle", "obtain", "compensate"} \cup Attaching \cup Ended

Requests(points) ==
  [at : points, account : Mailboxes \cup {None}, credential : Callbacks \cup {None}]
Idle == [at |-> "idle", account |-> None, credential |-> None]

Init ==
  /\ accStatus = [c \in Mailboxes |-> "absent"]
  /\ locator = [c \in Mailboxes |-> None]
  /\ store = {} /\ refused = {} /\ withdrawn = {}
  /\ session = [s \in Sessions |-> "absent"]
  /\ bound = [s \in Sessions |-> None]
  /\ pc = [k \in Callbacks |-> "idle"]
  /\ job = [k \in Callbacks |-> None]
  /\ identity = [k \in Callbacks |-> None]
  /\ seen = [k \in Callbacks |-> None]
  /\ disconnect = [d \in Disconnects |-> Idle]
  /\ reader = [r \in Readers |-> Idle]

Goto(k, point) == pc' = [pc EXCEPT ![k] = point]

-----------------------------------------------------------------------------
(* Authorization sessions *)

(* start_authorization: CONNECT and CONNECT_ANOTHER are unbound, REAUTHORIZE *)
(* is bound to an account that is not ACTIVE.  (The read and the INSERT are  *)
(* one step: nothing can use the session before the INSERT.)                 *)
StartAuthorization(s, c) ==
  /\ session[s] = "absent"
  /\ c # None => accStatus[c] \in Reactivatable
  /\ session' = [session EXCEPT ![s] = "open"]
  /\ bound' = [bound EXCEPT ![s] = c]
  /\ UNCHANGED <<accountVars, secretVars, callbackVars, disconnect, reader>>

(* The TTL ran out, the provider reported an error and the callback only    *)
(* consumed the state, or the consume was durable but its commit failed.    *)
CloseSession(s) ==
  /\ session[s] = "open"
  /\ session' = [session EXCEPT ![s] = "closed"]
  /\ UNCHANGED <<bound, accountVars, secretVars, callbackVars, disconnect, reader>>

(* Mutant: the consume checks the state but not that it was consumed. *)
ConsumeStateAgain(k, s) ==
  /\ pc[k] = "idle" /\ session[s] # "absent"
  /\ session' = [session EXCEPT ![s] = "closed"]
  /\ Goto(k, "obtain")
  /\ job' = [job EXCEPT ![k] = s]
  /\ UNCHANGED <<bound, identity, seen, accountVars, secretVars, disconnect, reader>>

(* consume_valid: one conditional UPDATE; of the callbacks that present the *)
(* same state only one goes on.                                             *)
ConsumeState(k, s) ==
  /\ pc[k] = "idle" /\ session[s] = "open"
  /\ session' = [session EXCEPT ![s] = "closed"]
  /\ Goto(k, "obtain")
  /\ job' = [job EXCEPT ![k] = s]
  /\ UNCHANGED <<bound, identity, seen, accountVars, secretVars, disconnect, reader>>

-----------------------------------------------------------------------------
(* The callback: code exchange and a new credential *)

(* The exchange yields a refresh token for whichever mailbox the person     *)
(* chose, and the store takes it under a fresh locator.  Either can fail;   *)
(* a store that fails after it wrote leaves a credential nobody knows of.   *)
ObtainCredential(k, m) ==
  /\ pc[k] = "obtain"
  /\ \/ /\ store' = store \cup {k}
        /\ identity' = [identity EXCEPT ![k] = m]
        /\ \/ Goto(k, IF bound[job[k]] = None THEN "lookup" ELSE "load")
           \/ Goto(k, "lost")
     \/ Goto(k, "released") /\ UNCHANGED <<store, identity>>
  /\ UNCHANGED <<refused, withdrawn, job, seen, accountVars, sessionVars, disconnect, reader>>

(* The account a callback attaches to: the one of the verified identity, or *)
(* the one its session is bound to.                                         *)
Subject(k) == IF bound[job[k]] = None THEN identity[k] ELSE bound[job[k]]

(* An UPDATE or INSERT of the callback commits, and it learns so, or not:   *)
(* then it deletes the credential it has just attached.                     *)
Attach(k) ==
  /\ accStatus' = [accStatus EXCEPT ![Subject(k)] = "active"]
  /\ locator' = [locator EXCEPT ![Subject(k)] = k]
  /\ Goto(k, "attached") \/ Goto(k, "compensate")

Stays(k) == UNCHANGED <<accountVars, secretVars, job, identity>>
Elsewhere == UNCHANGED <<sessionVars, disconnect, reader>>

(* Mutant: an ACTIVE account is reused and the new credential forgotten. *)
LookUpAndForget(k) ==
  /\ pc[k] = "lookup"
  /\ Goto(k, CASE accStatus[Subject(k)] = "absent" -> "insert"
               [] accStatus[Subject(k)] = "active" -> "released"
               [] OTHER -> "reactivate")
  /\ Stays(k) /\ UNCHANGED seen /\ Elsewhere

(* CONNECT, _persist_connector_account: a row that is ACTIVE is reused and  *)
(* the new credential deleted again.                                        *)
LookUp(k) ==
  /\ pc[k] = "lookup"
  /\ Goto(k, CASE accStatus[Subject(k)] = "absent" -> "insert"
               [] accStatus[Subject(k)] = "active" -> "compensate"
               [] OTHER -> "reactivate")
  /\ Stays(k) /\ UNCHANGED seen /\ Elsewhere

(* Mutant: the loser waits for the row to go away. *)
InsertOrWait(k) ==
  /\ pc[k] = "insert"
  /\ accStatus[Subject(k)] = "absent" /\ Attach(k)
  /\ UNCHANGED <<secretVars, job, identity, seen>> /\ Elsewhere

(* Mutant: the row of the mailbox is inserted or replaced. *)
InsertOrReplace(k) ==
  /\ pc[k] = "insert"
  /\ Attach(k)
  /\ UNCHANGED <<secretVars, job, identity, seen>> /\ Elsewhere

(* create(): the unique constraint refuses a second row for the mailbox. *)
Insert(k) ==
  /\ pc[k] = "insert"
  /\ \/ accStatus[Subject(k)] = "absent" /\ Attach(k)
     \/ accStatus[Subject(k)] # "absent" /\ Goto(k, "compensate") /\ UNCHANGED accountVars
  /\ UNCHANGED <<secretVars, job, identity, seen>> /\ Elsewhere

(* Mutant: load_reauthorization_target without the identity match. *)
LoadTargetOfAnyIdentity(k) ==
  /\ pc[k] = "load"
  /\ LET c == Subject(k) IN
     IF accStatus[c] \in Reactivatable
       THEN /\ seen' = [seen EXCEPT ![k] = locator[c]]
            /\ Goto(k, IF locator[c] = None THEN "reactivate" ELSE "delete_previous")
       ELSE Goto(k, "compensate") /\ UNCHANGED seen
  /\ Stays(k) /\ Elsewhere

(* REAUTHORIZE, load_reauthorization_target: the exact bound account, same  *)
(* identity, not ACTIVE.                                                    *)
LoadTarget(k) ==
  /\ pc[k] = "load"
  /\ LET c == Subject(k) IN
     IF identity[k] = c /\ accStatus[c] \in Reactivatable
       THEN /\ seen' = [seen EXCEPT ![k] = locator[c]]
            /\ Goto(k, IF locator[c] = None THEN "reactivate" ELSE "delete_previous")
       ELSE Goto(k, "compensate") /\ UNCHANGED seen
  /\ Stays(k) /\ Elsewhere

(* The previous locator's credential is deleted before the new one is       *)
(* attached; a store that fails, before or after it deleted, ends the       *)
(* reauthorization.                                                         *)
DeletePrevious(k) ==
  /\ pc[k] = "delete_previous"
  /\ \/ store' = store \ {seen[k]} /\ Goto(k, "reactivate")
     \/ store' \in {store, store \ {seen[k]}} /\ Goto(k, "compensate")
  /\ UNCHANGED <<refused, withdrawn, accountVars, job, identity, seen>> /\ Elsewhere

(* reactivate_owned: an UPDATE that matches DISCONNECTED and                *)
(* REAUTH_REQUIRED rows only; the loser deletes its credential.             *)
Reactivate(k) ==
  /\ pc[k] = "reactivate"
  /\ \/ accStatus[Subject(k)] \in Reactivatable /\ Attach(k)
     \/ /\ accStatus[Subject(k)] \notin Reactivatable
        /\ Goto(k, "compensate") /\ UNCHANGED accountVars
  /\ UNCHANGED <<secretVars, job, identity, seen>> /\ Elsewhere

(* Mutant: the credential deleted is the one that the account holds. *)
CompensateAttached(k) ==
  /\ pc[k] = "compensate"
  /\ \/ store' = store \ {k, locator[Subject(k)]} /\ Goto(k, "released")
     \/ Goto(k, "lost") /\ UNCHANGED store
  /\ UNCHANGED <<refused, withdrawn, accountVars, job, identity, seen>> /\ Elsewhere

(* _compensate_stored_credential; a store that fails leaves the credential. *)
Compensate(k) ==
  /\ pc[k] = "compensate"
  /\ \/ store' = store \ {k} /\ Goto(k, "released")
     \/ Goto(k, "lost") /\ UNCHANGED store
  /\ UNCHANGED <<refused, withdrawn, accountVars, job, identity, seen>> /\ Elsewhere

(* A statement fails and rolls back. *)
FailStatement(k) ==
  /\ pc[k] \in {"lookup", "insert", "load", "reactivate"}
  /\ Goto(k, "compensate")
  /\ Stays(k) /\ UNCHANGED seen /\ Elsewhere

(* The process dies, and with it the only reference to a new locator. *)
CrashCallback(k) ==
  /\ pc[k] \in {"obtain", "compensate"} \cup Attaching
  /\ Goto(k, "lost")
  /\ Stays(k) /\ UNCHANGED seen /\ Elsewhere

-----------------------------------------------------------------------------
(* Disconnect *)

LoadForDisconnect(d, c) ==
  /\ disconnect[d].at = "idle" /\ accStatus[c] # "absent"
  /\ disconnect' = [disconnect EXCEPT ![d] =
       [at |-> IF locator[c] = None THEN "save" ELSE "delete",
        account |-> c, credential |-> locator[c]]]
  /\ UNCHANGED <<accountVars, secretVars, sessionVars, callbackVars, reader>>

(* _delete_stored_credential; a failing store, before or after it deleted,  *)
(* ends the disconnect with the row unchanged.                              *)
DeleteStoredCredential(d) ==
  /\ disconnect[d].at = "delete"
  /\ LET l == disconnect[d].credential IN
     \/ /\ store' = store \ {l} /\ withdrawn' = withdrawn \cup {l}
        /\ \/ disconnect' = [disconnect EXCEPT ![d].at = "save"]
           \/ disconnect' = [disconnect EXCEPT ![d] = Idle]
     \/ disconnect' = [disconnect EXCEPT ![d] = Idle] /\ UNCHANGED <<store, withdrawn>>
  /\ UNCHANGED <<refused, accountVars, sessionVars, callbackVars, reader>>

(* disconnect_owned of the repository: the UPDATE matches any status and    *)
(* any locator.                                                             *)
SaveDisconnected(d) ==
  /\ disconnect[d].at = "save"
  /\ accStatus' = [accStatus EXCEPT ![disconnect[d].account] = "disconnected"]
  /\ locator' = [locator EXCEPT ![disconnect[d].account] = None]
  /\ disconnect' = [disconnect EXCEPT ![d] = Idle]
  /\ UNCHANGED <<secretVars, sessionVars, callbackVars, reader>>

(* A failed UPDATE or a crash. *)
DisconnectGivesUp(d) ==
  /\ disconnect[d].at # "idle"
  /\ disconnect' = [disconnect EXCEPT ![d] = Idle]
  /\ UNCHANGED <<accountVars, secretVars, sessionVars, callbackVars, reader>>

-----------------------------------------------------------------------------
(* Mailbox reads and executions: the REAUTH_REQUIRED mark *)

(* The provider revokes a grant (invalid_grant from now on). *)
RevokeGrant(k) ==
  /\ k \in store \ refused
  /\ refused' = refused \cup {k}
  /\ UNCHANGED <<store, withdrawn, accountVars, sessionVars, callbackVars, disconnect, reader>>

ReadAccount(r, c) ==
  /\ reader[r].at = "idle" /\ accStatus[c] = "active"
  /\ reader' = [reader EXCEPT ![r] =
       [at |-> "token", account |-> c, credential |-> locator[c]]]
  /\ UNCHANGED <<accountVars, secretVars, sessionVars, callbackVars, disconnect>>

(* A permanent refusal needs the credential and the provider's answer to    *)
(* it; a token, a missing credential or any other failure ends the read.    *)
AcquireToken(r) ==
  /\ reader[r].at = "token"
  /\ \/ /\ reader[r].credential \in store \cap refused
        /\ reader' = [reader EXCEPT ![r].at = "mark"]
     \/ reader' = [reader EXCEPT ![r] = Idle]
  /\ UNCHANGED <<accountVars, secretVars, sessionVars, callbackVars, disconnect>>

(* mark_reauth_required_owned: only an ACTIVE row matches. *)
MarkReauthRequired(c) ==
  accStatus' = IF accStatus[c] = "active"
                 THEN [accStatus EXCEPT ![c] = "reauth_required"]
                 ELSE accStatus

SaveReauthRequired(r) ==
  /\ reader[r].at = "mark"
  /\ MarkReauthRequired(reader[r].account)
  /\ reader' = [reader EXCEPT ![r] = Idle]
  /\ UNCHANGED <<locator, secretVars, sessionVars, callbackVars, disconnect>>

ReaderGivesUp(r) ==
  /\ reader[r].at # "idle"
  /\ reader' = [reader EXCEPT ![r] = Idle]
  /\ UNCHANGED <<accountVars, secretVars, sessionVars, callbackVars, disconnect>>

-----------------------------------------------------------------------------
CallbackStep(k) ==
  \/ \E m \in Mailboxes : ObtainCredential(k, m)
  \/ LookUp(k) \/ Insert(k) \/ LoadTarget(k) \/ DeletePrevious(k)
  \/ Reactivate(k) \/ Compensate(k)

DisconnectStep(d) == DeleteStoredCredential(d) \/ SaveDisconnected(d)

Next ==
  \/ \E s \in Sessions :
       \/ \E c \in Mailboxes \cup {None} : StartAuthorization(s, c)
       \/ CloseSession(s)
  \/ \E k \in Callbacks :
       \/ \E s \in Sessions : ConsumeState(k, s)
       \/ CallbackStep(k) \/ FailStatement(k) \/ CrashCallback(k)
       \/ RevokeGrant(k)
  \/ \E d \in Disconnects :
       \/ \E c \in Mailboxes : LoadForDisconnect(d, c)
       \/ DisconnectStep(d) \/ DisconnectGivesUp(d)
  \/ \E r \in Readers :
       \/ \E c \in Mailboxes : ReadAccount(r, c)
       \/ AcquireToken(r) \/ SaveReauthRequired(r) \/ ReaderGivesUp(r)

Spec == Init /\ [][Next]_vars

(* A running request goes on: every statement, exchange and store call it   *)
(* makes has a timeout.                                                     *)
Fairness ==
  /\ \A k \in Callbacks : WF_vars(CallbackStep(k))
  /\ \A d \in Disconnects : WF_vars(DisconnectStep(d))
FairSpec == Spec /\ Fairness

-----------------------------------------------------------------------------
(* Properties *)

TypeOK ==
  /\ accStatus \in [Mailboxes -> AccountStatuses]
  /\ locator \in [Mailboxes -> Callbacks \cup {None}]
  /\ store \subseteq Callbacks /\ refused \subseteq Callbacks /\ withdrawn \subseteq Callbacks
  /\ session \in [Sessions -> {"absent", "open", "closed"}]
  /\ bound \in [Sessions -> Mailboxes \cup {None}]
  /\ pc \in [Callbacks -> Points]
  /\ job \in [Callbacks -> Sessions \cup {None}]
  /\ identity \in [Callbacks -> Mailboxes \cup {None}]
  /\ seen \in [Callbacks -> Callbacks \cup {None}]
  /\ disconnect \in [Disconnects -> Requests({"idle", "delete", "save"})]
  /\ reader \in [Readers -> Requests({"idle", "token", "mark"})]

(* One consent, one credential: however often and by however many requests  *)
(* a state is presented, at most one callback exchanges a code for it.      *)
ConsentUsedOnce ==
  \A j, k \in Callbacks : job[j] # None /\ job[j] = job[k] => j = k

(* A row only ever holds a credential granted for its own mailbox, and a    *)
(* REAUTHORIZE consent only ends up in the account it was started for.      *)
CredentialBelongsToMailbox ==
  \A c \in Mailboxes :
    locator[c] # None => /\ identity[locator[c]] = c
                         /\ bound[job[locator[c]]] \in {c, None}

(* A callback that ended without attaching left no credential behind, but   *)
(* for one it lost to a crash or a failing store.                           *)
ReleasedCredentialIsGone ==
  \A k \in Callbacks : pc[k] = "released" => k \notin store

(* An ACTIVE account can get at its credential: no callback deletes the     *)
(* credential of another's successful connection.  Only a disconnect takes  *)
(* it, or its own callback that was told its commit had failed.             *)
ActiveCredentialIsStored ==
  \A c \in Mailboxes :
    accStatus[c] = "active" /\ locator[c] \notin store =>
      locator[c] \in withdrawn \/ pc[locator[c]] = "released"

(* A working account's credential is never swapped, a disconnected account  *)
(* comes back only by a new consent, and a credential once replaced or      *)
(* cleared never returns to a row.                                          *)
RowsChangeByConsent ==
  [][\A c \in Mailboxes :
       /\ accStatus[c] = "active" /\ accStatus'[c] = "active" => locator'[c] = locator[c]
       /\ accStatus[c] = "disconnected" /\ accStatus'[c] # "disconnected" =>
            accStatus'[c] = "active" /\ locator'[c] \in store
       /\ locator'[c] \notin {locator[c], None} => pc[locator'[c]] \in {"insert", "reactivate"}
    ]_accountVars

(* Every callback ends: attached, or with its credential deleted, or having *)
(* lost it to a crash or a failing store.                                   *)
ConsentSettles ==
  \A k \in Callbacks :
    pc[k] # "idle" ~> \/ pc[k] \in {"attached", "lost"}
                      \/ pc[k] = "released" /\ k \notin store

(* Documented: after a successful disconnect no usable delegated credential *)
(* of the account is left.                                                  *)
DisconnectLeavesNoCredential ==
  [][\A c \in Mailboxes :
       accStatus'[c] = "disconnected" /\ locator[c] # None /\ locator'[c] = None
         => locator[c] \notin store]_accountVars

-----------------------------------------------------------------------------
(* The inductive invariant behind the safety properties *)

(* A callback past its consume holds a session, and one past the exchange   *)
(* holds a credential of a known mailbox.                                   *)
CallbackHasConsent ==
  \A k \in Callbacks :
    /\ pc[k] # "idle" <=> job[k] # None
    /\ job[k] # None => session[job[k]] = "closed"
    /\ pc[k] \in Attaching => identity[k] # None /\ k \in store
    /\ k \in store => pc[k] \notin {"idle", "obtain"}

(* The reauthorization of an account reached the persist only after the     *)
(* identity matched.                                                        *)
IdentityMatched ==
  \A k \in Callbacks :
    pc[k] \in {"lookup", "insert", "delete_previous", "reactivate"} => identity[k] = Subject(k)

(* A locator that a row holds, or that a request read from a row, is of a   *)
(* callback that is done attaching.                                         *)
Published(k) == pc[k] \in {"compensate"} \cup Ended

ReadLocatorsArePublished ==
  /\ \A c \in Mailboxes : locator[c] # None => Published(locator[c])
  /\ \A k \in Callbacks : seen[k] # None => Published(seen[k])
  /\ \A d \in Disconnects :
       disconnect[d].credential # None => Published(disconnect[d].credential)

(* Rows agree with themselves. *)
RowsAgree ==
  \A c \in Mailboxes :
    /\ accStatus[c] \in {"absent", "disconnected"} => locator[c] = None
    /\ accStatus[c] = "active" => locator[c] # None

(* A reauthorization deletes only what no ACTIVE account uses. *)
PreviousIsStale ==
  \A k \in Callbacks : pc[k] = "delete_previous" =>
    /\ seen[k] # None
    /\ \A c \in Mailboxes : locator[c] = seen[k] => accStatus[c] # "active"

RequestsAgree ==
  /\ \A d \in Disconnects :
       /\ disconnect[d].at # "idle" => disconnect[d].account # None
       /\ disconnect[d].at = "delete" => disconnect[d].credential # None
  /\ \A r \in Readers : reader[r].at # "idle" => reader[r].account # None

IInv ==
  /\ TypeOK
  /\ ConsentUsedOnce
  /\ CredentialBelongsToMailbox
  /\ ReleasedCredentialIsGone
  /\ ActiveCredentialIsStored
  /\ CallbackHasConsent
  /\ IdentityMatched
  /\ ReadLocatorsArePublished
  /\ RowsAgree
  /\ PreviousIsStale
  /\ RequestsAgree
=============================================================================
