--------------------------- MODULE CredentialTokens ---------------------------
(***************************************************************************)
(* Access tokens of connected mailboxes: the refreshable resolver of one   *)
(* process (token cache and keyed locks), the cloud secret stores all      *)
(* processes share, and the PostgreSQL advisory lock around every mutation *)
(* of a stored credential.                                                 *)
(*                                                                         *)
(* A version stands for a stored record and for the refresh token in it.   *)
(* Time is not counted: an entry of the cache may expire or be evicted at  *)
(* any moment.  Locators are random and never used twice.                  *)
(***************************************************************************)
EXTENDS Naturals

CONSTANTS
  Processes,   \* instances of the service
  Threads,     \* request threads
  Home,        \* the process of a thread
  Deleters,    \* threads that also serve disconnects and failed callbacks
  Locators,    \* credential locators, each of one provider
  Locks,       \* threading.Lock objects
  None,
  MaxVersion   \* bound on the records ever written

ASSUME TokenAssumption ==
  /\ Home \in [Threads -> Processes]
  /\ None \notin Threads \cup Locks \cup Nat
  /\ MaxVersion \in Nat

VARIABLES
  backend,   \* the store chosen by the settings
  secret,    \* version stored under a locator, 0 when there is none
  origin,    \* version the stored refresh token was obtained with
  issued,    \* versions written so far
  advisory,  \* transaction that holds the advisory lock of a locator
  slipped,   \* a lock was lost with its connection while it was held
  entry,     \* _KeyedLocks._locks: the lock object of a key
  users,     \* ... and the threads its count counts
  holder,    \* the thread a lock object is locked by
  cache,     \* _AccessTokenCache of a process: the locators with a token
  pc, loc,   \* where a thread is and the locator it works on
  lock,      \* the lock object it got from the table
  seen,      \* the version it has read, or written
  attempt    \* first or second try of _acquire_locked

storeVars  == <<backend, secret, origin, issued>>
mutexVars  == <<advisory, slipped>>
tableVars  == <<entry, users, holder>>
threadVars == <<pc, loc, lock, seen, attempt>>
vars == <<storeVars, mutexVars, tableVars, cache, threadVars>>

Backends == {"azure_key_vault", "aws_secrets_manager"}

(* Points of a transaction that took the advisory lock. *)
ReplacePoints == {"compare", "write", "reread",
                  "replaced", "mismatch", "replace_failed"}
DeletePoints == {"delete", "deleted"}
MutationPoints == ReplacePoints \cup DeletePoints

(* Points between lock.acquire() and lock.release(). *)
Critical == {"recheck", "read", "refresh", "replace", "put", "release"}
              \cup ReplacePoints
(* Points at which the count of the key's entry includes the thread. *)
Counted == {"acquire", "drop"} \cup Critical
Points == {"idle", "begin_delete"} \cup Counted \cup DeletePoints

(* A process that has just started: module-wide resolver with no tables. *)
Init ==
  /\ backend \in Backends
  /\ secret = [l \in Locators |-> 0]
  /\ origin = [l \in Locators |-> None]
  /\ issued = 0
  /\ advisory = [l \in Locators |-> None]
  /\ slipped = FALSE
  /\ entry = [p \in Processes |-> [l \in Locators |-> None]]
  /\ users = [p \in Processes |-> [l \in Locators |-> {}]]
  /\ holder = [k \in Locks |-> None]
  /\ cache = [p \in Processes |-> {}]
  /\ pc = [t \in Threads |-> "idle"]
  /\ loc \in [Threads -> Locators]
  /\ lock = [t \in Threads |-> None]
  /\ seen = [t \in Threads |-> 0]
  /\ attempt = [t \in Threads |-> 1]

At(t, point) == pc[t] = point
Goto(t, point) == pc' = [pc EXCEPT ![t] = point]
Cached(t) == loc[t] \in cache[Home[t]]
Put(t) == cache' = [cache EXCEPT ![Home[t]] = @ \cup {loc[t]}]
(* The listener registered with the store drops the process's own entry. *)
Notify(t) == cache' = [cache EXCEPT ![Home[t]] = @ \ {loc[t]}]

-----------------------------------------------------------------------------
(* Creation, cache lookup and the keyed lock *)

(* create_communication_credential: nobody knows the new locator yet. *)
Create(l) ==
  /\ origin[l] = None
  /\ issued < MaxVersion
  /\ issued' = issued + 1
  /\ secret' = [secret EXCEPT ![l] = issued']
  /\ origin' = [origin EXCEPT ![l] = 0]
  /\ UNCHANGED <<backend, mutexVars, tableVars, cache, threadVars>>

(* Lock objects nothing refers to: a new one is as good as any of them. *)
Unused == {k \in Locks : /\ \A p \in Processes, l \in Locators : entry[p][l] # k
                         /\ \A t \in Threads : lock[t] # k}

(* _KeyedLocks.acquire under its guard: find or make the lock, count up. *)
TakeReference(t, p, l) ==
  LET k == IF entry[p][l] = None THEN CHOOSE x \in Unused : TRUE ELSE entry[p][l]
  IN /\ entry[p][l] = None => Unused # {}
     /\ entry' = [entry EXCEPT ![p][l] = k]
     /\ users' = [users EXCEPT ![p][l] = @ \cup {t}]
     /\ lock' = [lock EXCEPT ![t] = k]

(* A hit in the cache returns and changes nothing.  After a miss the thread *)
(* goes to the keyed lock; what happens in between, Recheck makes up for.   *)
BeginToken(t, l) ==
  /\ At(t, "idle")
  /\ origin[l] # None
  /\ l \notin cache[Home[t]]
  /\ TakeReference(t, Home[t], l)
  /\ loc' = [loc EXCEPT ![t] = l]
  /\ Goto(t, "acquire")
  /\ UNCHANGED <<storeVars, mutexVars, holder, cache, seen, attempt>>

AcquireKey(t) ==
  /\ At(t, "acquire")
  /\ holder[lock[t]] = None
  /\ holder' = [holder EXCEPT ![lock[t]] = t]
  /\ Goto(t, "recheck")
  /\ UNCHANGED <<storeVars, mutexVars, entry, users, cache, loc, lock, seen, attempt>>

(* Another thread may have filled the cache while this one waited. *)
Recheck(t) ==
  /\ At(t, "recheck")
  /\ Goto(t, IF Cached(t) THEN "release" ELSE "read")
  /\ UNCHANGED <<storeVars, mutexVars, tableVars, cache, loc, lock, seen, attempt>>

ReleaseKey(t) ==
  /\ At(t, "release")
  /\ holder' = [holder EXCEPT ![lock[t]] = None]
  /\ Goto(t, "drop")
  /\ UNCHANGED <<storeVars, mutexVars, entry, users, cache, loc, lock, seen, attempt>>

(* The call returns; its local variables are gone. *)
Leave(t) ==
  /\ lock' = [lock EXCEPT ![t] = None]
  /\ seen' = [seen EXCEPT ![t] = 0]
  /\ attempt' = [attempt EXCEPT ![t] = 1]
  /\ Goto(t, "idle")

(* Mutants: whoever leaves deletes the entry, counted or not; nobody does. *)
DropAlways(t) ==
  LET p == Home[t]
      l == loc[t]
  IN /\ At(t, "drop")
     /\ entry' = [entry EXCEPT ![p][l] = None]
     /\ users' = [users EXCEPT ![p][l] = @ \ {t}]
     /\ Leave(t)
     /\ UNCHANGED <<storeVars, mutexVars, holder, cache, loc>>

DropNever(t) ==
  LET p == Home[t]
      l == loc[t]
  IN /\ At(t, "drop")
     /\ users' = [users EXCEPT ![p][l] = @ \ {t}]
     /\ Leave(t)
     /\ UNCHANGED <<storeVars, mutexVars, entry, holder, cache, loc>>

(* The guard again, after the release: count down, and the last one counted *)
(* deletes the entry.                                                       *)
Drop(t) ==
  LET p == Home[t]
      l == loc[t]
      left == users[p][l] \ {t}
  IN /\ At(t, "drop")
     /\ entry' = [entry EXCEPT ![p][l] = IF left = {} THEN None ELSE @]
     /\ users' = [users EXCEPT ![p][l] = left]
     /\ Leave(t)
     /\ UNCHANGED <<storeVars, mutexVars, holder, cache, loc>>

-----------------------------------------------------------------------------
(* A refresh, under the keyed lock *)

(* Mutant: the token's version in the cache stands in for the record. *)
ReadRecordOnce(t) ==
  /\ At(t, "read")
  /\ \/ /\ issued # 0
        /\ seen' = [seen EXCEPT ![t] = issued]
        /\ Goto(t, "refresh")
     \/ Goto(t, "release") /\ UNCHANGED seen
  /\ UNCHANGED <<storeVars, mutexVars, tableVars, cache, loc, lock, attempt>>

(* No lock on the store is taken.  No record, one that cannot be read, or   *)
(* one of another provider is an unavailable credential.                    *)
ReadRecord(t) ==
  /\ At(t, "read")
  /\ \/ /\ secret[loc[t]] # 0
        /\ seen' = [seen EXCEPT ![t] = secret[loc[t]]]
        /\ Goto(t, "refresh")
     \/ Goto(t, "release") /\ UNCHANGED seen
  /\ UNCHANGED <<storeVars, mutexVars, tableVars, cache, loc, lock, attempt>>

(* The provider answers with a token, with a token and another refresh      *)
(* token, or the call ends in an error (reauthorization, unavailable,       *)
(* unsupported, a result that is not usable).                               *)
CallAdapter(t) ==
  /\ At(t, "refresh")
  /\ \E point \in {"put", "replace", "release"} : Goto(t, point)
  /\ UNCHANGED <<storeVars, mutexVars, tableVars, cache, loc, lock, seen, attempt>>

PutToken(t) ==
  /\ At(t, "put")
  /\ Put(t)
  /\ Goto(t, "release")
  /\ UNCHANGED <<storeVars, mutexVars, tableVars, loc, lock, seen, attempt>>

(* An entry expires, or least recently used ones make room for new ones. *)
Expire(p, l) ==
  /\ l \in cache[p]
  /\ cache' = [cache EXCEPT ![p] = @ \ {l}]
  /\ UNCHANGED <<storeVars, mutexVars, tableVars, threadVars>>

-----------------------------------------------------------------------------
(* Mutations of the store, serialized by pg_advisory_xact_lock *)

Lockers == {"replace", "begin_delete"}
Locked(point) == IF point = "replace" THEN "compare" ELSE "delete"

(* Mutant: the coordinator is not asked. *)
TakeAdvisoryLockNever(t) ==
  /\ pc[t] \in Lockers
  /\ Goto(t, Locked(pc[t]))
  /\ UNCHANGED <<storeVars, mutexVars, tableVars, cache, loc, lock, seen, attempt>>

(* pg_advisory_xact_lock waits until the lock is free. *)
TakeAdvisoryLock(t) ==
  /\ pc[t] \in Lockers
  /\ advisory[loc[t]] = None
  /\ advisory' = [advisory EXCEPT ![loc[t]] = t]
  /\ Goto(t, Locked(pc[t]))
  /\ UNCHANGED <<storeVars, slipped, tableVars, cache, loc, lock, seen, attempt>>

(* The statement fails, no connection is to be had: nothing is mutated. *)
AdvisoryLockFails(t) ==
  /\ pc[t] \in Lockers
  /\ Goto(t, IF At(t, "replace") THEN "release" ELSE "idle")
  /\ UNCHANGED <<storeVars, mutexVars, tableVars, cache, loc, lock, seen, attempt>>

(* The record is read again under the lock and its version compared. *)
Compare(t) ==
  /\ At(t, "compare")
  /\ \/ Goto(t, IF secret[loc[t]] = seen[t] THEN "write" ELSE "mismatch")
     \/ Goto(t, "replace_failed")
  /\ UNCHANGED <<storeVars, mutexVars, tableVars, cache, loc, lock, seen, attempt>>

(* The new record of t, whose refresh token was obtained with seen[t]. *)
NewRecord(t) ==
  /\ issued < MaxVersion
  /\ issued' = issued + 1
  /\ secret' = [secret EXCEPT ![loc[t]] = issued']
  /\ origin' = [origin EXCEPT ![loc[t]] = seen[t]]
  /\ UNCHANGED backend

(* AWS: AWSCURRENT moves from the version that was read, or not at all.  A  *)
(* failed call may have been applied.                                       *)
MoveStage(t) ==
  /\ At(t, "write")
  /\ backend = "aws_secrets_manager"
  /\ \/ /\ secret[loc[t]] = seen[t] /\ NewRecord(t)
        /\ seen' = [seen EXCEPT ![t] = issued']
        /\ \/ Goto(t, "replaced") /\ Notify(t)
           \/ Goto(t, "replace_failed") /\ UNCHANGED cache
     \/ /\ secret[loc[t]] # seen[t]
        /\ Goto(t, "mismatch") /\ UNCHANGED <<storeVars, cache, seen>>
     \/ Goto(t, "replace_failed") /\ UNCHANGED <<storeVars, cache, seen>>
  /\ UNCHANGED <<mutexVars, tableVars, loc, lock, attempt>>

(* Azure: set_secret writes whatever is there, unless the name was deleted. *)
SetSecret(t) ==
  /\ At(t, "write")
  /\ backend = "azure_key_vault"
  /\ \/ /\ secret[loc[t]] # 0 /\ NewRecord(t)
        /\ seen' = [seen EXCEPT ![t] = issued']
        /\ \E point \in {"reread", "replace_failed"} : Goto(t, point)
     \/ Goto(t, "replace_failed") /\ UNCHANGED <<storeVars, seen>>
  /\ UNCHANGED <<mutexVars, tableVars, cache, loc, lock, attempt>>

(* Azure: the write counts only if it is still the current version. *)
Reread(t) ==
  /\ At(t, "reread")
  /\ \/ secret[loc[t]] = seen[t] /\ Goto(t, "replaced") /\ Notify(t)
     \/ secret[loc[t]] # seen[t] /\ Goto(t, "mismatch") /\ UNCHANGED cache
     \/ Goto(t, "replace_failed") /\ UNCHANGED cache
  /\ UNCHANGED <<storeVars, mutexVars, tableVars, loc, lock, seen, attempt>>

BeginDelete(t, l) ==
  /\ t \in Deleters
  /\ At(t, "idle")
  /\ origin[l] # None
  /\ Goto(t, "begin_delete")
  /\ loc' = [loc EXCEPT ![t] = l]
  /\ UNCHANGED <<storeVars, mutexVars, tableVars, cache, lock, seen, attempt>>

(* Deleted, or gone before; a failed call may have been applied, and then   *)
(* the listeners are not told.                                              *)
DeleteRecord(t) ==
  /\ At(t, "delete")
  /\ \/ secret' = [secret EXCEPT ![loc[t]] = 0] /\ Notify(t)
     \/ secret' = [secret EXCEPT ![loc[t]] = 0] /\ UNCHANGED cache
     \/ UNCHANGED <<secret, cache>>
  /\ Goto(t, "deleted")
  /\ UNCHANGED <<backend, origin, issued, mutexVars, tableVars, loc, lock, seen, attempt>>

(* Mutant: the session of a failed mutation goes back without a ROLLBACK. *)
UnlockOnSuccess(t) ==
  advisory' = [advisory EXCEPT ![loc[t]] = IF @ = t /\ ~At(t, "replace_failed") THEN None ELSE @]

(* COMMIT or ROLLBACK ends the transaction and with it the lock. *)
Unlock(t) ==
  advisory' = [advisory EXCEPT ![loc[t]] = IF @ = t THEN None ELSE @]

(* A replacement counts when the transaction of its lock commits too; a     *)
(* lost connection cannot.                                                  *)
FinishReplaced(t) ==
  /\ At(t, "replaced")
  /\ Unlock(t)
  /\ \/ advisory[loc[t]] = t /\ Goto(t, "put")
     \/ Goto(t, "release")
  /\ UNCHANGED <<storeVars, slipped, tableVars, cache, loc, lock, seen, attempt>>

(* The version moved on: the winner's record is tried once. *)
FinishMismatch(t) ==
  /\ At(t, "mismatch")
  /\ Unlock(t)
  /\ \/ /\ advisory[loc[t]] = t /\ attempt[t] = 1
        /\ attempt' = [attempt EXCEPT ![t] = 2]
        /\ Goto(t, "read")
     \/ Goto(t, "release") /\ UNCHANGED attempt
  /\ UNCHANGED <<storeVars, slipped, tableVars, cache, loc, lock, seen>>

FinishFailed(t) ==
  /\ \/ At(t, "replace_failed") /\ Goto(t, "release")
     \/ At(t, "deleted") /\ Goto(t, "idle")
  /\ Unlock(t)
  /\ UNCHANGED <<storeVars, slipped, tableVars, cache, loc, lock, seen, attempt>>

(* The transaction's connection breaks while the store call runs: the       *)
(* database frees the lock and the thread does not know.                    *)
LoseConnection(t) ==
  /\ pc[t] \in {"write", "delete"}
  /\ advisory[loc[t]] = t
  /\ advisory' = [advisory EXCEPT ![loc[t]] = None]
  /\ slipped' = TRUE
  /\ UNCHANGED <<storeVars, tableVars, cache, threadVars>>

-----------------------------------------------------------------------------
(* The process dies: its tables, its threads and its transactions are gone. *)
Crash(p) ==
  LET dead == {t \in Threads : Home[t] = p}
      Alive(t, new, old) == IF t \in dead THEN new ELSE old
  IN /\ \E t \in dead : pc[t] # "idle"
     /\ entry' = [entry EXCEPT ![p] = [l \in Locators |-> None]]
     /\ users' = [users EXCEPT ![p] = [l \in Locators |-> {}]]
     /\ holder' = [k \in Locks |-> Alive(holder[k], None, holder[k])]
     /\ cache' = [cache EXCEPT ![p] = {}]
     /\ advisory' = [l \in Locators |-> Alive(advisory[l], None, advisory[l])]
     /\ pc' = [t \in Threads |-> Alive(t, "idle", pc[t])]
     /\ lock' = [t \in Threads |-> Alive(t, None, lock[t])]
     /\ seen' = [t \in Threads |-> Alive(t, 0, seen[t])]
     /\ attempt' = [t \in Threads |-> Alive(t, 1, attempt[t])]
     /\ UNCHANGED <<storeVars, slipped, loc>>

Refresh(t) ==
  \/ Recheck(t) \/ ReadRecord(t) \/ CallAdapter(t) \/ PutToken(t)
  \/ Compare(t) \/ MoveStage(t) \/ SetSecret(t) \/ Reread(t)
  \/ FinishReplaced(t) \/ FinishMismatch(t) \/ FinishFailed(t)
  \/ ReleaseKey(t) \/ Drop(t) \/ DeleteRecord(t)

Next ==
  \/ \E l \in Locators : Create(l)
  \/ \E t \in Threads, l \in Locators : BeginToken(t, l) \/ BeginDelete(t, l)
  \/ \E t \in Threads : \/ Refresh(t) \/ AcquireKey(t) \/ TakeAdvisoryLock(t)
                       \/ AdvisoryLockFails(t) \/ LoseConnection(t)
  \/ \E p \in Processes : Crash(p)
  \/ \E p \in Processes, l \in Locators : Expire(p, l)

Spec == Init /\ [][Next]_vars

(* Every HTTP and store call has a timeout, so a thread goes on.  A lock    *)
(* that is free again and again is obtained at last: the interpreter hands  *)
(* a thread lock to one of its waiters, PostgreSQL queues advisory locks.   *)
Fairness == \A t \in Threads : /\ WF_vars(Refresh(t))
                              /\ SF_vars(AcquireKey(t))
                              /\ SF_vars(TakeAdvisoryLock(t))
FairSpec == Spec /\ Fairness

-----------------------------------------------------------------------------
(* Properties *)

(* A process refreshes one credential at a time: whatever the order in      *)
(* which threads enter, wait, leave and drop the table's entry, two of them *)
(* are never between acquire and release of the same key.                   *)
OneRefreshAtATime ==
  \A t, u \in Threads :
    /\ Home[t] = Home[u] /\ loc[t] = loc[u]
    /\ pc[t] \in Critical /\ pc[u] \in Critical
    => t = u

(* The table of keyed locks has an entry for exactly the keys some thread   *)
(* is between enter and drop of: it neither leaks nor forgets one in use.   *)
LockTableMatchesCallers ==
  \A p \in Processes, l \in Locators :
    entry[p][l] # None
      <=> \E t \in Threads : Home[t] = p /\ loc[t] = l /\ pc[t] \in Counted

(* ADR-022, stale replacements are never written: a stored refresh token is *)
(* only ever replaced by one that was obtained with it.                     *)
Descends(l) ==
  secret[l] # 0 /\ secret'[l] \notin {0, secret[l]} => origin'[l] = secret[l]

StaleReplacementNeverWritten == [][\A l \in Locators : Descends(l)]_vars

(* What holds of it: always on AWS, and on Azure for as long as no advisory *)
(* lock was lost with its connection in the middle of a replacement.        *)
ReplacementDescends ==
  [][\A l \in Locators :
       Descends(l) \/ (slipped /\ backend = "azure_key_vault")]_vars

(* A token of a deleted credential does not come back to the cache of a     *)
(* process, except by a call that had read the record before the delete:    *)
(* once no such call is left, no other one begins.                          *)
HasRead == {"refresh", "replace", "put"} \cup ReplacePoints

Quiet(p, l) ==
  /\ l \notin cache[p]
  /\ \A t \in Threads : Home[t] = p /\ loc[t] = l => pc[t] \notin HasRead

DeletedStaysUncached ==
  [][\A p \in Processes, l \in Locators :
       origin[l] # None /\ secret[l] = 0 /\ Quiet(p, l) => Quiet(p, l)']_vars

(* Every call for a token and every delete returns: threads that wait on    *)
(* the keyed lock of their process, and holders of it that wait on the      *)
(* advisory lock of the database, never wait for one another.               *)
CallsReturn == \A t \in Threads : pc[t] # "idle" ~> pc[t] = "idle"

-----------------------------------------------------------------------------
(* The inductive invariant *)

TokenTypeOK ==
  /\ backend \in Backends
  /\ secret \in [Locators -> Nat]
  /\ origin \in [Locators -> Nat \cup {None}]
  /\ issued \in Nat
  /\ advisory \in [Locators -> Threads \cup {None}]
  /\ slipped \in BOOLEAN
  /\ entry \in [Processes -> [Locators -> Locks \cup {None}]]
  /\ users \in [Processes -> [Locators -> SUBSET Threads]]
  /\ holder \in [Locks -> Threads \cup {None}]
  /\ cache \in [Processes -> SUBSET Locators]
  /\ pc \in [Threads -> Points]
  /\ loc \in [Threads -> Locators]
  /\ lock \in [Threads -> Locks \cup {None}]
  /\ seen \in [Threads -> Nat]
  /\ attempt \in [Threads -> {1, 2}]

(* The count of an entry counts the threads that hold a reference to its    *)
(* lock, and all of them got the same one.                                  *)
ReferencesCounted ==
  /\ \A t \in Threads :
       /\ pc[t] \in Counted =>
            /\ lock[t] \in Locks
            /\ lock[t] = entry[Home[t]][loc[t]]
            /\ t \in users[Home[t]][loc[t]]
       /\ pc[t] \notin Counted => lock[t] = None
  /\ \A p \in Processes, l \in Locators :
       /\ \A t \in users[p][l] : Home[t] = p /\ loc[t] = l /\ pc[t] \in Counted
       /\ entry[p][l] # None => users[p][l] # {}

(* A lock object belongs to one key, and is locked by the thread inside. *)
LocksOwned ==
  /\ \A p, q \in Processes, l, m \in Locators :
       entry[p][l] = entry[q][m] /\ entry[p][l] # None => p = q /\ l = m
  /\ \A t \in Threads : pc[t] \in Critical => holder[lock[t]] = t
  /\ \A k \in Locks :
       holder[k] # None => pc[holder[k]] \in Critical /\ lock[holder[k]] = k

(* Nobody works on a locator before it was handed out. *)
LocatorsHandedOut ==
  /\ \A l \in Locators : origin[l] = None => secret[l] = 0
  /\ \A t \in Threads : pc[t] # "idle" => origin[loc[t]] # None

(* Who holds the advisory lock, and what its comparison is still worth. *)
AdvisoryOwned ==
  /\ \A l \in Locators :
       advisory[l] # None => pc[advisory[l]] \in MutationPoints /\ loc[advisory[l]] = l
  /\ ~slipped => \A t \in Threads :
       /\ pc[t] \in MutationPoints => advisory[loc[t]] = t
       /\ pc[t] = "write" => secret[loc[t]] = seen[t]

TokenIInv ==
  /\ TokenTypeOK
  /\ ReferencesCounted
  /\ LocksOwned
  /\ LocatorsHandedOut
  /\ AdvisoryOwned
=============================================================================
