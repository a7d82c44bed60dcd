------------------------ MODULE CredentialTokens_proofs ------------------------
(***************************************************************************)
(* Proofs about CredentialTokens: the keyed locks exclude, their table     *)
(* matches the callers, and a stored refresh token is replaced only by one *)
(* obtained with it, for any number of processes, threads and locators.    *)
(***************************************************************************)
EXTENDS CredentialTokens, TLAPS

USE DEF At, Goto, Put, Notify, Cached

(* What taking a reference does, with the lock object named. *)
LEMMA ReferenceTaken ==
  ASSUME NEW t \in Threads, NEW p \in Processes, NEW l \in Locators,
         TokenTypeOK, TakeReference(t, p, l)
  PROVE  \E k \in Locks :
           /\ entry[p][l] = k \/ (entry[p][l] = None /\ k \in Unused)
           /\ entry' = [entry EXCEPT ![p][l] = k]
           /\ users' = [users EXCEPT ![p][l] = @ \cup {t}]
           /\ lock' = [lock EXCEPT ![t] = k]
  <1>1. CASE entry[p][l] = None
    <2>1. PICK free \in Unused : TRUE
      BY <1>1 DEF TakeReference
    <2>2. (CHOOSE x \in Unused : TRUE) \in Unused
      BY <2>1
    <2>3. (CHOOSE x \in Unused : TRUE) \in Locks
      BY <2>2 DEF Unused
    <2>4. QED
      BY <1>1, <2>2, <2>3 DEF TakeReference
  <1>2. CASE entry[p][l] # None
    <2>1. entry[p][l] \in Locks
      BY <1>2 DEF TokenTypeOK
    <2>2. QED
      BY <1>2, <2>1 DEF TakeReference
  <1>3. QED
    BY <1>1, <1>2

-----------------------------------------------------------------------------
LEMMA InitTokens == Init => TokenIInv
  <1> SUFFICES ASSUME Init PROVE TokenIInv
    OBVIOUS
  <1> USE TokenAssumption
      DEF Init, Points, Counted, Critical, MutationPoints, ReplacePoints, DeletePoints
  <1>1. TokenTypeOK
    BY DEF TokenTypeOK
  <1>2. ReferencesCounted
    BY DEF ReferencesCounted
  <1>3. LocksOwned
    BY DEF LocksOwned
  <1>4. LocatorsHandedOut
    BY DEF LocatorsHandedOut
  <1>5. AdvisoryOwned
    BY DEF AdvisoryOwned
  <1>6. QED
    BY <1>1, <1>2, <1>3, <1>4, <1>5 DEF TokenIInv

LEMMA NotifyTyped ==
  ASSUME NEW t \in Threads, cache \in [Processes -> SUBSET Locators],
         Notify(t) \/ UNCHANGED cache
  PROVE  cache' \in [Processes -> SUBSET Locators]
  BY TokenAssumption

(* A record that is written, or not, keeps the store's types. *)
LEMMA RecordTyped ==
  ASSUME NEW t \in Threads, TokenTypeOK, NewRecord(t) \/ UNCHANGED storeVars
  PROVE  /\ backend' \in Backends /\ issued' \in Nat
         /\ secret' \in [Locators -> Nat] /\ origin' \in [Locators -> Nat \cup {None}]
  <1>1. CASE NewRecord(t)
    BY <1>1 DEF NewRecord, TokenTypeOK
  <1>2. CASE UNCHANGED storeVars
    BY <1>2 DEF storeVars, TokenTypeOK
  <1>3. QED
    BY <1>1, <1>2

LEMMA TypeKept ==
  ASSUME TokenTypeOK, [Next]_vars
  PROVE  TokenTypeOK'
  <1> USE TokenAssumption
      DEF TokenTypeOK, Points, Counted, Critical, MutationPoints, ReplacePoints,
          DeletePoints, Backends, storeVars, mutexVars, tableVars, threadVars, vars
  <1>1. CASE UNCHANGED vars
    BY <1>1
  <1>2. ASSUME NEW l \in Locators, Create(l) PROVE TokenTypeOK'
    BY <1>2 DEF Create
  <1>3. ASSUME NEW t \in Threads, NEW l \in Locators, BeginToken(t, l) PROVE TokenTypeOK'
    <2>1. PICK k \in Locks :
            /\ entry' = [entry EXCEPT ![Home[t]][l] = k]
            /\ users' = [users EXCEPT ![Home[t]][l] = @ \cup {t}]
            /\ lock' = [lock EXCEPT ![t] = k]
      BY <1>3, ReferenceTaken DEF BeginToken
    <2>2. QED
      BY <1>3, <2>1 DEF BeginToken
  <1>4. ASSUME NEW t \in Threads, NEW l \in Locators, BeginDelete(t, l) PROVE TokenTypeOK'
    BY <1>4 DEF BeginDelete
  <1>5. ASSUME NEW t \in Threads, AcquireKey(t) PROVE TokenTypeOK'
    BY <1>5 DEF AcquireKey
  <1>6. ASSUME NEW t \in Threads, TakeAdvisoryLock(t) PROVE TokenTypeOK'
    BY <1>6 DEF TakeAdvisoryLock, Locked, Lockers
  <1>7. ASSUME NEW t \in Threads, AdvisoryLockFails(t) PROVE TokenTypeOK'
    BY <1>7 DEF AdvisoryLockFails
  <1>8. ASSUME NEW t \in Threads, LoseConnection(t) PROVE TokenTypeOK'
    BY <1>8 DEF LoseConnection
  <1>9. ASSUME NEW p \in Processes, Crash(p) PROVE TokenTypeOK'
    BY <1>9 DEF Crash
  <1>10. ASSUME NEW p \in Processes, NEW l \in Locators, Expire(p, l) PROVE TokenTypeOK'
    BY <1>10 DEF Expire
  <1>11. ASSUME NEW t \in Threads, Refresh(t) PROVE TokenTypeOK'
    <2>1. CASE Recheck(t)
      BY <2>1 DEF Recheck
    <2>2. CASE ReadRecord(t)
      <3>1. secret[loc[t]] \in Nat
        OBVIOUS
      <3>2. (pc \in [Threads -> Points])'
        <4>1. pc' = [pc EXCEPT ![t] = "refresh"] \/ pc' = [pc EXCEPT ![t] = "release"]
          BY <2>2, Zenon DEF ReadRecord
        <4>2. QED
          BY <4>1
      <3>3. (seen \in [Threads -> Nat])'
        BY <2>2, <3>1 DEF ReadRecord
      <3>4. QED
        BY <2>2, <3>2, <3>3 DEF ReadRecord
    <2>3. CASE CallAdapter(t)
      BY <2>3 DEF CallAdapter
    <2>4. CASE PutToken(t)
      BY <2>4 DEF PutToken
    <2>5. CASE Compare(t)
      BY <2>5 DEF Compare
    <2>6. CASE MoveStage(t)
      <3>1. NewRecord(t) \/ UNCHANGED storeVars
        BY <2>6 DEF MoveStage
      <3>2. \E q \in {"replaced", "replace_failed", "mismatch"} : pc' = [pc EXCEPT ![t] = q]
        <4>1. \/ pc' = [pc EXCEPT ![t] = "replaced"]
              \/ pc' = [pc EXCEPT ![t] = "replace_failed"]
              \/ pc' = [pc EXCEPT ![t] = "mismatch"]
          BY <2>6, Zenon DEF MoveStage
        <4>2. QED
          BY <4>1
      <3>3. (pc \in [Threads -> Points])'
        BY <3>2
      <3>4. (seen \in [Threads -> Nat])'
        <4>1. seen' = [seen EXCEPT ![t] = issued'] \/ seen' = seen
          BY <2>6, Zenon DEF MoveStage
        <4>2. issued' \in Nat
          BY <3>1, RecordTyped
        <4>3. QED
          BY <4>1, <4>2
      <3>5. (cache \in [Processes -> SUBSET Locators])'
        <4>1. Notify(t) \/ UNCHANGED cache
          BY <2>6, Zenon DEF MoveStage
        <4>2. QED
          BY <4>1, NotifyTyped DEF TokenTypeOK
      <3>6. QED
        BY <2>6, <3>1, <3>3, <3>4, <3>5, RecordTyped DEF MoveStage
    <2>7. CASE SetSecret(t)
      <3>1. NewRecord(t) \/ UNCHANGED storeVars
        BY <2>7 DEF SetSecret
      <3>2. \E q \in {"reread", "replace_failed"} : pc' = [pc EXCEPT ![t] = q]
        BY <2>7 DEF SetSecret
      <3>3. (pc \in [Threads -> Points])'
        BY <3>2
      <3>4. (seen \in [Threads -> Nat])'
        <4>1. seen' = [seen EXCEPT ![t] = issued'] \/ seen' = seen
          BY <2>7 DEF SetSecret
        <4>2. issued' \in Nat
          BY <3>1, RecordTyped
        <4>3. QED
          BY <4>1, <4>2
      <3>5. (cache \in [Processes -> SUBSET Locators])'
        BY <2>7 DEF SetSecret
      <3>6. QED
        BY <2>7, <3>1, <3>3, <3>4, <3>5, RecordTyped DEF SetSecret
    <2>8. CASE Reread(t)
      <3>1. (cache \in [Processes -> SUBSET Locators])'
        BY <2>8 DEF Reread
      <3>2. (pc \in [Threads -> Points])'
        <4>1. \E q \in {"replaced", "mismatch", "replace_failed"} : pc' = [pc EXCEPT ![t] = q]
          BY <2>8 DEF Reread
        <4>2. QED
          BY <4>1
      <3>3. QED
        BY <2>8, <3>1, <3>2 DEF Reread
    <2>9. CASE FinishReplaced(t)
      BY <2>9 DEF FinishReplaced, Unlock
    <2>10. CASE FinishMismatch(t)
      BY <2>10 DEF FinishMismatch, Unlock
    <2>11. CASE FinishFailed(t)
      BY <2>11 DEF FinishFailed, Unlock
    <2>12. CASE ReleaseKey(t)
      BY <2>12 DEF ReleaseKey
    <2>13. CASE DeleteRecord(t)
      <3>1. (cache \in [Processes -> SUBSET Locators])'
        BY <2>13 DEF DeleteRecord
      <3>2. (secret \in [Locators -> Nat])'
        BY <2>13 DEF DeleteRecord
      <3>3. (pc \in [Threads -> Points])'
        BY <2>13 DEF DeleteRecord
      <3>4. QED
        BY <2>13, <3>1, <3>2, <3>3 DEF DeleteRecord
    <2>14. CASE Drop(t)
      BY <2>14 DEF Drop, Leave
    <2>15. QED
      BY <1>11, <2>1, <2>2, <2>3, <2>4, <2>5, <2>6, <2>7, <2>8, <2>9, <2>10, <2>11, <2>12, <2>13, <2>14 DEF Refresh
  <1>12. QED
    BY <1>1, <1>2, <1>3, <1>4, <1>5, <1>6, <1>7, <1>8, <1>9, <1>10, <1>11 DEF Next

-----------------------------------------------------------------------------
(* Most steps leave the table of keyed locks alone, and nobody crosses one  *)
(* of its boundaries.                                                       *)
TableAlone ==
  /\ UNCHANGED <<entry, users, holder, lock>>
  /\ \A t \in Threads :
       /\ (pc'[t] \in Critical <=> pc[t] \in Critical)
       /\ (pc'[t] \in Counted <=> pc[t] \in Counted)
       /\ pc[t] \in Counted => loc'[t] = loc[t]

InnerStep(t) ==
  \/ Recheck(t) \/ ReadRecord(t) \/ CallAdapter(t) \/ PutToken(t)
  \/ Compare(t) \/ MoveStage(t) \/ SetSecret(t) \/ Reread(t)
  \/ FinishReplaced(t) \/ FinishMismatch(t) \/ FinishFailed(t) \/ DeleteRecord(t)

(* Where an inner step leads, and what it leaves alone. *)
LEMMA InnerMoves ==
  ASSUME NEW t \in Threads, InnerStep(t)
  PROVE  /\ UNCHANGED <<entry, users, holder, lock, loc>>
         /\ \/ /\ pc[t] \in Critical
               /\ \E q \in Critical : pc' = [pc EXCEPT ![t] = q]
            \/ /\ pc[t] \in DeletePoints
               /\ \E q \in DeletePoints \cup {"idle"} : pc' = [pc EXCEPT ![t] = q]
  <1> USE DEF tableVars, Critical, ReplacePoints, DeletePoints
  <1>1. CASE Recheck(t)
    BY <1>1 DEF Recheck
  <1>2. CASE ReadRecord(t)
    BY <1>2 DEF ReadRecord
  <1>3. CASE CallAdapter(t)
    BY <1>3 DEF CallAdapter
  <1>4. CASE PutToken(t)
    BY <1>4 DEF PutToken
  <1>5. CASE Compare(t)
    BY <1>5 DEF Compare
  <1>6. CASE MoveStage(t)
    <2>1. \/ pc' = [pc EXCEPT ![t] = "replaced"]
          \/ pc' = [pc EXCEPT ![t] = "replace_failed"]
          \/ pc' = [pc EXCEPT ![t] = "mismatch"]
      BY <1>6, Zenon DEF MoveStage
    <2>2. pc[t] = "write" /\ UNCHANGED <<entry, users, holder, lock, loc>>
      BY <1>6 DEF MoveStage
    <2>3. QED
      BY <2>1, <2>2
  <1>7. CASE SetSecret(t)
    <2>1. \/ pc' = [pc EXCEPT ![t] = "reread"]
          \/ pc' = [pc EXCEPT ![t] = "replace_failed"]
      BY <1>7, Zenon DEF SetSecret
    <2>2. pc[t] = "write" /\ UNCHANGED <<entry, users, holder, lock, loc>>
      BY <1>7 DEF SetSecret
    <2>3. QED
      BY <2>1, <2>2
  <1>8. CASE Reread(t)
    BY <1>8 DEF Reread
  <1>9. CASE FinishReplaced(t)
    BY <1>9 DEF FinishReplaced
  <1>10. CASE FinishMismatch(t)
    BY <1>10 DEF FinishMismatch
  <1>11. CASE FinishFailed(t)
    BY <1>11 DEF FinishFailed
  <1>12. CASE DeleteRecord(t)
    BY <1>12 DEF DeleteRecord
  <1>13. QED
    BY <1>1, <1>2, <1>3, <1>4, <1>5, <1>6, <1>7, <1>8, <1>9, <1>10, <1>11, <1>12
       DEF InnerStep

LEMMA TableIsAlone ==
  ASSUME TokenTypeOK,
         \/ UNCHANGED vars
         \/ \E l \in Locators : Create(l)
         \/ \E t \in Threads, l \in Locators : BeginDelete(t, l)
         \/ \E t \in Threads : \/ InnerStep(t) \/ TakeAdvisoryLock(t)
                             \/ AdvisoryLockFails(t) \/ LoseConnection(t)
         \/ \E p \in Processes, l \in Locators : Expire(p, l)
  PROVE  TableAlone
  <1> USE DEF TableAlone, tableVars, threadVars
  <1>1. CASE \/ UNCHANGED vars
             \/ \E l \in Locators : Create(l)
             \/ \E t \in Threads : LoseConnection(t)
             \/ \E p \in Processes, l \in Locators : Expire(p, l)
    BY <1>1 DEF vars, Create, LoseConnection, Expire
  <1>2. ASSUME NEW t \in Threads, NEW l \in Locators, BeginDelete(t, l) PROVE TableAlone
    <2>1. /\ pc[t] = "idle" /\ pc' = [pc EXCEPT ![t] = "begin_delete"]
          /\ loc' = [loc EXCEPT ![t] = l]
          /\ UNCHANGED <<entry, users, holder, lock>>
      BY <1>2 DEF BeginDelete
    <2>2. {"idle", "begin_delete"} \cap Counted = {}
      BY DEF Counted, Critical, ReplacePoints
    <2>3. QED
      BY <2>1, <2>2 DEF TokenTypeOK, Counted
  <1>3. ASSUME NEW t \in Threads, TakeAdvisoryLock(t) \/ AdvisoryLockFails(t)
        PROVE  TableAlone
    BY <1>3 DEF TakeAdvisoryLock, AdvisoryLockFails, Lockers, Locked, TokenTypeOK,
                Counted, Critical, ReplacePoints
  <1>4. ASSUME NEW t \in Threads, InnerStep(t) PROVE TableAlone
    <2>1. CASE /\ pc[t] \in Critical
               /\ \E q \in Critical : pc' = [pc EXCEPT ![t] = q]
      BY <1>4, <2>1, InnerMoves DEF TokenTypeOK, Counted
    <2>2. CASE /\ pc[t] \in DeletePoints
               /\ \E q \in DeletePoints \cup {"idle"} : pc' = [pc EXCEPT ![t] = q]
      BY <1>4, <2>2, InnerMoves
         DEF TokenTypeOK, Counted, Critical, ReplacePoints, DeletePoints
    <2>3. QED
      BY <1>4, <2>1, <2>2, InnerMoves
  <1>5. QED
    BY <1>1, <1>2, <1>3, <1>4

-----------------------------------------------------------------------------
LEMMA ReferencesKept ==
  ASSUME TokenIInv, [Next]_vars
  PROVE  ReferencesCounted'
  <1> USE TokenAssumption DEF TokenIInv
  <1>1. CASE TableAlone
    <2>1. ASSUME NEW t \in Threads
          PROVE  /\ pc'[t] \in Counted => /\ lock'[t] \in Locks
                                        /\ lock'[t] = entry'[Home[t]][loc'[t]]
                                        /\ t \in users'[Home[t]][loc'[t]]
                 /\ pc'[t] \notin Counted => lock'[t] = None
      BY <1>1 DEF TableAlone, ReferencesCounted
    <2>2. ASSUME NEW p \in Processes, NEW l \in Locators
          PROVE  /\ \A t \in users'[p][l] : Home[t] = p /\ loc'[t] = l /\ pc'[t] \in Counted
                 /\ entry'[p][l] # None => users'[p][l] # {}
      <3>1. users[p][l] \subseteq Threads
        BY DEF TokenTypeOK
      <3>2. QED
        BY <1>1, <3>1 DEF TableAlone, ReferencesCounted
    <2>3. QED
      BY <2>1, <2>2 DEF ReferencesCounted
  <1>2. ASSUME NEW t \in Threads, NEW l \in Locators, BeginToken(t, l)
        PROVE  ReferencesCounted'
    <2>1. PICK k \in Locks :
            /\ entry[Home[t]][l] = k \/ (entry[Home[t]][l] = None /\ k \in Unused)
            /\ entry' = [entry EXCEPT ![Home[t]][l] = k]
            /\ users' = [users EXCEPT ![Home[t]][l] = @ \cup {t}]
            /\ lock' = [lock EXCEPT ![t] = k]
      BY <1>2, ReferenceTaken DEF BeginToken
    <2>2. /\ pc[t] = "idle" /\ pc' = [pc EXCEPT ![t] = "acquire"]
          /\ loc' = [loc EXCEPT ![t] = l]
      BY <1>2 DEF BeginToken
    <2>3. pc[t] \notin Counted /\ pc'[t] \in Counted
      BY <2>2 DEF TokenTypeOK, Counted, Critical, ReplacePoints
    <2>4. ASSUME NEW u \in Threads
          PROVE  /\ pc'[u] \in Counted => /\ lock'[u] \in Locks
                                        /\ lock'[u] = entry'[Home[u]][loc'[u]]
                                        /\ u \in users'[Home[u]][loc'[u]]
                 /\ pc'[u] \notin Counted => lock'[u] = None
      <3>1. CASE u = t
        BY <2>1, <2>2, <2>3, <3>1 DEF TokenTypeOK
      <3>2. CASE u # t
        BY <2>1, <2>2, <3>2 DEF TokenTypeOK, ReferencesCounted
      <3>3. QED
        BY <3>1, <3>2
    <2>5. ASSUME NEW p \in Processes, NEW m \in Locators
          PROVE  /\ \A u \in users'[p][m] : Home[u] = p /\ loc'[u] = m /\ pc'[u] \in Counted
                 /\ entry'[p][m] # None => users'[p][m] # {}
      BY <2>1, <2>2, <2>3 DEF TokenTypeOK, ReferencesCounted
    <2>6. QED
      BY <2>4, <2>5 DEF ReferencesCounted
  <1>3. ASSUME NEW t \in Threads, AcquireKey(t) \/ ReleaseKey(t) PROVE ReferencesCounted'
    <2>1. /\ UNCHANGED <<entry, users, lock, loc>>
          /\ pc[t] \in Counted
          /\ \E q \in Counted : pc' = [pc EXCEPT ![t] = q]
      BY <1>3 DEF AcquireKey, ReleaseKey, Counted, Critical
    <2>2. \A u \in Threads : pc'[u] \in Counted <=> pc[u] \in Counted
      BY <2>1 DEF TokenTypeOK
    <2>3. \A p \in Processes, l \in Locators : users[p][l] \subseteq Threads
      BY DEF TokenTypeOK
    <2>4. QED
      BY <2>1, <2>2, <2>3 DEF ReferencesCounted
  <1>4. ASSUME NEW t \in Threads, Drop(t) PROVE ReferencesCounted'
    <2> DEFINE left == users[Home[t]][loc[t]] \ {t}
    <2>1. /\ pc[t] = "drop" /\ pc' = [pc EXCEPT ![t] = "idle"] /\ loc' = loc
          /\ users' = [users EXCEPT ![Home[t]][loc[t]] = left]
          /\ entry' = [entry EXCEPT ![Home[t]][loc[t]] = IF left = {} THEN None ELSE @]
          /\ lock' = [lock EXCEPT ![t] = None]
      BY <1>4 DEF Drop, Leave
    <2>2. pc[t] \in Counted /\ pc'[t] \notin Counted
      BY <2>1 DEF TokenTypeOK, Counted, Critical, ReplacePoints
    <2>3. ASSUME NEW u \in Threads
          PROVE  /\ pc'[u] \in Counted => /\ lock'[u] \in Locks
                                        /\ lock'[u] = entry'[Home[u]][loc'[u]]
                                        /\ u \in users'[Home[u]][loc'[u]]
                 /\ pc'[u] \notin Counted => lock'[u] = None
      <3>1. CASE u = t
        BY <2>1, <2>2, <3>1 DEF TokenTypeOK
      <3>2. CASE u # t /\ pc[u] \in Counted /\ Home[u] = Home[t] /\ loc[u] = loc[t]
        <4>1. u \in left
          BY <3>2 DEF ReferencesCounted
        <4>2. QED
          BY <2>1, <3>2, <4>1 DEF TokenTypeOK, ReferencesCounted
      <3>3. CASE u # t /\ ~(pc[u] \in Counted /\ Home[u] = Home[t] /\ loc[u] = loc[t])
        BY <2>1, <3>3 DEF TokenTypeOK, ReferencesCounted
      <3>4. QED
        BY <3>1, <3>2, <3>3
    <2>4. ASSUME NEW p \in Processes, NEW m \in Locators
          PROVE  /\ \A u \in users'[p][m] : Home[u] = p /\ loc'[u] = m /\ pc'[u] \in Counted
                 /\ entry'[p][m] # None => users'[p][m] # {}
      BY <2>1 DEF TokenTypeOK, ReferencesCounted
    <2>5. QED
      BY <2>3, <2>4 DEF ReferencesCounted
  <1>5. ASSUME NEW p \in Processes, Crash(p) PROVE ReferencesCounted'
    BY <1>5 DEF Crash, ReferencesCounted, TokenTypeOK, Counted, Critical, ReplacePoints
  <1>6. QED
    BY <1>1, <1>2, <1>3, <1>4, <1>5, TableIsAlone DEF Next, Refresh, InnerStep

LEMMA LocksKept ==
  ASSUME TokenIInv, [Next]_vars
  PROVE  LocksOwned'
  <1> USE TokenAssumption DEF TokenIInv
  <1>0. {"idle", "acquire", "drop"} \cap Critical = {}
    BY DEF Critical, ReplacePoints
  <1>1. CASE TableAlone
    <2>1. \A k \in Locks : holder[k] # None => holder[k] \in Threads
      BY DEF TokenTypeOK
    <2>2. QED
      BY <1>1, <2>1 DEF TableAlone, LocksOwned
  <1>2. ASSUME NEW t \in Threads, NEW l \in Locators, BeginToken(t, l)
        PROVE  LocksOwned'
    <2>1. PICK k \in Locks :
            /\ entry[Home[t]][l] = k \/ (entry[Home[t]][l] = None /\ k \in Unused)
            /\ entry' = [entry EXCEPT ![Home[t]][l] = k]
            /\ users' = [users EXCEPT ![Home[t]][l] = @ \cup {t}]
            /\ lock' = [lock EXCEPT ![t] = k]
      BY <1>2, ReferenceTaken DEF BeginToken
    <2>2. /\ pc[t] = "idle" /\ pc' = [pc EXCEPT ![t] = "acquire"]
          /\ UNCHANGED holder
      BY <1>2 DEF BeginToken
    <2>3. ASSUME NEW p \in Processes, NEW q \in Processes,
                 NEW m \in Locators, NEW n \in Locators,
                 entry'[p][m] = entry'[q][n], entry'[p][m] # None
          PROVE  p = q /\ m = n
      <3>1. CASE entry[Home[t]][l] = k
        <4>1. entry' = entry
          BY <2>1, <3>1 DEF TokenTypeOK
        <4>2. QED
          BY <2>3, <4>1 DEF LocksOwned
      <3>2. CASE entry[Home[t]][l] = None /\ k \in Unused
        BY <2>1, <2>3, <3>2 DEF TokenTypeOK, LocksOwned, Unused
      <3>3. QED
        BY <2>1, <3>1, <3>2
    <2>4. ASSUME NEW u \in Threads, pc'[u] \in Critical
          PROVE  holder'[lock'[u]] = u
      <3>1. u # t
        BY <1>0, <2>2, <2>4 DEF TokenTypeOK
      <3>2. QED
        BY <2>1, <2>2, <2>4, <3>1 DEF TokenTypeOK, LocksOwned
    <2>5. ASSUME NEW j \in Locks, holder'[j] # None
          PROVE  pc'[holder'[j]] \in Critical /\ lock'[holder'[j]] = j
      <3>1. holder[j] \in Threads /\ pc[holder[j]] \in Critical /\ lock[holder[j]] = j
        BY <2>2, <2>5 DEF TokenTypeOK, LocksOwned
      <3>2. holder[j] # t
        BY <1>0, <2>2, <3>1
      <3>3. QED
        BY <2>1, <2>2, <3>1, <3>2 DEF TokenTypeOK
    <2>6. QED
      BY <2>3, <2>4, <2>5 DEF LocksOwned
  <1>3. ASSUME NEW t \in Threads, AcquireKey(t) PROVE LocksOwned'
    <2>1. /\ pc[t] = "acquire" /\ pc' = [pc EXCEPT ![t] = "recheck"]
          /\ holder[lock[t]] = None /\ holder' = [holder EXCEPT ![lock[t]] = t]
          /\ UNCHANGED <<entry, lock>>
      BY <1>3 DEF AcquireKey
    <2>2. lock[t] \in Locks /\ "recheck" \in Critical
      BY <2>1 DEF ReferencesCounted, Counted, Critical
    <2>3. \A u \in Threads : pc[u] \in Critical => lock[u] \in Locks
      BY DEF ReferencesCounted, Counted
    <2>4. \A u \in Threads : pc'[u] \in Critical => holder'[lock'[u]] = u
      BY <2>1, <2>2, <2>3 DEF TokenTypeOK, LocksOwned
    <2>5. \A k \in Locks :
            holder'[k] # None => pc'[holder'[k]] \in Critical /\ lock'[holder'[k]] = k
      BY <2>1, <2>2 DEF TokenTypeOK, LocksOwned
    <2>6. QED
      BY <2>1, <2>4, <2>5 DEF LocksOwned
  <1>4. ASSUME NEW t \in Threads, ReleaseKey(t) PROVE LocksOwned'
    <2>1. /\ pc[t] = "release" /\ pc' = [pc EXCEPT ![t] = "drop"]
          /\ holder' = [holder EXCEPT ![lock[t]] = None]
          /\ UNCHANGED <<entry, lock>>
      BY <1>4 DEF ReleaseKey
    <2>2. /\ \A u \in Threads : pc[u] \in Critical => lock[u] \in Locks
          /\ pc[t] \in Critical
      BY <2>1 DEF ReferencesCounted, Counted, Critical
    <2>3. \A u \in Threads : pc'[u] \in Critical => holder'[lock'[u]] = u
      BY <1>0, <2>1, <2>2 DEF TokenTypeOK, LocksOwned
    <2>4. \A k \in Locks :
            holder'[k] # None => pc'[holder'[k]] \in Critical /\ lock'[holder'[k]] = k
      BY <2>1, <2>2 DEF TokenTypeOK, LocksOwned
    <2>5. QED
      BY <2>1, <2>3, <2>4 DEF LocksOwned
  <1>5. ASSUME NEW t \in Threads, Drop(t) PROVE LocksOwned'
    <2> DEFINE left == users[Home[t]][loc[t]] \ {t}
    <2>1. /\ pc[t] = "drop" /\ pc' = [pc EXCEPT ![t] = "idle"] /\ UNCHANGED holder
          /\ entry' = [entry EXCEPT ![Home[t]][loc[t]] = IF left = {} THEN None ELSE @]
          /\ lock' = [lock EXCEPT ![t] = None]
      BY <1>5 DEF Drop, Leave
    <2>2. ASSUME NEW p \in Processes, NEW q \in Processes,
                 NEW m \in Locators, NEW n \in Locators,
                 entry'[p][m] = entry'[q][n], entry'[p][m] # None
          PROVE  p = q /\ m = n
      <3>1. entry'[p][m] = entry[p][m] /\ entry'[q][n] = entry[q][n]
        BY <2>1, <2>2 DEF TokenTypeOK
      <3>2. entry[p][m] = entry[q][n] /\ entry[p][m] # None
        BY <2>2, <3>1
      <3>3. QED
        BY <2>2, <3>2 DEF LocksOwned
    <2>3. \A u \in Threads : pc'[u] \in Critical => holder'[lock'[u]] = u
      BY <1>0, <2>1 DEF TokenTypeOK, LocksOwned
    <2>4. ASSUME NEW j \in Locks, holder'[j] # None
          PROVE  pc'[holder'[j]] \in Critical /\ lock'[holder'[j]] = j
      <3>1. holder[j] \in Threads /\ pc[holder[j]] \in Critical /\ lock[holder[j]] = j
        BY <2>1, <2>4 DEF TokenTypeOK, LocksOwned
      <3>2. holder[j] # t
        BY <1>0, <2>1, <3>1
      <3>3. QED
        BY <2>1, <3>1, <3>2 DEF TokenTypeOK
    <2>5. QED
      BY <2>2, <2>3, <2>4 DEF LocksOwned
  <1>6. ASSUME NEW p \in Processes, Crash(p) PROVE LocksOwned'
    <2> DEFINE dead == {t \in Threads : Home[t] = p}
    <2>1. /\ entry' = [entry EXCEPT ![p] = [l \in Locators |-> None]]
          /\ holder' = [k \in Locks |-> IF holder[k] \in dead THEN None ELSE holder[k]]
          /\ pc' = [t \in Threads |-> IF t \in dead THEN "idle" ELSE pc[t]]
          /\ lock' = [t \in Threads |-> IF t \in dead THEN None ELSE lock[t]]
      BY <1>6 DEF Crash
    <2>2. ASSUME NEW q \in Processes, NEW r \in Processes,
                 NEW m \in Locators, NEW n \in Locators,
                 entry'[q][m] = entry'[r][n], entry'[q][m] # None
          PROVE  q = r /\ m = n
      <3>1. entry'[q][m] = entry[q][m] /\ entry'[r][n] = entry[r][n]
        BY <2>1, <2>2 DEF TokenTypeOK
      <3>2. entry[q][m] = entry[r][n] /\ entry[q][m] # None
        BY <2>2, <3>1
      <3>3. QED
        BY <2>2, <3>2 DEF LocksOwned
    <2>3. ASSUME NEW u \in Threads, pc'[u] \in Critical
          PROVE  holder'[lock'[u]] = u
      <3>1. u \notin dead
        BY <1>0, <2>1, <2>3
      <3>2. pc[u] \in Critical /\ lock'[u] = lock[u] /\ lock[u] \in Locks
        BY <2>1, <2>3, <3>1 DEF ReferencesCounted, Counted
      <3>3. QED
        BY <2>1, <3>1, <3>2 DEF LocksOwned
    <2>4. \A k \in Locks :
            holder'[k] # None => pc'[holder'[k]] \in Critical /\ lock'[holder'[k]] = k
      BY <2>1 DEF TokenTypeOK, LocksOwned
    <2>5. QED
      BY <2>2, <2>3, <2>4 DEF LocksOwned
  <1>7. QED
    BY <1>1, <1>2, <1>3, <1>4, <1>5, <1>6, TableIsAlone DEF Next, Refresh, InnerStep

-----------------------------------------------------------------------------
(* A record is written only where there is one to replace. *)
LEMMA HandedOutKept ==
  ASSUME TokenIInv, [Next]_vars
  PROVE  LocatorsHandedOut'
  <1> USE TokenAssumption DEF TokenIInv, LocatorsHandedOut
  <1>1. CASE UNCHANGED vars
    BY <1>1 DEF vars, storeVars, threadVars
  <1>2. ASSUME NEW l \in Locators, Create(l) PROVE LocatorsHandedOut'
    BY <1>2 DEF Create, threadVars, TokenTypeOK
  <1>3. ASSUME NEW t \in Threads, NEW l \in Locators,
               BeginToken(t, l) \/ BeginDelete(t, l)
        PROVE  LocatorsHandedOut'
    <2>1. /\ UNCHANGED storeVars /\ origin[l] # None
          /\ loc' = [loc EXCEPT ![t] = l]
          /\ \E q \in Points : pc' = [pc EXCEPT ![t] = q]
      BY <1>3 DEF BeginToken, BeginDelete, Points, Counted
    <2>2. QED
      BY <2>1 DEF TokenTypeOK, storeVars
  <1>4. ASSUME NEW t \in Threads, UNCHANGED <<storeVars, loc>>, pc[t] # "idle",
               \E q : pc' = [pc EXCEPT ![t] = q]
        PROVE  LocatorsHandedOut'
    BY <1>4 DEF TokenTypeOK, storeVars
  <1>5. ASSUME NEW t \in Threads, NewRecord(t), pc[t] = "write", UNCHANGED loc,
               \E q : pc' = [pc EXCEPT ![t] = q]
        PROVE  LocatorsHandedOut'
    BY <1>5 DEF NewRecord, TokenTypeOK
  <1>6. ASSUME NEW t \in Threads, MoveStage(t) \/ SetSecret(t) PROVE LocatorsHandedOut'
    <2>1. /\ pc[t] = "write" /\ UNCHANGED loc
          /\ NewRecord(t) \/ UNCHANGED storeVars
      BY <1>6 DEF MoveStage, SetSecret
    <2>2. \E q : pc' = [pc EXCEPT ![t] = q]
      BY <1>6, InnerMoves DEF InnerStep
    <2>3. QED
      BY <1>4, <1>5, <2>1, <2>2
  <1>7. ASSUME NEW t \in Threads, DeleteRecord(t) PROVE LocatorsHandedOut'
    <2>1. /\ pc[t] = "delete" /\ UNCHANGED <<origin, loc>>
          /\ pc' = [pc EXCEPT ![t] = "deleted"]
          /\ secret' = [secret EXCEPT ![loc[t]] = 0] \/ UNCHANGED secret
      BY <1>7 DEF DeleteRecord
    <2>2. QED
      BY <2>1 DEF TokenTypeOK
  <1>8. ASSUME NEW t \in Threads,
               \/ Recheck(t) \/ ReadRecord(t) \/ CallAdapter(t) \/ PutToken(t)
               \/ Compare(t) \/ Reread(t) \/ FinishReplaced(t) \/ FinishMismatch(t)
               \/ FinishFailed(t)
        PROVE  LocatorsHandedOut'
    <2>1. UNCHANGED <<storeVars, loc>>
      BY <1>8 DEF Recheck, ReadRecord, CallAdapter, PutToken, Compare, Reread,
                  FinishReplaced, FinishMismatch, FinishFailed
    <2>2. pc[t] # "idle" /\ \E q : pc' = [pc EXCEPT ![t] = q]
      BY <1>8, InnerMoves DEF InnerStep, Critical, ReplacePoints, DeletePoints
    <2>3. QED
      BY <1>4, <2>1, <2>2
  <1>9. ASSUME NEW t \in Threads,
               \/ AcquireKey(t) \/ ReleaseKey(t) \/ Drop(t)
               \/ TakeAdvisoryLock(t) \/ AdvisoryLockFails(t)
        PROVE  LocatorsHandedOut'
    BY <1>4, <1>9 DEF AcquireKey, ReleaseKey, Drop, Leave, TakeAdvisoryLock,
                      AdvisoryLockFails, Lockers
  <1>10. CASE \/ \E t \in Threads : LoseConnection(t)
              \/ \E p \in Processes, l \in Locators : Expire(p, l)
    BY <1>10 DEF LoseConnection, Expire, storeVars, threadVars
  <1>11. ASSUME NEW p \in Processes, Crash(p) PROVE LocatorsHandedOut'
    BY <1>11 DEF Crash, storeVars, TokenTypeOK
  <1>12. QED
    BY <1>1, <1>2, <1>3, <1>6, <1>7, <1>8, <1>9, <1>10, <1>11 DEF Next, Refresh

(* The step of a thread that neither takes the advisory lock nor gives it   *)
(* up, and does not touch the stored record.                                *)
LEMMA LockUnaffected ==
  ASSUME TokenTypeOK, AdvisoryOwned, NEW t \in Threads, NEW q,
         UNCHANGED <<advisory, slipped, secret, loc>>,
         pc' = [pc EXCEPT ![t] = q],
         q \in MutationPoints <=> pc[t] \in MutationPoints,
         \A u \in Threads : u # t => seen'[u] = seen[u],
         q = "write" => secret[loc[t]] = seen'[t]
  PROVE  AdvisoryOwned'
  <1>1. \A u \in Threads : pc'[u] \in MutationPoints <=> pc[u] \in MutationPoints
    BY DEF TokenTypeOK
  <1>2. \A l \in Locators : advisory[l] # None => advisory[l] \in Threads
    BY DEF TokenTypeOK
  <1>3. \A u \in Threads : ~slipped /\ pc'[u] = "write" => secret[loc[u]] = seen'[u]
    BY DEF TokenTypeOK, AdvisoryOwned
  <1>4. QED
    BY <1>1, <1>2, <1>3 DEF AdvisoryOwned

(* The step of the thread whose transaction has the lock, on the record. *)
LEMMA LockedStep ==
  ASSUME TokenTypeOK, AdvisoryOwned, NEW t \in Threads, NEW q \in MutationPoints \ {"write"},
         pc[t] \in MutationPoints,
         UNCHANGED <<advisory, slipped, loc>>,
         pc' = [pc EXCEPT ![t] = q],
         \A l \in Locators : l # loc[t] => secret'[l] = secret[l],
         \A u \in Threads : u # t => seen'[u] = seen[u]
  PROVE  AdvisoryOwned'
  <1>1. \A u \in Threads : pc'[u] \in MutationPoints <=> pc[u] \in MutationPoints
    BY DEF TokenTypeOK
  <1>2. \A l \in Locators : advisory[l] # None => advisory[l] \in Threads
    BY DEF TokenTypeOK
  <1>3. ASSUME NEW u \in Threads, ~slipped, pc'[u] = "write"
        PROVE  secret'[loc[u]] = seen'[u]
    <2>1. u # t /\ pc[u] = "write"
      BY <1>3 DEF TokenTypeOK
    <2>2. pc[u] \in MutationPoints
      BY <2>1 DEF MutationPoints, ReplacePoints
    <2>3. loc[u] # loc[t]
      BY <1>3, <2>1, <2>2 DEF AdvisoryOwned
    <2>4. QED
      BY <1>3, <2>1, <2>3 DEF TokenTypeOK, AdvisoryOwned
  <1>4. QED
    BY <1>1, <1>2, <1>3 DEF AdvisoryOwned

(* COMMIT or ROLLBACK. *)
LEMMA UnlockStep ==
  ASSUME TokenTypeOK, AdvisoryOwned, NEW t \in Threads, NEW q,
         q \notin MutationPoints, Unlock(t), pc[t] \in MutationPoints,
         UNCHANGED <<slipped, secret, loc, seen>>,
         pc' = [pc EXCEPT ![t] = q]
  PROVE  AdvisoryOwned'
  <1>1. "write" \in MutationPoints
    BY DEF MutationPoints, ReplacePoints
  <1>2. ASSUME NEW l \in Locators, advisory'[l] # None
        PROVE  pc'[advisory'[l]] \in MutationPoints /\ loc'[advisory'[l]] = l
    BY <1>2 DEF Unlock, TokenTypeOK, AdvisoryOwned
  <1>3. ASSUME NEW u \in Threads, ~slipped'
        PROVE  /\ pc'[u] \in MutationPoints => advisory'[loc'[u]] = u
               /\ pc'[u] = "write" => secret'[loc'[u]] = seen'[u]
    BY <1>1, <1>3 DEF Unlock, TokenTypeOK, AdvisoryOwned
  <1>4. QED
    BY <1>2, <1>3 DEF AdvisoryOwned

LEMMA AdvisoryKept ==
  ASSUME TokenIInv, [Next]_vars
  PROVE  AdvisoryOwned'
  <1> USE TokenAssumption DEF TokenIInv
  <1>0. /\ MutationPoints \subseteq Points
        /\ {"idle", "acquire", "begin_delete", "recheck", "read", "refresh", "replace",
            "put", "release", "drop"} \cap MutationPoints = {}
        /\ {"compare", "write", "reread", "replaced", "mismatch", "replace_failed",
            "delete", "deleted"} = MutationPoints
    BY DEF Points, Counted, Critical, MutationPoints, ReplacePoints, DeletePoints
  <1>1. CASE UNCHANGED vars
    BY <1>1 DEF vars, storeVars, mutexVars, threadVars, AdvisoryOwned
  <1>2. ASSUME NEW l \in Locators, Create(l) PROVE AdvisoryOwned'
    <2>1. ASSUME NEW t \in Threads, pc[t] = "write" PROVE loc[t] # l
      BY <1>2, <2>1 DEF Create, LocatorsHandedOut
    <2>2. QED
      BY <1>2, <2>1 DEF Create, mutexVars, threadVars, AdvisoryOwned, TokenTypeOK
  <1>3. ASSUME NEW t \in Threads, NEW l \in Locators, BeginToken(t, l) \/ BeginDelete(t, l)
        PROVE  AdvisoryOwned'
    <2>1. /\ UNCHANGED <<secret, advisory, slipped, seen>>
          /\ pc[t] = "idle" /\ loc' = [loc EXCEPT ![t] = l]
          /\ \E q \in {"acquire", "begin_delete"} : pc' = [pc EXCEPT ![t] = q]
      BY <1>3 DEF BeginToken, BeginDelete, storeVars, mutexVars
    <2>2. ASSUME NEW m \in Locators, advisory[m] # None
          PROVE  pc'[advisory[m]] \in MutationPoints /\ loc'[advisory[m]] = m
      BY <1>0, <2>1, <2>2 DEF TokenTypeOK, AdvisoryOwned
    <2>3. ASSUME NEW u \in Threads, ~slipped
          PROVE  /\ pc'[u] \in MutationPoints => advisory[loc'[u]] = u
                 /\ pc'[u] = "write" => secret[loc'[u]] = seen[u]
      BY <1>0, <2>1, <2>3 DEF TokenTypeOK, AdvisoryOwned
    <2>4. QED
      BY <2>1, <2>2, <2>3 DEF AdvisoryOwned
  <1>4. ASSUME NEW t \in Threads,
               \/ AcquireKey(t) \/ ReleaseKey(t) \/ Drop(t) \/ AdvisoryLockFails(t)
               \/ Recheck(t) \/ ReadRecord(t) \/ CallAdapter(t) \/ PutToken(t)
        PROVE  AdvisoryOwned'
    <2>1. /\ UNCHANGED <<advisory, slipped, secret, loc>>
          /\ pc[t] \notin MutationPoints
          /\ \E q : pc' = [pc EXCEPT ![t] = q] /\ q \notin MutationPoints
          /\ \A u \in Threads : u # t => seen'[u] = seen[u]
      BY <1>0, <1>4
         DEF AcquireKey, ReleaseKey, Drop, Leave, AdvisoryLockFails, Lockers, Recheck,
             ReadRecord, CallAdapter, PutToken, storeVars, mutexVars, TokenTypeOK
    <2>2. PICK q : pc' = [pc EXCEPT ![t] = q] /\ q \notin MutationPoints
      BY <2>1
    <2>3. q # "write"
      BY <1>0, <2>2
    <2>4. QED
      BY <2>1, <2>2, <2>3, LockUnaffected
  <1>5. ASSUME NEW t \in Threads, Compare(t) PROVE AdvisoryOwned'
    <2>1. /\ UNCHANGED <<advisory, slipped, secret, loc, seen>>
          /\ pc[t] = "compare"
          /\ \E q \in {"write", "mismatch", "replace_failed"} :
               /\ pc' = [pc EXCEPT ![t] = q]
               /\ q = "write" => secret[loc[t]] = seen[t]
      BY <1>5 DEF Compare, storeVars, mutexVars
    <2>2. PICK q \in {"write", "mismatch", "replace_failed"} :
               /\ pc' = [pc EXCEPT ![t] = q]
               /\ q = "write" => secret[loc[t]] = seen[t]
      BY <2>1
    <2>3. q \in MutationPoints /\ pc[t] \in MutationPoints
      BY <1>0, <2>1
    <2>4. QED
      BY <2>1, <2>2, <2>3, LockUnaffected
  <1>6. ASSUME NEW t \in Threads,
               MoveStage(t) \/ SetSecret(t) \/ Reread(t) \/ DeleteRecord(t)
        PROVE  AdvisoryOwned'
    <2>1. /\ UNCHANGED <<advisory, slipped, loc>>
          /\ pc[t] \in {"write", "reread", "delete"}
          /\ \A u \in Threads : u # t => seen'[u] = seen[u]
      BY <1>6 DEF MoveStage, SetSecret, Reread, DeleteRecord, mutexVars, TokenTypeOK
    <2>2. \/ pc' = [pc EXCEPT ![t] = "reread"]
          \/ pc' = [pc EXCEPT ![t] = "replaced"]
          \/ pc' = [pc EXCEPT ![t] = "mismatch"]
          \/ pc' = [pc EXCEPT ![t] = "replace_failed"]
          \/ pc' = [pc EXCEPT ![t] = "deleted"]
      BY <1>6, Zenon DEF MoveStage, SetSecret, Reread, DeleteRecord
    <2>3. PICK q \in MutationPoints \ {"write"} : pc' = [pc EXCEPT ![t] = q]
      BY <1>0, <2>2
    <2>4. \A l \in Locators : l # loc[t] => secret'[l] = secret[l]
      <3>1. CASE MoveStage(t) \/ SetSecret(t)
        <4>1. NewRecord(t) \/ UNCHANGED storeVars
          BY <3>1, Zenon DEF MoveStage, SetSecret
        <4>2. QED
          BY <4>1 DEF NewRecord, storeVars, TokenTypeOK
      <3>2. CASE Reread(t) \/ DeleteRecord(t)
        BY <3>2 DEF Reread, DeleteRecord, storeVars, TokenTypeOK
      <3>3. QED
        BY <1>6, <3>1, <3>2
    <2>5. pc[t] \in MutationPoints
      BY <1>0, <2>1
    <2>6. QED
      BY <2>1, <2>3, <2>4, <2>5, LockedStep
  <1>7. ASSUME NEW t \in Threads, FinishReplaced(t) \/ FinishMismatch(t) \/ FinishFailed(t)
        PROVE  AdvisoryOwned'
    <2>1. /\ Unlock(t) /\ UNCHANGED <<slipped, secret, loc, seen>>
          /\ pc[t] \in {"replaced", "mismatch", "replace_failed", "deleted"}
      BY <1>7 DEF FinishReplaced, FinishMismatch, FinishFailed, storeVars
    <2>2. \E q \in {"put", "read", "release", "idle"} : pc' = [pc EXCEPT ![t] = q]
      BY <1>7 DEF FinishReplaced, FinishMismatch, FinishFailed
    <2>3. PICK q : pc' = [pc EXCEPT ![t] = q] /\ q \notin MutationPoints
      BY <1>0, <2>2
    <2>4. pc[t] \in MutationPoints
      BY <1>0, <2>1
    <2>5. QED
      BY <2>1, <2>3, <2>4, UnlockStep
  <1>8. ASSUME NEW t \in Threads, TakeAdvisoryLock(t) PROVE AdvisoryOwned'
    <2>1. /\ UNCHANGED <<slipped, secret, loc, seen>>
          /\ pc[t] \notin MutationPoints
          /\ advisory[loc[t]] = None /\ advisory' = [advisory EXCEPT ![loc[t]] = t]
      BY <1>0, <1>8 DEF TakeAdvisoryLock, Lockers, storeVars
    <2>2. PICK q \in {"compare", "delete"} : pc' = [pc EXCEPT ![t] = q]
      BY <1>8 DEF TakeAdvisoryLock, Locked
    <2>3. q \in MutationPoints /\ q # "write"
      BY <1>0
    <2>4. ASSUME NEW m \in Locators, advisory'[m] # None
          PROVE  pc'[advisory'[m]] \in MutationPoints /\ loc'[advisory'[m]] = m
      BY <2>1, <2>2, <2>3, <2>4 DEF TokenTypeOK, AdvisoryOwned
    <2>5. ASSUME NEW u \in Threads, ~slipped
          PROVE  /\ pc'[u] \in MutationPoints => advisory'[loc'[u]] = u
                 /\ pc'[u] = "write" => secret'[loc'[u]] = seen'[u]
      BY <2>1, <2>2, <2>3, <2>5 DEF TokenTypeOK, AdvisoryOwned
    <2>6. QED
      BY <2>1, <2>4, <2>5 DEF AdvisoryOwned
  <1>9. ASSUME NEW t \in Threads, LoseConnection(t) PROVE AdvisoryOwned'
    BY <1>9 DEF LoseConnection, storeVars, threadVars, TokenTypeOK, AdvisoryOwned
  <1>10. ASSUME NEW p \in Processes, NEW l \in Locators, Expire(p, l) PROVE AdvisoryOwned'
    BY <1>10 DEF Expire, storeVars, mutexVars, threadVars, AdvisoryOwned
  <1>11. ASSUME NEW p \in Processes, Crash(p) PROVE AdvisoryOwned'
    <2> DEFINE dead == {t \in Threads : Home[t] = p}
    <2>1. /\ advisory' = [l \in Locators |-> IF advisory[l] \in dead THEN None ELSE advisory[l]]
          /\ pc' = [t \in Threads |-> IF t \in dead THEN "idle" ELSE pc[t]]
          /\ seen' = [t \in Threads |-> IF t \in dead THEN 0 ELSE seen[t]]
          /\ UNCHANGED <<secret, slipped, loc>>
      BY <1>11 DEF Crash, storeVars
    <2>2. ASSUME NEW m \in Locators, advisory'[m] # None
          PROVE  pc'[advisory'[m]] \in MutationPoints /\ loc'[advisory'[m]] = m
      BY <2>1, <2>2 DEF TokenTypeOK, AdvisoryOwned
    <2>3. ASSUME NEW u \in Threads, ~slipped
          PROVE  /\ pc'[u] \in MutationPoints => advisory'[loc'[u]] = u
                 /\ pc'[u] = "write" => secret'[loc'[u]] = seen'[u]
      BY <1>0, <2>1, <2>3 DEF TokenTypeOK, AdvisoryOwned
    <2>4. QED
      BY <2>1, <2>2, <2>3 DEF AdvisoryOwned
  <1>12. QED
    BY <1>1, <1>2, <1>3, <1>4, <1>5, <1>6, <1>7, <1>8, <1>9, <1>10, <1>11 DEF Next, Refresh

LEMMA InvariantKept == TokenIInv /\ [Next]_vars => TokenIInv'
  BY TypeKept, ReferencesKept, LocksKept, HandedOutKept, AdvisoryKept DEF TokenIInv

(* The inductive invariant holds in every reachable state. *)
THEOREM TokenInvariance == Spec => []TokenIInv
  BY InitTokens, InvariantKept, PTL DEF Spec

(* Two threads of a process are never inside the same keyed lock. *)
THEOREM KeyedLocksExclude == Spec => []OneRefreshAtATime
  <1>1. TokenIInv => OneRefreshAtATime
    BY DEF TokenIInv, OneRefreshAtATime, ReferencesCounted, LocksOwned, Counted
  <1>2. QED
    BY <1>1, TokenInvariance, PTL

(* The table of keyed locks has an entry exactly where a thread needs one. *)
THEOREM TableIsExact == Spec => []LockTableMatchesCallers
  <1>1. TokenIInv => LockTableMatchesCallers
    <2> SUFFICES ASSUME TokenIInv, NEW p \in Processes, NEW l \in Locators
                 PROVE  entry[p][l] # None
                          <=> \E t \in Threads : Home[t] = p /\ loc[t] = l /\ pc[t] \in Counted
      BY DEF LockTableMatchesCallers
    <2>1. ASSUME entry[p][l] # None
          PROVE  \E t \in Threads : Home[t] = p /\ loc[t] = l /\ pc[t] \in Counted
      <3>1. PICK t \in users[p][l] : TRUE
        BY <2>1 DEF TokenIInv, ReferencesCounted
      <3>2. t \in Threads
        BY DEF TokenIInv, TokenTypeOK
      <3>3. QED
        BY <3>2 DEF TokenIInv, ReferencesCounted
    <2>2. ASSUME NEW t \in Threads, Home[t] = p, loc[t] = l, pc[t] \in Counted
          PROVE  entry[p][l] # None
      BY <2>2, TokenAssumption DEF TokenIInv, ReferencesCounted
    <2>3. QED
      BY <2>1, <2>2
  <1>2. QED
    BY <1>1, TokenInvariance, PTL

-----------------------------------------------------------------------------
(* What a step may never do *)

(* A step other than the four below leaves the store alone. *)
LEMMA StoreWriters ==
  ASSUME TokenIInv, Next
  PROVE  \/ UNCHANGED storeVars
         \/ \E l \in Locators : Create(l)
         \/ \E t \in Threads : MoveStage(t) \/ SetSecret(t) \/ DeleteRecord(t)
  BY DEF Next, Refresh, BeginToken, BeginDelete, Recheck, ReadRecord, CallAdapter,
         PutToken, Compare, Reread, FinishReplaced, FinishMismatch, FinishFailed,
         ReleaseKey, Drop, AcquireKey, TakeAdvisoryLock, AdvisoryLockFails,
         LoseConnection, Crash, Expire

(* A stored refresh token is only replaced by one obtained with it, unless a *)
(* lock slipped on Azure.                                                    *)
THEOREM Descent == Spec => ReplacementDescends
  <1>1. ASSUME TokenIInv, Next, NEW l \in Locators
        PROVE  Descends(l) \/ (slipped /\ backend = "azure_key_vault")
    <2>1. CASE UNCHANGED storeVars
      BY <2>1 DEF storeVars, Descends
    <2>2. ASSUME NEW m \in Locators, Create(m) PROVE Descends(l)
      BY <1>1, <2>2 DEF TokenIInv, TokenTypeOK, LocatorsHandedOut, Create, Descends
    <2>3. ASSUME NEW t \in Threads, MoveStage(t) PROVE Descends(l)
      BY <1>1, <2>3 DEF TokenIInv, TokenTypeOK, MoveStage, NewRecord, storeVars, Descends
    <2>4. ASSUME NEW t \in Threads, SetSecret(t)
          PROVE  Descends(l) \/ (slipped /\ backend = "azure_key_vault")
      <3>1. backend = "azure_key_vault" /\ pc[t] = "write"
        BY <2>4 DEF SetSecret, At
      <3>2. CASE UNCHANGED storeVars
        BY <3>2 DEF storeVars, Descends
      <3>3. CASE NewRecord(t) /\ ~slipped
        <4>1. secret[loc[t]] = seen[t]
          BY <1>1, <3>1, <3>3 DEF TokenIInv, AdvisoryOwned
        <4>2. QED
          BY <1>1, <3>3, <4>1 DEF TokenIInv, TokenTypeOK, NewRecord, Descends
      <3>4. QED
        BY <1>1, <2>4, <3>1, <3>2, <3>3, Zenon
           DEF SetSecret, TokenIInv, TokenTypeOK, storeVars
    <2>5. ASSUME NEW t \in Threads, DeleteRecord(t) PROVE Descends(l)
      BY <1>1, <2>5 DEF TokenIInv, TokenTypeOK, DeleteRecord, Descends
    <2>6. QED
      BY <1>1, <2>1, <2>2, <2>3, <2>4, <2>5, StoreWriters
  <1>2. TokenIInv /\ [Next]_vars =>
          [\A l \in Locators : Descends(l) \/ (slipped /\ backend = "azure_key_vault")]_vars
    BY <1>1
  <1>3. QED
    BY <1>2, TokenInvariance, PTL DEF Spec, ReplacementDescends

(* A thread that moves within, out of or past HasRead, and fills the cache   *)
(* only from inside, leaves a quiet locator quiet.                           *)
LEMMA QuietStep ==
  ASSUME TokenTypeOK, NEW p \in Processes, NEW l \in Locators, Quiet(p, l),
         NEW t \in Threads, NEW q, pc' = [pc EXCEPT ![t] = q],
         loc' = loc \/ q \notin HasRead,
         \A u \in Threads : u # t => loc'[u] = loc[u],
         q \in HasRead => pc[t] \in HasRead \/ loc[t] # l,
         l \in cache'[p] => l \in cache[p] \/ (Home[t] = p /\ loc[t] = l /\ pc[t] \in HasRead)
  PROVE  Quiet(p, l)'
  BY DEF Quiet, TokenTypeOK

LEMMA QuietKept ==
  ASSUME TokenIInv, Next, NEW p \in Processes, NEW l \in Locators,
         secret[l] = 0, Quiet(p, l)
  PROVE  Quiet(p, l)'
  <1>0. /\ \A x \in {"idle", "acquire", "recheck", "read", "release", "drop",
                     "begin_delete", "delete", "deleted"} : x \notin HasRead
        /\ \A x \in {"refresh", "replace", "put", "compare", "write", "reread",
                     "replaced", "mismatch", "replace_failed"} : x \in HasRead
    BY DEF HasRead, ReplacePoints
  <1>t. TokenTypeOK
    BY DEF TokenIInv
  <1>1. ASSUME NEW m \in Locators, Create(m) PROVE Quiet(p, l)'
    BY <1>1 DEF Create, threadVars, Quiet
  <1>2. ASSUME NEW t \in Threads, NEW m \in Locators, BeginToken(t, m) \/ BeginDelete(t, m)
        PROVE  Quiet(p, l)'
    <2>1. PICK q \in {"acquire", "begin_delete"} : pc' = [pc EXCEPT ![t] = q]
      BY <1>2 DEF BeginToken, BeginDelete, Goto
    <2>2. loc' = [loc EXCEPT ![t] = m] /\ cache' = cache
      BY <1>2 DEF BeginToken, BeginDelete
    <2>3. QED
      BY <1>0, <1>t, <2>1, <2>2, QuietStep DEF TokenTypeOK
  <1>3. ASSUME NEW t \in Threads,
               Recheck(t) \/ ReleaseKey(t) \/ Drop(t) \/ AcquireKey(t)
        PROVE  Quiet(p, l)'
    <2>1. PICK q \in {"release", "read", "drop", "idle", "recheck"} : pc' = [pc EXCEPT ![t] = q]
      BY <1>3 DEF Recheck, ReleaseKey, Drop, AcquireKey, Leave, Goto
    <2>2. loc' = loc /\ cache' = cache
      BY <1>3 DEF Recheck, ReleaseKey, Drop, AcquireKey
    <2>3. QED
      BY <1>0, <1>t, <2>1, <2>2, QuietStep
  <1>4. ASSUME NEW t \in Threads, ReadRecord(t) PROVE Quiet(p, l)'
    <2>1. PICK q \in {"refresh", "release"} : pc' = [pc EXCEPT ![t] = q]
      BY <1>4 DEF ReadRecord, Goto
    <2>2. /\ loc' = loc /\ cache' = cache
          /\ q = "refresh" => loc[t] # l
      BY <1>t, <1>4, <2>1 DEF ReadRecord, Goto, TokenTypeOK
    <2>3. QED
      BY <1>0, <1>t, <2>1, <2>2, QuietStep
  <1>5. ASSUME NEW t \in Threads,
               \/ CallAdapter(t) \/ PutToken(t) \/ Compare(t) \/ MoveStage(t)
               \/ SetSecret(t) \/ Reread(t) \/ FinishReplaced(t) \/ FinishMismatch(t)
               \/ (FinishFailed(t) /\ At(t, "replace_failed"))
        PROVE  Quiet(p, l)'
    <2>1. pc[t] \in HasRead /\ loc' = loc
      <3>1. /\ loc' = loc
            /\ pc[t] \in {"refresh", "put", "compare", "write", "reread", "replaced",
                          "mismatch", "replace_failed"}
        BY <1>5 DEF CallAdapter, PutToken, Compare, MoveStage, SetSecret, Reread,
              FinishReplaced, FinishMismatch, FinishFailed, At
      <3>2. QED
        BY <1>0, <3>1
    <2>2. \E q : pc' = [pc EXCEPT ![t] = q]
      BY <1>5, Zenon DEF CallAdapter, PutToken, Compare, MoveStage, SetSecret, Reread,
            FinishReplaced, FinishMismatch, FinishFailed, Goto
    <2>3. cache' = cache \/ Put(t) \/ Notify(t)
      BY <1>5, Zenon DEF CallAdapter, PutToken, Compare, MoveStage, SetSecret, Reread,
            FinishReplaced, FinishMismatch, FinishFailed
    <2>4. l \in cache'[p] => l \in cache[p] \/ (Home[t] = p /\ loc[t] = l)
      BY <1>t, <2>3 DEF Put, Notify, TokenTypeOK
    <2>5. QED
      <3>1. PICK q : pc' = [pc EXCEPT ![t] = q]
        BY <2>2
      <3>2. CASE loc[t] = l /\ Home[t] = p
        BY <2>1, <3>2 DEF Quiet
      <3>3. CASE ~(loc[t] = l /\ Home[t] = p)
        BY <1>t, <2>1, <2>4, <3>1, <3>3 DEF Quiet, TokenTypeOK
      <3>4. QED
        BY <3>2, <3>3
  <1>6. ASSUME NEW t \in Threads, TakeAdvisoryLock(t) \/ AdvisoryLockFails(t)
        PROVE  Quiet(p, l)'
    <2>1. \E q : /\ pc' = [pc EXCEPT ![t] = q]
                 /\ q \in HasRead => pc[t] \in HasRead
      BY <1>0, <1>6 DEF TakeAdvisoryLock, AdvisoryLockFails, Lockers, Locked, Goto, At
    <2>2. loc' = loc /\ cache' = cache
      BY <1>6 DEF TakeAdvisoryLock, AdvisoryLockFails
    <2>3. QED
      BY <1>t, <2>1, <2>2, QuietStep
  <1>7. ASSUME NEW t \in Threads,
               DeleteRecord(t) \/ (FinishFailed(t) /\ ~At(t, "replace_failed"))
        PROVE  Quiet(p, l)'
    <2>1. PICK q \in {"deleted", "idle"} : pc' = [pc EXCEPT ![t] = q]
      BY <1>7 DEF DeleteRecord, FinishFailed, Goto
    <2>2. /\ loc' = loc
          /\ l \in cache'[p] => l \in cache[p]
      <3>1. loc' = loc /\ (cache' = cache \/ Notify(t))
        BY <1>7, Zenon DEF DeleteRecord, FinishFailed
      <3>2. CASE cache' = cache
        BY <3>1, <3>2
      <3>3. CASE cache' = [cache EXCEPT ![Home[t]] = @ \ {loc[t]}]
        <4>1. cache'[p] = cache[p] \ {loc[t]} \/ cache'[p] = cache[p]
          BY <1>t, <3>3 DEF TokenTypeOK
        <4>2. QED
          BY <3>1, <4>1, Zenon
      <3>4. QED
        BY <3>1, <3>2, <3>3 DEF Notify
    <2>3. QED
      BY <1>0, <1>t, <2>1, <2>2, QuietStep
  <1>8. ASSUME NEW t \in Threads, LoseConnection(t) PROVE Quiet(p, l)'
    BY <1>8 DEF LoseConnection, threadVars, Quiet
  <1>9. ASSUME NEW o \in Processes, NEW m \in Locators, Expire(o, m) PROVE Quiet(p, l)'
    BY <1>t, <1>9 DEF Expire, threadVars, Quiet, TokenTypeOK
  <1>10. ASSUME NEW o \in Processes, Crash(o) PROVE Quiet(p, l)'
    <2>1. /\ pc' = [t \in Threads |-> IF t \in {u \in Threads : Home[u] = o} THEN "idle" ELSE pc[t]]
          /\ loc' = loc /\ cache' = [cache EXCEPT ![o] = {}]
      BY <1>10 DEF Crash
    <2>2. QED
      BY <1>0, <1>t, <2>1 DEF Quiet, TokenTypeOK
  <1>11. QED
    BY <1>1, <1>2, <1>3, <1>4, <1>5, <1>6, <1>7, <1>8, <1>9, <1>10 DEF Next, Refresh

(* Once a credential is deleted and no earlier reader of it is left, no     *)
(* token of it gets into the cache of the process any more.                 *)
THEOREM DeletionLasts == Spec => DeletedStaysUncached
  <1>1. TokenIInv /\ [Next]_vars =>
          [\A p \in Processes, l \in Locators :
             origin[l] # None /\ secret[l] = 0 /\ Quiet(p, l) => Quiet(p, l)']_vars
    BY QuietKept
  <1>2. QED
    BY <1>1, TokenInvariance, PTL DEF Spec, DeletedStaysUncached
=============================================================================
