--------------------------- MODULE WorkItems_proofs ---------------------------
(***************************************************************************)
(* Proofs about BusinessContexts and WorkItems for any sets of contexts,   *)
(* messages, keys, candidates and requests and any bound on versions: that *)
(* a message is linked to a context at most once; the invariant IInv, and  *)
(* from it that items are unique per key and candidate, that answers are   *)
(* true, that no update is lost and that only active contexts are joined;  *)
(* with JournalIInv, that the journal of an item explains it.              *)
(***************************************************************************)
EXTENDS WorkItems, TLAPS

-----------------------------------------------------------------------------
(* Business contexts and their links *)

USE ContextsAssumption

(* Steps on contexts: rows change to rows, and none disappears. *)
LEMMA ContextStepKeepsInv ==
  ASSUME ContextIInv, ContextStep, UNCHANGED linkVars
  PROVE  ContextIInv'
<1> USE DEF ContextIInv, ContextTypeOK, LinkersHaveContext, linkVars, Rows
<1>0. \A c \in Contexts : context[c].status # "absent" => context'[c].status # "absent"
  BY DEF ContextStep, CreateContext, ReadContext, SaveContext, Saves, Idle
<1>1. context' \in [Contexts -> Rows]
  BY DEF ContextStep, CreateContext, ReadContext, SaveContext, Saves, Idle
<1>2. editor' \in [Editors -> {Idle} \cup Saves]
  <2>1. CASE \E c \in Contexts, t \in Titles : CreateContext(c, t)
    BY <2>1 DEF CreateContext
  <2>2. ASSUME NEW e \in Editors, NEW c \in Contexts, NEW op \in Edits, NEW t \in Titles,
               ReadContext(e, c, op, t)
        PROVE  editor' \in [Editors -> {Idle} \cup Saves]
    <3>1. Edited(context[c], op, t) \in [status : {"active", "archived"}, title : Titles]
      BY <2>2 DEF ReadContext, Edited, Edits
    <3>2. [op |-> op, context |-> c, row |-> Edited(context[c], op, t)] \in Saves
      BY <3>1 DEF Saves
    <3> QED
      BY <2>2, <3>2 DEF ReadContext
  <2>3. CASE \E e \in Editors : SaveContext(e)
    BY <2>3 DEF SaveContext
  <2> QED
    BY <2>1, <2>2, <2>3 DEF ContextStep
<1>3. \A k \in links : context'[k.context].status # "absent"
  BY <1>0 DEF Links
<1>4. LinkersHaveContext'
  BY <1>0 DEF Associations, NotStarted
<1>5. LinkIsUnique'
  BY DEF LinkIsUnique
<1> QED
  BY <1>1, <1>2, <1>3, <1>4, <1>5

(* Steps on links: the unique constraint is what keeps two requests that     *)
(* both found no duplicate apart.                                            *)
LEMMA LinkStepKeepsInv ==
  ASSUME ContextIInv, LinkStep, UNCHANGED contextVars
  PROVE  ContextIInv'
<1> USE DEF ContextIInv, ContextTypeOK, contextVars
<1>1. ASSUME NEW l \in Linkers, NEW c \in Contexts, NEW m \in Messages,
             ReadForAssociation(l, c, m)
      PROVE  ContextIInv'
  <2>1. [at |-> "check", context |-> c, message |-> m] \in Associations
    BY DEF Associations
  <2>2. linker' \in [Linkers -> {NotStarted} \cup Associations]
    BY <1>1, <2>1 DEF ReadForAssociation
  <2>3. LinkersHaveContext'
    BY <1>1 DEF ReadForAssociation, LinkersHaveContext
  <2> QED
    BY <1>1, <2>2, <2>3 DEF ReadForAssociation, LinkIsUnique
<1>2. ASSUME NEW l \in Linkers, linker[l].at \in {"check", "insert"},
             NEW point \in {"insert", "linked", "refused"}, MoveLinker(l, point)
      PROVE  linker' \in [Linkers -> {NotStarted} \cup Associations] /\ LinkersHaveContext'
  BY <1>2 DEF MoveLinker, Associations, NotStarted, LinkersHaveContext
<1>3. ASSUME NEW l \in Linkers, CheckDuplicate(l) \/ FailAssociation(l)
      PROVE  ContextIInv'
  <2>1. PICK point \in {"insert", "linked", "refused"} : MoveLinker(l, point)
    BY <1>3 DEF CheckDuplicate, FailAssociation
  <2> QED
    BY <1>2, <1>3, <2>1 DEF CheckDuplicate, FailAssociation, LinkIsUnique
<1>4. ASSUME NEW l \in Linkers, InsertLink(l)
      PROVE  ContextIInv'
  <2>0. linker[l].at = "insert" /\ linker[l] \in Associations
    BY <1>4 DEF InsertLink, NotStarted
  <2>1. PICK point \in {"insert", "linked", "refused"} : MoveLinker(l, point)
    BY <1>4 DEF InsertLink
  <2>2. linker' \in [Linkers -> {NotStarted} \cup Associations] /\ LinkersHaveContext'
    BY <1>2, <2>0, <2>1
  <2>3. NewLink(l) \in Links /\ context[NewLink(l).context].status # "absent"
    BY <2>0 DEF NewLink, Links, Associations, LinkersHaveContext
  <2>4. CASE SameProvenance(l) # {}
    BY <1>4, <2>2, <2>4 DEF InsertLink, LinkIsUnique
  <2>5. CASE SameProvenance(l) = {}
    <3>1. links' = links \cup {NewLink(l)} /\ UNCHANGED remover
      BY <1>4, <2>5 DEF InsertLink
    <3>2. \A k \in links : k.context # NewLink(l).context \/ k.message # NewLink(l).message
      BY <2>5 DEF SameProvenance, NewLink
    <3>3. LinkIsUnique'
      BY <3>1, <3>2 DEF LinkIsUnique
    <3> QED
      BY <1>4, <2>2, <2>3, <3>1, <3>3 DEF InsertLink
  <2> QED
    BY <2>4, <2>5
<1>5. ASSUME NEW r \in Removers, NEW k \in links, ReadForRemoval(r, k)
      PROVE  ContextIInv'
  BY <1>5 DEF ReadForRemoval, Links, LinkersHaveContext, LinkIsUnique
<1>6. ASSUME NEW r \in Removers, DeleteLink(r)
      PROVE  ContextIInv'
  BY <1>6 DEF DeleteLink, LinkersHaveContext, LinkIsUnique
<1> QED
  BY <1>1, <1>3, <1>4, <1>5, <1>6 DEF LinkStep

LEMMA ContextInitInv == ContextInit => ContextIInv
BY DEF ContextInit, EditInit, LinkInit, ContextIInv, ContextTypeOK, LinkersHaveContext, LinkIsUnique,
       Rows, NotStarted

(* The invariant of the contexts and their links. *)
THEOREM ContextInvariance == ContextSpec => []ContextIInv
<1>1. ContextInit => ContextIInv
  BY ContextInitInv
<1>2. ContextIInv /\ [ContextNext]_<<contextVars, linkVars>> => ContextIInv'
  <2> SUFFICES ASSUME ContextIInv, [ContextNext]_<<contextVars, linkVars>>
               PROVE  ContextIInv'
    OBVIOUS
  <2>1. CASE UNCHANGED <<contextVars, linkVars>>
    BY <2>1 DEF contextVars, linkVars, ContextIInv, ContextTypeOK, LinkersHaveContext, LinkIsUnique
  <2> QED
    BY <2>1, ContextStepKeepsInv, LinkStepKeepsInv DEF ContextNext
<1> QED
  BY <1>1, <1>2, PTL DEF ContextSpec

(* The rows and requests keep their types, and no link belongs to a context *)
(* that was never created.                                                  *)
THEOREM ContextsWellTyped == ContextSpec => []ContextTypeOK
BY ContextInvariance, PTL DEF ContextIInv

(* A message is linked to a context at most once. *)
THEOREM OneLinkPerMessage == ContextSpec => []LinkIsUnique
BY ContextInvariance, PTL DEF ContextIInv

HIDE ContextsAssumption

-----------------------------------------------------------------------------
(* Work items *)

USE WorkItemsAssumption

-----------------------------------------------------------------------------
(* What the operators on rows, commands and events return *)

ChangeRecords == EventTypes \X MaybeContext \X (Statuses \cup MaybeContext)

LEMMA WhenTyped ==
  ASSUME NEW condition \in BOOLEAN, NEW change \in ChangeRecords
  PROVE  When(condition, change) \in Seq(ChangeRecords) /\ Len(When(condition, change)) <= 1
<1>1. CASE condition
  BY <1>1 DEF When
<1>2. CASE ~condition
  BY <1>2 DEF When
<1> QED
  BY <1>1, <1>2

LEMMA CommandFields ==
  ASSUME NEW command \in Commands
  PROVE  /\ command.op \in {"edit", "status", "archive", "restore"}
         /\ command.op = "edit" => command.details \in BOOLEAN /\ command.context \in MaybeContext
         /\ command.op = "status" => command.status \in Statuses
BY DEF Commands

LEMMA ChangesTyped ==
  ASSUME NEW row \in Items, NEW command \in Commands
  PROVE  Changes(row, command) \in Seq(ChangeRecords) /\ Len(Changes(row, command)) <= 3
<1> DEFINE left == <<"context_disassociated", row.context, command.context>>
           joined == <<"context_associated", command.context, command.context>>
           edited == <<"edited", row.context, None>>
<1>0. row.context \in MaybeContext
  BY DEF Items
<1>1. CASE command.op = "edit"
  <2>0. command.details \in BOOLEAN /\ command.context \in MaybeContext
    BY <1>1, CommandFields
  <2>1. edited \in ChangeRecords /\ left \in ChangeRecords /\ joined \in ChangeRecords
    BY <1>0, <2>0 DEF ChangeRecords, EventTypes, MaybeContext
  <2>2. NewContext(row, command) \in BOOLEAN
    BY DEF NewContext
  <2>3. /\ When(command.details, edited) \in Seq(ChangeRecords)
        /\ Len(When(command.details, edited)) <= 1
    BY <2>0, <2>1, WhenTyped
  <2>4. /\ When(row.context \notin {None, command.context}, left) \in Seq(ChangeRecords)
        /\ Len(When(row.context \notin {None, command.context}, left)) <= 1
    BY <2>1, WhenTyped
  <2>5. /\ When(NewContext(row, command), joined) \in Seq(ChangeRecords)
        /\ Len(When(NewContext(row, command), joined)) <= 1
    BY <2>1, <2>2, WhenTyped
  <2>6. Changes(row, command) =
          When(command.details, edited) \o
          When(row.context \notin {None, command.context}, left) \o
          When(NewContext(row, command), joined)
    BY <1>1 DEF Changes
  <2> HIDE DEF left, joined, edited
  <2> QED
    BY <2>3, <2>4, <2>5, <2>6
<1>2. CASE command.op # "edit"
  <2>1. PICK change \in ChangeRecords : Changes(row, command) = <<change>>
    <3>1. command.op = "status" => command.status \in Statuses
      BY CommandFields
    <3>2. CASE command.op = "status"
      <4>1. <<"status_changed", row.context, command.status>> \in ChangeRecords
        BY <1>0, <3>1, <3>2 DEF ChangeRecords, EventTypes
      <4> QED
        BY <3>2, <4>1 DEF Changes
    <3>3. CASE command.op = "archive"
      <4>1. <<"archived", row.context, None>> \in ChangeRecords
        BY <1>0 DEF ChangeRecords, EventTypes, MaybeContext
      <4> QED
        BY <3>3, <4>1 DEF Changes
    <3>4. CASE command.op \notin {"status", "archive"}
      <4>1. <<"restored", row.context, None>> \in ChangeRecords
        BY <1>0 DEF ChangeRecords, EventTypes, MaybeContext
      <4> QED
        BY <1>2, <3>4, <4>1 DEF Changes
    <3> QED
      BY <3>2, <3>3, <3>4
  <2> QED
    BY <2>1
<1> QED
  BY <1>1, <1>2

LEMMA NextRowTyped ==
  ASSUME NEW row \in Items, NEW command \in Commands, row.version < MaxVersion
  PROVE  /\ NextRow(row, command) \in Items
         /\ NextRow(row, command).key = row.key
         /\ NextRow(row, command).intent = row.intent
         /\ NextRow(row, command).version = row.version + 1
         /\ NextRow(row, command).context # row.context /\ NextRow(row, command).context # None =>
              NewContext(row, command) /\ NextRow(row, command).context = command.context
<1>1. /\ Result(row, command) \in Items
      /\ Result(row, command).key = row.key
      /\ Result(row, command).intent = row.intent
      /\ Result(row, command).version = row.version
      /\ Result(row, command).context # row.context /\ Result(row, command).context # None =>
           NewContext(row, command) /\ Result(row, command).context = command.context
  <2>1. CASE command.op = "edit"
    BY <2>1, CommandFields DEF Result, Items, NewContext
  <2>2. CASE command.op = "status"
    BY <2>2, CommandFields DEF Result, Items
  <2>3. CASE command.op \in {"archive", "restore"}
    BY <2>3 DEF Result, Items
  <2> QED
    BY <2>1, <2>2, <2>3, CommandFields
<1>2. row.version \in 1..MaxVersion /\ row.version + 1 \in 1..MaxVersion
  BY DEF Items
<1> QED
  BY <1>1, <1>2 DEF NextRow, Items

LEMMA JournalGrows ==
  ASSUME NEW events \in Seq(Events), events # <<>>,
         NEW row \in Items, NEW changes \in Seq(ChangeRecords), Len(changes) <= 3
  PROVE  LET more == events \o [n \in 1..Len(changes) |-> Event(row, n, changes[n])]
         IN more \in Seq(Events) /\ more # <<>>
<1> DEFINE new == [n \in 1..Len(changes) |-> Event(row, n, changes[n])]
<1>1. ASSUME NEW n \in 1..Len(changes)
      PROVE  Event(row, n, changes[n]) \in Events
  <2>1. changes[n] \in ChangeRecords /\ n - 1 \in 0..2 /\ row.version \in 1..MaxVersion
    BY DEF Items
  <2>2. /\ changes[n][1] \in EventTypes /\ changes[n][2] \in MaybeContext
        /\ changes[n][3] \in Statuses \cup MaybeContext
    BY <2>1 DEF ChangeRecords
  <2> QED
    BY <2>1, <2>2 DEF Event, Events
<1>2. new \in Seq(Events) /\ Len(new) = Len(changes)
  BY <1>1
<1> HIDE DEF new
<1>3. events \o new \in Seq(Events) /\ Len(events \o new) = Len(events) + Len(new)
  BY <1>2
<1>4. Len(events) > 0
  OBVIOUS
<1> QED
  BY <1>2, <1>3, <1>4 DEF new

-----------------------------------------------------------------------------
(* Requests that only move *)

Requests == [at : CreatorPoints, key : Keys, intent : Intents, told : Creators \cup {None}]
Jobs == [at : {"load", "context", "write"}, item : Creators,
         seen : 1..MaxVersion, command : Commands \cup {None}]

(* Told the truth: what AnswersAreTrue says of one request's record. *)
TrueAnswer(answer) == LET i == answer.told IN i # None =>
  /\ i \in Present
  /\ answer.at \in {"created", "replayed"} =>
       items[i].key = answer.key /\ items[i].intent = answer.intent
  /\ answer.at = "key_conflict" =>
       items[i].key = answer.key /\ items[i].intent # answer.intent
  /\ answer.at = "tracked" => items[i].intent.candidate = answer.intent.candidate

LEMMA CreatorMovesKeepInv ==
  ASSUME IInv, NEW k \in Creators, NEW answer \in Requests,
         creator' = [creator EXCEPT ![k] = answer],
         UNCHANGED <<items, journal, mutator, contextVars, linkVars>>,
         TrueAnswer(answer),
         answer.at \in Creating => creator[k].at \in Creating \cup {"idle"},
         answer.at = "insert" /\ answer.intent.context # None =>
           context[answer.intent.context].status = "active"
  PROVE  IInv'
<1> USE DEF IInv
<1>1. TypeOK' /\ ContextIInv'
  BY DEF TypeOK, RequestTypeOK, Requests, ContextIInv, ContextTypeOK, LinkersHaveContext,
         LinkIsUnique, contextVars, linkVars
<1>2. OneItemPerKey'
  BY DEF OneItemPerKey, Present
<1>3. AnswersAreTrue'
  BY DEF AnswersAreTrue, TrueAnswer, Present, TypeOK, RequestTypeOK
<1>4. HoldersAreExclusive' /\ HoldersSeeTheRow'
  BY DEF HoldersAreExclusive, HoldersSeeTheRow, Present, SeesCurrent, Row, NewContext
<1>0. /\ creator'[k] = answer
      /\ \A j \in Creators \ {k} : creator'[j] = creator[j]
  BY DEF TypeOK, RequestTypeOK
<1>5. LockedContextIsActive'
  <2> SUFFICES ASSUME NEW c \in Contexts, ContextLocked(c)'
               PROVE  context[c].status = "active"
    BY DEF LockedContextIsActive, contextVars
  <2>1. CASE \E j \in Creators : CreatorHolds(j, c)'
    <3>1. PICK j \in Creators : CreatorHolds(j, c)'
      BY <2>1
    <3>2. CASE j = k
      BY <1>0, <3>1, <3>2, ContextsAssumption DEF CreatorHolds
    <3>3. CASE j # k
      BY <1>0, <3>1, <3>3 DEF CreatorHolds, ContextLocked, LockedContextIsActive
    <3> QED
      BY <3>2, <3>3
  <2>2. CASE \E m \in Mutators : MutatorHolds(m, c)'
    BY <2>2 DEF MutatorHolds, Row, NewContext, ContextLocked, LockedContextIsActive
  <2> QED
    BY <2>1, <2>2 DEF ContextLocked
<1>6. NothingBeforeInsert'
  <2> SUFFICES ASSUME NEW j \in Creators, creator'[j].at \in Creating \cup {"idle"}
               PROVE  items[j] = None
    BY DEF NothingBeforeInsert, Creating
  <2>1. answer.at # "idle"
    BY DEF Requests, CreatorPoints, Creating
  <2>2. creator[j].at \in Creating \cup {"idle"}
    BY <1>0, <2>1
  <2> QED
    BY <2>2 DEF NothingBeforeInsert
<1> QED
  BY <1>1, <1>2, <1>3, <1>4, <1>5, <1>6

LEMMA CreatorIsRequest ==
  ASSUME IInv, NEW k \in Creators, creator[k].at # "idle"
  PROVE  creator[k] \in Requests
BY DEF IInv, TypeOK, RequestTypeOK, Requests, Waiting

LEMMA TellKeepsInv ==
  ASSUME IInv, NEW k \in Creators, NEW point \in CreatorPoints, NEW i \in Creators \cup {None},
         Tell(k, point, i), creator[k].at \in Creating,
         UNCHANGED <<items, journal, mutator, contextVars, linkVars>>,
         TrueAnswer([creator[k] EXCEPT !.at = point, !.told = i]),
         point = "insert" /\ creator[k].intent.context # None =>
           context[creator[k].intent.context].status = "active"
  PROVE  IInv'
<1> DEFINE answer == [creator[k] EXCEPT !.at = point, !.told = i]
<1>1. creator[k] \in Requests
  BY CreatorIsRequest DEF Creating
<1>2. answer \in Requests /\ answer.at = point /\ answer.intent = creator[k].intent
  BY <1>1 DEF Requests
<1>3. creator' = [creator EXCEPT ![k] = answer]
  BY DEF Tell, IInv, TypeOK, RequestTypeOK
<1> HIDE DEF answer
<1> QED
  BY <1>2, <1>3, CreatorMovesKeepInv DEF answer

LEMMA MoveKeepsInv ==
  ASSUME IInv, NEW k \in Creators, NEW point \in CreatorPoints,
         MoveCreator(k, point), creator[k].at \in Creating,
         UNCHANGED <<items, journal, mutator, contextVars, linkVars>>,
         point = "insert" /\ creator[k].intent.context # None =>
           context[creator[k].intent.context].status = "active"
  PROVE  IInv'
<1>1. creator[k] \in Requests
  BY CreatorIsRequest DEF Creating
<1>2. TrueAnswer([creator[k] EXCEPT !.at = point, !.told = None])
  BY <1>1 DEF TrueAnswer, Requests
<1> QED
  BY <1>2, TellKeepsInv DEF MoveCreator

(* A change request that moves to a record holding no row it should not. *)
LEMMA MutatorMovesKeepInv ==
  ASSUME IInv, NEW m \in Mutators, NEW job \in {Free} \cup Jobs,
         mutator' = [mutator EXCEPT ![m] = job],
         UNCHANGED <<items, journal, creator, contextVars, linkVars>>,
         job.at # "idle" => job.item \in Present /\ job.seen < MaxVersion,
         job.at \in {"context", "write"} =>
           /\ job.command \in Commands
           /\ items[job.item].version = job.seen
           /\ \A n \in Mutators \ {m} :
                ~(mutator[n].at \in {"context", "write"} /\ mutator[n].item = job.item),
         job.at = "context" => NewContext(items[job.item], job.command),
         job.at = "write" /\ NewContext(items[job.item], job.command) =>
           context[job.command.context].status = "active"
  PROVE  IInv'
<1> USE DEF IInv
<1>1. TypeOK' /\ ContextIInv'
  BY DEF TypeOK, RequestTypeOK, Jobs, ContextIInv, ContextTypeOK, LinkersHaveContext,
         LinkIsUnique, contextVars, linkVars
<1>2. OneItemPerKey' /\ NothingBeforeInsert'
  BY DEF OneItemPerKey, Present, NothingBeforeInsert
<1>3. AnswersAreTrue'
  BY DEF AnswersAreTrue, Present
<1>4. HoldersAreExclusive'
  BY DEF HoldersAreExclusive, TypeOK, RequestTypeOK, Free
<1>5. HoldersSeeTheRow'
  BY DEF HoldersSeeTheRow, Present, SeesCurrent, Row, NewContext, TypeOK, RequestTypeOK, Free
<1>6. LockedContextIsActive'
  BY ZenonT(30) DEF LockedContextIsActive, ContextLocked, CreatorHolds, MutatorHolds, Row, NewContext,
         contextVars, TypeOK, RequestTypeOK, Free
<1> QED
  BY <1>1, <1>2, <1>3, <1>4, <1>5, <1>6

-----------------------------------------------------------------------------
(* One lemma per action *)

ContextsStay == UNCHANGED <<contextVars, linkVars>>

LEMMA BeginCreateKeepsInv ==
  ASSUME IInv, NEW k \in Creators, NEW key \in Keys, NEW intent \in Intents,
         BeginCreate(k, key, intent), ContextsStay
  PROVE  IInv'
<1> DEFINE answer == [at |-> "read_key", key |-> key, intent |-> intent, told |-> None]
<1>1. answer \in Requests /\ answer.at = "read_key" /\ answer.told = None
  BY DEF Requests, CreatorPoints, Creating
<1>2. TrueAnswer(answer)
  BY <1>1 DEF TrueAnswer
<1>3. creator[k].at = "idle" /\ creator' = [creator EXCEPT ![k] = answer]
  BY DEF BeginCreate
<1> HIDE DEF answer
<1> QED
  BY <1>1, <1>2, <1>3, CreatorMovesKeepInv DEF BeginCreate, ContextsStay

LEMMA ReadKeyKeepsInv ==
  ASSUME IInv, NEW k \in Creators, ReadKey(k), ContextsStay
  PROVE  IInv'
<1>0. creator[k].at \in Creating /\ UNCHANGED <<items, journal, mutator, contextVars, linkVars>>
  BY DEF ReadKey, Creating, ContextsStay
<1>1. ASSUME NEW i \in WithKey(creator[k].key), Replay(k, i)
      PROVE  IInv'
  <2>1. PICK point \in {"replayed", "key_conflict"} :
          /\ Tell(k, point, i)
          /\ (point = "replayed") <=> (items[i].intent = creator[k].intent)
    BY <1>1 DEF Replay
  <2>2. creator[k] \in Requests
    BY <1>0, CreatorIsRequest DEF Creating
  <2>3. TrueAnswer([creator[k] EXCEPT !.at = point, !.told = i])
    BY <2>1, <2>2 DEF TrueAnswer, Requests, WithKey
  <2>4. i \in Creators /\ point \in CreatorPoints /\ point # "insert"
    BY <2>1 DEF WithKey, Present, CreatorPoints
  <2> QED
    BY <1>0, <2>1, <2>3, <2>4, TellKeepsInv
<1>2. ASSUME NEW point \in {"read_candidate", "reread_candidate"}, MoveCreator(k, point)
      PROVE  IInv'
  BY <1>0, <1>2, MoveKeepsInv DEF CreatorPoints, Creating
<1> QED
  BY <1>1, <1>2 DEF ReadKey

LEMMA ReadCandidateKeepsInv ==
  ASSUME IInv, NEW k \in Creators, ReadCandidate(k), ContextsStay
  PROVE  IInv'
<1>0. creator[k].at \in Creating /\ UNCHANGED <<items, journal, mutator, contextVars, linkVars>>
  BY DEF ReadCandidate, Creating, ContextsStay
<1>1. ASSUME NEW i \in WithCandidate(creator[k].intent.candidate), Tell(k, "tracked", i)
      PROVE  IInv'
  <2>1. creator[k] \in Requests
    BY <1>0, CreatorIsRequest DEF Creating
  <2>2. TrueAnswer([creator[k] EXCEPT !.at = "tracked", !.told = i])
    BY <2>1 DEF TrueAnswer, Requests, WithCandidate
  <2> QED
    BY <1>0, <1>1, <2>2, TellKeepsInv DEF WithCandidate, Present, CreatorPoints
<1>2. ASSUME MoveCreator(k, IF creator[k].intent.context = None THEN "insert" ELSE "lock")
      PROVE  IInv'
  <2>1. CASE creator[k].intent.context = None
    BY <1>0, <1>2, <2>1, MoveKeepsInv DEF CreatorPoints, Creating
  <2>2. CASE creator[k].intent.context # None
    BY <1>0, <1>2, <2>2, MoveKeepsInv DEF CreatorPoints, Creating
  <2> QED
    BY <2>1, <2>2
<1> QED
  BY <1>1, <1>2 DEF ReadCandidate

LEMMA LockContextToCreateKeepsInv ==
  ASSUME IInv, NEW k \in Creators, LockContextToCreate(k), ContextsStay
  PROVE  IInv'
<1>0. creator[k].at \in Creating /\ UNCHANGED <<items, journal, mutator, contextVars, linkVars>>
  BY DEF LockContextToCreate, Creating, ContextsStay
<1>1. CASE context[creator[k].intent.context].status = "active"
  BY <1>0, <1>1, MoveKeepsInv DEF LockContextToCreate, CreatorPoints, Creating
<1>2. CASE context[creator[k].intent.context].status # "active"
  BY <1>0, <1>2, MoveKeepsInv DEF LockContextToCreate, CreatorPoints
<1> QED
  BY <1>1, <1>2

LEMMA FailCreateKeepsInv ==
  ASSUME IInv, NEW k \in Creators, FailCreate(k), ContextsStay
  PROVE  IInv'
BY MoveKeepsInv DEF FailCreate, ContextsStay, CreatorPoints

(* The unique constraints are what keeps a second item for a key or for a   *)
(* candidate out, whatever the request has read before.                     *)
LEMMA InsertItemKeepsInv ==
  ASSUME IInv, NEW k \in Creators, InsertItem(k), ContextsStay
  PROVE  IInv'
<1>0. creator[k].at = "insert" /\ creator[k] \in Requests /\ items[k] = None
  BY CreatorIsRequest DEF InsertItem, IInv, NothingBeforeInsert, Creating
<1>1. CASE UNCHANGED <<items, journal>> /\ MoveCreator(k, "reread_key")
  BY <1>0, <1>1, MoveKeepsInv DEF InsertItem, ContextsStay, CreatorPoints, Creating
<1>2. CASE Taken(k) = {} /\ items' = [items EXCEPT ![k] = NewItem(k)]
  <2>1. NewItem(k) \in Items /\ NewItem(k) # None
    <3>1. creator[k].key \in Keys /\ creator[k].intent \in Intents
      BY <1>0 DEF Requests
    <3>2. creator[k].intent.context \in MaybeContext /\ 1 \in 1..MaxVersion
      BY <3>1, WorkItemsAssumption DEF Intents
    <3>3. NewItem(k) \in Items
      BY <3>1, <3>2 DEF NewItem, Items, Statuses
    <3> QED
      BY <3>3, WorkItemsAssumption
  <2>2. \A i \in Present :
          /\ items[i].key # creator[k].key
          /\ \/ creator[k].intent.candidate = None
             \/ items[i].intent.candidate # creator[k].intent.candidate
    BY <1>2 DEF Taken, WithKey, WithCandidate
  <2>3. /\ items' \in [Creators -> Items \cup {None}] /\ items'[k] = NewItem(k)
        /\ \A i \in Creators \ {k} : items'[i] = items[i]
        /\ Present' = Present \cup {k} /\ k \notin Present
    BY <1>0, <1>2, <2>1 DEF IInv, TypeOK, Present
  <2>4. /\ NewItem(k).key = creator[k].key /\ NewItem(k).intent = creator[k].intent
    BY DEF NewItem
  <2>5. PICK point \in {"created", "unavailable"} :
          Tell(k, point, IF point = "created" THEN k ELSE None)
    BY <1>0, <1>2 DEF InsertItem, MoveCreator
  <2>6. /\ creator'[k].at = point /\ creator'[k].key = creator[k].key
        /\ creator'[k].intent = creator[k].intent
        /\ creator'[k].told = IF point = "created" THEN k ELSE None
        /\ \A j \in Creators \ {k} : creator'[j] = creator[j]
    BY <1>0, <2>5 DEF Tell, IInv, TypeOK, RequestTypeOK, Requests
  <2>7. TypeOK' /\ ContextIInv'
    <3>1. creator' \in [Creators -> {Waiting} \cup Requests]
      BY <1>0, <2>5 DEF Tell, IInv, TypeOK, RequestTypeOK, Requests, CreatorPoints
    <3>2. RequestTypeOK'
      BY <3>1 DEF IInv, TypeOK, RequestTypeOK, Requests, InsertItem
    <3>3. /\ journal' \in [Creators -> Seq(Events)]
          /\ \A i \in Creators : journal'[i] = <<>> <=> items'[i] = None
      <4> DEFINE event == [version |-> 1, ordinal |-> 0, type |-> "created",
                           context |-> creator[k].intent.context, to |-> "open"]
      <4>1. event \in Events
        BY <1>0, WorkItemsAssumption DEF Events, EventTypes, Statuses, Requests, Intents
      <4>2. journal' = [journal EXCEPT ![k] = <<event>>]
        BY <1>2 DEF InsertItem
      <4> HIDE DEF event
      <4>3. journal' \in [Creators -> Seq(Events)]
        BY <4>1, <4>2 DEF IInv, TypeOK
      <4>4. journal'[k] # <<>> /\ items'[k] # None
        BY <2>1, <2>3, <4>2 DEF IInv, TypeOK
      <4> QED
        BY <2>3, <4>2, <4>3, <4>4 DEF IInv, TypeOK
    <3>4. ContextIInv'
      BY DEF IInv, ContextsStay, ContextIInv, ContextTypeOK, LinkersHaveContext,
             LinkIsUnique, contextVars, linkVars
    <3> QED
      BY <2>3, <3>2, <3>3, <3>4 DEF TypeOK, ContextIInv
  <2>8. OneItemPerKey'
    <3> SUFFICES ASSUME NEW i \in Present', NEW j \in Present',
                        \/ items'[i].key = items'[j].key
                        \/ /\ items'[i].intent.candidate = items'[j].intent.candidate
                           /\ items'[i].intent.candidate # None
                 PROVE  i = j
      BY DEF OneItemPerKey
    <3>1. CASE i = k \/ j = k
      <4>1. ASSUME NEW other \in Present', other # k
            PROVE  /\ items'[other].key # items'[k].key
                   /\ \/ items'[k].intent.candidate = None
                      \/ items'[other].intent.candidate # items'[k].intent.candidate
        <5>1. other \in Present /\ items'[other] = items[other]
          BY <2>3, <4>1 DEF Present
        <5>2. /\ items'[k].key = creator[k].key
              /\ items'[k].intent.candidate = creator[k].intent.candidate
          BY <2>3, <2>4
        <5>3. /\ items[other].key # creator[k].key
              /\ \/ creator[k].intent.candidate = None
                 \/ items[other].intent.candidate # creator[k].intent.candidate
          BY <2>2, <5>1
        <5> QED
          BY <5>1, <5>2, <5>3
      <4> QED
        BY <3>1, <4>1
    <3>2. CASE i # k /\ j # k
      <4>1. i \in Present /\ j \in Present /\ items'[i] = items[i] /\ items'[j] = items[j]
        BY <2>3, <3>2 DEF Present
      <4> QED
        BY <4>1 DEF IInv, OneItemPerKey
    <3> QED
      BY <3>1, <3>2
  <2>9. AnswersAreTrue'
    <3> SUFFICES ASSUME NEW j \in Creators PROVE TrueAnswer(creator[j])'
      BY DEF AnswersAreTrue, TrueAnswer
    <3>1. CASE j = k
      BY <2>3, <2>4, <2>6, <3>1 DEF TrueAnswer
    <3>2. CASE j # k
      <4>1. creator'[j] = creator[j] /\ TrueAnswer(creator[j])
        BY <2>6, <3>2 DEF IInv, AnswersAreTrue, TrueAnswer
      <4>2. CASE creator[j].told = None
        BY <4>1, <4>2 DEF TrueAnswer
      <4>3. CASE creator[j].told # None
        <5>1. creator[j].told \in Present'
              /\ items'[creator[j].told] = items[creator[j].told]
          BY <2>3, <4>1, <4>3 DEF TrueAnswer, Present
        <5> QED
          BY <4>1, <4>3, <5>1 DEF TrueAnswer
      <4> QED
        BY <4>2, <4>3
    <3> QED
      BY <3>1, <3>2
  <2>10. \A m \in Mutators : mutator[m].at # "idle" => mutator[m].item \in Present /\ Row(m)' = Row(m)
    BY <2>3 DEF InsertItem, IInv, HoldersSeeTheRow, Row, Present
  <2>11. HoldersAreExclusive' /\ HoldersSeeTheRow'
    BY <2>3, <2>10 DEF InsertItem, IInv, HoldersAreExclusive, HoldersSeeTheRow, SeesCurrent,
                       NewContext
  <2>12. LockedContextIsActive'
    <3> SUFFICES ASSUME NEW c \in Contexts, ContextLocked(c)' PROVE ContextLocked(c)
      BY DEF IInv, LockedContextIsActive, ContextsStay, contextVars
    <3>1. CASE \E j \in Creators : CreatorHolds(j, c)'
      BY <2>6, <3>1 DEF CreatorHolds, ContextLocked
    <3>2. CASE \E m \in Mutators : MutatorHolds(m, c)'
      BY <2>10, <3>2 DEF MutatorHolds, NewContext, ContextLocked, InsertItem
    <3> QED
      BY <3>1, <3>2 DEF ContextLocked
  <2>13. NothingBeforeInsert'
    BY <2>3, <2>6 DEF IInv, NothingBeforeInsert, Creating
  <2> QED
    BY <2>7, <2>8, <2>9, <2>11, <2>12, <2>13 DEF IInv
<1> QED
  BY <1>1, <1>2 DEF InsertItem

LEMMA LoadItemKeepsInv ==
  ASSUME IInv, NEW m \in Mutators, NEW i \in Creators, LoadItem(m, i), ContextsStay
  PROVE  IInv'
<1> DEFINE job == [at |-> "load", item |-> i, seen |-> items[i].version, command |-> None]
<1>1. items[i] \in Items /\ items[i].version < MaxVersion
  BY DEF LoadItem, IInv, TypeOK, Present
<1>2. job \in Jobs /\ job.at = "load" /\ job.item = i /\ job.seen = items[i].version
  BY <1>1 DEF Jobs, Items
<1>3. mutator' = [mutator EXCEPT ![m] = job] /\ i \in Present
  BY DEF LoadItem
<1> HIDE DEF job
<1> QED
  BY <1>1, <1>2, <1>3, MutatorMovesKeepInv DEF LoadItem, ContextsStay

LEMMA MutatorIsJob ==
  ASSUME IInv, NEW m \in Mutators, mutator[m].at # "idle"
  PROVE  mutator[m] \in Jobs /\ mutator[m].item \in Present /\ mutator[m].seen < MaxVersion
BY DEF IInv, TypeOK, RequestTypeOK, Free, Jobs, HoldersSeeTheRow

LEMMA ReleaseKeepsInv ==
  ASSUME IInv, NEW m \in Mutators, Release(m),
         UNCHANGED <<items, journal, creator, contextVars, linkVars>>
  PROVE  IInv'
BY MutatorMovesKeepInv DEF Release, Free

LEMMA LockItemKeepsInv ==
  ASSUME IInv, NEW m \in Mutators, NEW command \in Commands, LockItem(m, command), ContextsStay
  PROVE  IInv'
<1>1. CASE Release(m)
  BY <1>1, ReleaseKeepsInv DEF LockItem, ContextsStay
<1>2. CASE ~Release(m)
  <2> DEFINE point == IF NewContext(Row(m), command) THEN "context" ELSE "write"
             job == [mutator[m] EXCEPT !.at = point, !.command = command]
  <2>1. /\ mutator[m].at = "load" /\ ~ItemLocked(mutator[m].item) /\ SeesCurrent(m)
        /\ mutator' = [mutator EXCEPT ![m].at = point, ![m].command = command]
    BY <1>2 DEF LockItem
  <2>2. mutator[m] \in Jobs /\ mutator[m].item \in Present /\ mutator[m].seen < MaxVersion
    BY <2>1, MutatorIsJob
  <2>3. /\ job \in Jobs /\ job.at = point /\ job.command = command
        /\ job.item = mutator[m].item /\ job.seen = mutator[m].seen
    BY <2>2 DEF Jobs
  <2>4. mutator' = [mutator EXCEPT ![m] = job]
    BY <2>1 DEF IInv, TypeOK, RequestTypeOK
  <2>5. /\ point = "context" <=> NewContext(items[job.item], command)
        /\ point \in {"context", "write"}
    BY <2>3 DEF Row
  <2>6. \A n \in Mutators : ~(mutator[n].at \in {"context", "write"} /\ mutator[n].item = job.item)
    BY <2>1, <2>3 DEF ItemLocked
  <2>7. items[job.item].version = job.seen
    BY <2>1, <2>3 DEF SeesCurrent, Row
  <2>8. UNCHANGED <<items, journal, creator, contextVars, linkVars>>
    BY DEF LockItem, ContextsStay
  <2> HIDE DEF job, point
  <2> QED
    BY <2>2, <2>3, <2>4, <2>5, <2>6, <2>7, <2>8, MutatorMovesKeepInv
<1> QED
  BY <1>1, <1>2

LEMMA LockContextToMutateKeepsInv ==
  ASSUME IInv, NEW m \in Mutators, LockContextToMutate(m), ContextsStay
  PROVE  IInv'
<1>1. CASE Release(m)
  BY <1>1, ReleaseKeepsInv DEF LockContextToMutate, ContextsStay
<1>2. CASE ~Release(m)
  <2> DEFINE job == [mutator[m] EXCEPT !.at = "write"]
  <2>1. /\ mutator[m].at = "context" /\ context[mutator[m].command.context].status = "active"
        /\ mutator' = [mutator EXCEPT ![m].at = "write"]
    BY <1>2 DEF LockContextToMutate
  <2>2. mutator[m] \in Jobs /\ mutator[m].item \in Present /\ mutator[m].seen < MaxVersion
    BY <2>1, MutatorIsJob
  <2>3. /\ job \in Jobs /\ job.at = "write" /\ job.command = mutator[m].command
        /\ job.item = mutator[m].item /\ job.seen = mutator[m].seen
    BY <2>2 DEF Jobs
  <2>4. mutator' = [mutator EXCEPT ![m] = job]
    BY <2>1 DEF IInv, TypeOK, RequestTypeOK
  <2>5. job.command \in Commands /\ items[job.item].version = job.seen
    BY <2>1, <2>3 DEF IInv, HoldersSeeTheRow, SeesCurrent, Row
  <2>6. \A n \in Mutators \ {m} :
          ~(mutator[n].at \in {"context", "write"} /\ mutator[n].item = job.item)
    BY <2>1, <2>3 DEF IInv, HoldersAreExclusive
  <2>7. UNCHANGED <<items, journal, creator, contextVars, linkVars>>
    BY DEF LockContextToMutate, ContextsStay
  <2>8. job.item \in Present /\ job.seen < MaxVersion /\ context[job.command.context].status = "active"
    BY <2>1, <2>2, <2>3
  <2> HIDE DEF job
  <2> QED
    BY <2>8, <2>2, <2>3, <2>4, <2>5, <2>6, <2>7, MutatorMovesKeepInv
<1> QED
  BY <1>1, <1>2

(* The row lock is what keeps the version a change was made for.            *)
LEMMA WriteItemKeepsInv ==
  ASSUME IInv, NEW m \in Mutators, WriteItem(m), ContextsStay
  PROVE  IInv'
<1>1. CASE UNCHANGED <<items, journal>>
  BY <1>1, ReleaseKeepsInv DEF WriteItem, ContextsStay
<1>2. CASE ~UNCHANGED <<items, journal>>
  <2> DEFINE i == mutator[m].item
             row == NextRow(Row(m), mutator[m].command)
             changes == Changes(Row(m), mutator[m].command)
  <2>1. /\ mutator[m].at = "write" /\ SeesCurrent(m)
        /\ items' = [items EXCEPT ![i] = row]
        /\ journal' = [journal EXCEPT
             ![i] = @ \o [n \in 1..Len(changes) |-> Event(row, n, changes[n])]]
        /\ mutator' = [mutator EXCEPT ![m] = Free] /\ UNCHANGED creator
    BY <1>2 DEF WriteItem, Release
  <2>2. /\ i \in Present /\ i \in Creators /\ Row(m) \in Items /\ items[i] = Row(m)
        /\ mutator[m].command \in Commands /\ Row(m).version < MaxVersion
    BY <2>1, MutatorIsJob DEF IInv, TypeOK, Present, HoldersSeeTheRow, SeesCurrent, Row
  <2>3. row \in Items /\ row # None /\ row.key = items[i].key /\ row.intent = items[i].intent
    BY <2>2, NextRowTyped, WorkItemsAssumption
  <2>4. /\ items' \in [Creators -> Items \cup {None}] /\ items'[i] = row
        /\ \A j \in Creators \ {i} : items'[j] = items[j]
        /\ Present' = Present
    BY <2>1, <2>2, <2>3 DEF IInv, TypeOK, Present
  <2>5. \A j \in Present : items'[j].key = items[j].key /\ items'[j].intent = items[j].intent
    BY <2>3, <2>4 DEF Present
  <2>6. /\ journal' \in [Creators -> Seq(Events)]
        /\ \A j \in Creators : journal'[j] = <<>> <=> items'[j] = None
    <3>1. journal[i] \in Seq(Events) /\ journal[i] # <<>>
      BY <2>2 DEF IInv, TypeOK, Present
    <3>2. changes \in Seq(ChangeRecords) /\ Len(changes) <= 3
      BY <2>2, ChangesTyped
    <3> DEFINE more == journal[i] \o [n \in 1..Len(changes) |-> Event(row, n, changes[n])]
    <3> HIDE DEF row, changes
    <3>3. more \in Seq(Events) /\ more # <<>>
      BY <2>3, <3>1, <3>2, JournalGrows
    <3>4. journal' = [journal EXCEPT ![i] = more]
      BY <2>1
    <3> HIDE DEF more, i
    <3> QED
      BY <2>2, <2>3, <2>4, <3>3, <3>4 DEF IInv, TypeOK
  <2>7. /\ mutator'[m] = Free
        /\ \A n \in Mutators \ {m} : mutator'[n] = mutator[n]
        /\ mutator' \in [Mutators -> {Free} \cup Jobs]
    BY <2>1 DEF IInv, TypeOK, RequestTypeOK, Jobs
  <2> HIDE DEF i, row, changes
  <2>8. TypeOK' /\ ContextIInv'
    <3>1. ContextIInv'
      BY DEF IInv, ContextsStay, ContextIInv, ContextTypeOK, LinkersHaveContext,
             LinkIsUnique, contextVars, linkVars
    <3>2. RequestTypeOK'
      BY <2>1, <2>7 DEF IInv, TypeOK, RequestTypeOK, Jobs
    <3> QED
      BY <2>4, <2>6, <3>1, <3>2 DEF TypeOK, ContextIInv
  <2>9. OneItemPerKey'
    BY <2>4, <2>5 DEF IInv, OneItemPerKey
  <2>10. AnswersAreTrue'
    BY <2>1, <2>4, <2>5 DEF IInv, AnswersAreTrue
  <2>11. HoldersAreExclusive'
    BY <2>7 DEF IInv, HoldersAreExclusive, Free
  <2>12. ASSUME NEW n \in Mutators, n # m, mutator[n].at \in {"context", "write"}
         PROVE  Row(n)' = Row(n)
    <3>1. mutator[n].item # i /\ mutator[n].item \in Creators
      BY <2>1, <2>12 DEF IInv, HoldersAreExclusive, HoldersSeeTheRow, Present, i
    <3> QED
      BY <2>4, <2>7, <2>12, <3>1 DEF Row
  <2>13. HoldersSeeTheRow'
    <3> SUFFICES ASSUME NEW n \in Mutators, mutator'[n].at # "idle"
                 PROVE  /\ mutator'[n].item \in Present' /\ mutator'[n].seen < MaxVersion
                        /\ mutator'[n].at \in {"context", "write"} =>
                             mutator'[n].command \in Commands /\ SeesCurrent(n)'
                        /\ mutator'[n].at = "context" => NewContext(Row(n), mutator[n].command)'
      BY <2>7 DEF HoldersSeeTheRow, Free
    <3>1. n # m /\ mutator'[n] = mutator[n]
      BY <2>7 DEF Free
    <3> QED
      BY <2>4, <2>12, <3>1 DEF IInv, HoldersSeeTheRow, SeesCurrent, NewContext
  <2>14. LockedContextIsActive'
    <3> SUFFICES ASSUME NEW c \in Contexts, ContextLocked(c)' PROVE ContextLocked(c)
      BY DEF IInv, LockedContextIsActive, ContextsStay, contextVars
    <3>1. CASE \E j \in Creators : CreatorHolds(j, c)'
      BY <2>1, <3>1 DEF CreatorHolds, ContextLocked
    <3>2. CASE \E n \in Mutators : MutatorHolds(n, c)'
      <4>1. PICK n \in Mutators : MutatorHolds(n, c)'
        BY <3>2
      <4>2. n # m /\ mutator'[n] = mutator[n] /\ mutator[n].at = "write"
        BY <2>7, <4>1 DEF MutatorHolds, Free
      <4> QED
        BY <2>12, <4>1, <4>2 DEF MutatorHolds, NewContext, ContextLocked
    <3> QED
      BY <3>1, <3>2 DEF ContextLocked
  <2>15. NothingBeforeInsert'
    BY <2>1, <2>4 DEF IInv, NothingBeforeInsert, Present
  <2> QED
    BY <2>8, <2>9, <2>10, <2>11, <2>13, <2>14, <2>15 DEF IInv
<1> QED
  BY <1>1, <1>2

(* A context that a transaction has locked cannot be archived under it.     *)
LEMMA EditStepKeepsInv ==
  ASSUME IInv, EditStep, UNCHANGED <<linkVars, itemVars>>
  PROVE  IInv'
<1>1. ContextStep
  BY DEF EditStep, SaveUnlocked, ContextStep
<1>2. ContextIInv'
  BY <1>1, ContextStepKeepsInv DEF IInv
<1>3. \A c \in Contexts : ContextLocked(c)' <=> ContextLocked(c)
  BY DEF itemVars, ContextLocked, CreatorHolds, MutatorHolds, Row, NewContext
<1>4. \A c \in Contexts : ContextLocked(c) => context'[c] = context[c]
  <2> SUFFICES ASSUME NEW c \in Contexts, ContextLocked(c) PROVE context'[c] = context[c]
    OBVIOUS
  <2>0. context[c].status = "active" /\ context \in [Contexts -> Rows]
    BY DEF IInv, LockedContextIsActive, ContextIInv, ContextTypeOK
  <2>1. ASSUME NEW d \in Contexts, NEW t \in Titles, CreateContext(d, t)
        PROVE  context'[c] = context[c]
    BY <2>0, <2>1 DEF CreateContext
  <2>2. ASSUME NEW e \in Editors, SaveUnlocked(e)
        PROVE  context'[c] = context[c]
    BY <2>0, <2>2 DEF SaveUnlocked, SaveContext
  <2>3. ASSUME NEW e \in Editors, NEW d \in Contexts, NEW op \in Edits, NEW t \in Titles,
               ReadContext(e, d, op, t)
        PROVE  context'[c] = context[c]
    BY <2>3 DEF ReadContext
  <2> QED
    BY <2>1, <2>2, <2>3 DEF EditStep
<1>5. LockedContextIsActive'
  BY <1>3, <1>4 DEF IInv, LockedContextIsActive
<1>6. TypeOK'
  BY <1>2 DEF IInv, TypeOK, ContextIInv, RequestTypeOK, itemVars
<1>7. OneItemPerKey' /\ AnswersAreTrue' /\ HoldersAreExclusive' /\ NothingBeforeInsert'
  BY DEF IInv, itemVars, OneItemPerKey, AnswersAreTrue, HoldersAreExclusive,
         NothingBeforeInsert, Present
<1>8. HoldersSeeTheRow'
  BY DEF IInv, itemVars, HoldersSeeTheRow, Present, SeesCurrent, Row, NewContext
<1> QED
  BY <1>2, <1>5, <1>6, <1>7, <1>8 DEF IInv

LEMMA UnchangedItemsKeepInv ==
  ASSUME IInv, ContextIInv', UNCHANGED <<contextVars, itemVars>>
  PROVE  IInv'
<1>1. TypeOK'
  BY DEF IInv, TypeOK, ContextIInv, RequestTypeOK, itemVars
<1>2. OneItemPerKey' /\ AnswersAreTrue' /\ HoldersAreExclusive' /\ NothingBeforeInsert'
  BY DEF IInv, itemVars, OneItemPerKey, AnswersAreTrue, HoldersAreExclusive,
         NothingBeforeInsert, Present
<1>3. HoldersSeeTheRow'
  BY DEF IInv, itemVars, HoldersSeeTheRow, Present, SeesCurrent, Row, NewContext
<1>4. LockedContextIsActive'
  BY DEF IInv, itemVars, contextVars, LockedContextIsActive, ContextLocked, CreatorHolds,
         MutatorHolds, Row, NewContext
<1> QED
  BY <1>1, <1>2, <1>3, <1>4 DEF IInv

LEMMA ItemStepKeepsInv ==
  ASSUME IInv, ItemStep, ContextsStay
  PROVE  IInv'
BY BeginCreateKeepsInv, ReadKeyKeepsInv, ReadCandidateKeepsInv, LockContextToCreateKeepsInv,
   InsertItemKeepsInv, FailCreateKeepsInv, LoadItemKeepsInv, LockItemKeepsInv,
   LockContextToMutateKeepsInv, WriteItemKeepsInv DEF ItemStep

LEMMA InitInv == Init => IInv
<1> SUFFICES ASSUME Init PROVE IInv
  OBVIOUS
<1>1. ContextIInv /\ ContextTypeOK
  BY ContextInitInv DEF Init, ContextIInv
<1>2. Present = {}
  BY DEF Init, ItemInit, Present
<1>3. TypeOK
  BY <1>1 DEF Init, ItemInit, TypeOK, RequestTypeOK
<1>4. HoldersAreExclusive /\ HoldersSeeTheRow /\ NothingBeforeInsert
  BY DEF Init, ItemInit, Free, HoldersAreExclusive, HoldersSeeTheRow, NothingBeforeInsert
<1>5. LockedContextIsActive
  BY DEF Init, ItemInit, Free, Waiting, LockedContextIsActive, ContextLocked, CreatorHolds,
         MutatorHolds
<1>6. OneItemPerKey /\ AnswersAreTrue
  BY <1>2 DEF Init, ItemInit, Waiting, OneItemPerKey, AnswersAreTrue
<1> QED
  BY <1>1, <1>3, <1>4, <1>5, <1>6 DEF IInv

LEMMA StepKeepsInv == IInv /\ [Next]_allVars => IInv'
<1> SUFFICES ASSUME IInv, [Next]_allVars PROVE IInv'
  OBVIOUS
<1>1. CASE ItemStep /\ UNCHANGED <<contextVars, linkVars>>
  BY <1>1, ItemStepKeepsInv DEF ContextsStay
<1>2. CASE EditStep /\ UNCHANGED <<linkVars, itemVars>>
  BY <1>2, EditStepKeepsInv
<1>3. CASE UNCHANGED allVars
  <2>1. ContextIInv'
    BY <1>3 DEF allVars, contextVars, linkVars, IInv, ContextIInv, ContextTypeOK,
                LinkersHaveContext, LinkIsUnique
  <2> QED
    BY <1>3, <2>1, UnchangedItemsKeepInv DEF allVars
<1> QED
  BY <1>1, <1>2, <1>3 DEF Next

-----------------------------------------------------------------------------
(* Theorems *)

(* The inductive invariant of items, contexts and links. *)
THEOREM Invariance == Spec => []IInv
BY InitInv, StepKeepsInv, PTL DEF Spec

(* The rows, events and requests keep their types, and every item has a     *)
(* journal.                                                                 *)
THEOREM WellTyped == Spec => []TypeOK
BY Invariance, PTL DEF IInv

(* One creation key makes one item, and one candidate is tracked once.      *)
THEOREM ItemsAreUnique == Spec => []OneItemPerKey
BY Invariance, PTL DEF IInv

(* What a create request is told is true of the stored items.               *)
THEOREM AnswersTrue == Spec => []AnswersAreTrue
BY Invariance, PTL DEF IInv

(* Of two authors of the same version one changes the item.                 *)
THEOREM NoUpdateIsLost == Spec => NoLostUpdate
<1> DEFINE Step == \A i \in Present : items'[i] # items[i] =>
                     \E m \in Mutators :
                       /\ mutator[m].item = i /\ mutator[m].seen = items[i].version
                       /\ items'[i].version = items[i].version + 1
<1>1. IInv /\ [Next]_allVars => [Step]_items
  <2> SUFFICES ASSUME IInv, Next, NEW i \in Present, items'[i] # items[i]
               PROVE  \E m \in Mutators :
                        /\ mutator[m].item = i /\ mutator[m].seen = items[i].version
                        /\ items'[i].version = items[i].version + 1
    BY DEF allVars, itemVars
  <2>0. i \in Creators /\ items[i] # None /\ items[i] \in Items
    BY DEF Present, IInv, TypeOK
  <2>1. ASSUME NEW k \in Creators, InsertItem(k)
        PROVE  FALSE
    <3>1. items[k] = None
      BY <2>1 DEF InsertItem, IInv, NothingBeforeInsert, Creating
    <3> QED
      BY <2>0, <2>1, <3>1 DEF InsertItem, IInv, TypeOK
  <2>2. ASSUME NEW m \in Mutators, WriteItem(m)
        PROVE  /\ mutator[m].item = i /\ mutator[m].seen = items[i].version
               /\ items'[i].version = items[i].version + 1
    <3>1. /\ SeesCurrent(m) /\ mutator[m].at = "write"
          /\ items' = [items EXCEPT ![mutator[m].item] = NextRow(Row(m), mutator[m].command)]
      BY <2>2 DEF WriteItem
    <3>2. mutator[m].item = i
      BY <2>0, <3>1 DEF IInv, TypeOK
    <3>3. mutator[m].command \in Commands /\ items[i].version < MaxVersion
      BY <3>1, <3>2 DEF IInv, HoldersSeeTheRow, SeesCurrent, Row
    <3>4. NextRow(items[i], mutator[m].command).version = items[i].version + 1
      BY <2>0, <3>3, NextRowTyped
    <3>5. items'[i] = NextRow(items[i], mutator[m].command)
      BY <2>0, <3>1, <3>2 DEF IInv, TypeOK, Row
    <3> QED
      BY <3>1, <3>2, <3>4, <3>5 DEF SeesCurrent, Row
  <2>3. \/ \E k \in Creators : InsertItem(k)
        \/ \E m \in Mutators : WriteItem(m)
    BY DEF Next, ItemStep, BeginCreate, ReadKey, ReadCandidate, LockContextToCreate, FailCreate,
           LoadItem, LockItem, LockContextToMutate, itemVars
  <2> QED
    BY <2>1, <2>2, <2>3
<1> QED
  BY <1>1, Invariance, PTL DEF Spec, NoLostUpdate

(* An item joins only a context that is active when the change commits.     *)
THEOREM OnlyActiveContextsAreJoined == Spec => JoinsActiveContext
<1> DEFINE Step == \A i \in Creators :
                     /\ items'[i] # items[i]
                     /\ items'[i].context # None
                     /\ items[i] # None => items'[i].context # items[i].context
                     => context[items'[i].context].status = "active"
<1>1. IInv /\ [Next]_allVars => [Step]_items
  <2> SUFFICES ASSUME IInv, Next, NEW i \in Creators, items'[i] # items[i],
                      items'[i].context # None,
                      items[i] # None => items'[i].context # items[i].context
               PROVE  context[items'[i].context].status = "active"
    BY DEF allVars, itemVars
  <2>0. \A c \in Contexts : ContextLocked(c) => context[c].status = "active"
    BY DEF IInv, LockedContextIsActive
  <2>1. ASSUME NEW k \in Creators, InsertItem(k)
        PROVE  context[items'[i].context].status = "active"
    <3>1. creator[k].at = "insert" /\ creator[k] \in Requests
      BY <2>1, CreatorIsRequest DEF InsertItem
    <3>2. items' = [items EXCEPT ![k] = NewItem(k)]
      BY <2>1 DEF InsertItem
    <3>3. i = k /\ items'[i].context = creator[k].intent.context
      BY <3>2 DEF IInv, TypeOK, NewItem
    <3>4. creator[k].intent.context \in Contexts
      BY <3>1, <3>3 DEF Requests, Intents, MaybeContext
    <3> QED
      BY <2>0, <3>1, <3>3, <3>4 DEF ContextLocked, CreatorHolds
  <2>2. ASSUME NEW m \in Mutators, WriteItem(m)
        PROVE  context[items'[i].context].status = "active"
    <3>1. /\ SeesCurrent(m) /\ mutator[m].at = "write"
          /\ items' = [items EXCEPT ![mutator[m].item] = NextRow(Row(m), mutator[m].command)]
      BY <2>2 DEF WriteItem
    <3>2. mutator[m].item = i
      BY <3>1 DEF IInv, TypeOK
    <3>3. /\ mutator[m].command \in Commands /\ items[i].version < MaxVersion
          /\ items[i] \in Items /\ items[i] # None
      BY <3>1, <3>2 DEF IInv, HoldersSeeTheRow, SeesCurrent, Row, Present, TypeOK
    <3>4. items'[i] = NextRow(items[i], mutator[m].command)
      BY <3>1, <3>2 DEF IInv, TypeOK, Row
    <3>5. NewContext(items[i], mutator[m].command) /\ items'[i].context = mutator[m].command.context
      BY <3>3, <3>4, NextRowTyped
    <3>6. mutator[m].command.context \in Contexts
      BY <3>3, <3>5, CommandFields DEF NewContext, MaybeContext
    <3> QED
      BY <2>0, <3>1, <3>2, <3>5, <3>6 DEF ContextLocked, MutatorHolds, Row
  <2>3. \/ \E k \in Creators : InsertItem(k)
        \/ \E m \in Mutators : WriteItem(m)
    BY DEF Next, ItemStep, BeginCreate, ReadKey, ReadCandidate, LockContextToCreate, FailCreate,
           LoadItem, LockItem, LockContextToMutate, itemVars
  <2> QED
    BY <2>1, <2>2, <2>3
<1> QED
  BY <1>1, Invariance, PTL DEF Spec, JoinsActiveContext

HIDE WorkItemsAssumption

-----------------------------------------------------------------------------
(* The journal: the latest event of some types *)

StatusTypes == {"created", "status_changed"}
ArchiveTypes == {"created", "archived", "restored"}
ContextTypes == {"created", "context_associated", "context_disassociated"}

IsLatest(events, types, n) ==
  /\ n \in 1..Len(events) /\ events[n].type \in types
  /\ \A o \in 1..Len(events) : events[o].type \in types => o <= n

LEMMA LatestIs ==
  ASSUME NEW events \in Seq(Events), NEW types, NEW n, IsLatest(events, types, n)
  PROVE  Latest(events, types) = events[n]
<1> DEFINE P(k) == /\ events[k].type \in types
                   /\ \A o \in DOMAIN events : events[o].type \in types => o <= k
           k == CHOOSE k \in DOMAIN events : P(k)
<1>1. DOMAIN events = 1..Len(events)
  OBVIOUS
<1>2. n \in DOMAIN events /\ P(n)
  BY <1>1 DEF IsLatest
<1>3. k \in DOMAIN events /\ P(k)
  BY <1>2
<1>4. Latest(events, types) = events[k]
  BY DEF Latest
<1> HIDE DEF k
<1>5. k = n
  BY <1>1, <1>2, <1>3
<1> QED
  BY <1>4, <1>5

(* Appending: the events keep their places, and the latest event is one of  *)
(* the new ones when any is of the types.                                   *)
LEMMA Appended ==
  ASSUME NEW events \in Seq(Events), NEW new \in Seq(Events)
  PROVE  /\ events \o new \in Seq(Events)
         /\ Len(events \o new) = Len(events) + Len(new)
         /\ \A n \in 1..Len(events) : (events \o new)[n] = events[n]
         /\ \A n \in 1..Len(new) : (events \o new)[Len(events) + n] = new[n]
OBVIOUS

HasNo(new, types) == \A o \in 1..Len(new) : new[o].type \notin types

LEMMA AppendOthers ==
  ASSUME NEW events \in Seq(Events), NEW new \in Seq(Events), NEW types, NEW n,
         IsLatest(events, types, n), HasNo(new, types)
  PROVE  IsLatest(events \o new, types, n) /\ (events \o new)[n] = events[n]
<1> DEFINE more == events \o new
<1>1. /\ Len(more) = Len(events) + Len(new)
      /\ \A o \in 1..Len(events) : more[o] = events[o]
      /\ \A o \in 1..Len(new) : more[Len(events) + o] = new[o]
  BY Appended
<1>2. n \in 1..Len(events) /\ Len(events) \in Nat /\ Len(new) \in Nat
  BY DEF IsLatest
<1> HIDE DEF more
<1>3. ASSUME NEW o \in 1..Len(more), more[o].type \in types
      PROVE  o <= n
  <2>1. CASE o \in 1..Len(events)
    BY <1>1, <1>3, <2>1 DEF IsLatest
  <2>2. CASE o \notin 1..Len(events)
    <3>1. o - Len(events) \in 1..Len(new) /\ o = Len(events) + (o - Len(events))
      BY <1>1, <1>2, <2>2
    <3>2. more[o] = new[o - Len(events)]
      BY <1>1, <3>1
    <3> QED
      BY <1>3, <3>1, <3>2 DEF HasNo
  <2> QED
    BY <2>1, <2>2
<1>4. more[n] = events[n] /\ n \in 1..Len(more) /\ events[n].type \in types
  BY <1>1, <1>2 DEF IsLatest
<1>5. IsLatest(more, types, n)
  BY <1>3, <1>4 DEF IsLatest
<1> QED
  BY <1>4, <1>5 DEF more

LEMMA AppendLast ==
  ASSUME NEW events \in Seq(Events), NEW new \in Seq(Events), NEW types,
         Len(new) > 0, new[Len(new)].type \in types
  PROVE  LET last == Len(events) + Len(new)
         IN  IsLatest(events \o new, types, last) /\ (events \o new)[last] = new[Len(new)]
<1> DEFINE more == events \o new
           last == Len(events) + Len(new)
<1>1. /\ Len(more) = last /\ Len(events) \in Nat /\ Len(new) \in Nat
      /\ \A o \in 1..Len(new) : more[Len(events) + o] = new[o]
  BY Appended
<1> HIDE DEF more
<1>2. more[last] = new[Len(new)] /\ last \in 1..Len(more)
  BY <1>1
<1>3. IsLatest(more, types, last)
  BY <1>1, <1>2 DEF IsLatest
<1> QED
  BY <1>2, <1>3 DEF more

-----------------------------------------------------------------------------
(* What a change of an item writes into its journal *)

LEMMA Pair ==
  ASSUME NEW x, NEW y
  PROVE  <<x>> \o <<y>> = <<x, y>>
<1> DEFINE S == {x, y}
           s == <<x>> \o <<y>>
           t == <<x, y>>
<1>1. /\ s \in Seq(S) /\ Len(s) = 2 /\ s[1] = x /\ s[2] = y
      /\ t \in Seq(S) /\ Len(t) = 2 /\ t[1] = x /\ t[2] = y
  <2> x \in S /\ y \in S
    OBVIOUS
  <2> HIDE DEF S
  <2> QED
    OBVIOUS
<1> HIDE DEF s, t, S
<1>2. \A n \in 1..2 : s[n] = t[n]
  <2>1. 1..2 = {1, 2}
    OBVIOUS
  <2> QED
    BY <1>1, <2>1
<1>3. s = [n \in 1..2 |-> s[n]] /\ t = [n \in 1..2 |-> t[n]]
  BY <1>1
<1> QED
  BY <1>2, <1>3 DEF s, t

LEMMA Triple ==
  ASSUME NEW x, NEW y, NEW z
  PROVE  <<x>> \o <<y>> \o <<z>> = <<x, y, z>>
<1> DEFINE S == {x, y, z}
           s == <<x, y>> \o <<z>>
           t == <<x, y, z>>
<1>1. /\ s \in Seq(S) /\ Len(s) = 3 /\ s[1] = x /\ s[2] = y /\ s[3] = z
      /\ t \in Seq(S) /\ Len(t) = 3 /\ t[1] = x /\ t[2] = y /\ t[3] = z
  <2> x \in S /\ y \in S /\ z \in S
    OBVIOUS
  <2> HIDE DEF S
  <2> QED
    OBVIOUS
<1> HIDE DEF s, t, S
<1>2. \A n \in 1..3 : s[n] = t[n]
  <2>1. 1..3 = {1, 2, 3}
    OBVIOUS
  <2> QED
    BY <1>1, <2>1
<1>3. s = [n \in 1..3 |-> s[n]] /\ t = [n \in 1..3 |-> t[n]]
  BY <1>1
<1>4. s = t
  BY <1>2, <1>3
<1>5. <<x>> \o <<y>> = <<x, y>>
  BY Pair
<1> QED
  BY <1>4, <1>5 DEF s, t

LEMMA Nothing ==
  ASSUME NEW S, NEW s \in Seq(S)
  PROVE  <<>> \o s = s /\ s \o <<>> = s
  OBVIOUS

(* The changes of an edit, by what the edit does. *)
LEMMA EditChanges ==
  ASSUME NEW row \in Items, NEW command \in Commands, command.op = "edit",
         Differs(row, command)
  PROVE  LET changes == Changes(row, command)
             last == changes[Len(changes)]
         IN  /\ Len(changes) > 0
             /\ row.context = command.context =>
                  \A n \in 1..Len(changes) : changes[n][1] = "edited"
             /\ row.context # command.context =>
                  /\ last[1] \in {"context_disassociated", "context_associated"}
                  /\ last[3] = command.context
             /\ \A n \in 1..Len(changes) :
                  changes[n][1] \in {"edited", "context_disassociated", "context_associated"}
<1> DEFINE left == <<"context_disassociated", row.context, command.context>>
           joined == <<"context_associated", command.context, command.context>>
           edited == <<"edited", row.context, None>>
           leaves == row.context \notin {None, command.context}
           joins == NewContext(row, command)
           changes == Changes(row, command)
<1>1. changes = When(command.details, edited) \o When(leaves, left) \o When(joins, joined)
  BY DEF Changes
<1>2. joins <=> command.context \notin {None, row.context}
  BY DEF NewContext
<1>3. command.details \/ row.context # command.context
  <2>1. command.details \in BOOLEAN /\ command.context \in MaybeContext /\ row \in Items
    BY CommandFields
  <2>2. row.context = command.context => [row EXCEPT !.context = command.context] = row
    BY <2>1 DEF Items
  <2> QED
    BY <2>1, <2>2 DEF Differs, Result
<1>4. command.details \in BOOLEAN
  BY CommandFields
<1>5. /\ left[1] = "context_disassociated" /\ left[3] = command.context
      /\ joined[1] = "context_associated" /\ joined[3] = command.context
      /\ edited[1] = "edited"
  OBVIOUS
<1> HIDE DEF left, joined, edited, changes
<1>6. CASE row.context = command.context
  <2>1. ~leaves /\ ~joins /\ command.details
    BY <1>2, <1>3, <1>6
  <2>2. changes = <<edited>>
    BY <1>1, <2>1 DEF When
  <2> QED
    BY <1>5, <1>6, <2>2 DEF changes
<1>7. CASE row.context # command.context
  <2>1. leaves \/ joins
    BY <1>2, <1>7
  <2>2. \/ changes = <<edited, left, joined>>
        \/ changes = <<left, joined>>
        \/ changes = <<edited, left>> \/ changes = <<left>>
        \/ changes = <<edited, joined>> \/ changes = <<joined>>
    <3> HIDE DEF leaves, joins
    <3> DEFINE Records == {edited, left, joined}
    <3>0. edited \in Records /\ left \in Records /\ joined \in Records
      OBVIOUS
    <3> HIDE DEF Records
    <3>1. CASE command.details /\ leaves /\ joins
      <4>1. changes = <<edited>> \o <<left>> \o <<joined>>
        BY <1>1, <3>1 DEF When
      <4> QED
        BY <4>1, Triple
    <3>2. CASE ~command.details /\ leaves /\ joins
      <4>1. changes = <<>> \o <<left>> \o <<joined>>
        BY <1>1, <3>2 DEF When
      <4>2. <<>> \o <<left>> = <<left>> /\ <<left>> \o <<joined>> = <<left, joined>>
        <5>1. /\ <<edited>> \in Seq(Records) /\ <<left>> \in Seq(Records)
              /\ <<edited, left>> \in Seq(Records)
          BY <3>0
        <5> QED
          BY <5>1, Pair, Nothing
      <4> QED
        BY <4>1, <4>2
    <3>3. CASE command.details /\ leaves /\ ~joins
      <4>1. changes = <<edited>> \o <<left>> \o <<>>
        BY <1>1, <3>3 DEF When
      <4>2. <<edited>> \o <<left>> = <<edited, left>> /\ <<edited, left>> \o <<>> = <<edited, left>>
        <5>1. /\ <<edited>> \in Seq(Records) /\ <<left>> \in Seq(Records)
              /\ <<edited, left>> \in Seq(Records)
          BY <3>0
        <5> QED
          BY <5>1, Pair, Nothing
      <4> QED
        BY <4>1, <4>2
    <3>4. CASE ~command.details /\ leaves /\ ~joins
      <4>1. changes = <<>> \o <<left>> \o <<>>
        BY <1>1, <3>4 DEF When
      <4> QED
        BY <4>1
    <3>5. CASE command.details /\ ~leaves /\ joins
      <4>1. changes = <<edited>> \o <<>> \o <<joined>>
        BY <1>1, <3>5 DEF When
      <4>2. <<edited>> \o <<>> = <<edited>> /\ <<edited>> \o <<joined>> = <<edited, joined>>
        <5>1. /\ <<edited>> \in Seq(Records) /\ <<left>> \in Seq(Records)
              /\ <<edited, left>> \in Seq(Records)
          BY <3>0
        <5> QED
          BY <5>1, Pair, Nothing
      <4> QED
        BY <4>1, <4>2
    <3>6. CASE ~command.details /\ ~leaves /\ joins
      <4>1. changes = <<>> \o <<>> \o <<joined>>
        BY <1>1, <3>6 DEF When
      <4> QED
        BY <4>1
    <3> QED
      BY <1>4, <2>1, <3>1, <3>2, <3>3, <3>4, <3>5, <3>6
  <2>3. /\ Len(changes) > 0
        /\ changes[Len(changes)] \in {left, joined}
        /\ \A n \in 1..Len(changes) : changes[n] \in {edited, left, joined}
    <3>1. CASE changes = <<edited, left, joined>>
      BY <3>1
    <3>2. CASE changes = <<left, joined>>
      BY <3>2
    <3>3. CASE changes = <<edited, left>>
      BY <3>3
    <3>4. CASE changes = <<left>>
      BY <3>4
    <3>5. CASE changes = <<edited, joined>>
      BY <3>5
    <3>6. CASE changes = <<joined>>
      BY <3>6
    <3> QED
      BY <2>2, <3>1, <3>2, <3>3, <3>4, <3>5, <3>6
  <2> QED
    BY <1>5, <1>7, <2>3 DEF changes
<1> QED
  BY <1>6, <1>7

LEMMA NextRowFields ==
  ASSUME NEW row \in Items, NEW command \in Commands, row.version < MaxVersion
  PROVE  LET next == NextRow(row, command)
         IN  /\ next.status = IF command.op = "status" THEN command.status ELSE row.status
             /\ next.context = IF command.op = "edit" THEN command.context ELSE row.context
             /\ command.op \in {"edit", "status"} => next.archived = row.archived
             /\ command.op = "archive" => next.archived = TRUE
             /\ command.op = "restore" => next.archived = FALSE
<1>1. command.op \in {"edit", "status", "archive", "restore"}
  BY CommandFields
<1>2. CASE command.op = "edit"
  BY <1>2 DEF NextRow, Result, Items
<1>3. CASE command.op = "status"
  BY <1>3 DEF NextRow, Result, Items
<1>4. CASE command.op = "archive"
  BY <1>4 DEF NextRow, Result, Items
<1>5. CASE command.op = "restore"
  BY <1>5 DEF NextRow, Result, Items
<1> QED
  BY <1>1, <1>2, <1>3, <1>4, <1>5

NewEvents(row, changes) == [n \in 1..Len(changes) |-> Event(row, n, changes[n])]

LEMMA NewEventFields ==
  ASSUME NEW row \in Items, NEW changes \in Seq(ChangeRecords), Len(changes) <= 3
  PROVE  /\ NewEvents(row, changes) \in Seq(Events)
         /\ Len(NewEvents(row, changes)) = Len(changes)
         /\ \A n \in 1..Len(changes) :
              LET e == NewEvents(row, changes)[n]
              IN  /\ e.version = row.version /\ e.ordinal = n - 1
                  /\ e.type = changes[n][1] /\ e.to = changes[n][3]
<1>1. ASSUME NEW n \in 1..Len(changes)
      PROVE  Event(row, n, changes[n]) \in Events
  <2>1. changes[n] \in ChangeRecords /\ n - 1 \in 0..2 /\ row.version \in 1..MaxVersion
    BY DEF Items
  <2>2. /\ changes[n][1] \in EventTypes /\ changes[n][2] \in MaybeContext
        /\ changes[n][3] \in Statuses \cup MaybeContext
    BY <2>1 DEF ChangeRecords
  <2> QED
    BY <2>1, <2>2 DEF Event, Events
<1>2. NewEvents(row, changes) \in Seq(Events) /\ Len(NewEvents(row, changes)) = Len(changes)
  BY <1>1 DEF NewEvents
<1>3. \A n \in 1..Len(changes) : NewEvents(row, changes)[n] = Event(row, n, changes[n])
  BY DEF NewEvents
<1>4. ASSUME NEW n \in 1..Len(changes)
      PROVE  LET e == Event(row, n, changes[n])
             IN  /\ e.version = row.version /\ e.ordinal = n - 1
                 /\ e.type = changes[n][1] /\ e.to = changes[n][3]
  BY DEF Event
<1> QED
  BY <1>2, <1>3, <1>4

(* Versions without gaps up to the row's, ordinals from 0 in each. *)
Numbered(events, version) ==
  /\ Len(events) > 0
  /\ events[1].version = 1 /\ events[1].ordinal = 0
  /\ \A n \in 2..Len(events) :
       \/ /\ events[n].version = events[n - 1].version
          /\ events[n].ordinal = events[n - 1].ordinal + 1
       \/ events[n].version = events[n - 1].version + 1 /\ events[n].ordinal = 0
  /\ events[Len(events)].version = version

LEMMA NumberedGrows ==
  ASSUME NEW events \in Seq(Events), NEW version \in Nat, Numbered(events, version),
         NEW row \in Items, row.version = version + 1,
         NEW changes \in Seq(ChangeRecords), Len(changes) <= 3, Len(changes) > 0
  PROVE  Numbered(events \o NewEvents(row, changes), row.version)
<1> DEFINE new == NewEvents(row, changes)
           more == events \o new
<1>1. /\ new \in Seq(Events) /\ Len(new) = Len(changes)
      /\ \A n \in 1..Len(new) : new[n].version = version + 1 /\ new[n].ordinal = n - 1
  BY NewEventFields
<1> HIDE DEF new
<1>2. /\ more \in Seq(Events) /\ Len(more) = Len(events) + Len(new)
      /\ \A n \in 1..Len(events) : more[n] = events[n]
      /\ \A n \in 1..Len(new) : more[Len(events) + n] = new[n]
  BY <1>1, Appended
<1>3. Len(events) \in Nat /\ Len(new) \in Nat /\ Len(events) > 0 /\ Len(new) > 0
  BY <1>1 DEF Numbered
<1> HIDE DEF more
<1>4. \A n \in Len(events) + 1..Len(more) :
        more[n].version = version + 1 /\ more[n].ordinal = n - Len(events) - 1
  <2> SUFFICES ASSUME NEW n \in Len(events) + 1..Len(more)
               PROVE  more[n].version = version + 1 /\ more[n].ordinal = n - Len(events) - 1
    OBVIOUS
  <2>1. n - Len(events) \in 1..Len(new) /\ Len(events) + (n - Len(events)) = n
    BY <1>2, <1>3
  <2>2. more[n] = new[n - Len(events)]
    BY <1>2, <2>1
  <2> QED
    BY <1>1, <2>1, <2>2
<1>5. ASSUME NEW n \in 2..Len(more)
      PROVE  \/ /\ more[n].version = more[n - 1].version
                /\ more[n].ordinal = more[n - 1].ordinal + 1
             \/ more[n].version = more[n - 1].version + 1 /\ more[n].ordinal = 0
  <2>1. CASE n <= Len(events)
    <3>1. n \in 2..Len(events) /\ n - 1 \in 1..Len(events) /\ n \in 1..Len(events)
      BY <2>1, <1>3
    <3> QED
      BY <1>2, <3>1 DEF Numbered
  <2>2. CASE n = Len(events) + 1
    <3>1. n - 1 = Len(events) /\ Len(events) \in 1..Len(events)
      BY <2>2, <1>3
    <3>2. more[n - 1].version = version
      BY <1>2, <3>1 DEF Numbered
    <3>3. n \in Len(events) + 1..Len(more) /\ n - Len(events) - 1 = 0
      BY <2>2, <1>2, <1>3
    <3> QED
      BY <1>4, <3>2, <3>3
  <2>3. CASE n > Len(events) + 1
    <3>1. n \in Len(events) + 1..Len(more) /\ n - 1 \in Len(events) + 1..Len(more)
      BY <2>3, <1>3
    <3>2. n - Len(events) - 1 = (n - 1) - Len(events) - 1 + 1
      BY <1>3
    <3> QED
      BY <1>4, <3>1, <3>2
  <2> QED
    BY <2>1, <2>2, <2>3, <1>3
<1>6. more[1] = events[1]
  BY <1>2, <1>3
<1>7. Len(more) \in Len(events) + 1..Len(more) /\ Len(more) > 0
  BY <1>2, <1>3
<1>8. more[Len(more)].version = row.version
  BY <1>4, <1>7
<1>9. Numbered(more, row.version)
  BY <1>5, <1>6, <1>7, <1>8 DEF Numbered
<1> QED
  BY <1>9 DEF more, new

(* Status, archive mark and context of a row, by the latest event of each. *)
StatusExplained(events, status) ==
  \E n : IsLatest(events, StatusTypes, n) /\ status = events[n].to
ArchiveExplained(events, archived) ==
  \E n : IsLatest(events, ArchiveTypes, n) /\ archived = (events[n].type = "archived")
ContextExplained(events, place) ==
  \E n : /\ IsLatest(events, ContextTypes, n)
         /\ place = IF events[n].type = "created" THEN events[n].context ELSE events[n].to

Explains(events, row) ==
  /\ StatusExplained(events, row.status)
  /\ ArchiveExplained(events, row.archived)
  /\ ContextExplained(events, row.context)

(* A change that has no event of some kind leaves what that kind explains,  *)
(* and one whose last event is of the kind explains it anew.                *)
LEMMA ExplainedStill ==
  ASSUME NEW events \in Seq(Events), NEW new \in Seq(Events), NEW value
  PROVE  /\ /\ StatusExplained(events, value)
            /\ HasNo(new, StatusTypes)
            => StatusExplained(events \o new, value)
         /\ /\ ArchiveExplained(events, value)
            /\ HasNo(new, ArchiveTypes)
            => ArchiveExplained(events \o new, value)
         /\ /\ ContextExplained(events, value)
            /\ HasNo(new, ContextTypes)
            => ContextExplained(events \o new, value)
<1>1. ASSUME StatusExplained(events, value), HasNo(new, StatusTypes)
      PROVE  StatusExplained(events \o new, value)
  <2>1. PICK n : /\ IsLatest(events, StatusTypes, n)
                 /\ value = events[n].to
    BY <1>1 DEF StatusExplained
  <2>2. IsLatest(events, StatusTypes, n) /\ HasNo(new, StatusTypes)
    BY <1>1, <2>1
  <2>3. IsLatest(events \o new, StatusTypes, n) /\ (events \o new)[n] = events[n]
    BY <2>2, AppendOthers, ZenonT(30)
  <2> QED
    BY <2>1, <2>3 DEF StatusExplained
<1>2. ASSUME ArchiveExplained(events, value), HasNo(new, ArchiveTypes)
      PROVE  ArchiveExplained(events \o new, value)
  <2>1. PICK n : /\ IsLatest(events, ArchiveTypes, n)
                 /\ value = (events[n].type = "archived")
    BY <1>2 DEF ArchiveExplained
  <2>2. IsLatest(events, ArchiveTypes, n) /\ HasNo(new, ArchiveTypes)
    BY <1>2, <2>1
  <2>3. IsLatest(events \o new, ArchiveTypes, n) /\ (events \o new)[n] = events[n]
    BY <2>2, AppendOthers, ZenonT(30)
  <2> QED
    BY <2>1, <2>3 DEF ArchiveExplained
<1>3. ASSUME ContextExplained(events, value), HasNo(new, ContextTypes)
      PROVE  ContextExplained(events \o new, value)
  <2>1. PICK n : /\ IsLatest(events, ContextTypes, n)
                 /\ value = IF events[n].type = "created" THEN events[n].context ELSE events[n].to
    BY <1>3 DEF ContextExplained
  <2>2. IsLatest(events, ContextTypes, n) /\ HasNo(new, ContextTypes)
    BY <1>3, <2>1
  <2>3. IsLatest(events \o new, ContextTypes, n) /\ (events \o new)[n] = events[n]
    BY <2>2, AppendOthers, ZenonT(30)
  <2> QED
    BY <2>1, <2>3 DEF ContextExplained
<1> QED
  BY <1>1, <1>2, <1>3

LEMMA ExplainedAnew ==
  ASSUME NEW events \in Seq(Events), NEW new \in Seq(Events), Len(new) > 0
  PROVE  LET last == new[Len(new)]
         IN  /\ last.type = "status_changed" => StatusExplained(events \o new, last.to)
             /\ last.type = "archived" => ArchiveExplained(events \o new, TRUE)
             /\ last.type = "restored" => ArchiveExplained(events \o new, FALSE)
             /\ last.type \in {"context_disassociated", "context_associated"} =>
                  ContextExplained(events \o new, last.to)
<1>1. ASSUME new[Len(new)].type = "status_changed"
      PROVE  StatusExplained(events \o new, new[Len(new)].to)
  BY <1>1, AppendLast DEF StatusExplained, StatusTypes
<1>2. ASSUME new[Len(new)].type = "archived"
      PROVE  ArchiveExplained(events \o new, TRUE)
  BY <1>2, AppendLast DEF ArchiveExplained, ArchiveTypes
<1>3. ASSUME new[Len(new)].type = "restored"
      PROVE  ArchiveExplained(events \o new, FALSE)
  BY <1>3, AppendLast DEF ArchiveExplained, ArchiveTypes
<1>4. ASSUME new[Len(new)].type \in {"context_disassociated", "context_associated"}
      PROVE  ContextExplained(events \o new, new[Len(new)].to)
  BY <1>4, AppendLast DEF ContextExplained, ContextTypes
<1> QED
  BY <1>1, <1>2, <1>3, <1>4

(* A change that differs from its row accounts for all it changes. *)
LEMMA ExplainsGrows ==
  ASSUME NEW row \in Items, NEW command \in Commands, row.version < MaxVersion,
         Differs(row, command), NEW events \in Seq(Events), Explains(events, row)
  PROVE  LET next == NextRow(row, command)
             changes == Changes(row, command)
         IN  /\ changes \in Seq(ChangeRecords) /\ Len(changes) <= 3 /\ Len(changes) > 0
             /\ Explains(events \o NewEvents(next, changes), next)
<1> DEFINE next == NextRow(row, command)
           changes == Changes(row, command)
           new == NewEvents(next, changes)
           more == events \o new
<1>0. /\ command.op \in {"edit", "status", "archive", "restore"} /\ next \in Items
      /\ changes \in Seq(ChangeRecords) /\ Len(changes) <= 3
  BY CommandFields, NextRowTyped, ChangesTyped
<1> HIDE DEF next, changes
<1>1. /\ new \in Seq(Events) /\ Len(new) = Len(changes)
      /\ \A n \in 1..Len(new) : new[n].type = changes[n][1] /\ new[n].to = changes[n][3]
  BY <1>0, NewEventFields
<1>2. /\ next.status = IF command.op = "status" THEN command.status ELSE row.status
      /\ next.context = IF command.op = "edit" THEN command.context ELSE row.context
      /\ command.op \in {"edit", "status"} => next.archived = row.archived
      /\ command.op = "archive" => next.archived = TRUE
      /\ command.op = "restore" => next.archived = FALSE
  BY NextRowFields DEF next
<1> HIDE DEF new
<1>3. CASE command.op = "edit"
  <2>1. /\ Len(changes) > 0
        /\ \A n \in 1..Len(changes) :
             changes[n][1] \in {"edited", "context_disassociated", "context_associated"}
        /\ row.context = command.context =>
             \A n \in 1..Len(changes) : changes[n][1] = "edited"
        /\ row.context # command.context =>
             /\ changes[Len(changes)][1] \in {"context_disassociated", "context_associated"}
             /\ changes[Len(changes)][3] = command.context
    BY <1>3, EditChanges DEF changes
  <2>2. HasNo(new, StatusTypes) /\ HasNo(new, ArchiveTypes)
    BY <1>1, <2>1 DEF HasNo, StatusTypes, ArchiveTypes
  <2>3. StatusExplained(more, next.status)
    <3>1. next.status = row.status
      BY <1>2, <1>3
    <3> QED
      BY <1>1, <2>2, <3>1, ExplainedStill DEF Explains
  <2>4. ArchiveExplained(more, next.archived)
    <3>1. next.archived = row.archived
      BY <1>2, <1>3
    <3> QED
      BY <1>1, <2>2, <3>1, ExplainedStill DEF Explains
  <2>5. ContextExplained(more, next.context)
    <3>1. CASE row.context = command.context
      <4>1. HasNo(new, ContextTypes) /\ next.context = row.context
        BY <1>1, <1>2, <1>3, <2>1, <3>1 DEF HasNo, ContextTypes
      <4> QED
        BY <1>1, <4>1, ExplainedStill DEF Explains
    <3>2. CASE row.context # command.context
      <4>1. /\ Len(new) > 0 /\ Len(new) \in 1..Len(new)
            /\ new[Len(new)].type \in {"context_disassociated", "context_associated"}
            /\ new[Len(new)].to = next.context
        BY <1>1, <1>2, <1>3, <2>1, <3>2
      <4> QED
        BY <1>1, <4>1, ExplainedAnew
    <3> QED
      BY <3>1, <3>2
  <2>6. Len(changes) > 0
    BY <2>1
  <2>7. Explains(more, next)
    BY <2>3, <2>4, <2>5 DEF Explains
  <2> QED
    BY <1>0, <2>6, <2>7 DEF next, changes, new
<1>4. CASE command.op = "status"
  <2>1. changes = << <<"status_changed", row.context, command.status>> >>
    BY <1>4 DEF Changes, changes
  <2>2. Len(new) = 1 /\ new[1].type = "status_changed" /\ new[1].to = next.status
    BY <1>1, <1>2, <1>4, <2>1
  <2>3. HasNo(new, ArchiveTypes) /\ HasNo(new, ContextTypes)
    BY <2>2 DEF HasNo, ArchiveTypes, ContextTypes
  <2>4. StatusExplained(more, next.status)
    <3>1. /\ Len(new) > 0 /\ new[Len(new)].type = "status_changed"
          /\ new[Len(new)].to = next.status
      BY <2>2
    <3> QED
      BY <1>1, <3>1, ExplainedAnew
  <2>5. ArchiveExplained(more, next.archived)
    <3>1. next.archived = row.archived
      BY <1>2, <1>4
    <3> QED
      BY <1>1, <2>3, <3>1, ExplainedStill DEF Explains
  <2>6. ContextExplained(more, next.context)
    <3>1. next.context = row.context
      BY <1>2, <1>4
    <3> QED
      BY <1>1, <2>3, <3>1, ExplainedStill DEF Explains
  <2>7. Len(changes) > 0
    BY <2>1
  <2> QED
    BY <1>0, <2>4, <2>5, <2>6, <2>7 DEF Explains, next, changes, new
<1>5. CASE command.op \in {"archive", "restore"}
  <2>1. \/ command.op = "archive" /\ changes = << <<"archived", row.context, None>> >>
        \/ command.op = "restore" /\ changes = << <<"restored", row.context, None>> >>
    BY <1>5 DEF Changes, changes
  <2>2. /\ Len(new) = 1 /\ Len(changes) = 1
        /\ \/ command.op = "archive" /\ new[1].type = "archived"
           \/ command.op = "restore" /\ new[1].type = "restored"
    BY <1>1, <2>1
  <2>3. HasNo(new, StatusTypes) /\ HasNo(new, ContextTypes)
    BY <2>2 DEF HasNo, StatusTypes, ContextTypes
  <2>4. ArchiveExplained(more, next.archived)
    <3>1. CASE command.op = "archive"
      <4>1. next.archived = TRUE /\ Len(new) > 0 /\ new[Len(new)].type = "archived"
        BY <1>2, <2>2, <3>1
      <4>2. ArchiveExplained(more, TRUE)
        BY <1>1, <4>1, ExplainedAnew
      <4> QED
        BY <4>1, <4>2
    <3>2. CASE command.op = "restore"
      <4>1. next.archived = FALSE /\ Len(new) > 0 /\ new[Len(new)].type = "restored"
        BY <1>2, <2>2, <3>2
      <4>2. ArchiveExplained(more, FALSE)
        BY <1>1, <4>1, ExplainedAnew
      <4> QED
        BY <4>1, <4>2
    <3> QED
      BY <1>5, <3>1, <3>2
  <2>5. StatusExplained(more, next.status)
    <3>1. next.status = row.status
      BY <1>2, <1>5
    <3> QED
      BY <1>1, <2>3, <3>1, ExplainedStill DEF Explains
  <2>6. ContextExplained(more, next.context)
    <3>1. next.context = row.context
      BY <1>2, <1>5
    <3> QED
      BY <1>1, <2>3, <3>1, ExplainedStill DEF Explains
  <2>7. Len(changes) > 0
    BY <2>2
  <2> QED
    BY <1>0, <2>4, <2>5, <2>6, <2>7 DEF Explains, next, changes, new
<1> QED
  BY <1>0, <1>3, <1>4, <1>5

-----------------------------------------------------------------------------
(* The journal of every item explains it, and a command that holds a row    *)
(* would change it.                                                         *)
JournalKept(i) ==
  /\ journal[i] \in Seq(Events) /\ Numbered(journal[i], items[i].version)
  /\ Explains(journal[i], items[i])

JournalIInv ==
  /\ \A i \in Present : JournalKept(i)
  /\ \A m \in Mutators :
       mutator[m].at \in {"context", "write"} => Differs(Row(m), mutator[m].command)

LEMMA JournalExplains ==
  ASSUME JournalIInv
  PROVE  JournalExplainsItem
<1> SUFFICES ASSUME NEW i \in Present
    PROVE  LET events == journal[i] IN
      /\ events[1].version = 1 /\ events[1].ordinal = 0
      /\ \A n \in 2..Len(events) :
           \/ /\ events[n].version = events[n - 1].version
              /\ events[n].ordinal = events[n - 1].ordinal + 1
           \/ events[n].version = events[n - 1].version + 1 /\ events[n].ordinal = 0
      /\ events[Len(events)].version = items[i].version
      /\ items[i].status = Latest(events, {"created", "status_changed"}).to
      /\ items[i].archived = (Latest(events, {"created", "archived", "restored"}).type = "archived")
      /\ LET e == Latest(events, {"created", "context_associated", "context_disassociated"})
         IN items[i].context = IF e.type = "created" THEN e.context ELSE e.to
  BY DEF JournalExplainsItem
<1> DEFINE events == journal[i]
<1>1. events \in Seq(Events) /\ Numbered(events, items[i].version) /\ Explains(events, items[i])
  BY DEF JournalIInv, JournalKept
<1> HIDE DEF events
<1>2. items[i].status = Latest(events, StatusTypes).to
  <2>1. PICK n : IsLatest(events, StatusTypes, n) /\ items[i].status = events[n].to
    BY <1>1 DEF Explains, StatusExplained
  <2>2. Latest(events, StatusTypes) = events[n]
    BY <1>1, <2>1, LatestIs
  <2> QED
    BY <2>1, <2>2
<1>3. items[i].archived = (Latest(events, ArchiveTypes).type = "archived")
  <2>1. PICK n : IsLatest(events, ArchiveTypes, n) /\ items[i].archived = (events[n].type = "archived")
    BY <1>1 DEF Explains, ArchiveExplained
  <2>2. IsLatest(events, ArchiveTypes, n)
    BY <2>1
  <2>3. Latest(events, ArchiveTypes) = events[n]
    BY <1>1, <2>2, LatestIs
  <2> QED
    BY <2>1, <2>3
<1>4. LET e == Latest(events, ContextTypes)
      IN items[i].context = IF e.type = "created" THEN e.context ELSE e.to
  <2>1. PICK n : /\ IsLatest(events, ContextTypes, n)
                 /\ items[i].context = IF events[n].type = "created"
                                       THEN events[n].context ELSE events[n].to
    BY <1>1 DEF Explains, ContextExplained
  <2>2. IsLatest(events, ContextTypes, n)
    BY <2>1
  <2>3. Latest(events, ContextTypes) = events[n]
    BY <1>1, <2>2, LatestIs
  <2> QED
    BY <2>1, <2>3
<1>5. /\ events[1].version = 1 /\ events[1].ordinal = 0
      /\ \A n \in 2..Len(events) :
           \/ /\ events[n].version = events[n - 1].version
              /\ events[n].ordinal = events[n - 1].ordinal + 1
           \/ events[n].version = events[n - 1].version + 1 /\ events[n].ordinal = 0
      /\ events[Len(events)].version = items[i].version
  BY <1>1 DEF Numbered
<1> QED
  BY <1>2, <1>3, <1>4, <1>5 DEF events, StatusTypes, ArchiveTypes, ContextTypes

(* The first event of an item explains it. *)
LEMMA InsertExplains ==
  ASSUME IInv, NEW k \in Creators, InsertItem(k), ~UNCHANGED <<items, journal>>
  PROVE  /\ items[k] = None /\ Present' = Present \cup {k}
         /\ \A i \in Creators \ {k} : items'[i] = items[i] /\ journal'[i] = journal[i]
         /\ JournalKept(k)'
<1> DEFINE first == [version |-> 1, ordinal |-> 0, type |-> "created",
                     context |-> creator[k].intent.context, to |-> "open"]
<1>1. /\ creator[k].at = "insert" /\ items' = [items EXCEPT ![k] = NewItem(k)]
      /\ journal' = [journal EXCEPT ![k] = <<first>>]
  BY DEF InsertItem
<1>2. items[k] = None /\ creator[k] \in Requests
  BY <1>1, CreatorIsRequest DEF IInv, NothingBeforeInsert, Creating
<1>3. first \in Events
  BY <1>2, WorkItemsAssumption DEF Requests, Intents, Events, EventTypes, Statuses
<1>4. NewItem(k) # None
  <2>1. NewItem(k) \in Items
    BY <1>2, WorkItemsAssumption DEF NewItem, Items, Requests, Intents, Statuses
  <2> QED
    BY <2>1, WorkItemsAssumption
<1>5. /\ items'[k] = NewItem(k) /\ journal'[k] = <<first>>
      /\ \A i \in Creators \ {k} : items'[i] = items[i] /\ journal'[i] = journal[i]
  BY <1>1 DEF IInv, TypeOK
<1>6. Present' = Present \cup {k}
  BY <1>2, <1>4, <1>5 DEF Present
<1>7. Numbered(<<first>>, 1)
  BY DEF Numbered
<1>8. IsLatest(<<first>>, StatusTypes, 1) /\ IsLatest(<<first>>, ArchiveTypes, 1)
      /\ IsLatest(<<first>>, ContextTypes, 1)
  BY DEF IsLatest, StatusTypes, ArchiveTypes, ContextTypes
<1>9. Explains(<<first>>, NewItem(k))
  <2>1. /\ <<first>>[1] = first /\ NewItem(k).status = first.to
        /\ NewItem(k).archived = FALSE /\ first.type = "created"
        /\ NewItem(k).context = first.context
    BY DEF NewItem
  <2>2. StatusExplained(<<first>>, NewItem(k).status)
    BY <1>8, <2>1 DEF StatusExplained
  <2>3. ArchiveExplained(<<first>>, NewItem(k).archived)
    BY <1>8, <2>1 DEF ArchiveExplained
  <2>4. ContextExplained(<<first>>, NewItem(k).context)
    BY <1>8, <2>1 DEF ContextExplained
  <2> QED
    BY <2>2, <2>3, <2>4 DEF Explains
<1>10. NewItem(k).version = 1 /\ <<first>> \in Seq(Events)
  BY <1>3 DEF NewItem
<1>11. JournalKept(k)'
  BY <1>5, <1>7, <1>9, <1>10 DEF JournalKept
<1> QED
  BY <1>2, <1>5, <1>6, <1>11

(* A written change keeps the journal of its item and touches no other. *)
LEMMA WriteExplains ==
  ASSUME IInv, JournalIInv, NEW m \in Mutators, WriteItem(m), ~UNCHANGED <<items, journal>>,
         NEW i, i = mutator[m].item
  PROVE  /\ mutator[m].at = "write" /\ mutator' = [mutator EXCEPT ![m] = Free]
         /\ i \in Present /\ Present' = Present
         /\ \A j \in Creators \ {i} : items'[j] = items[j] /\ journal'[j] = journal[j]
         /\ JournalKept(i)'
<1> DEFINE command == mutator[m].command
           row == NextRow(Row(m), command)
           changes == Changes(Row(m), command)
           more == journal[i] \o NewEvents(row, changes)
<1>1. /\ mutator[m].at = "write" /\ SeesCurrent(m)
      /\ items' = [items EXCEPT ![i] = row]
      /\ journal' = [journal EXCEPT ![i] = more]
      /\ mutator' = [mutator EXCEPT ![m] = Free]
  BY DEF WriteItem, Release, NewEvents
<1>2. /\ i \in Present /\ i \in Creators /\ Row(m) \in Items /\ items[i] = Row(m)
      /\ command \in Commands /\ Row(m).version < MaxVersion
  BY <1>1, MutatorIsJob DEF IInv, TypeOK, Present, HoldersSeeTheRow, SeesCurrent, Row
<1>3. row \in Items /\ row # None /\ row.version = Row(m).version + 1
  BY <1>2, NextRowTyped, WorkItemsAssumption
<1>4. Differs(Row(m), command) /\ JournalKept(i)
  BY <1>1, <1>2 DEF JournalIInv
<1>5. /\ journal[i] \in Seq(Events) /\ Explains(journal[i], Row(m))
      /\ Numbered(journal[i], Row(m).version)
  BY <1>2, <1>4 DEF JournalKept
<1>6. /\ items'[i] = row /\ journal'[i] = more
      /\ \A j \in Creators \ {i} : items'[j] = items[j] /\ journal'[j] = journal[j]
  BY <1>1, <1>2 DEF IInv, TypeOK
<1>7. Present' = Present
  BY <1>2, <1>3, <1>6 DEF Present
<1>8. Row(m).version \in Nat
  BY <1>2, WorkItemsAssumption DEF Items
<1> HIDE DEF command
<1>9. /\ changes \in Seq(ChangeRecords) /\ Len(changes) <= 3 /\ Len(changes) > 0
      /\ Explains(more, row)
  BY <1>2, <1>4, <1>5, ExplainsGrows
<1> HIDE DEF row, changes
<1>10. Numbered(more, row.version)
  BY <1>3, <1>5, <1>8, <1>9, NumberedGrows
<1>11. more \in Seq(Events)
  BY <1>3, <1>5, <1>9, NewEventFields, Appended
<1>12. JournalKept(i)'
  <2>1. /\ journal'[i] \in Seq(Events) /\ Numbered(journal'[i], items'[i].version)
        /\ Explains(journal'[i], items'[i])
    BY <1>6, <1>9, <1>10, <1>11
  <2> QED
    BY <2>1 DEF JournalKept
<1> QED
  BY <1>1, <1>2, <1>6, <1>7, <1>12

LEMMA JournalInitially == Init => JournalIInv
BY DEF Init, ItemInit, JournalIInv, Present, Free

LEMMA JournalStep == IInv /\ JournalIInv /\ [Next]_allVars => JournalIInv'
<1> SUFFICES ASSUME IInv, JournalIInv, [Next]_allVars PROVE JournalIInv'
  OBVIOUS
<1>1. ASSUME UNCHANGED <<items, journal>>,
             \A n \in Mutators : mutator'[n].at \in {"context", "write"} =>
               Differs(items[mutator'[n].item], mutator'[n].command)
      PROVE  JournalIInv'
  <2>1. Present' = Present
    BY <1>1 DEF Present
  <2>2. \A i \in Present : JournalKept(i)'
    BY <1>1 DEF JournalIInv, JournalKept
  <2>3. \A n \in Mutators : mutator'[n].at \in {"context", "write"} =>
          Differs(Row(n), mutator[n].command)'
    BY <1>1 DEF Row, Differs, Result
  <2> QED
    BY <2>1, <2>2, <2>3 DEF JournalIInv
<1>2. ASSUME UNCHANGED <<items, journal, mutator>> PROVE JournalIInv'
  BY <1>1, <1>2 DEF JournalIInv, Row
<1>3. ASSUME NEW m \in Mutators, mutator' = [mutator EXCEPT ![m] = Free],
             UNCHANGED <<items, journal>>
      PROVE  JournalIInv'
  <2>1. \A n \in Mutators : mutator'[n] = IF n = m THEN Free ELSE mutator[n]
    BY <1>3 DEF IInv, TypeOK, RequestTypeOK
  <2> QED
    BY <1>1, <1>3, <2>1 DEF JournalIInv, Row, Free
<1>4. ASSUME NEW k \in Creators, InsertItem(k) PROVE JournalIInv'
  <2>1. CASE UNCHANGED <<items, journal>>
    BY <1>2, <1>4, <2>1 DEF InsertItem
  <2>2. CASE ~UNCHANGED <<items, journal>>
    <3>1. /\ items[k] = None /\ Present' = Present \cup {k} /\ JournalKept(k)'
          /\ \A i \in Creators \ {k} : items'[i] = items[i] /\ journal'[i] = journal[i]
          /\ mutator' = mutator
      BY <1>4, <2>2, InsertExplains DEF InsertItem
    <3>2. \A i \in Present : i # k /\ i \in Creators
      BY <3>1 DEF Present
    <3>3. \A i \in Present : JournalKept(i)'
      BY <3>1, <3>2 DEF JournalIInv, JournalKept
    <3>4. ASSUME NEW n \in Mutators, mutator[n].at \in {"context", "write"}
          PROVE  Differs(Row(n), mutator[n].command)'
      <4>1. mutator[n].item \in Present
        BY <3>4 DEF IInv, HoldersSeeTheRow
      <4>2. Row(n)' = Row(n)
        BY <3>1, <3>2, <4>1 DEF Row
      <4> QED
        BY <3>1, <3>4, <4>2 DEF JournalIInv, Differs, Result
    <3> QED
      BY <3>1, <3>3, <3>4 DEF JournalIInv
  <2> QED
    BY <2>1, <2>2
<1>5. ASSUME NEW m \in Mutators, WriteItem(m) PROVE JournalIInv'
  <2>1. CASE UNCHANGED <<items, journal>>
    BY <1>3, <1>5, <2>1 DEF WriteItem, Release
  <2>2. CASE ~UNCHANGED <<items, journal>>
    <3>0. PICK i : i = mutator[m].item
      OBVIOUS
    <3>1. /\ mutator[m].at = "write" /\ mutator' = [mutator EXCEPT ![m] = Free]
          /\ i \in Present /\ Present' = Present
          /\ \A j \in Creators \ {i} : items'[j] = items[j] /\ journal'[j] = journal[j]
          /\ JournalKept(i)'
      BY <1>5, <2>2, <3>0, WriteExplains
    <3>2. \A j \in Present : j \in Creators
      BY DEF Present
    <3>3. \A j \in Present \ {i} : JournalKept(j)'
      BY <3>1, <3>2 DEF JournalIInv, JournalKept
    <3>4. \A n \in Mutators : mutator'[n] = IF n = m THEN Free ELSE mutator[n]
      BY <3>1 DEF IInv, TypeOK, RequestTypeOK
    <3>5. ASSUME NEW n \in Mutators, mutator'[n].at \in {"context", "write"}
          PROVE  Differs(Row(n), mutator[n].command)'
      <4>1. n # m /\ mutator'[n] = mutator[n]
        BY <3>4, <3>5 DEF Free
      <4>2. mutator[n].item \in Present /\ mutator[n].item # i
        BY <3>0, <3>1, <3>5, <4>1 DEF IInv, HoldersSeeTheRow, HoldersAreExclusive
      <4>3. Row(n)' = Row(n)
        BY <3>1, <3>2, <4>1, <4>2 DEF Row
      <4> QED
        BY <3>5, <4>1, <4>3 DEF JournalIInv, Differs, Result
    <3>6. \A j \in Present : JournalKept(j)'
      BY <3>1, <3>3
    <3> QED
      BY <3>1, <3>5, <3>6 DEF JournalIInv
  <2> QED
    BY <2>1, <2>2
<1>6. ASSUME NEW m \in Mutators, NEW i \in Creators, LoadItem(m, i) PROVE JournalIInv'
  <2>1. /\ UNCHANGED <<items, journal>> /\ mutator'[m].at = "load"
        /\ \A n \in Mutators \ {m} : mutator'[n] = mutator[n]
    BY <1>6 DEF LoadItem, IInv, TypeOK, RequestTypeOK
  <2> QED
    BY <1>1, <2>1 DEF JournalIInv, Row
<1>7. ASSUME NEW m \in Mutators, NEW command \in Commands, LockItem(m, command) PROVE JournalIInv'
  <2>1. CASE Release(m)
    BY <1>3, <1>7, <2>1 DEF Release, LockItem
  <2>2. CASE ~Release(m)
    <3>1. /\ UNCHANGED <<items, journal>> /\ mutator[m].at = "load" /\ Differs(Row(m), command)
          /\ mutator' = [mutator EXCEPT
               ![m].at = IF NewContext(Row(m), command) THEN "context" ELSE "write",
               ![m].command = command]
      BY <1>7, <2>2 DEF LockItem
    <3>2. mutator[m] \in Jobs
      BY <3>1, MutatorIsJob
    <3>3. /\ mutator'[m].item = mutator[m].item /\ mutator'[m].command = command
          /\ \A n \in Mutators \ {m} : mutator'[n] = mutator[n]
      BY <3>1, <3>2 DEF IInv, TypeOK, RequestTypeOK, Jobs
    <3>4. \A n \in Mutators : mutator'[n].at \in {"context", "write"} =>
            Differs(items[mutator'[n].item], mutator'[n].command)
      BY <3>1, <3>3 DEF JournalIInv, Row
    <3> QED
      BY <1>1, <3>1, <3>4
  <2> QED
    BY <2>1, <2>2
<1>8. ASSUME NEW m \in Mutators, LockContextToMutate(m) PROVE JournalIInv'
  <2>1. CASE Release(m)
    BY <1>3, <1>8, <2>1 DEF Release, LockContextToMutate
  <2>2. CASE ~Release(m)
    <3>1. /\ UNCHANGED <<items, journal>> /\ mutator[m].at = "context"
          /\ mutator' = [mutator EXCEPT ![m].at = "write"]
      BY <1>8, <2>2 DEF LockContextToMutate
    <3>2. mutator[m] \in Jobs
      BY <3>1, MutatorIsJob
    <3>3. /\ mutator'[m].item = mutator[m].item /\ mutator'[m].command = mutator[m].command
          /\ \A n \in Mutators \ {m} : mutator'[n] = mutator[n]
      BY <3>1, <3>2 DEF IInv, TypeOK, RequestTypeOK, Jobs
    <3>4. \A n \in Mutators : mutator'[n].at \in {"context", "write"} =>
            Differs(items[mutator'[n].item], mutator'[n].command)
      BY <3>1, <3>3 DEF JournalIInv, Row
    <3> QED
      BY <1>1, <3>1, <3>4
  <2> QED
    BY <2>1, <2>2
<1>9. CASE UNCHANGED allVars \/ (EditStep /\ UNCHANGED <<linkVars, itemVars>>)
  BY <1>2, <1>9 DEF allVars, itemVars
<1>10. CASE ItemStep
  <2>1. ASSUME NEW k \in Creators, NEW key \in Keys, NEW intent \in Intents,
               BeginCreate(k, key, intent)
        PROVE  JournalIInv'
    BY <1>2, <2>1 DEF BeginCreate
  <2>2. ASSUME NEW k \in Creators,
               ReadKey(k) \/ ReadCandidate(k) \/ LockContextToCreate(k) \/ FailCreate(k)
        PROVE  JournalIInv'
    BY <1>2, <2>2 DEF ReadKey, ReadCandidate, LockContextToCreate, FailCreate
  <2> QED
    BY <1>4, <1>5, <1>6, <1>7, <1>8, <1>10, <2>1, <2>2 DEF ItemStep
<1> QED
  BY <1>9, <1>10 DEF Next

(* The journal of an item accounts for its version, status, archive mark    *)
(* and context, whoever changed it.                                         *)
THEOREM JournalsExplain == Spec => []JournalExplainsItem
<1>1. Spec => []JournalIInv
  BY Invariance, JournalInitially, JournalStep, PTL DEF Spec
<1> QED
  BY <1>1, JournalExplains, PTL
=============================================================================
