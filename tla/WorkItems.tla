------------------------------- MODULE WorkItems -------------------------------
(***************************************************************************)
(* Tracked work items of one owner, their append-only journal, and the     *)
(* business contexts they belong to.                                       *)
(*                                                                         *)
(* A create request carries a client-chosen creation key and is replayed   *)
(* when the key is used again; two unique constraints, on the key and on   *)
(* the analysis candidate an item was confirmed from, decide between       *)
(* concurrent requests.  A change carries the version its author saw and   *)
(* locks the item's row (SELECT FOR UPDATE).  Both lock the row of a       *)
(* context they newly associate, so that it stays active until the commit; *)
(* the UPDATE of a context waits for that lock.                            *)
(*                                                                         *)
(* An INSERT, UPDATE and commit are one step: row locks and unique index   *)
(* entries make the others wait from the statement to the commit.  Titles, *)
(* descriptions and due values are left out: a change of them is the       *)
(* "edited" event it records.                                              *)
(***************************************************************************)
EXTENDS BusinessContexts, Sequences

CONSTANTS
  Creators,    \* create requests; an item is named by the one that made it
  Mutators,    \* concurrent change requests
  Keys,        \* creation keys
  Candidates,  \* observations of stored analyses an item can be confirmed from
  MaxVersion   \* bound on the version of an item

VARIABLES
  items,    \* business_work_items rows by id, None when absent
  journal,  \* business_work_item_events of an item, in insertion order
  creator,  \* where a create request is, its key and intent, the item it was told of
  mutator   \* where a change request is, the item and version it saw, its command

itemVars == <<items, journal, creator, mutator>>
allVars == <<contextVars, linkVars, itemVars>>

Statuses == {"open", "in_progress", "completed", "cancelled"}
Working == {"open", "in_progress"}
MaybeContext == Contexts \cup {None}

(* What the request hash of a creation distinguishes. *)
Intents == [context : MaybeContext, candidate : Candidates \cup {None}]

Items == [key : Keys, intent : Intents, status : Statuses, archived : BOOLEAN,
          context : MaybeContext, version : 1..MaxVersion]

ASSUME WorkItemsAssumption ==
  /\ None \notin Candidates \cup Creators
  /\ None \notin Items
  /\ MaxVersion \in Nat \ {0}

EventTypes == {"created", "edited", "context_disassociated", "context_associated",
               "status_changed", "archived", "restored"}
Events == [version : 1..MaxVersion, ordinal : 0..2, type : EventTypes,
           context : MaybeContext, to : Statuses \cup MaybeContext]

Commands ==
  [op : {"edit"}, details : BOOLEAN, context : MaybeContext]
    \cup [op : {"status"}, status : Statuses, reopen : BOOLEAN]
    \cup [op : {"archive", "restore"}]

Waiting == [at |-> "idle", key |-> None, intent |-> None, told |-> None]
Free == [at |-> "idle", item |-> None, seen |-> 0, command |-> None]

NewContext(row, command) ==
  command.op = "edit" /\ command.context \notin {None, row.context}

ItemInit ==
  /\ items = [i \in Creators |-> None]
  /\ journal = [i \in Creators |-> <<>>]
  /\ creator = [k \in Creators |-> Waiting]
  /\ mutator = [m \in Mutators |-> Free]

Present == {i \in Creators : items[i] # None}
Row(m) == items[mutator[m].item]

-----------------------------------------------------------------------------
(* Row locks *)

(* The context row a transaction holds FOR UPDATE. *)
CreatorHolds(k, c) == creator[k].at = "insert" /\ creator[k].intent.context = c
MutatorHolds(m, c) ==
  /\ mutator[m].at = "write" /\ NewContext(Row(m), mutator[m].command)
  /\ mutator[m].command.context = c

(* Mutant: the context is read, and read only. *)
ContextNotLocked(c) == FALSE

ContextLocked(c) ==
  \/ \E k \in Creators : CreatorHolds(k, c)
  \/ \E m \in Mutators : MutatorHolds(m, c)

ItemLocked(i) == \E m \in Mutators : mutator[m].at \in {"context", "write"} /\ mutator[m].item = i

-----------------------------------------------------------------------------
(* Creation *)

Tell(k, point, i) == creator' = [creator EXCEPT ![k].at = point, ![k].told = i]
MoveCreator(k, point) == Tell(k, point, None)

BeginCreate(k, key, intent) ==
  /\ creator[k].at = "idle"
  /\ creator' = [creator EXCEPT ![k] =
       [at |-> "read_key", key |-> key, intent |-> intent, told |-> None]]
  /\ UNCHANGED <<items, journal, mutator>>

WithKey(key) == {i \in Present : items[i].key = key}
WithCandidate(c) == {i \in Present : c # None /\ items[i].intent.candidate = c}

(* Mutant: the request hash is not compared. *)
ReplayAnyIntent(k, i) == Tell(k, "replayed", i)

(* A used key is replayed when the request is the same, refused otherwise. *)
Replay(k, i) ==
  IF items[i].intent = creator[k].intent
  THEN Tell(k, "replayed", i)
  ELSE Tell(k, "key_conflict", i)

(* get_by_creation_key_owned, and the first statement of _existing_creation *)
(* before and after the INSERT.  (The early lookup and the later one are    *)
(* one step: a row found by either is answered the same way.)               *)
ReadKey(k) ==
  /\ creator[k].at \in {"read_key", "reread_key"}
  /\ \/ \E i \in WithKey(creator[k].key) : Replay(k, i)
     \/ /\ WithKey(creator[k].key) = {}
        /\ creator[k].at = "read_key"
        /\ MoveCreator(k, "read_candidate")
     \/ /\ WithKey(creator[k].key) = {}
        /\ creator[k].at = "reread_key"
        /\ MoveCreator(k, "reread_candidate")
  /\ UNCHANGED <<items, journal, mutator>>

(* The second statement of _existing_creation: a candidate is tracked once. *)
ReadCandidate(k) ==
  /\ creator[k].at \in {"read_candidate", "reread_candidate"}
  /\ \/ \E i \in WithCandidate(creator[k].intent.candidate) : Tell(k, "tracked", i)
     \/ /\ WithCandidate(creator[k].intent.candidate) = {}
        /\ creator[k].at = "read_candidate"
        /\ MoveCreator(k, IF creator[k].intent.context = None THEN "insert" ELSE "lock")
  /\ UNCHANGED <<items, journal, mutator>>

(* _context(active=True): waits for the row, refuses an archived context. *)
LockContextToCreate(k) ==
  /\ creator[k].at = "lock"
  /\ LET c == creator[k].intent.context
     IN /\ ~ContextLocked(c)
        /\ MoveCreator(k, IF context[c].status = "active" THEN "insert" ELSE "refused")
  /\ UNCHANGED <<items, journal, mutator>>

NewItem(k) ==
  [key |-> creator[k].key, intent |-> creator[k].intent, status |-> "open",
   archived |-> FALSE, context |-> creator[k].intent.context, version |-> 1]

(* Mutant: only the earlier reads protect the key and the candidate. *)
NeverTaken(k) == {}

Taken(k) == WithKey(creator[k].key) \cup WithCandidate(creator[k].intent.candidate)

(* Mutant: a unique violation is not handled, the INSERT is tried again. *)
InsertAgain(k) ==
  /\ creator[k].at = "insert" /\ Taken(k) = {}
  /\ items' = [items EXCEPT ![k] = NewItem(k)]
  /\ journal' = [journal EXCEPT
       ![k] = <<[version |-> 1, ordinal |-> 0, type |-> "created",
                 context |-> creator[k].intent.context, to |-> "open"]>>]
  /\ Tell(k, "created", k)
  /\ UNCHANGED mutator

(* INSERT of the item, its sources and its "created" event, and the commit, *)
(* whose acknowledgement can be lost; or a unique violation, which rolls    *)
(* back to the savepoint, releases the context and looks again.             *)
InsertItem(k) ==
  /\ creator[k].at = "insert"
  /\ \/ /\ Taken(k) = {}
        /\ items' = [items EXCEPT ![k] = NewItem(k)]
        /\ journal' = [journal EXCEPT
             ![k] = <<[version |-> 1, ordinal |-> 0, type |-> "created",
                       context |-> creator[k].intent.context, to |-> "open"]>>]
        /\ Tell(k, "created", k) \/ MoveCreator(k, "unavailable")
     \/ /\ Taken(k) # {}
        /\ MoveCreator(k, "reread_key")
        /\ UNCHANGED <<items, journal>>
  /\ UNCHANGED mutator

Creating == {"read_key", "read_candidate", "lock", "insert", "reread_key", "reread_candidate"}

(* A statement fails or the request dies: the transaction is rolled back. *)
FailCreate(k) ==
  /\ creator[k].at \in Creating
  /\ MoveCreator(k, "unavailable")
  /\ UNCHANGED <<items, journal, mutator>>

-----------------------------------------------------------------------------
(* Changes *)

(* The client loads an item and will send the version it saw. *)
LoadItem(m, i) ==
  /\ mutator[m].at = "idle" /\ i \in Present
  /\ items[i].version < MaxVersion
  /\ mutator' = [mutator EXCEPT ![m] =
       [at |-> "load", item |-> i, seen |-> items[i].version, command |-> None]]
  /\ UNCHANGED <<items, journal, creator>>

Release(m) == mutator' = [mutator EXCEPT ![m] = Free]

(* Mutant: the expected version is not compared. *)
AnyVersion(m) == TRUE

SeesCurrent(m) == Row(m).version = mutator[m].seen

(* The checks of BusinessWorkItem.apply after the version. *)
Allowed(row, command) ==
  CASE command.op = "edit" -> ~row.archived /\ row.status \in Working
    [] command.op = "status" ->
         LET reopening == row.status \notin Working /\ command.status = "open"
         IN /\ ~row.archived
            /\ command.reopen = reopening
            /\ row.status \in Working \/ command.status = row.status \/ reopening
    [] OTHER -> TRUE

(* The row a command asks for, and whether it differs (edited text aside). *)
Result(row, command) ==
  CASE command.op = "edit" -> [row EXCEPT !.context = command.context]
    [] command.op = "status" -> [row EXCEPT !.status = command.status]
    [] OTHER -> [row EXCEPT !.archived = (command.op = "archive")]

Differs(row, command) ==
  Result(row, command) # row \/ (command.op = "edit" /\ command.details)

(* SELECT FOR UPDATE and apply: a stale or refused command and a no-op end *)
(* the transaction; a command that attaches a context locks that next.     *)
LockItem(m, command) ==
  /\ mutator[m].at = "load"
  /\ ~ItemLocked(mutator[m].item)
  /\ IF SeesCurrent(m) /\ Allowed(Row(m), command) /\ Differs(Row(m), command)
     THEN mutator' = [mutator EXCEPT
            ![m].at = IF NewContext(Row(m), command) THEN "context" ELSE "write",
            ![m].command = command]
     ELSE Release(m)
  /\ UNCHANGED <<items, journal, creator>>

LockContextToMutate(m) ==
  /\ mutator[m].at = "context"
  /\ LET c == mutator[m].command.context
     IN /\ ~ContextLocked(c)
        /\ IF context[c].status = "active"
           THEN mutator' = [mutator EXCEPT ![m].at = "write"]
           ELSE Release(m)
  /\ UNCHANGED <<items, journal, creator>>

(* The events of a change, each with the context it is filed under and the *)
(* new status or context: an edit, then leaving one context, then joining   *)
(* another.                                                                 *)
When(condition, change) == IF condition THEN <<change>> ELSE <<>>

Changes(row, command) ==
  CASE command.op = "edit" ->
         When(command.details, <<"edited", row.context, None>>) \o
         When(row.context \notin {None, command.context},
              <<"context_disassociated", row.context, command.context>>) \o
         When(NewContext(row, command),
              <<"context_associated", command.context, command.context>>)
    [] command.op = "status" -> << <<"status_changed", row.context, command.status>> >>
    [] command.op = "archive" -> << <<"archived", row.context, None>> >>
    [] OTHER -> << <<"restored", row.context, None>> >>

Event(row, n, change) ==
  [version |-> row.version, ordinal |-> n - 1,
   type |-> change[1], context |-> change[2], to |-> change[3]]

(* Mutant: the event is written, the version is not increased. *)
SameVersion(row, command) == Result(row, command)

NextRow(row, command) == [Result(row, command) EXCEPT !.version = @ + 1]

(* UPDATE ... WHERE version = expected, the events, and the commit; or the *)
(* transaction fails and is rolled back.                                   *)
WriteItem(m) ==
  /\ mutator[m].at = "write"
  /\ \/ LET i == mutator[m].item
            row == NextRow(Row(m), mutator[m].command)
            changes == Changes(Row(m), mutator[m].command)
        IN /\ SeesCurrent(m)
           /\ items' = [items EXCEPT ![i] = row]
           /\ journal' = [journal EXCEPT ![i] = @ \o
                [n \in 1..Len(changes) |-> Event(row, n, changes[n])]]
     \/ UNCHANGED <<items, journal>>
  /\ Release(m)
  /\ UNCHANGED creator

-----------------------------------------------------------------------------
ItemStep ==
  \/ \E k \in Creators, key \in Keys, intent \in Intents : BeginCreate(k, key, intent)
  \/ \E k \in Creators :
       ReadKey(k) \/ ReadCandidate(k) \/ LockContextToCreate(k) \/ InsertItem(k) \/ FailCreate(k)
  \/ \E m \in Mutators :
       \/ \E i \in Creators : LoadItem(m, i)
       \/ \E command \in Commands : LockItem(m, command)
       \/ LockContextToMutate(m) \/ WriteItem(m)

(* The UPDATE of save_owned waits while a transaction holds the row. *)
SaveUnlocked(e) ==
  /\ editor[e] # Idle => ~ContextLocked(editor[e].context)
  /\ SaveContext(e)

EditStep ==
  \/ \E c \in Contexts, t \in Titles : CreateContext(c, t)
  \/ \E e \in Editors, c \in Contexts, op \in Edits, t \in Titles : ReadContext(e, c, op, t)
  \/ \E e \in Editors : SaveUnlocked(e)

(* Items and links have nothing in common but their contexts: the requests  *)
(* on links are left to BusinessContexts.                                   *)
Next ==
  \/ ItemStep /\ UNCHANGED <<contextVars, linkVars>>
  \/ EditStep /\ UNCHANGED <<linkVars, itemVars>>

Init == ContextInit /\ ItemInit
Spec == Init /\ [][Next]_allVars

-----------------------------------------------------------------------------
(* Fairness: a transaction goes on, as every statement has a timeout and    *)
(* locks are granted in the order they were asked for; nobody has to create *)
(* an item, or to change the one it loaded.                                 *)
CreatorStep(k) ==
  ReadKey(k) \/ ReadCandidate(k) \/ LockContextToCreate(k) \/ InsertItem(k)

MutatorStep(m) == LockContextToMutate(m) \/ WriteItem(m)

Fairness ==
  /\ \A k \in Creators : SF_allVars(CreatorStep(k) /\ UNCHANGED <<contextVars, linkVars>>)
  /\ \A m \in Mutators : SF_allVars(MutatorStep(m) /\ UNCHANGED <<contextVars, linkVars>>)

FairSpec == Spec /\ Fairness

-----------------------------------------------------------------------------
(* Properties *)

CreatorPoints == Creating \cup {"created", "replayed", "key_conflict", "tracked",
                                "refused", "unavailable"}

RequestTypeOK ==
  /\ creator \in [Creators -> {Waiting} \cup
       [at : CreatorPoints, key : Keys, intent : Intents, told : Creators \cup {None}]]
  /\ mutator \in [Mutators -> {Free} \cup
       [at : {"load", "context", "write"}, item : Creators,
        seen : 1..MaxVersion, command : Commands \cup {None}]]

(* The variables hold what their columns and handlers can hold, and every   *)
(* item has a journal.                                                      *)
TypeOK ==
  /\ ContextTypeOK
  /\ items \in [Creators -> Items \cup {None}]
  /\ journal \in [Creators -> Seq(Events)]
  /\ \A i \in Creators : journal[i] = <<>> <=> items[i] = None
  /\ RequestTypeOK

(* However create requests interleave and are retried, one key makes one    *)
(* item and one candidate is tracked by one item.                           *)
OneItemPerKey ==
  \A i, j \in Present :
    \/ items[i].key = items[j].key
    \/ items[i].intent.candidate = items[j].intent.candidate /\ items[i].intent.candidate # None
    => i = j

(* A request told "created" or "replayed" was told of an item made from the *)
(* very key and intent it sent, and one told of a conflict of a really      *)
(* different request or of an item that does track its candidate.           *)
AnswersAreTrue ==
  \A k \in Creators : LET i == creator[k].told IN i # None =>
    /\ i \in Present
    /\ creator[k].at \in {"created", "replayed"} =>
         items[i].key = creator[k].key /\ items[i].intent = creator[k].intent
    /\ creator[k].at = "key_conflict" =>
         items[i].key = creator[k].key /\ items[i].intent # creator[k].intent
    /\ creator[k].at = "tracked" => items[i].intent.candidate = creator[k].intent.candidate

Latest(events, types) ==
  events[CHOOSE n \in DOMAIN events :
           /\ events[n].type \in types
           /\ \A o \in DOMAIN events : events[o].type \in types => o <= n]

(* The journal accounts for the row: versions without gaps, ordinals from 0 *)
(* in each, the last version is the row's, and the status, the archive mark *)
(* and the context are those of the last event about them.                  *)
JournalExplainsItem ==
  \A i \in Present : LET events == journal[i] IN
    /\ events[1].version = 1 /\ events[1].ordinal = 0
    /\ \A n \in 2..Len(events) :
         \/ /\ events[n].version = events[n - 1].version
            /\ events[n].ordinal = events[n - 1].ordinal + 1
         \/ events[n].version = events[n - 1].version + 1 /\ events[n].ordinal = 0
    /\ events[Len(events)].version = items[i].version
    /\ items[i].status = Latest(events, {"created", "status_changed"}).to
    /\ items[i].archived = (Latest(events, {"created", "archived", "restored"}).type = "archived")
    /\ LET e == Latest(events, {"created", "context_associated", "context_disassociated"})
       IN items[i].context = IF e.type = "created" THEN e.context ELSE e.to

(* A change is applied only to the version its author saw, by whoever it is *)
(* made: of two authors of the same version one changes the item.           *)
NoLostUpdate ==
  [][\A i \in Present : items'[i] # items[i] =>
       \E m \in Mutators :
         /\ mutator[m].item = i /\ mutator[m].seen = items[i].version
         /\ items'[i].version = items[i].version + 1
    ]_items

(* An item joins only a context that is active at the moment of the commit, *)
(* however the request races archive requests (ADR-030).                    *)
JoinsActiveContext ==
  [][\A i \in Creators :
       /\ items'[i] # items[i]
       /\ items'[i].context # None
       /\ items[i] # None => items'[i].context # items[i].context
       => context[items'[i].context].status = "active"
    ]_items

(* What these rest on: a row has one holder, who still sees the version it  *)
(* locked; a locked context is active.                                      *)
HoldersAreExclusive ==
  \A m, n \in Mutators :
    /\ {mutator[m].at, mutator[n].at} \subseteq {"context", "write"}
    /\ mutator[m].item = mutator[n].item
    => m = n

HoldersSeeTheRow ==
  \A m \in Mutators :
    /\ mutator[m].at # "idle" => mutator[m].item \in Present /\ mutator[m].seen < MaxVersion
    /\ mutator[m].at \in {"context", "write"} =>
         mutator[m].command \in Commands /\ SeesCurrent(m)
    /\ mutator[m].at = "context" => NewContext(Row(m), mutator[m].command)

LockedContextIsActive ==
  \A c \in Contexts : ContextLocked(c) => context[c].status = "active"

NothingBeforeInsert ==
  \A k \in Creators : creator[k].at \in Creating \cup {"idle"} => items[k] = None

IInv ==
  /\ TypeOK /\ ContextIInv
  /\ OneItemPerKey /\ AnswersAreTrue
  /\ HoldersAreExclusive /\ HoldersSeeTheRow /\ LockedContextIsActive /\ NothingBeforeInsert

(* Every create request is answered, and no change request keeps the row of *)
(* an item for ever, though it waits for a context with that row locked.    *)
RequestsReturn ==
  /\ \A k \in Creators : creator[k].at \in Creating ~> creator[k].at \notin Creating
  /\ \A m \in Mutators : mutator[m].at \in {"context", "write"} ~> mutator[m].at = "idle"

=============================================================================
