---------------------------- MODULE ContextTimeline ----------------------------
(***************************************************************************)
(* The timeline of one business context: what the rows of six tables say   *)
(* about it, newest first and in pages.                                    *)
(*                                                                         *)
(* application/services/context_timeline.py merges the rows in memory when *)
(* the repository has no page of its own;                                  *)
(* storage/repositories/context_timeline.py merges them in one statement.  *)
(* A client walks the pages by offset while the rows change.               *)
(***************************************************************************)
EXTENDS Integers, Sequences, FiniteSets, Functions

CONSTANTS
  Linkable,         \* messages that may be linked, numbered
  SourcePageSize,   \* rows per repository page of the merge in memory
  Limits,           \* page sizes that clients ask for
  MaxTime,          \* bound of the clock
  MaxTimelineRows,  \* bound of the rows of all tables
  Never

ASSUME TimelineAssumption ==
  /\ Linkable \subseteq Nat /\ IsFiniteSet(Linkable)
  /\ SourcePageSize \in Nat \ {0} /\ Limits \subseteq Nat \ {0}
  /\ MaxTime \in Nat /\ MaxTimelineRows \in Nat
  /\ Never \notin Nat

VARIABLES
  now,          \* the time of the next row
  archived,     \* status and archived_at of the context: a time or Never
  associated,   \* [m]: associated_at of the link to m, or Never
  analyses,     \* set of [message, occurred_at]: its analysis
  attachments,  \* set of [message, occurred_at]: the analysis of its attachment
  actions,      \* [m]: the timestamps of the workflow action on m, or Never
  events,       \* sequence of occurred_at: work item events in the context
  walk          \* the client: its page size, how the pages are made, what it saw

rows == <<archived, associated, analyses, attachments, actions, events>>
timelineVars == <<now, rows, walk>>

Times == 0..MaxTime
Stamps == {"created_at", "approved_at", "rejected_at", "executed_at", "failed_at"}
Lower(a, b) == IF a < b THEN a ELSE b

-----------------------------------------------------------------------------
(* Entries: rank is the place of the prefix of the id in the order of ids, *)
(* of the row it names, suffix the place of what follows.                  *)

Entry(rank, of, suffix, at) == [occurred_at |-> at, rank |-> rank, of |-> of, suffix |-> suffix]

AnalysisEntry(r) == Entry(1, r.message, 0, r.occurred_at)
AssociationEntry(m) == Entry(2, m, 0, associated[m])
AttachmentEntry(r) == Entry(3, r.message, 0, r.occurred_at)
ArchivedEntry == Entry(4, 0, 0, archived)
CreatedEntry == Entry(5, 0, 0, 0)
EventEntry(i) == Entry(6, i, 0, events[i])

Suffix == [approved_at |-> 1, executed_at |-> 2, failed_at |-> 3, created_at |-> 4, rejected_at |-> 5]
WorkflowEntries(m) ==
  {Entry(7, m, Suffix[s], actions[m][s]) : s \in {t \in Stamps : actions[m][t] # Never}}

(* -occurred_at, then id. *)
Precedes(a, b) ==
  \/ a.occurred_at > b.occurred_at
  \/ /\ a.occurred_at = b.occurred_at
     /\ \/ a.rank < b.rank
        \/ a.rank = b.rank /\ a.of < b.of
        \/ a.rank = b.rank /\ a.of = b.of /\ a.suffix < b.suffix

(* How many entries come before e. *)
Place(entries, e) == Cardinality({d \in entries : Precedes(d, e)})

Ordered(entries) ==
  [i \in 1..Cardinality(entries) |-> CHOOSE e \in entries : Place(entries, e) = i - 1]
Slice(s, offset, limit) == SubSeq(s, offset + 1, Lower(offset + limit, Len(s)))

-----------------------------------------------------------------------------
(* The page of the database: one union, then order, limit and offset. *)

Linked(m) == associated[m] # Never

StoredParts ==
  {{CreatedEntry},
   {ArchivedEntry : x \in {archived} \ {Never}},
   {AssociationEntry(m) : m \in {m \in Linkable : Linked(m)}},
   {AnalysisEntry(r) : r \in {r \in analyses : Linked(r.message)}},
   {AttachmentEntry(r) : r \in {r \in attachments : Linked(r.message)}},
   UNION {WorkflowEntries(m) : m \in {m \in Linkable : actions[m] # Never /\ Linked(m)}},
   {EventEntry(i) : i \in DOMAIN events}}

StoredEntries == UNION StoredParts

(* Mutant: each part is cut before the parts are merged. *)
StoredPagePerPart(offset, limit) ==
  Ordered(UNION {Range(Slice(Ordered(part), offset, limit)) : part \in StoredParts})

StoredPage(offset, limit) == Slice(Ordered(StoredEntries), offset, limit)

(* The page that is merged in memory: every row of the linked messages, and *)
(* of the events the prefix that can reach the page, in bounded pages.      *)

Assembled ==
  LET provenance == {m \in Linkable : associated[m] # Never}
  IN  {CreatedEntry}
        \cup (IF archived = Never THEN {} ELSE {ArchivedEntry})
        \cup {AssociationEntry(m) : m \in provenance}
        \cup {AnalysisEntry(r) : r \in {r \in analyses : r.message \in provenance}}
        \cup {AttachmentEntry(r) : r \in {r \in attachments : r.message \in provenance}}
        \cup UNION {WorkflowEntries(m) : m \in {m \in provenance : actions[m] # Never}}

EventPage(offset, limit) ==
  Slice(Ordered({EventEntry(i) : i \in DOMAIN events}), offset, limit)

(* Mutant: events are read from the offset of the page. *)
EventsFromOffset(offset, limit) == Range(EventPage(offset, limit))

EventPrefix(offset, limit) ==
  LET needed == offset + limit
      Wanted(at) == Lower(SourcePageSize, needed - at)
      starts == {at \in 0..(needed - 1) : at % SourcePageSize = 0}
      Short(at) == Len(EventPage(at, Wanted(at))) < Wanted(at)
      read == {at \in starts : \A earlier \in starts : earlier < at => ~Short(earlier)}
  IN  UNION {Range(EventPage(at, Wanted(at))) : at \in read}

PortablePage(offset, limit) ==
  Slice(Ordered(Assembled \cup EventPrefix(offset, limit)), offset, limit)

Page(offset, limit) ==
  IF walk.stored THEN StoredPage(offset, limit) ELSE PortablePage(offset, limit)

-----------------------------------------------------------------------------
Resting ==
  [at |-> "idle", limit |-> 1, stored |-> TRUE, offset |-> 0, lasting |-> {}, shown |-> {}]

TimelineInit ==
  /\ now = 0 /\ archived = Never
  /\ associated = [m \in Linkable |-> Never]
  /\ analyses = {} /\ attachments = {}
  /\ actions = [m \in Linkable |-> Never]
  /\ events = <<>>
  /\ walk = Resting

(* How many rows there are: the bound of the model. *)
RowCount ==
  Cardinality({m \in Linkable : associated[m] # Never}) + Cardinality(analyses)
    + Cardinality(attachments) + Cardinality({m \in Linkable : actions[m] # Never}) + Len(events)

(* A row is written at the current time, or a moment after the last one. A *)
(* walk from which an entry was taken away is not followed any further.    *)
Written ==
  /\ now' \in {now, now + 1} \cap Times
  /\ walk' = IF StoredEntries \subseteq StoredEntries' THEN walk ELSE Resting

Associate(m) ==
  /\ RowCount < MaxTimelineRows /\ associated[m] = Never
  /\ associated' = [associated EXCEPT ![m] = now]
  /\ UNCHANGED <<archived, analyses, attachments, actions, events>>
  /\ Written

Dissociate(m) ==
  /\ associated[m] # Never
  /\ associated' = [associated EXCEPT ![m] = Never]
  /\ UNCHANGED <<archived, analyses, attachments, actions, events>>
  /\ Written

Analyse(m) ==
  /\ RowCount < MaxTimelineRows
  /\ \/ analyses' = analyses \cup {[message |-> m, occurred_at |-> now]} /\ UNCHANGED attachments
     \/ attachments' = attachments \cup {[message |-> m, occurred_at |-> now]} /\ UNCHANGED analyses
  /\ UNCHANGED <<archived, associated, actions, events>>
  /\ Written

Propose(m) ==
  /\ RowCount < MaxTimelineRows /\ actions[m] = Never
  /\ actions' = [actions EXCEPT ![m] = [s \in Stamps |-> IF s = "created_at" THEN now ELSE Never]]
  /\ UNCHANGED <<archived, associated, analyses, attachments, events>>
  /\ Written

(* A decision, then an outcome of what was approved. *)
Stamp(m, s) ==
  /\ actions[m] # Never /\ actions[m][s] = Never
  /\ IF s \in {"approved_at", "rejected_at"}
     THEN actions[m].approved_at = Never /\ actions[m].rejected_at = Never
     ELSE /\ actions[m].approved_at # Never
          /\ actions[m].executed_at = Never /\ actions[m].failed_at = Never
  /\ actions' = [actions EXCEPT ![m][s] = now]
  /\ UNCHANGED <<archived, associated, analyses, attachments, events>>
  /\ Written

Happen ==
  /\ RowCount < MaxTimelineRows
  /\ events' = Append(events, now)
  /\ UNCHANGED <<archived, associated, analyses, attachments, actions>>
  /\ Written

ArchiveOrRestore ==
  /\ archived' = IF archived = Never THEN now ELSE Never
  /\ UNCHANGED <<associated, analyses, attachments, actions, events>>
  /\ Written

-----------------------------------------------------------------------------
(* A client walks the pages until one is shorter than what it asked for. *)

StartWalk(limit, stored) ==
  /\ walk.at = "idle"
  /\ walk' = [Resting EXCEPT !.at = "walking", !.limit = limit, !.stored = stored,
                             !.lasting = StoredEntries]
  /\ UNCHANGED <<now, rows>>

ListTimeline ==
  /\ walk.at = "walking"
  /\ LET page == Page(walk.offset, walk.limit)
     IN  walk' = [walk EXCEPT !.shown = @ \cup Range(page),
                              !.offset = @ + walk.limit,
                              !.at = IF Len(page) < walk.limit THEN "done" ELSE "walking"]
  /\ UNCHANGED <<now, rows>>

EndWalk == walk.at = "done" /\ walk' = Resting /\ UNCHANGED <<now, rows>>

TimelineNext ==
  \/ \E m \in Linkable : Associate(m) \/ Dissociate(m) \/ Analyse(m) \/ Propose(m)
  \/ \E m \in Linkable : \E s \in Stamps \ {"created_at"} : Stamp(m, s)
  \/ Happen \/ ArchiveOrRestore
  \/ \E limit \in Limits : \E stored \in BOOLEAN : StartWalk(limit, stored)
  \/ ListTimeline \/ EndWalk

TimelineSpec == TimelineInit /\ [][TimelineNext]_timelineVars

-----------------------------------------------------------------------------
(* context_timeline.py merges in memory what the statement of the           *)
(* repository merges in the database: whatever is stored, and whichever     *)
(* page is asked for, both give the same entries in the same order.         *)
MergesAgree ==
  \A offset \in 0..Cardinality(StoredEntries), limit \in 1..Cardinality(StoredEntries) :
    PortablePage(offset, limit) = StoredPage(offset, limit)

(* list_timeline by offsets: entries that were there when a walk began and  *)
(* still are have all been shown at its end, whatever rows were written and *)
(* wherever their entries belong, when no entry was taken away meanwhile.   *)
WalkMissesNothing ==
  walk.at = "done" => walk.lasting \subseteq walk.shown
=============================================================================
