------------------------ MODULE ContextTimeline_proofs ------------------------
(***************************************************************************)
(* Proofs about ContextTimeline for any finite set of messages, any page   *)
(* sizes and any bounds: both merges give the same page, and a walk by     *)
(* offsets shows whatever lasts.                                           *)
(*                                                                         *)
(* Everything rests on the order of entries being strict and total, which  *)
(* makes the place of an entry in a finite set a bijection.                *)
(***************************************************************************)
EXTENDS ContextTimeline, FiniteSetTheorems, SequenceTheorems, TLAPS

-----------------------------------------------------------------------------
LEMMA QuotientAndRemainder ==
  ASSUME NEW d \in Int, d > 0, NEW k \in Int
  PROVE  k = d * (k \div d) + (k % d)
OBVIOUS

USE TimelineAssumption

Entries == [occurred_at : Nat, rank : Nat, of : Nat, suffix : Nat]

-----------------------------------------------------------------------------
(* The order of entries, and their places in a finite set of them *)

LEMMA PrecedesIsAnOrder ==
  ASSUME NEW a \in Entries, NEW b \in Entries, NEW c \in Entries
  PROVE  /\ ~Precedes(a, a)
         /\ Precedes(a, b) /\ Precedes(b, c) => Precedes(a, c)
         /\ a = b \/ Precedes(a, b) \/ Precedes(b, a)
BY DEF Entries, Precedes

LEMMA PlaceBounds ==
  ASSUME NEW S \in SUBSET Entries, IsFiniteSet(S), NEW e \in S
  PROVE  Place(S, e) \in 0..(Cardinality(S) - 1)
<1> DEFINE before == {d \in S : Precedes(d, e)}
<1>1. before \in SUBSET S /\ e \notin before
  BY PrecedesIsAnOrder
<1>2. /\ IsFiniteSet(before)
      /\ Cardinality(before) <= Cardinality(S)
      /\ Cardinality(before) # Cardinality(S)
  BY <1>1, FS_Subset
<1>3. Cardinality(before) \in Nat /\ Cardinality(S) \in Nat
  BY <1>2, FS_CardinalityType
<1> QED
  BY <1>2, <1>3 DEF Place

LEMMA PlaceFollowsOrder ==
  ASSUME NEW S \in SUBSET Entries, IsFiniteSet(S), NEW d \in S, NEW e \in S, Precedes(d, e)
  PROVE  Place(S, d) < Place(S, e)
<1> DEFINE Before(x) == {y \in S : Precedes(y, x)}
<1>1. Before(d) \in SUBSET Before(e)
  BY PrecedesIsAnOrder
<1>2. d \in Before(e) /\ d \notin Before(d)
  BY PrecedesIsAnOrder
<1>3. IsFiniteSet(Before(e))
  BY FS_Subset, Before(e) \in SUBSET S
<1>4. /\ IsFiniteSet(Before(d))
      /\ Cardinality(Before(d)) <= Cardinality(Before(e))
      /\ Cardinality(Before(d)) # Cardinality(Before(e))
  BY <1>1, <1>2, <1>3, FS_Subset
<1>5. Cardinality(Before(d)) \in Nat /\ Cardinality(Before(e)) \in Nat
  BY <1>3, <1>4, FS_CardinalityType
<1> QED
  BY <1>4, <1>5 DEF Place

(* More entries only move an entry backwards. *)
LEMMA PlaceGrows ==
  ASSUME NEW S \in SUBSET Entries, IsFiniteSet(S), NEW P \in SUBSET S, NEW e \in P
  PROVE  Place(P, e) \in Nat /\ Place(S, e) \in Nat /\ Place(P, e) <= Place(S, e)
<1>1. IsFiniteSet(P)
  BY FS_Subset
<1>2. IsFiniteSet({d \in S : Precedes(d, e)})
  BY FS_Subset, {d \in S : Precedes(d, e)} \in SUBSET S
<1>3. Cardinality({d \in P : Precedes(d, e)}) <= Cardinality({d \in S : Precedes(d, e)})
  BY <1>2, FS_Subset, {d \in P : Precedes(d, e)} \in SUBSET {d \in S : Precedes(d, e)}
<1>4. Place(P, e) \in 0..(Cardinality(P) - 1) /\ Place(S, e) \in 0..(Cardinality(S) - 1)
  BY <1>1, PlaceBounds
<1> QED
  BY <1>3, <1>4 DEF Place

LEMMA PlacesAreDistinct ==
  ASSUME NEW S \in SUBSET Entries, IsFiniteSet(S), NEW d \in S, NEW e \in S,
         Place(S, d) = Place(S, e)
  PROVE  d = e
<1>1. Place(S, d) \in Int /\ Place(S, e) \in Int
  BY PlaceBounds
<1>2. ~Precedes(d, e) /\ ~Precedes(e, d)
  BY <1>1, PlaceFollowsOrder
<1> QED
  BY <1>2, PrecedesIsAnOrder

(* An injection of n entries into 0..n-1 leaves no place empty. *)
LEMMA EveryPlaceIsTaken ==
  ASSUME NEW S \in SUBSET Entries, IsFiniteSet(S), NEW k \in 0..(Cardinality(S) - 1)
  PROVE  \E e \in S : Place(S, e) = k
<1> DEFINE n == Cardinality(S)
           places == [e \in S |-> Place(S, e)]
<1>1. n \in Nat
  BY FS_CardinalityType
<1>2. IsFiniteSet(0..(n - 1)) /\ Cardinality(0..(n - 1)) = n
  BY <1>1, FS_Interval
<1>3. places \in Injection(S, 0..(n - 1))
  BY PlaceBounds, PlacesAreDistinct DEF Injection, IsInjective
<1>4. places \in Surjection(S, 0..(n - 1))
  BY <1>2, <1>3, FS_Injection
<1> QED
  BY <1>4 DEF Surjection

(* Sorting puts every entry at its place. *)
LEMMA OrderedIsSorted ==
  ASSUME NEW S \in SUBSET Entries, IsFiniteSet(S)
  PROVE  /\ Ordered(S) \in Seq(S)
         /\ Len(Ordered(S)) = Cardinality(S)
         /\ \A i \in 1..Cardinality(S) :
              Ordered(S)[i] \in S /\ Place(S, Ordered(S)[i]) = i - 1
         /\ \A e \in S : Ordered(S)[Place(S, e) + 1] = e
<1>0. Cardinality(S) \in Nat
  BY FS_CardinalityType
<1>1. \A i \in 1..Cardinality(S) : i - 1 \in 0..(Cardinality(S) - 1)
  BY <1>0
<1>2. ASSUME NEW i \in 1..Cardinality(S)
      PROVE  Ordered(S)[i] \in S /\ Place(S, Ordered(S)[i]) = i - 1
  <2>1. \E e \in S : Place(S, e) = i - 1
    BY <1>1, EveryPlaceIsTaken
  <2> QED
    BY <2>1 DEF Ordered
<1>3. Ordered(S) \in [1..Cardinality(S) -> S]
  BY <1>2 DEF Ordered
<1>4. ASSUME NEW e \in S
      PROVE  Ordered(S)[Place(S, e) + 1] = e
  <2>1. Place(S, e) \in 0..(Cardinality(S) - 1)
    BY PlaceBounds
  <2>2. Place(S, e) + 1 \in 1..Cardinality(S) /\ (Place(S, e) + 1) - 1 = Place(S, e)
    BY <1>0, <2>1
  <2>3. /\ Ordered(S)[Place(S, e) + 1] \in S
        /\ Place(S, Ordered(S)[Place(S, e) + 1]) = Place(S, e)
    BY <1>2, <2>2
  <2> QED
    BY <2>3, PlacesAreDistinct
<1> QED
  BY <1>0, <1>2, <1>3, <1>4

(* A page holds the entries whose places it covers. *)
LEMMA SliceOfOrdered ==
  ASSUME NEW S \in SUBSET Entries, IsFiniteSet(S), NEW offset \in Nat, NEW limit \in Nat
  PROVE  LET page == Slice(Ordered(S), offset, limit)
             end == Lower(offset + limit, Cardinality(S))
         IN /\ page \in Seq(S)
            /\ Len(page) = IF offset <= end THEN end - offset ELSE 0
            /\ \A i \in 1..(end - offset) : page[i] = Ordered(S)[offset + i]
            /\ \A e \in S : offset <= Place(S, e) /\ Place(S, e) < offset + limit
                              => e \in Range(page)
<1> DEFINE n == Cardinality(S)
           end == Lower(offset + limit, n)
           page == SubSeq(Ordered(S), offset + 1, end)
<1>0. n \in Nat
  BY FS_CardinalityType
<1>1. end \in Nat /\ end <= n /\ end <= offset + limit /\ end \in {n, offset + limit}
  BY <1>0 DEF Lower
<1>2. /\ \A i \in 1..n : Ordered(S)[i] \in S
      /\ Len(Ordered(S)) = n
      /\ \A e \in S : Ordered(S)[Place(S, e) + 1] = e
  BY OrderedIsSorted
<1>3. \A i \in (offset + 1)..end : Ordered(S)[i] \in S
  BY <1>0, <1>1, <1>2
<1>4. /\ page \in Seq(S)
      /\ Len(page) = IF offset + 1 <= end THEN end - (offset + 1) + 1 ELSE 0
      /\ \A i \in 1..(end - (offset + 1) + 1) : page[i] = Ordered(S)[offset + 1 + i - 1]
  <2> HIDE DEF end
  <2>1. offset + 1 \in Int /\ end \in Int
    BY <1>1
  <2> QED
    BY <1>3, <2>1, SubSeqProperties
<1>5. Slice(Ordered(S), offset, limit) = page
  BY <1>2 DEF Slice
<1>6. Len(page) = IF offset <= end THEN end - offset ELSE 0
  BY <1>1, <1>4
<1>7. \A i \in 1..(end - offset) : page[i] = Ordered(S)[offset + i]
  BY <1>1, <1>4
<1>8. ASSUME NEW e \in S, offset <= Place(S, e), Place(S, e) < offset + limit
      PROVE  e \in Range(page)
  <2> DEFINE i == Place(S, e) + 1 - offset
  <2>1. Place(S, e) \in 0..(n - 1)
    BY PlaceBounds
  <2>2. i \in 1..(end - offset) /\ offset + i = Place(S, e) + 1 /\ i \in 1..Len(page)
    BY <1>0, <1>1, <1>6, <1>8, <2>1
  <2>3. page[i] = e
    BY <1>2, <1>7, <2>2
  <2>4. DOMAIN page = 1..Len(page)
    BY <1>4, LenProperties
  <2> QED
    BY <2>2, <2>3, <2>4 DEF Range
<1> QED
  BY <1>4, <1>5, <1>6, <1>7, <1>8

-----------------------------------------------------------------------------
(* The prefix of the events that is read in pages of the repository *)

LEMMA ProductsAreApart ==
  ASSUME NEW d \in Nat \ {0}, NEW p \in Nat, NEW q \in Nat, p < q
  PROVE  d * p \in Nat /\ d * q \in Nat /\ d * p + d <= d * q
<1>1. PICK r \in Nat : q = p + 1 + r
  BY q - p - 1 \in Nat
<1>2. d * q = d * p + d + d * r /\ d * r \in Nat /\ d * p \in Nat
  BY <1>1
<1> QED
  BY <1>2

LEMMA Division ==
  ASSUME NEW d \in Nat \ {0}, NEW k \in Nat
  PROVE  \E q \in Nat : \E r \in 0..(d - 1) :
           q = k \div d /\ r = k % d /\ k = d * q + r
<1>1. k = d * (k \div d) + (k % d)
  <2>1. d \in Int /\ d > 0 /\ k \in Int
    OBVIOUS
  <2> QED
    BY <2>1, QuotientAndRemainder, Zenon
<1>2. k \div d \in Nat
  OBVIOUS
<1>3. k % d \in 0..(d - 1)
  OBVIOUS
<1> QED
  BY <1>1, <1>2, <1>3, Zenon

LEMMA MultiplesAreApart ==
  ASSUME NEW d \in Nat \ {0}, NEW a \in Nat, NEW b \in Nat, a % d = 0, b % d = 0, a < b
  PROVE  a + d <= b
<1>1. PICK p \in Nat : a = d * p + 0
  BY Division, Zenon
<1>2. PICK q \in Nat : b = d * q + 0
  BY Division, Zenon
<1>3. a = d * p /\ b = d * q
  BY <1>1, <1>2
<1>4. q < p => b + d <= a
  BY <1>3, ProductsAreApart
<1>5. p < q => a + d <= b
  BY <1>3, ProductsAreApart
<1>6. p = q => a = b
  BY <1>3
<1> QED
  BY <1>4, <1>5, <1>6

LEMMA LastMultiple ==
  ASSUME NEW d \in Nat \ {0}, NEW k \in Nat
  PROVE  \E a \in 0..k : a % d = 0 /\ k < a + d
<1>1. PICK q \in Nat : \E r \in 0..(d - 1) : q = k \div d /\ r = k % d /\ k = d * q + r
  BY Division, Zenon
<1>2. PICK a \in Nat : a = d * q
  BY d * q \in Nat
<1>3. a <= k /\ k < a + d
  BY <1>1, <1>2
<1>4. PICK p \in Nat : \E r \in 0..(d - 1) : p = a \div d /\ r = a % d /\ a = d * p + r
  BY Division, Zenon
<1>5. PICK r \in 0..(d - 1) : r = a % d /\ a = d * p + r
  BY <1>4
<1>6. PICK low \in Nat : low = d * p
  BY d * p \in Nat
<1>7. p < q => low + d <= a
  BY <1>2, <1>6, ProductsAreApart
<1>8. q < p => a + d <= low
  BY <1>2, <1>6, ProductsAreApart
<1>9. p = q => a = low
  BY <1>2, <1>6
<1>10. a = low + r
  BY <1>5, <1>6
<1>11. r = 0
  BY <1>7, <1>8, <1>9, <1>10
<1>12. a % d = 0
  BY <1>5, <1>11
<1>13. a \in 0..k
  BY <1>3
<1> QED
  BY <1>3, <1>12, <1>13, Zenon

EventEntries == {EventEntry(i) : i \in DOMAIN events}

(* Of the events, the prefix holds whatever can reach the page. *)
LEMMA PrefixReachesThePage ==
  ASSUME EventEntries \in SUBSET Entries, IsFiniteSet(EventEntries),
         NEW offset \in Nat, NEW limit \in Nat \ {0}
  PROVE  /\ EventPrefix(offset, limit) \subseteq EventEntries
         /\ \A e \in EventEntries :
              Place(EventEntries, e) < offset + limit => e \in EventPrefix(offset, limit)
<1> DEFINE needed == offset + limit
           n == Cardinality(EventEntries)
           Wanted(at) == Lower(SourcePageSize, needed - at)
           starts == {at \in 0..(needed - 1) : at % SourcePageSize = 0}
           Short(at) == Len(EventPage(at, Wanted(at))) < Wanted(at)
           read == {at \in starts : \A earlier \in starts : earlier < at => ~Short(earlier)}
<1>0. n \in Nat /\ needed \in Nat
  BY FS_CardinalityType
<1>1. ASSUME NEW at \in starts
      PROVE  /\ at \in Nat /\ Wanted(at) \in Nat
             /\ Wanted(at) <= SourcePageSize /\ Wanted(at) <= needed - at
             /\ Wanted(at) \in {SourcePageSize, needed - at}
  BY <1>0, <1>1 DEF Lower
<1>2. ASSUME NEW at \in starts
      PROVE  /\ Range(EventPage(at, Wanted(at))) \subseteq EventEntries
             /\ at + SourcePageSize <= n => ~Short(at)
             /\ \A e \in EventEntries :
                  at <= Place(EventEntries, e) /\ Place(EventEntries, e) < at + Wanted(at)
                    => e \in Range(EventPage(at, Wanted(at)))
  <2> DEFINE size == Wanted(at)
             end == Lower(at + size, n)
  <2>1. at \in Nat /\ size \in Nat /\ size <= SourcePageSize
    BY <1>1
  <2> HIDE DEF size, read, starts, needed, n
  <2>2. EventPage(at, size) = Slice(Ordered(EventEntries), at, size)
    BY DEF EventPage, EventEntries
  <2>3. /\ EventPage(at, size) \in Seq(EventEntries)
        /\ Len(EventPage(at, size)) = IF at <= end THEN end - at ELSE 0
        /\ \A e \in EventEntries :
             at <= Place(EventEntries, e) /\ Place(EventEntries, e) < at + size
               => e \in Range(EventPage(at, size))
    BY <2>1, <2>2, SliceOfOrdered DEF n
  <2>4. Range(EventPage(at, size)) \subseteq EventEntries
    BY <2>3, RangeOfSeq
  <2>5. ASSUME at + SourcePageSize <= n
        PROVE  Len(EventPage(at, size)) = size
    BY <1>0, <2>1, <2>3, <2>5 DEF Lower
  <2> QED
    BY <2>1, <2>3, <2>4, <2>5 DEF size
<1>3. EventPrefix(offset, limit) = UNION {Range(EventPage(at, Wanted(at))) : at \in read}
  BY DEF EventPrefix
<1>4. EventPrefix(offset, limit) \subseteq EventEntries
  BY <1>2, <1>3
<1>5. ASSUME NEW e \in EventEntries, Place(EventEntries, e) < needed
      PROVE  e \in EventPrefix(offset, limit)
  <2> DEFINE k == Place(EventEntries, e)
  <2>1. k \in 0..(n - 1)
    BY PlaceBounds
  <2> HIDE DEF k
  <2>2. PICK at \in 0..k : at % SourcePageSize = 0 /\ k < at + SourcePageSize
    <3>1. k \in Nat
      BY <1>0, <2>1
    <3> QED
      BY <3>1, LastMultiple
  <2>3. at \in starts /\ at <= k
    BY <1>0, <1>5, <2>1, <2>2 DEF k
  <2>4. ASSUME NEW earlier \in starts, earlier < at
        PROVE  ~Short(earlier)
    <3>1. earlier + SourcePageSize <= at
      BY <1>1, <2>3, <2>4, MultiplesAreApart
    <3>2. earlier + SourcePageSize <= n
      BY <1>0, <1>1, <2>1, <2>2, <3>1
    <3> QED
      BY <1>2, <3>2
  <2>5. at \in read
    BY <2>3, <2>4
  <2>6. k < at + Wanted(at)
    BY <1>0, <1>1, <1>5, <2>1, <2>2, <2>3 DEF k
  <2>7. e \in Range(EventPage(at, Wanted(at)))
    BY <1>2, <2>3, <2>6 DEF k
  <2> QED
    BY <1>3, <2>5, <2>7
<1> QED
  BY <1>4, <1>5

-----------------------------------------------------------------------------
(* The rows and what is made of them *)

Records == [message : Linkable, occurred_at : Times]

TimelineTypeOK ==
  /\ now \in Times
  /\ archived \in Times \cup {Never}
  /\ associated \in [Linkable -> Times \cup {Never}]
  /\ analyses \in SUBSET Records /\ attachments \in SUBSET Records
  /\ actions \in [Linkable -> {Never} \cup [Stamps -> Times \cup {Never}]]
  /\ events \in Seq(Times)

LEMMA TimesAreNat == Times \subseteq Nat /\ IsFiniteSet(Times)
  BY FS_Interval DEF Times

LEMMA WorkflowEntriesTyped ==
  ASSUME TimelineTypeOK, NEW m \in Linkable, actions[m] # Never
  PROVE  WorkflowEntries(m) \subseteq
           [occurred_at : Times, rank : {7}, of : Linkable, suffix : 1..5]
<1>1. actions[m] \in [Stamps -> Times \cup {Never}]
  BY DEF TimelineTypeOK
<1>2. \A s \in Stamps : Suffix[s] \in 1..5
  BY DEF Stamps, Suffix
<1> QED
  BY <1>1, <1>2 DEF WorkflowEntries, Entry

Bound ==
  [occurred_at : Times, rank : 1..7, of : Linkable \cup 0..Len(events), suffix : 0..5]

LEMMA BoundIsFinite ==
  ASSUME TimelineTypeOK
  PROVE  IsFiniteSet(Bound) /\ Bound \subseteq Entries
<1> DEFINE Named == Linkable \cup 0..Len(events)
           Quadruples == ((Times \X (1..7)) \X Named) \X (0..5)
           record == [x \in Quadruples |->
                       [occurred_at |-> x[1][1][1], rank |-> x[1][1][2], of |-> x[1][2],
                        suffix |-> x[2]]]
<1>1. Len(events) \in Nat
  BY DEF TimelineTypeOK
<1>2. IsFiniteSet(0..Len(events)) /\ IsFiniteSet(1..7) /\ IsFiniteSet(0..5)
  <2>1. \A i, j \in Int : IsFiniteSet(i..j)
    BY FS_Interval
  <2>2. {0, 1, 5, 7, Len(events)} \subseteq Int
    BY <1>1
  <2> QED
    BY <2>1, <2>2, Zenon
<1>3. IsFiniteSet(Named)
  BY <1>1, <1>2, FS_Union
<1>4. IsFiniteSet(Quadruples)
  <2>1. IsFiniteSet(Times \X (1..7))
    BY <1>2, TimesAreNat, FS_Product
  <2>2. IsFiniteSet((Times \X (1..7)) \X Named)
    BY <1>3, <2>1, FS_Product
  <2> QED
    BY <1>2, <2>2, FS_Product
<1>5. record \in [Quadruples -> Bound]
  BY DEF Bound
<1>6. ASSUME NEW e \in Bound
      PROVE  \E x \in Quadruples : record[x] = e
  <2> DEFINE x == <<<<<<e.occurred_at, e.rank>>, e.of>>, e.suffix>>
  <2>1. x \in Quadruples
    BY DEF Bound
  <2>2. record[x] = e
    BY <2>1 DEF Bound
  <2> QED
    BY <2>1, <2>2
<1>7. record \in Surjection(Quadruples, Bound)
  BY <1>5, <1>6 DEF Surjection
<1>8. IsFiniteSet(Bound)
  <2> HIDE DEF record, Quadruples
  <2> QED
    BY <1>4, <1>7, FS_Surjection
<1>9. Bound \subseteq Entries
  <2>1. 0..Len(events) \subseteq Nat /\ 1..7 \subseteq Nat /\ 0..5 \subseteq Nat
    BY <1>1
  <2> QED
    BY <2>1, TimesAreNat DEF Bound, Entries
<1> QED
  BY <1>8, <1>9

LEMMA StoredEntriesAre ==
  \A e : e \in StoredEntries <=>
    \/ e = CreatedEntry
    \/ archived # Never /\ e = ArchivedEntry
    \/ \E m \in Linkable : Linked(m) /\ e = AssociationEntry(m)
    \/ \E r \in analyses : Linked(r.message) /\ e = AnalysisEntry(r)
    \/ \E r \in attachments : Linked(r.message) /\ e = AttachmentEntry(r)
    \/ \E m \in Linkable : actions[m] # Never /\ Linked(m) /\ e \in WorkflowEntries(m)
    \/ \E i \in DOMAIN events : e = EventEntry(i)
<1> TAKE e
<1>1. e \in StoredEntries <=> \E part \in StoredParts : e \in part
  BY DEF StoredEntries
<1>2. (\E part \in StoredParts : e \in part) <=>
        \/ e \in {CreatedEntry}
        \/ e \in {ArchivedEntry : x \in {archived} \ {Never}}
        \/ e \in {AssociationEntry(m) : m \in {m \in Linkable : Linked(m)}}
        \/ e \in {AnalysisEntry(r) : r \in {r \in analyses : Linked(r.message)}}
        \/ e \in {AttachmentEntry(r) : r \in {r \in attachments : Linked(r.message)}}
        \/ e \in UNION {WorkflowEntries(m) : m \in {m \in Linkable : actions[m] # Never /\ Linked(m)}}
        \/ e \in {EventEntry(i) : i \in DOMAIN events}
  BY Zenon DEF StoredParts
<1> QED
  BY <1>1, <1>2, Zenon

LEMMA StoredEntriesTyped ==
  ASSUME TimelineTypeOK
  PROVE  /\ StoredEntries \in SUBSET Entries /\ IsFiniteSet(StoredEntries)
         /\ EventEntries \in SUBSET StoredEntries
         /\ EventEntries \in SUBSET Entries /\ IsFiniteSet(EventEntries)
<1>0. Len(events) \in Nat /\ DOMAIN events = 1..Len(events)
  BY DEF TimelineTypeOK
<1>1. 0 \in Times
  BY DEF Times
<1>2. CreatedEntry \in Bound
  BY <1>0, <1>1 DEF CreatedEntry, Entry, Bound
<1>3. archived # Never => ArchivedEntry \in Bound
  BY <1>0 DEF ArchivedEntry, Entry, Bound, TimelineTypeOK
<1>4. \A m \in Linkable : Linked(m) => AssociationEntry(m) \in Bound
  BY DEF AssociationEntry, Entry, Bound, TimelineTypeOK, Linked
<1>5. \A r \in analyses : AnalysisEntry(r) \in Bound
  BY DEF AnalysisEntry, Entry, Bound, TimelineTypeOK, Records
<1>6. \A r \in attachments : AttachmentEntry(r) \in Bound
  BY DEF AttachmentEntry, Entry, Bound, TimelineTypeOK, Records
<1>7. \A m \in Linkable : actions[m] # Never => WorkflowEntries(m) \subseteq Bound
  BY WorkflowEntriesTyped DEF Bound
<1>8. \A i \in DOMAIN events : EventEntry(i) \in Bound
  BY <1>0 DEF EventEntry, Entry, Bound, TimelineTypeOK
<1>9. StoredEntries \in SUBSET Bound
  BY <1>2, <1>3, <1>4, <1>5, <1>6, <1>7, <1>8, StoredEntriesAre
<1>10. EventEntries \in SUBSET StoredEntries
  BY DEF StoredEntries, StoredParts, EventEntries
<1>11. StoredEntries \in SUBSET Entries /\ IsFiniteSet(StoredEntries)
  BY <1>9, BoundIsFinite, FS_Subset
<1> QED
  BY <1>10, <1>11, FS_Subset

(* The rows that are read one by one are the rows of the statement. *)
LEMMA AssembledIsStored ==
  ASSUME TimelineTypeOK
  PROVE  Assembled \cup EventEntries = StoredEntries
<1> DEFINE linkable == {m \in Linkable : associated[m] # Never}
<1>1. \A r \in analyses \cup attachments : r.message \in linkable <=> Linked(r.message)
  BY DEF Linked, TimelineTypeOK, Records
<1>2. \A m : m \in linkable <=> m \in Linkable /\ Linked(m)
  BY DEF Linked
<1>3. \A e : e \in Assembled <=>
        \/ e = CreatedEntry
        \/ archived # Never /\ e = ArchivedEntry
        \/ \E m \in linkable : e = AssociationEntry(m)
        \/ \E r \in analyses : r.message \in linkable /\ e = AnalysisEntry(r)
        \/ \E r \in attachments : r.message \in linkable /\ e = AttachmentEntry(r)
        \/ \E m \in linkable : actions[m] # Never /\ e \in WorkflowEntries(m)
  BY Zenon DEF Assembled
<1>4. \A e : e \in EventEntries <=> \E i \in DOMAIN events : e = EventEntry(i)
  BY DEF EventEntries
<1> HIDE DEF linkable
<1>5. \A e : e \in StoredEntries <=> e \in Assembled \/ e \in EventEntries
  BY <1>1, <1>2, <1>3, <1>4, StoredEntriesAre, Zenon
<1> QED
  BY <1>5

-----------------------------------------------------------------------------
(* Both merges *)

(* If P has all entries of S whose place in S is below needed, the first     *)
(* entries of both, up to needed, are the same.                              *)
LEMMA SameBeginning ==
  ASSUME NEW S \in SUBSET Entries, IsFiniteSet(S), NEW P \in SUBSET S, NEW needed \in Nat,
         \A e \in S : Place(S, e) < needed => e \in P
  PROVE  /\ Lower(needed, Cardinality(P)) = Lower(needed, Cardinality(S))
         /\ \A i \in 1..Lower(needed, Cardinality(S)) : Ordered(P)[i] = Ordered(S)[i]
<1>1. /\ IsFiniteSet(P) /\ P \in SUBSET Entries
      /\ Cardinality(P) <= Cardinality(S)
  BY FS_Subset
<1>2. Cardinality(P) \in Nat /\ Cardinality(S) \in Nat
  BY <1>1, FS_CardinalityType
<1>3. ASSUME NEW e \in S, Place(S, e) < needed
      PROVE  e \in P /\ Place(P, e) = Place(S, e)
  <2>1. e \in P /\ Place(S, e) \in Nat
    BY <1>3, PlaceGrows
  <2>2. \A d \in S : Precedes(d, e) => Place(S, d) \in Nat /\ Place(S, d) < Place(S, e)
    BY PlaceFollowsOrder, PlaceGrows
  <2>3. \A d \in S : Precedes(d, e) => d \in P
    BY <1>3, <2>1, <2>2
  <2>4. {d \in P : Precedes(d, e)} = {d \in S : Precedes(d, e)}
    BY <2>3
  <2> QED
    BY <2>1, <2>4 DEF Place
<1>4. ASSUME NEW i \in 1..Lower(needed, Cardinality(S))
      PROVE  i <= Cardinality(P) /\ Ordered(P)[i] = Ordered(S)[i]
  <2>1. i \in 1..Cardinality(S) /\ i - 1 < needed
    BY <1>2 DEF Lower
  <2> DEFINE e == Ordered(S)[i]
  <2>2. e \in S /\ Place(S, e) = i - 1
    BY <2>1, OrderedIsSorted
  <2> HIDE DEF e
  <2>3. e \in P /\ Place(P, e) = i - 1
    BY <1>3, <2>1, <2>2
  <2>4. Place(P, e) \in 0..(Cardinality(P) - 1)
    BY <1>1, <2>3, PlaceBounds
  <2>5. Ordered(P)[Place(P, e) + 1] = e
    BY <1>1, <2>3, OrderedIsSorted
  <2>6. (i - 1) + 1 = i /\ i <= Cardinality(P)
    BY <1>2, <2>3, <2>4
  <2> QED
    BY <2>3, <2>5, <2>6 DEF e
<1>5. Lower(needed, Cardinality(S)) <= Cardinality(P)
  <2>1. Lower(needed, Cardinality(S)) \in Nat
    BY <1>2 DEF Lower
  <2>2. CASE Lower(needed, Cardinality(S)) = 0
    BY <1>2, <2>2
  <2>3. CASE Lower(needed, Cardinality(S)) # 0
    BY <1>4, <2>1, <2>3, Lower(needed, Cardinality(S)) \in 1..Lower(needed, Cardinality(S))
  <2> QED
    BY <2>2, <2>3
<1>6. Lower(needed, Cardinality(P)) = Lower(needed, Cardinality(S))
  BY <1>1, <1>2, <1>5 DEF Lower
<1> QED
  BY <1>4, <1>6

LEMMA PagesAgree ==
  ASSUME TimelineTypeOK, NEW offset \in Nat, NEW limit \in Nat \ {0}
  PROVE  PortablePage(offset, limit) = StoredPage(offset, limit)
<1> DEFINE S == StoredEntries
           P == Assembled \cup EventPrefix(offset, limit)
           needed == offset + limit
<1>1. /\ S \in SUBSET Entries /\ IsFiniteSet(S)
      /\ EventEntries \in SUBSET S
      /\ EventEntries \in SUBSET Entries /\ IsFiniteSet(EventEntries)
      /\ Assembled \cup EventEntries = S
  BY StoredEntriesTyped, AssembledIsStored
<1>2. /\ EventPrefix(offset, limit) \subseteq EventEntries
      /\ \A e \in EventEntries :
           Place(EventEntries, e) < needed => e \in EventPrefix(offset, limit)
  BY <1>1, PrefixReachesThePage
<1>3. P \in SUBSET S
  BY <1>1, <1>2
<1> HIDE DEF S
<1>4. ASSUME NEW e \in S, Place(S, e) < needed
      PROVE  e \in P
  <2>1. CASE e \in Assembled
    BY <2>1
  <2>2. CASE e \in EventEntries
    <3>1. /\ Place(EventEntries, e) \in Nat /\ Place(S, e) \in Nat
          /\ Place(EventEntries, e) <= Place(S, e)
      BY <1>1, <2>2, PlaceGrows
    <3>2. Place(EventEntries, e) < needed
      BY <1>4, <3>1
    <3> QED
      BY <1>2, <2>2, <3>2
  <2> QED
    BY <1>1, <2>1, <2>2
<1> HIDE DEF P
<1> DEFINE end == Lower(needed, Cardinality(S))
<1>5. /\ Lower(needed, Cardinality(P)) = end
      /\ \A i \in 1..end : Ordered(P)[i] = Ordered(S)[i]
  BY <1>1, <1>3, <1>4, SameBeginning
<1>6. /\ P \in SUBSET Entries /\ IsFiniteSet(P)
      /\ Cardinality(S) \in Nat
  BY <1>1, <1>3, FS_Subset, FS_CardinalityType
<1>7. end \in Nat
  BY <1>6 DEF Lower
<1> DEFINE a == Slice(Ordered(P), offset, limit)
           b == Slice(Ordered(S), offset, limit)
<1>8. /\ a \in Seq(P)
      /\ Len(a) = IF offset <= end THEN end - offset ELSE 0
      /\ \A i \in 1..(end - offset) : a[i] = Ordered(P)[offset + i]
  <2>1. LET endP == Lower(offset + limit, Cardinality(P))
        IN /\ a \in Seq(P)
           /\ Len(a) = IF offset <= endP THEN endP - offset ELSE 0
           /\ \A i \in 1..(endP - offset) : a[i] = Ordered(P)[offset + i]
    BY <1>6, SliceOfOrdered, ZenonT(30)
  <2> QED
    BY <1>5, <2>1
<1>9. /\ b \in Seq(S)
      /\ Len(b) = IF offset <= end THEN end - offset ELSE 0
      /\ \A i \in 1..(end - offset) : b[i] = Ordered(S)[offset + i]
  <2>1. S \in SUBSET Entries /\ IsFiniteSet(S)
    BY <1>1
  <2>2. LET endS == Lower(offset + limit, Cardinality(S))
        IN /\ b \in Seq(S)
           /\ Len(b) = IF offset <= endS THEN endS - offset ELSE 0
           /\ \A i \in 1..(endS - offset) : b[i] = Ordered(S)[offset + i]
    BY <2>1, SliceOfOrdered, ZenonT(30)
  <2> QED
    BY <2>2
<1> HIDE DEF a, b, end, needed
<1>10. a \in Seq(S) /\ Len(a) = Len(b)
  BY <1>3, <1>8, <1>9, SeqMonotonic
<1>11. ASSUME NEW i \in 1..Len(a)
       PROVE  a[i] = b[i]
  <2>1. i \in 1..(end - offset) /\ offset + i \in 1..end
    BY <1>7, <1>8, <1>11
  <2> QED
    BY <1>5, <1>8, <1>9, <2>1
<1>12. a = b
  BY <1>9, <1>10, <1>11, SeqEqual
<1> QED
  BY <1>12 DEF a, b, P, S, PortablePage, StoredPage

-----------------------------------------------------------------------------
LEMMA TimelineStepIsTyped ==
  ASSUME TimelineTypeOK, [TimelineNext]_timelineVars
  PROVE  TimelineTypeOK'
<1> USE DEF TimelineTypeOK, rows
<1>1. ASSUME NEW m \in Linkable, Associate(m) PROVE TimelineTypeOK'
  BY <1>1 DEF Associate, Written
<1>2. ASSUME NEW m \in Linkable, Dissociate(m) PROVE TimelineTypeOK'
  BY <1>2 DEF Dissociate, Written
<1>3. ASSUME NEW m \in Linkable, Analyse(m) PROVE TimelineTypeOK'
  BY <1>3 DEF Analyse, Written, Records
<1>4. ASSUME NEW m \in Linkable, Propose(m) PROVE TimelineTypeOK'
  BY <1>4 DEF Propose, Written
<1>5. ASSUME NEW m \in Linkable, NEW s \in Stamps, Stamp(m, s) PROVE TimelineTypeOK'
  <2>1. actions[m] \in [Stamps -> Times \cup {Never}]
    BY <1>5 DEF Stamp
  <2>2. [actions[m] EXCEPT ![s] = now] \in [Stamps -> Times \cup {Never}]
    BY <2>1
  <2>3. actions' = [actions EXCEPT ![m] = [actions[m] EXCEPT ![s] = now]]
    BY <1>5 DEF Stamp
  <2>4. actions' \in [Linkable -> {Never} \cup [Stamps -> Times \cup {Never}]]
    BY <2>2, <2>3
  <2> QED
    BY <1>5, <2>4 DEF Stamp, Written
<1>6. CASE Happen
  BY <1>6, AppendProperties DEF Happen, Written
<1>7. CASE ArchiveOrRestore
  BY <1>7 DEF ArchiveOrRestore, Written
<1>8. ASSUME UNCHANGED <<now, rows>> PROVE TimelineTypeOK'
  BY <1>8
<1> QED
  BY <1>1, <1>2, <1>3, <1>4, <1>5, <1>6, <1>7, <1>8
     DEF TimelineNext, timelineVars, StartWalk, ListTimeline, EndWalk

LEMMA TimelineTyped == TimelineSpec => []TimelineTypeOK
<1>1. TimelineInit => TimelineTypeOK
  BY DEF TimelineInit, TimelineTypeOK, Times
<1>2. TimelineTypeOK /\ [TimelineNext]_timelineVars => TimelineTypeOK'
  BY TimelineStepIsTyped
<1> QED
  BY <1>1, <1>2, PTL DEF TimelineSpec

(* context_timeline.py: the merge in memory and the statement of the          *)
(* repository give the same page, whatever is stored and whatever is asked.   *)
THEOREM MergesAlwaysAgree == TimelineSpec => []MergesAgree
<1>1. TimelineTypeOK => MergesAgree
  <2> SUFFICES ASSUME TimelineTypeOK PROVE MergesAgree
    OBVIOUS
  <2>1. Cardinality(StoredEntries) \in Nat
    BY StoredEntriesTyped, FS_CardinalityType
  <2> QED
    BY <2>1, PagesAgree DEF MergesAgree
<1> QED
  BY <1>1, TimelineTyped, PTL

(* So do the pages far beyond the end. *)
THEOREM EveryPageAgrees ==
  TimelineSpec => [](\A offset \in Nat, limit \in Nat \ {0} :
                       PortablePage(offset, limit) = StoredPage(offset, limit))
<1>1. TimelineTypeOK =>
        \A offset \in Nat, limit \in Nat \ {0} :
          PortablePage(offset, limit) = StoredPage(offset, limit)
  BY PagesAgree
<1> QED
  BY <1>1, TimelineTyped, PTL

-----------------------------------------------------------------------------
(* A walk by offsets *)

(* Of what was there when the walk began, everything is there, and what is   *)
(* placed before the offset has been shown.                                  *)
WalkOnTrack ==
  walk.at = "walking" =>
    \A e \in walk.lasting :
      /\ e \in StoredEntries
      /\ Place(StoredEntries, e) < walk.offset => e \in walk.shown

WalkIInv ==
  /\ TimelineTypeOK
  /\ walk \in [at : {"idle", "walking", "done"}, limit : Nat \ {0}, stored : BOOLEAN,
               offset : Nat, lasting : SUBSET Entries, shown : SUBSET Entries]
  /\ WalkOnTrack
  /\ WalkMissesNothing

LEMMA StoredEntriesTypedNext ==
  TimelineTypeOK' => (StoredEntries \in SUBSET Entries /\ IsFiniteSet(StoredEntries))'
<1>1. TimelineTypeOK => StoredEntries \in SUBSET Entries /\ IsFiniteSet(StoredEntries)
  BY StoredEntriesTyped
<1> QED
  BY <1>1, PTL

(* Rows that are written move entries backwards at most. *)
LEMMA WritingKeepsTrack ==
  ASSUME WalkIInv, TimelineTypeOK', Written
  PROVE  WalkIInv'
<1> USE DEF WalkIInv, WalkOnTrack, WalkMissesNothing
<1>1. CASE ~(StoredEntries \subseteq StoredEntries')
  <2>1. walk' = Resting
    BY <1>1 DEF Written
  <2> QED
    BY <2>1 DEF Resting
<1>2. CASE StoredEntries \subseteq StoredEntries'
  <2>1. walk' = walk
    BY <1>2 DEF Written
  <2>2. StoredEntries' \in SUBSET Entries /\ IsFiniteSet(StoredEntries')
    BY StoredEntriesTypedNext
  <2>3. WalkOnTrack'
    <3> SUFFICES ASSUME walk.at = "walking", NEW e \in walk.lasting
                 PROVE  /\ e \in StoredEntries'
                        /\ Place(StoredEntries', e) < walk.offset => e \in walk.shown
      BY <2>1
    <3>1. e \in StoredEntries /\ (Place(StoredEntries, e) < walk.offset => e \in walk.shown)
      OBVIOUS
    <3>2. /\ Place(StoredEntries, e) \in Nat /\ Place(StoredEntries', e) \in Nat
          /\ Place(StoredEntries, e) <= Place(StoredEntries', e)
      BY <1>2, <2>2, <3>1, PlaceGrows
    <3>3. walk.offset \in Nat
      OBVIOUS
    <3> QED
      BY <1>2, <3>1, <3>2, <3>3
  <2> QED
    BY <2>1, <2>3
<1> QED
  BY <1>1, <1>2

LEMMA StartingKeepsTrack ==
  ASSUME WalkIInv, TimelineTypeOK', NEW limit \in Limits, NEW stored \in BOOLEAN,
         StartWalk(limit, stored)
  PROVE  WalkIInv'
<1>1. StoredEntries' = StoredEntries
  BY DEF StartWalk, rows, StoredEntries, StoredParts, CreatedEntry, ArchivedEntry,
         AssociationEntry, AnalysisEntry, AttachmentEntry, WorkflowEntries, EventEntry, Linked
<1>2. StoredEntries \in SUBSET Entries /\ IsFiniteSet(StoredEntries)
  BY StoredEntriesTyped DEF WalkIInv
<1>3. /\ walk'.at = "walking" /\ walk'.lasting = StoredEntries /\ walk'.offset = 0
      /\ walk' \in [at : {"idle", "walking", "done"}, limit : Nat \ {0}, stored : BOOLEAN,
                    offset : Nat, lasting : SUBSET Entries, shown : SUBSET Entries]
  BY <1>2 DEF StartWalk, Resting
<1>4. \A e \in StoredEntries : Place(StoredEntries, e) \in Nat
  BY <1>2, PlaceGrows
<1>5. WalkOnTrack'
  BY <1>1, <1>3, <1>4 DEF WalkOnTrack
<1> QED
  BY <1>3, <1>5 DEF WalkIInv, WalkMissesNothing

(* A page shows what is placed from the offset on; a short one is the last.  *)
LEMMA ListingKeepsTrack ==
  ASSUME WalkIInv, TimelineTypeOK', ListTimeline
  PROVE  WalkIInv'
<1> DEFINE S == StoredEntries
           page == Slice(Ordered(S), walk.offset, walk.limit)
           n == Cardinality(S)
           end == Lower(walk.offset + walk.limit, n)
<1>1. S' = S
  BY DEF ListTimeline, rows, StoredEntries, StoredParts, CreatedEntry, ArchivedEntry,
         AssociationEntry, AnalysisEntry, AttachmentEntry, WorkflowEntries, EventEntry, Linked
<1>2. S \in SUBSET Entries /\ IsFiniteSet(S) /\ n \in Nat
  BY StoredEntriesTyped, FS_CardinalityType DEF WalkIInv
<1>3. walk.offset \in Nat /\ walk.limit \in Nat \ {0}
  BY DEF WalkIInv
<1>4. Page(walk.offset, walk.limit) = page
  BY <1>3, PagesAgree DEF WalkIInv, Page, StoredPage
<1>5. /\ walk.at = "walking"
      /\ walk' = [walk EXCEPT !.shown = @ \cup Range(page),
                              !.offset = @ + walk.limit,
                              !.at = IF Len(page) < walk.limit THEN "done" ELSE "walking"]
  BY <1>4 DEF ListTimeline
<1> HIDE DEF S
<1>6. /\ page \in Seq(S)
      /\ Len(page) = IF walk.offset <= end THEN end - walk.offset ELSE 0
      /\ \A e \in S : walk.offset <= Place(S, e) /\ Place(S, e) < walk.offset + walk.limit
                        => e \in Range(page)
  <2>1. S \in SUBSET Entries /\ IsFiniteSet(S) /\ walk.offset \in Nat /\ walk.limit \in Nat
    BY <1>2, <1>3
  <2> QED
    BY <2>1, SliceOfOrdered, ZenonT(30)
<1>7. Range(page) \in SUBSET S
  BY <1>6, RangeOfSeq
<1> HIDE DEF page
<1>8. ASSUME NEW e \in walk.lasting
      PROVE  /\ e \in S /\ Place(S, e) \in 0..(n - 1)
             /\ Place(S, e) < walk.offset + walk.limit => e \in walk.shown \cup Range(page)
  <2>1. e \in S /\ (Place(S, e) < walk.offset => e \in walk.shown)
    BY <1>5 DEF WalkIInv, WalkOnTrack, S
  <2>2. Place(S, e) \in 0..(n - 1)
    BY <1>2, <2>1, PlaceBounds
  <2> QED
    BY <1>2, <1>3, <1>6, <2>1, <2>2
<1>9. /\ walk'.lasting = walk.lasting /\ walk'.shown = walk.shown \cup Range(page)
      /\ walk'.offset = walk.offset + walk.limit
      /\ walk'.at = IF Len(page) < walk.limit THEN "done" ELSE "walking"
      /\ walk' \in [at : {"idle", "walking", "done"}, limit : Nat \ {0}, stored : BOOLEAN,
                    offset : Nat, lasting : SUBSET Entries, shown : SUBSET Entries]
  <2>1. walk.shown \cup Range(page) \in SUBSET Entries
    BY <1>2, <1>7 DEF WalkIInv
  <2>2. walk.offset + walk.limit \in Nat
    BY <1>3
  <2> HIDE DEF n, end
  <2> QED
    BY <1>5, <2>1, <2>2 DEF WalkIInv
<1>10. WalkOnTrack'
  BY <1>1, <1>8, <1>9 DEF WalkOnTrack, S
<1>11. WalkMissesNothing'
  <2>1. Len(page) < walk.limit => n <= walk.offset + walk.limit
    BY <1>2, <1>3, <1>6 DEF Lower
  <2> QED
    BY <1>2, <1>3, <1>8, <1>9, <2>1 DEF WalkMissesNothing
<1> QED
  BY <1>9, <1>10, <1>11 DEF WalkIInv

(* list_timeline by offsets: whatever was there when a walk began and still  *)
(* is has been shown at its end, whatever was written meanwhile.             *)
THEOREM WalksMissNothing == TimelineSpec => []WalkMissesNothing
<1>1. TimelineInit => WalkIInv
  BY TimelineTyped DEF TimelineInit, WalkIInv, TimelineTypeOK, Times, WalkOnTrack,
     WalkMissesNothing, Resting
<1>2. WalkIInv /\ [TimelineNext]_timelineVars => WalkIInv'
  <2> SUFFICES ASSUME WalkIInv, [TimelineNext]_timelineVars PROVE WalkIInv'
    OBVIOUS
  <2>0. TimelineTypeOK'
    BY TimelineStepIsTyped DEF WalkIInv
  <2>1. CASE Written
    BY <2>0, <2>1, WritingKeepsTrack
  <2>2. CASE \E limit \in Limits, stored \in BOOLEAN : StartWalk(limit, stored)
    BY <2>0, <2>2, StartingKeepsTrack
  <2>3. CASE ListTimeline
    BY <2>0, <2>3, ListingKeepsTrack
  <2>4. CASE EndWalk
    BY <2>0, <2>4 DEF EndWalk, WalkIInv, WalkOnTrack, WalkMissesNothing, Resting
  <2>5. CASE UNCHANGED timelineVars
    <3>1. StoredEntries' = StoredEntries
      BY <2>5 DEF timelineVars, rows, StoredEntries, StoredParts, CreatedEntry, ArchivedEntry,
         AssociationEntry, AnalysisEntry, AttachmentEntry, WorkflowEntries, EventEntry, Linked
    <3> QED
      BY <2>0, <2>5, <3>1 DEF timelineVars, WalkIInv, WalkOnTrack, WalkMissesNothing
  <2> QED
    BY <2>1, <2>2, <2>3, <2>4, <2>5
       DEF TimelineNext, Associate, Dissociate, Analyse, Propose, Stamp, Happen, ArchiveOrRestore
<1>3. WalkIInv => WalkMissesNothing
  BY DEF WalkIInv
<1> QED
  BY <1>1, <1>2, <1>3, PTL DEF TimelineSpec
=============================================================================
