------------------------- MODULE MailboxReading_proofs -------------------------
(***************************************************************************)
(* Proofs about MailboxReading, for any files a provider may describe, any *)
(* reads and credentials and any limits: what reaches the AI provider was  *)
(* vetted and scanned, what is saved is what was analysed, and an account  *)
(* is only marked after its credential was refused.                        *)
(***************************************************************************)
EXTENDS MailboxReading, TLAPS

-----------------------------------------------------------------------------
(* What the record of one request says, wherever the request is *)

AttachmentPoints == {"metadata", "bytes", "scan", "parse"}
Analysing(r) == r.at \in {"ai", "save"} \/ r.sent

(* Which operation is at which point, and what it has answered. *)
Flow(r) ==
  /\ r.at # "idle" => r.op \in Operations
  /\ r.at \in {"list", "fetch_listed"} => r.op = "list_messages"
  /\ r.at = "fetch_message" => r.op \in {"analyze_message", "analyze_attachment"}
  /\ r.at = "list_attachments" => r.op \in {"list_attachments", "analyze_attachment"}
  /\ r.at \in AttachmentPoints => r.op = "analyze_attachment"
  /\ r.at = "identity" => r.op = "analyze_message"
  /\ r.at \in {"ai", "save"} => r.op \in {"analyze_message", "analyze_attachment"}
  /\ r.at \in {"idle", "load", "connect", "list_attachments", "fetch_message", "identity"} =>
       r.kind = None
  /\ r.op = "analyze_message" => r.kind = None
  /\ r.at = "save" => r.sent
  /\ r.sent => r.at \in {"save", "done"}
  /\ r.at # "done" => r.answer = 0

(* What has been established of an attachment so far. *)
KindPassed(r) == r.kind \in Kinds /\ ImageGate(r.kind)
Retrieved(r) ==
  /\ r.file \in [metadata : Metadata, bytes : Bytes]
  /\ EvaluateMetadata(r.file.metadata) = r.kind
  /\ r.file.bytes.size \in 1..MaxBytes /\ r.file.bytes.size <= r.file.metadata.size
  /\ r.kind # "xlsx" => Harmless(r.kind, r.file.bytes)
Scanned(r) == r.clean /\ Harmless(r.kind, r.file.bytes)
CutIsTold(r) == Truncates(r.kind, r.file.bytes) => r.truncated

Vetted(r) ==
  /\ r.at \in AttachmentPoints \/ Analysing(r) => KindPassed(r)
  /\ r.at = "bytes" => r.file \in [metadata : Metadata, bytes : Bytes]
  /\ r.at \in {"scan", "parse"} \/ Analysing(r) => Retrieved(r)
  /\ r.at = "parse" \/ Analysing(r) => Scanned(r)
  /\ Analysing(r) => CutIsTold(r)

Sound(r) == r \in ReadStates /\ Flow(r) /\ (r.op = "analyze_attachment" => Vetted(r))

(* A saved analysis is of a read that is done, and says what the read says. *)
SavedFaithfully(h) ==
  /\ h.by \in Reads /\ read[h.by].at = "done"
  /\ read[h.by].sent /\ read[h.by].answer \in {200, 503}
  /\ h.kind = read[h.by].kind /\ h.file = read[h.by].file
  /\ h.kind # None /\ Truncates(h.kind, h.file.bytes) => h.truncated

SavedWhenAnswered(q) ==
  read[q].op = "analyze_attachment" /\ read[q].answer = 200 => \E h \in history : h.by = q

ReadingIInv ==
  /\ TypeOK
  /\ \A q \in Reads : Sound(read[q])
  /\ \A h \in history : SavedFaithfully(h)
  /\ \A q \in Reads : SavedWhenAnswered(q)
  /\ \A q \in Reads : read[q].at = "mark" => read[q].credential \in revoked

LEMMA InvariantImplies == ReadingIInv => AiSeesOnlyVetted /\ HistoryTellsTruth
<1> SUFFICES ASSUME ReadingIInv PROVE AiSeesOnlyVetted /\ HistoryTellsTruth
  OBVIOUS
<1>1. AiSeesOnlyVetted
  <2> SUFFICES ASSUME NEW q \in Reads, read[q].sent, read[q].op = "analyze_attachment"
               PROVE  LET f == read[q].file IN
                        /\ read[q].clean
                        /\ read[q].kind \in Kinds /\ ImageGate(read[q].kind)
                        /\ f.bytes.size \in 1..MaxBytes /\ f.bytes.size <= f.metadata.size
                        /\ Harmless(read[q].kind, f.bytes)
    BY DEF AiSeesOnlyVetted
  <2>1. KindPassed(read[q]) /\ Retrieved(read[q]) /\ Scanned(read[q])
    BY DEF ReadingIInv, Sound, Vetted, Analysing
  <2> QED
    BY <2>1 DEF KindPassed, Retrieved, Scanned
<1>2. HistoryTellsTruth
  BY DEF ReadingIInv, SavedFaithfully, SavedWhenAnswered, HistoryTellsTruth
<1> QED
  BY <1>1, <1>2

-----------------------------------------------------------------------------
(* The policy *)

(* The content policy passes a kind that is declared, within the sizes and  *)
(* free of what that kind must not carry.                                   *)
LEMMA ContentIsOfItsKind ==
  ASSUME NEW m \in Metadata, NEW b \in Bytes, EvaluateContent(m, b) \in Kinds
  PROVE  /\ EvaluateContent(m, b) = Declared(m) /\ ContentSize(m, b) = Fine
         /\ Harmless(Declared(m), b)
<1>1. /\ Fine \notin Kinds /\ Unsupported \notin Kinds /\ Exceeds \notin Kinds /\ Invalid \notin Kinds
      /\ Fine # Unsupported /\ Fine # Exceeds
  BY DEF Kinds, Fine, Unsupported, Exceeds, Invalid
<1>2. ContentSize(m, b) \in {Fine, Unsupported, Exceeds, Invalid}
  BY DEF ContentSize
<1>3. /\ ContentSize(m, b) = Fine /\ Detected(b) = Declared(m) /\ Declared(m) \in Kinds
      /\ EvaluateContent(m, b) = IF Container(Declared(m), b) # Fine
                                 THEN Container(Declared(m), b) ELSE Declared(m)
  BY <1>1, <1>2 DEF EvaluateContent
<1> DEFINE kind == Declared(m)
<1> HIDE DEF kind
<1>4. Container(kind, b) \in {Fine, Unsupported, Exceeds}
  <2>1. DocxContainer(b) \in {Fine, Unsupported, Exceeds}
    BY DEF DocxContainer, DocxInventory
  <2>2. XlsxContainer(b) \in {Fine, Unsupported, Exceeds}
    BY DEF XlsxContainer, XlsxInventory
  <2>3. PdfPrefix(b) \in {Fine, Unsupported} /\ JpegPayload(b) \in {Fine, Unsupported}
    BY DEF PdfPrefix, JpegPayload
  <2> QED
    BY <2>1, <2>2, <2>3 DEF Container
<1>5. Container(kind, b) = Fine
  BY <1>1, <1>3, <1>4 DEF kind
<1>6. Harmless(kind, b)
  <2>1. Detected(b) = kind /\ kind \in Kinds
    BY <1>3 DEF kind
  <2>2. CASE kind = "pdf"
    <3>1. b.magic = "pdf"
      BY <2>1, <2>2 DEF Detected, Unsupported
    <3>2. PdfPrefix(b) = Fine
      BY <1>5, <2>2 DEF Container
    <3> QED
      BY <1>1, <2>2, <3>1, <3>2 DEF Harmless, PdfPrefix, Images
  <2>3. CASE kind = "docx"
    <3>1. DocxContainer(b) = Fine
      BY <1>5, <2>3 DEF Container
    <3>2. DocxInventory(b) = Fine /\ b.names \cap {"vba", "encryption"} = {}
      BY <1>1, <3>1 DEF DocxContainer
    <3>3. b.magic = "zip"
      BY <1>1, <3>2 DEF DocxInventory
    <3> QED
      BY <2>3, <3>2, <3>3 DEF Harmless, Images
  <2>4. CASE kind = "xlsx"
    <3>1. XlsxContainer(b) = Fine
      BY <1>5, <2>4 DEF Container
    <3>2. /\ XlsxInventory(b) = Fine
          /\ b.names \cap {"vba", "encryption", "document", "links", "connections"} = {}
          /\ b.marks \cap {"external", "macro_type"} = {}
      BY <1>1, <3>1 DEF XlsxContainer
    <3>3. b.magic = "zip"
      BY <1>1, <3>2 DEF XlsxInventory
    <3> QED
      BY <2>4, <3>2, <3>3 DEF Harmless, Images
  <2>5. CASE kind \in Images
    <3>1. b.magic = kind
      BY <2>1, <2>5 DEF Detected, Unsupported, Images
    <3> QED
      BY <2>5, <3>1 DEF Harmless, Images
  <2>6. CASE kind = "txt"
    <3>1. LooksLikeText(b)
      BY <2>1, <2>6 DEF Detected, Unsupported
    <3> QED
      BY <2>6, <3>1 DEF Harmless, Images, LooksLikeText
  <2> QED
    BY <2>1, <2>2, <2>3, <2>4, <2>5, <2>6 DEF Kinds, Images
<1> QED
  BY <1>1, <1>3, <1>5, <1>6 DEF kind

LEMMA MetadataDeclares ==
  ASSUME NEW m \in Metadata, EvaluateMetadata(m) \in Kinds
  PROVE  Declared(m) = EvaluateMetadata(m)
BY DEF EvaluateMetadata, Kinds, Unsupported, Exceeds

LEMMA SizesAreBounded ==
  ASSUME NEW m \in Metadata, NEW b \in Bytes, ContentSize(m, b) = Fine
  PROVE  b.size \in 1..MaxBytes /\ b.size <= m.size
BY MaxBytesAssumption DEF ContentSize, Fine, Unsupported, Exceeds, Invalid, Metadata, Bytes

(* Vetting passes the kind it was asked about, and only a workbook's        *)
(* container is left for after the scan.                                    *)
LEMMA VetPasses ==
  ASSUME NEW kind \in Kinds, NEW m \in Metadata, NEW b \in Bytes, Vet(kind, m, b) \in Kinds
  PROVE  /\ Vet(kind, m, b) = kind /\ EvaluateMetadata(m) = kind
         /\ b.size \in 1..MaxBytes /\ b.size <= m.size
         /\ kind # "xlsx" => Harmless(kind, b)
<1>1. Unsupported \notin Kinds
  BY DEF Kinds, Unsupported
<1>2. EvaluateMetadata(m) = kind
  BY <1>1 DEF Vet
<1>3. Declared(m) = kind
  BY <1>2, MetadataDeclares
<1>4. CASE kind = "xlsx"
  <2>1. ContentSize(m, b) \in {Fine, Unsupported, Exceeds, Invalid}
    BY DEF ContentSize
  <2>2. ContentSize(m, b) = Fine /\ Vet(kind, m, b) = kind
    BY <1>2, <1>4, <2>1 DEF Vet, Kinds, Unsupported, Exceeds, Invalid
  <2> QED
    BY <1>2, <1>4, <2>2, SizesAreBounded
<1>5. CASE kind # "xlsx"
  <2>1. Vet(kind, m, b) = EvaluateContent(m, b)
    BY <1>2, <1>5 DEF Vet
  <2> QED
    BY <1>2, <1>3, <2>1, ContentIsOfItsKind, SizesAreBounded
<1> QED
  BY <1>4, <1>5

-----------------------------------------------------------------------------
(* One request moves *)

(* A request that is not done moves to a sound record; nothing is saved and *)
(* what was revoked stays so.                                               *)
LEMMA MoveKeepsInv ==
  ASSUME ReadingIInv, NEW q \in Reads, NEW new, Sound(new),
         read' = [read EXCEPT ![q] = new], read[q].at # "done",
         new.op = "analyze_attachment" => new.answer # 200,
         new.at = "mark" => new.credential \in revoked,
         UNCHANGED history, revoked' = revoked,
         account' \in [status : Statuses, credential : Credentials]
  PROVE  ReadingIInv'
<1>1. \A p \in Reads : read'[p] = IF p = q THEN new ELSE read[p]
  BY DEF ReadingIInv, TypeOK
<1>2. TypeOK'
  <2>1. read' \in [Reads -> ReadStates]
    BY DEF ReadingIInv, TypeOK, Sound
  <2> QED
    BY <2>1 DEF ReadingIInv, TypeOK
<1>3. \A p \in Reads : Sound(read'[p])
  BY <1>1 DEF ReadingIInv
<1>4. ASSUME NEW h \in history PROVE SavedFaithfully(h)'
  <2>1. SavedFaithfully(h) /\ h.by # q
    BY DEF ReadingIInv, SavedFaithfully
  <2>2. read'[h.by] = read[h.by]
    BY <1>1, <2>1 DEF SavedFaithfully
  <2> QED
    BY <2>1, <2>2 DEF SavedFaithfully
<1>5. \A p \in Reads : SavedWhenAnswered(p)'
  BY <1>1 DEF ReadingIInv, SavedWhenAnswered
<1>6. \A p \in Reads : read'[p].at = "mark" => read'[p].credential \in revoked'
  BY <1>1 DEF ReadingIInv
<1> QED
  BY <1>2, <1>3, <1>4, <1>5, <1>6 DEF ReadingIInv

(* The record of an answered request: what reached the provider is kept,    *)
(* anything else forgotten.                                                 *)
Answered(r, status) == [Forget(r) EXCEPT !.at = "done", !.answer = status]

LEMMA IdleIsARead == Idle \in ReadStates
BY DEF Idle, ReadStates, Points, Operations

LEMMA AnsweredFields ==
  ASSUME NEW r \in ReadStates, NEW status \in Nat
  PROVE  LET a == Answered(r, status)
         IN  /\ a \in ReadStates /\ a.at = "done" /\ a.answer = status /\ a.op = r.op
             /\ a.sent = r.sent
             /\ r.sent => /\ a.kind = r.kind /\ a.file = r.file /\ a.clean = r.clean
                          /\ a.truncated = r.truncated
             /\ ~r.sent => a.kind = None
<1>1. r.sent \in BOOLEAN /\ r.op \in Operations \cup {None}
  BY DEF ReadStates
<1>2. CASE r.sent
  <2>1. Answered(r, status) = [r EXCEPT !.at = "done", !.answer = status]
    BY <1>2 DEF Answered, Forget
  <2> QED
    BY <1>2, <2>1 DEF ReadStates, Points
<1>3. CASE ~r.sent
  <2>1. /\ Answered(r, status) =
             [[Idle EXCEPT !.op = r.op] EXCEPT !.at = "done", !.answer = status]
    BY <1>3 DEF Answered, Forget
  <2>2. /\ Answered(r, status) \in ReadStates /\ Answered(r, status).at = "done"
        /\ Answered(r, status).answer = status /\ Answered(r, status).op = r.op
        /\ Answered(r, status).sent = FALSE /\ Answered(r, status).kind = None
    BY <1>1, <2>1, IdleIsARead, ZenonT(30) DEF ReadStates, Points, Idle
  <2>3. r.sent = FALSE
    BY <1>1, <1>3
  <2> QED
    BY <2>2, <2>3
<1> QED
  BY <1>1, <1>2, <1>3

LEMMA AnsweredIsSound ==
  ASSUME NEW r, Sound(r), NEW status \in Nat, r.at # "idle"
  PROVE  Sound(Answered(r, status)) /\ Answered(r, status).at = "done"
<1> DEFINE a == Answered(r, status)
<1>1. /\ a \in ReadStates /\ a.at = "done" /\ a.op = r.op /\ a.sent = r.sent
      /\ r.sent => /\ a.kind = r.kind /\ a.file = r.file /\ a.clean = r.clean
                   /\ a.truncated = r.truncated
      /\ ~r.sent => a.kind = None
  BY AnsweredFields DEF Sound
<1> HIDE DEF a
<1>2. Flow(a)
  BY <1>1 DEF Sound, Flow, AttachmentPoints
<1>3. ASSUME a.op = "analyze_attachment" PROVE Vetted(a)
  <2>1. CASE r.sent
    <3>1. KindPassed(r) /\ Retrieved(r) /\ Scanned(r) /\ CutIsTold(r)
      BY <1>1, <1>3, <2>1 DEF Sound, Vetted, Analysing
    <3> QED
      BY <1>1, <2>1, <3>1 DEF Vetted, Analysing, KindPassed, Retrieved, Scanned, CutIsTold,
                              AttachmentPoints
  <2>2. CASE ~r.sent
    BY <1>1, <2>2 DEF Vetted, Analysing, AttachmentPoints
  <2> QED
    BY <2>1, <2>2
<1> QED
  BY <1>1, <1>2, <1>3 DEF Sound, a

(* Answering anything but the success of an attachment's analysis. *)
LEMMA AnswerKeepsInv ==
  ASSUME ReadingIInv, NEW q \in Reads, NEW status \in Nat, Answer(q, status),
         read[q].at \notin {"idle", "done"}, read[q].op = "analyze_attachment" => status # 200,
         UNCHANGED history, revoked' = revoked,
         account' \in [status : Statuses, credential : Credentials]
  PROVE  ReadingIInv'
<1>1. Sound(read[q])
  BY DEF ReadingIInv
<1>2. /\ Sound(Answered(read[q], status)) /\ Answered(read[q], status).at = "done"
      /\ Answered(read[q], status).answer = status /\ Answered(read[q], status).op = read[q].op
  BY <1>1, AnsweredIsSound, AnsweredFields DEF Sound
<1>3. read' = [read EXCEPT ![q] = Answered(read[q], status)]
  BY DEF Answer, Answered
<1> HIDE DEF Answered
<1> QED
  BY <1>2, <1>3, MoveKeepsInv

LEMMA AccountStays ==
  ASSUME ReadingIInv, UNCHANGED account
  PROVE  account' \in [status : Statuses, credential : Credentials]
BY DEF ReadingIInv, TypeOK

(* Going on to another point with nothing new in hand. *)
LEMMA GotoKeepsInv ==
  ASSUME ReadingIInv, NEW q \in Reads, NEW point \in Points, Goto(q, point),
         read[q].at \notin {"idle", "done"}, ~read[q].sent,
         Flow([read[q] EXCEPT !.at = point]),
         point \notin AttachmentPoints \cup {"save"},
         point = "ai" => read[q].op = "analyze_message",
         point = "mark" => read[q].credential \in revoked,
         UNCHANGED <<account, revoked, history>>
  PROVE  ReadingIInv'
<1> DEFINE new == [read[q] EXCEPT !.at = point]
<1>1. Sound(read[q]) /\ read[q] \in ReadStates
  BY DEF ReadingIInv, Sound
<1>2. /\ new \in ReadStates /\ new.at = point /\ new.op = read[q].op /\ new.sent = read[q].sent
      /\ new.credential = read[q].credential /\ new.answer = read[q].answer
  BY <1>1 DEF ReadStates
<1>3. read[q].answer = 0
  BY <1>1 DEF Sound, Flow
<1>4. read' = [read EXCEPT ![q] = new]
  BY DEF Goto, ReadingIInv, TypeOK
<1>5. Flow(new)
  OBVIOUS
<1> HIDE DEF new
<1>6. new.op = "analyze_attachment" => Vetted(new)
  BY <1>2 DEF Vetted, Analysing, AttachmentPoints
<1>7. Sound(new)
  BY <1>2, <1>5, <1>6 DEF Sound
<1>8. new.answer # 200 /\ (new.at = "mark" => new.credential \in revoked)
  BY <1>2, <1>3
<1>9. account' \in [status : Statuses, credential : Credentials]
  BY AccountStays
<1> QED
  BY <1>4, <1>7, <1>8, <1>9, MoveKeepsInv

(* A call to the provider that fails. *)
LEMMA CallFailsKeepsInv ==
  ASSUME ReadingIInv, NEW q \in Reads, NEW failures \in SUBSET (Nat \ {200}),
         CallFails(q, failures), read[q].at \notin {"idle", "done"}, ~read[q].sent,
         UNCHANGED <<account, revoked, history>>
  PROVE  ReadingIInv'
<1>1. CASE read[q].credential \in revoked /\ Goto(q, "mark")
  <2>1. Flow([read[q] EXCEPT !.at = "mark"])
    BY DEF ReadingIInv, Sound, Flow, ReadStates, AttachmentPoints
  <2>2. "mark" \in Points \ (AttachmentPoints \cup {"save", "ai"})
    BY DEF Points, AttachmentPoints
  <2> QED
    BY <1>1, <2>1, <2>2, GotoKeepsInv
<1>2. ASSUME NEW status \in Nat \ {200}, Answer(q, status) PROVE ReadingIInv'
  BY <1>2, AccountStays, AnswerKeepsInv
<1> QED
  BY <1>1, <1>2 DEF CallFails

-----------------------------------------------------------------------------
(* The steps of a request *)

(* Where a request that may still fail is. *)
Underway(q) == read[q].at \notin {"idle", "save", "done"}

LEMMA UnderwayIsUnsent ==
  ASSUME ReadingIInv, NEW q \in Reads, Underway(q)
  PROVE  ~read[q].sent /\ read[q].at \notin {"idle", "done"} /\ read[q].answer = 0
BY DEF ReadingIInv, Sound, Flow, Underway

(* Steps before anything of an attachment is known. *)
LEMMA EarlyStepKeepsInv ==
  ASSUME ReadingIInv, NEW q \in Reads,
         \/ LoadAccount(q) \/ CreateConnector(q) \/ ListIds(q) \/ FetchListed(q)
         \/ FetchMessage(q) \/ ResolveIdentity(q)
  PROVE  ReadingIInv'
<1>1. UNCHANGED <<account, revoked, history>> /\ Underway(q)
  BY DEF LoadAccount, CreateConnector, ListIds, FetchListed, FetchMessage, ResolveIdentity, Underway
<1>2. ~read[q].sent /\ read[q].at \notin {"idle", "done"} /\ read[q].answer = 0
  BY <1>1, UnderwayIsUnsent
<1>3. Sound(read[q]) /\ read[q] \in ReadStates
  BY DEF ReadingIInv, Sound
<1>4. ASSUME NEW status \in Nat, Answer(q, status),
             read[q].op = "analyze_attachment" => status # 200
      PROVE  ReadingIInv'
  BY <1>1, <1>2, <1>4, AccountStays, AnswerKeepsInv
<1>5. ASSUME NEW failures \in SUBSET (Nat \ {200}), CallFails(q, failures)
      PROVE  ReadingIInv'
  BY <1>1, <1>2, <1>5, CallFailsKeepsInv
<1>6. CASE LoadAccount(q)
  <2>1. CASE read' = [read EXCEPT ![q].credential = account.credential, ![q].at = "connect"]
    <3> DEFINE new == [read[q] EXCEPT !.credential = account.credential, !.at = "connect"]
    <3>1. /\ new \in ReadStates /\ new.at = "connect" /\ new.op = read[q].op
          /\ new.sent = read[q].sent /\ new.kind = read[q].kind /\ new.answer = read[q].answer
      BY <1>3 DEF ReadStates, Points, ReadingIInv, TypeOK
    <3>2. read' = [read EXCEPT ![q] = new]
      BY <2>1 DEF ReadingIInv, TypeOK
    <3>3. read[q].at = "load"
      BY <1>6 DEF LoadAccount
    <3> HIDE DEF new
    <3>4. Sound(new)
      BY <1>2, <1>3, <3>1, <3>3 DEF Sound, Flow, Vetted, Analysing, AttachmentPoints
    <3>5. new.answer # 200 /\ new.at # "mark"
      BY <1>2, <3>1
    <3> QED
      BY <1>1, <1>2, <3>2, <3>4, <3>5, AccountStays, MoveKeepsInv
  <2> QED
    BY <1>4, <1>6, <2>1 DEF LoadAccount
<1>7. CASE CreateConnector(q)
  <2>1. CASE Goto(q, FirstCall[read[q].op])
    <3> DEFINE point == FirstCall[read[q].op]
    <3>1. read[q].op \in Operations /\ read[q].kind = None
      BY <1>3, <1>7 DEF CreateConnector, Sound, Flow
    <3>2. /\ point \in {"list", "list_attachments", "fetch_message"} /\ point \in Points
          /\ point = "list" => read[q].op = "list_messages"
          /\ point = "list_attachments" => read[q].op = "list_attachments"
          /\ point = "fetch_message" => read[q].op \in {"analyze_message", "analyze_attachment"}
      BY <3>1 DEF FirstCall, Operations, Points
    <3> HIDE DEF point
    <3>3. Flow([read[q] EXCEPT !.at = point])
      BY <1>2, <1>3, <3>1, <3>2 DEF ReadStates, Flow, AttachmentPoints
    <3>4. Goto(q, point) /\ point \notin AttachmentPoints \cup {"save", "ai", "mark"}
      BY <2>1, <3>2 DEF point, AttachmentPoints
    <3> QED
      BY <1>1, <1>2, <3>2, <3>3, <3>4, GotoKeepsInv
  <2> QED
    BY <1>4, <1>7, <2>1 DEF CreateConnector
<1>8. CASE ListIds(q)
  <2>0. read[q].at = "list" /\ read[q].op = "list_messages" /\ {400} \in SUBSET (Nat \ {200})
    BY <1>3, <1>8 DEF ListIds, Sound, Flow
  <2>1. ASSUME NEW n \in 1..MaxListed,
               read' = [read EXCEPT ![q].left = n, ![q].at = "fetch_listed"]
        PROVE  ReadingIInv'
    <3> DEFINE new == [read[q] EXCEPT !.left = n, !.at = "fetch_listed"]
    <3>0. n \in Nat
      BY <2>1, ReadingAssumption
    <3>1. /\ new \in ReadStates /\ new.at = "fetch_listed" /\ new.op = read[q].op
          /\ new.sent = read[q].sent /\ new.answer = read[q].answer
      BY <1>3, <3>0 DEF ReadStates, Points
    <3>2. read' = [read EXCEPT ![q] = new]
      BY <2>1 DEF ReadingIInv, TypeOK
    <3> HIDE DEF new
    <3>3. Sound(new)
      BY <1>2, <2>0, <3>1 DEF Sound, Flow, AttachmentPoints, Operations
    <3>4. new.answer # 200 /\ new.at # "mark"
      BY <1>2, <3>1
    <3> QED
      BY <1>1, <1>2, <3>2, <3>3, <3>4, AccountStays, MoveKeepsInv
  <2>2. ASSUME CallFails(q, {400}) PROVE ReadingIInv'
    BY <1>5, <2>0, <2>2
  <2>3. ASSUME Answer(q, 200) PROVE ReadingIInv'
    BY <1>4, <2>0, <2>3
  <2> QED
    BY <1>8, <2>1, <2>2, <2>3 DEF ListIds
<1>9. CASE FetchListed(q)
  <2>0. /\ read[q].at = "fetch_listed" /\ read[q].op = "list_messages"
        /\ {500} \in SUBSET (Nat \ {200}) /\ read[q].left \in Nat
    BY <1>3, <1>9 DEF FetchListed, Sound, Flow, ReadStates
  <2>1. CASE read[q].left > 1 /\ read' = [read EXCEPT ![q].left = @ - 1]
    <3> DEFINE new == [read[q] EXCEPT !.left = @ - 1]
    <3>0. read[q].left - 1 \in Nat
      BY <2>0, <2>1
    <3>1. /\ new \in ReadStates /\ new.at = "fetch_listed" /\ new.op = read[q].op
          /\ new.sent = read[q].sent /\ new.answer = read[q].answer
      BY <1>3, <2>0, <3>0 DEF ReadStates
    <3>2. read' = [read EXCEPT ![q] = new]
      BY <2>1 DEF ReadingIInv, TypeOK
    <3> HIDE DEF new
    <3>3. Sound(new)
      BY <1>2, <2>0, <3>1 DEF Sound, Flow, AttachmentPoints, Operations
    <3>4. new.answer # 200 /\ new.at # "mark"
      BY <1>2, <3>1
    <3> QED
      BY <1>1, <1>2, <3>2, <3>3, <3>4, AccountStays, MoveKeepsInv
  <2> QED
    BY <1>4, <1>5, <1>9, <2>0, <2>1 DEF FetchListed
<1>10. CASE FetchMessage(q)
  <2>0. /\ read[q].at = "fetch_message" /\ read[q].op \in {"analyze_message", "analyze_attachment"}
        /\ {404, 500} \in SUBSET (Nat \ {200}) /\ read[q].kind = None
    BY <1>3, <1>10 DEF FetchMessage, Sound, Flow
  <2> DEFINE point == IF read[q].op = "analyze_message" THEN "identity" ELSE "list_attachments"
  <2>1. CASE Goto(q, point)
    <3>1. /\ point \in {"identity", "list_attachments"} /\ point \in Points
          /\ point = "identity" => read[q].op = "analyze_message"
          /\ point = "list_attachments" => read[q].op = "analyze_attachment"
      BY <2>0 DEF Points
    <3> HIDE DEF point
    <3>2. Flow([read[q] EXCEPT !.at = point])
      BY <1>2, <1>3, <2>0, <3>1 DEF ReadStates, Flow, AttachmentPoints, Operations
    <3>3. point \notin AttachmentPoints \cup {"save", "ai", "mark"}
      BY <3>1 DEF AttachmentPoints
    <3> QED
      BY <1>1, <1>2, <2>1, <3>1, <3>2, <3>3, GotoKeepsInv
  <2> QED
    BY <1>5, <1>10, <2>0, <2>1 DEF FetchMessage
<1>11. CASE ResolveIdentity(q)
  <2>0. read[q].at = "identity" /\ read[q].op = "analyze_message" /\ read[q].kind = None
    BY <1>3, <1>11 DEF ResolveIdentity, Sound, Flow
  <2>1. CASE Goto(q, "ai")
    <3>1. Flow([read[q] EXCEPT !.at = "ai"])
      BY <1>2, <1>3, <2>0 DEF ReadStates, Flow, AttachmentPoints, Operations
    <3>2. "ai" \in Points /\ "ai" \notin AttachmentPoints \cup {"save", "mark"}
      BY DEF Points, AttachmentPoints
    <3> QED
      BY <1>1, <1>2, <2>0, <2>1, <3>1, <3>2, GotoKeepsInv
  <2> QED
    BY <1>4, <1>11, <2>1 DEF ResolveIdentity
<1> QED
  BY <1>6, <1>7, <1>8, <1>9, <1>10, <1>11

(* A step whose record is given: it is sound when its parts are. *)
LEMMA StepTo ==
  ASSUME ReadingIInv, NEW q \in Reads, read[q].at # "done", NEW new \in ReadStates,
         read' = [read EXCEPT ![q] = new], UNCHANGED <<account, revoked, history>>,
         Flow(new), new.op = "analyze_attachment" => Vetted(new),
         new.answer # 200, new.at # "mark"
  PROVE  ReadingIInv'
<1>1. Sound(new)
  BY DEF Sound
<1>2. account' \in [status : Statuses, credential : Credentials]
  BY AccountStays
<1> QED
  BY <1>1, <1>2, MoveKeepsInv

(* Listed metadata that passes gives the kind of the attachment. *)
LEMMA ListAttachmentsKeepsInv ==
  ASSUME ReadingIInv, NEW q \in Reads, ListAttachments(q)
  PROVE  ReadingIInv'
<1>0. /\ UNCHANGED <<account, revoked, history>> /\ read[q].at = "list_attachments"
  BY DEF ListAttachments
<1>1. ~read[q].sent /\ read[q].at \notin {"idle", "done"} /\ read[q].answer = 0
  BY <1>0, UnderwayIsUnsent DEF Underway
<1>2. Sound(read[q]) /\ read[q] \in ReadStates
  BY DEF ReadingIInv, Sound
<1>3. ASSUME NEW status \in Nat, Answer(q, status),
             read[q].op = "analyze_attachment" => status # 200
      PROVE  ReadingIInv'
  BY <1>0, <1>1, <1>3, AccountStays, AnswerKeepsInv
<1>4. CASE CallFails(q, {404, 422, 500})
  <2>1. {404, 422, 500} \in SUBSET (Nat \ {200})
    OBVIOUS
  <2> QED
    BY <1>0, <1>1, <1>4, <2>1, CallFailsKeepsInv
<1>5. CASE read[q].op = "list_attachments" /\ Answer(q, 200)
  BY <1>3, <1>5
<1>6. ASSUME read[q].op = "analyze_attachment", NEW f \in Files,
             KindPassed([kind |-> EvaluateMetadata(f.metadata)]),
             read' = [read EXCEPT ![q].kind = EvaluateMetadata(f.metadata), ![q].at = "metadata"]
      PROVE  ReadingIInv'
  <2> DEFINE kind == EvaluateMetadata(f.metadata)
             new == [read[q] EXCEPT !.kind = kind, !.at = "metadata"]
  <2>0. kind \in Kinds /\ ImageGate(kind)
    BY <1>6 DEF KindPassed
  <2>1. read' = [read EXCEPT ![q] = new]
    BY <1>6 DEF ReadingIInv, TypeOK
  <2> HIDE DEF kind
  <2>2. /\ new \in ReadStates /\ new.at = "metadata" /\ new.op = "analyze_attachment"
        /\ new.kind = kind /\ new.sent = read[q].sent /\ new.answer = read[q].answer
    BY <1>2, <1>6, <2>0 DEF ReadStates, Points
  <2> HIDE DEF new
  <2>3. Flow(new)
    BY <1>1, <2>2 DEF Flow, AttachmentPoints, Operations
  <2>4. Vetted(new)
    BY <1>1, <2>0, <2>2 DEF Vetted, Analysing, KindPassed
  <2>5. new.answer # 200 /\ new.at # "mark"
    BY <1>1, <2>2
  <2> QED
    BY <1>0, <1>1, <2>1, <2>2, <2>3, <2>4, <2>5, StepTo
<1>7. ASSUME NEW f \in Files, read[q].op = "analyze_attachment",
             LET kind == EvaluateMetadata(f.metadata)
             IN IF kind \notin Kinds THEN Answer(q, 422)
                ELSE IF ~ImageGate(kind) THEN Answer(q, 409)
                ELSE read' = [read EXCEPT ![q].kind = kind, ![q].at = "metadata"]
      PROVE  ReadingIInv'
  <2>1. CASE Answer(q, 422) \/ Answer(q, 409)
    BY <1>3, <2>1
  <2>2. CASE /\ EvaluateMetadata(f.metadata) \in Kinds /\ ImageGate(EvaluateMetadata(f.metadata))
             /\ read' = [read EXCEPT ![q].kind = EvaluateMetadata(f.metadata),
                                     ![q].at = "metadata"]
    <3>1. KindPassed([kind |-> EvaluateMetadata(f.metadata)])
      BY <2>2 DEF KindPassed
    <3> QED
      BY <1>6, <1>7, <2>2, <3>1
  <2> QED
    BY <1>7, <2>1, <2>2
<1>8. CASE Answer(q, 404)
  BY <1>3, <1>8
<1> QED
  BY <1>4, <1>5, <1>7, <1>8, ZenonT(30) DEF ListAttachments

LEMMA RereadMetadataKeepsInv ==
  ASSUME ReadingIInv, NEW q \in Reads, RereadMetadata(q)
  PROVE  ReadingIInv'
<1>0. /\ UNCHANGED <<account, revoked, history>> /\ read[q].at = "metadata"
  BY DEF RereadMetadata
<1>1. ~read[q].sent /\ read[q].at \notin {"idle", "done"} /\ read[q].answer = 0
  BY <1>0, UnderwayIsUnsent DEF Underway
<1>2. Sound(read[q]) /\ read[q] \in ReadStates
  BY DEF ReadingIInv, Sound
<1>3. ASSUME NEW status \in Nat \ {200}, Answer(q, status) PROVE ReadingIInv'
  BY <1>0, <1>1, <1>3, AccountStays, AnswerKeepsInv
<1>4. CASE CallFails(q, {404, 422})
  <2>1. {404, 422} \in SUBSET (Nat \ {200})
    OBVIOUS
  <2> QED
    BY <1>0, <1>1, <1>4, <2>1, CallFailsKeepsInv
<1>5. ASSUME NEW f \in Files, read' = [read EXCEPT ![q].file = f, ![q].at = "bytes"]
      PROVE  ReadingIInv'
  <2> DEFINE new == [read[q] EXCEPT !.file = f, !.at = "bytes"]
  <2>0. f \in [metadata : Metadata, bytes : Bytes]
    BY ReadingAssumption
  <2>1. read' = [read EXCEPT ![q] = new]
    BY <1>5 DEF ReadingIInv, TypeOK
  <2>2. /\ new \in ReadStates /\ new.at = "bytes" /\ new.op = read[q].op /\ new.file = f
        /\ new.kind = read[q].kind /\ new.sent = read[q].sent /\ new.answer = read[q].answer
    BY <1>2, <2>0 DEF ReadStates, Points
  <2> HIDE DEF new
  <2>3. read[q].op = "analyze_attachment" /\ KindPassed(read[q])
    BY <1>0, <1>2 DEF Sound, Flow, Vetted, AttachmentPoints
  <2>4. Flow(new)
    BY <1>1, <2>2, <2>3 DEF Flow, AttachmentPoints, Operations
  <2>5. Vetted(new)
    BY <1>1, <2>0, <2>2, <2>3 DEF Vetted, Analysing, KindPassed
  <2>6. new.answer # 200 /\ new.at # "mark"
    BY <1>1, <2>2
  <2> QED
    BY <1>0, <1>1, <2>1, <2>2, <2>4, <2>5, <2>6, StepTo
<1>6. ASSUME NEW f \in Files, IF f.metadata.size > MaxBytes THEN Answer(q, 422)
                              ELSE read' = [read EXCEPT ![q].file = f, ![q].at = "bytes"]
      PROVE  ReadingIInv'
  <2>1. CASE Answer(q, 422)
    BY <1>3, <2>1
  <2>2. CASE ~Answer(q, 422)
    BY <1>5, <1>6, <2>2
  <2> QED
    BY <2>1, <2>2
<1> QED
  BY <1>4, <1>6 DEF RereadMetadata

LEMMA FetchBytesKeepsInv ==
  ASSUME ReadingIInv, NEW q \in Reads, FetchBytes(q)
  PROVE  ReadingIInv'
<1>0. /\ UNCHANGED <<account, revoked, history>> /\ read[q].at = "bytes"
  BY DEF FetchBytes
<1>1. ~read[q].sent /\ read[q].at \notin {"idle", "done"} /\ read[q].answer = 0
  BY <1>0, UnderwayIsUnsent DEF Underway
<1>2. Sound(read[q]) /\ read[q] \in ReadStates
  BY DEF ReadingIInv, Sound
<1>3. ASSUME NEW status \in Nat \ {200}, Answer(q, status) PROVE ReadingIInv'
  BY <1>0, <1>1, <1>3, AccountStays, AnswerKeepsInv
<1>4. CASE CallFails(q, {404, 422})
  <2>1. {404, 422} \in SUBSET (Nat \ {200})
    OBVIOUS
  <2> QED
    BY <1>0, <1>1, <1>4, <2>1, CallFailsKeepsInv
<1> DEFINE m == read[q].file.metadata
           kind == read[q].kind
<1>5. /\ read[q].op = "analyze_attachment" /\ KindPassed(read[q])
      /\ read[q].file \in [metadata : Metadata, bytes : Bytes]
  BY <1>0, <1>2 DEF Sound, Flow, Vetted, AttachmentPoints
<1>6. m \in Metadata /\ kind \in Kinds /\ ImageGate(kind)
  BY <1>5 DEF KindPassed
<1>7. ASSUME NEW f \in Files, Vet(kind, m, f.bytes) \in Kinds,
             read' = [read EXCEPT ![q].file = [metadata |-> m, bytes |-> f.bytes],
                                  ![q].kind = Vet(kind, m, f.bytes), ![q].at = "scan"]
      PROVE  ReadingIInv'
  <2> DEFINE file == [metadata |-> m, bytes |-> f.bytes]
             passed == Vet(kind, m, f.bytes)
             new == [read[q] EXCEPT !.file = file, !.kind = passed, !.at = "scan"]
  <2>0. f.bytes \in Bytes /\ file \in [metadata : Metadata, bytes : Bytes]
    BY <1>6, ReadingAssumption
  <2>1. /\ passed = kind /\ EvaluateMetadata(m) = kind
        /\ f.bytes.size \in 1..MaxBytes /\ f.bytes.size <= m.size
        /\ kind # "xlsx" => Harmless(kind, f.bytes)
    BY <1>6, <1>7, <2>0, VetPasses
  <2>2. read' = [read EXCEPT ![q] = new]
    BY <1>7 DEF ReadingIInv, TypeOK
  <2> HIDE DEF m, kind, passed
  <2>3. /\ new \in ReadStates /\ new.at = "scan" /\ new.op = read[q].op /\ new.file = file
        /\ new.kind = kind /\ new.sent = read[q].sent /\ new.answer = read[q].answer
    BY <1>2, <1>6, <2>0, <2>1 DEF ReadStates, Points
  <2> HIDE DEF new
  <2>4. Flow(new)
    BY <1>1, <1>5, <2>3 DEF Flow, AttachmentPoints, Operations
  <2>5. Retrieved(new)
    BY <2>0, <2>1, <2>3 DEF Retrieved
  <2>6. Vetted(new)
    BY <1>1, <1>6, <2>3, <2>5 DEF Vetted, Analysing, KindPassed
  <2>7. new.answer # 200 /\ new.at # "mark"
    BY <1>1, <2>3
  <2> QED
    BY <1>0, <1>1, <2>2, <2>3, <2>4, <2>6, <2>7, StepTo
<1>8. ASSUME NEW f \in Files,
             IF f.bytes.size = 0 \/ f.bytes.size > MaxBytes THEN Answer(q, 422)
             ELSE IF Vet(kind, m, f.bytes) \notin Kinds THEN Answer(q, 422)
             ELSE read' = [read EXCEPT ![q].file = [metadata |-> m, bytes |-> f.bytes],
                                       ![q].kind = Vet(kind, m, f.bytes), ![q].at = "scan"]
      PROVE  ReadingIInv'
  <2>1. CASE Answer(q, 422)
    BY <1>3, <2>1
  <2>2. CASE ~Answer(q, 422)
    BY <1>7, <1>8, <2>2
  <2> QED
    BY <2>1, <2>2
<1> QED
  BY <1>4, <1>8 DEF FetchBytes

(* Only a clean verdict passes, and a workbook's container only after it. *)
LEMMA ScanKeepsInv ==
  ASSUME ReadingIInv, NEW q \in Reads, Scan(q)
  PROVE  ReadingIInv'
<1>0. /\ UNCHANGED <<account, revoked, history>> /\ read[q].at = "scan"
  BY DEF Scan
<1>1. ~read[q].sent /\ read[q].at \notin {"idle", "done"} /\ read[q].answer = 0
  BY <1>0, UnderwayIsUnsent DEF Underway
<1>2. Sound(read[q]) /\ read[q] \in ReadStates
  BY DEF ReadingIInv, Sound
<1>3. ASSUME NEW status \in Nat \ {200}, Answer(q, status) PROVE ReadingIInv'
  BY <1>0, <1>1, <1>3, AccountStays, AnswerKeepsInv
<1> DEFINE f == read[q].file
           kind == read[q].kind
<1>4. read[q].op = "analyze_attachment" /\ KindPassed(read[q]) /\ Retrieved(read[q])
  BY <1>0, <1>2 DEF Sound, Flow, Vetted, AttachmentPoints
<1>5. /\ kind \in Kinds /\ f.metadata \in Metadata /\ f.bytes \in Bytes
      /\ EvaluateMetadata(f.metadata) = kind
      /\ kind # "xlsx" => Harmless(kind, f.bytes)
  BY <1>4 DEF KindPassed, Retrieved
<1>6. ASSUME ContainerAfterScan(kind, f.metadata, f.bytes) \in Kinds,
             read' = [read EXCEPT ![q].clean = TRUE, ![q].at = "parse"]
      PROVE  ReadingIInv'
  <2> DEFINE new == [read[q] EXCEPT !.clean = TRUE, !.at = "parse"]
  <2>1. Harmless(kind, f.bytes)
    <3>1. Declared(f.metadata) = kind
      BY <1>5, MetadataDeclares
    <3>2. CASE kind = "xlsx"
      <4>1. EvaluateContent(f.metadata, f.bytes) \in Kinds
        BY <1>6, <3>2 DEF ContainerAfterScan
      <4> QED
        BY <1>5, <3>1, <4>1, ContentIsOfItsKind
    <3> QED
      BY <1>5, <3>2
  <2>2. read' = [read EXCEPT ![q] = new]
    BY <1>6 DEF ReadingIInv, TypeOK
  <2>3. /\ new \in ReadStates /\ new.at = "parse" /\ new.op = read[q].op
        /\ new.file = read[q].file /\ new.kind = read[q].kind /\ new.clean = TRUE
        /\ new.sent = read[q].sent /\ new.answer = read[q].answer
    BY <1>2 DEF ReadStates, Points
  <2> HIDE DEF new
  <2>4. Flow(new)
    BY <1>1, <1>4, <2>3 DEF Flow, AttachmentPoints, Operations
  <2>5. Retrieved(new) /\ KindPassed(new)
    BY <1>4, <2>3 DEF Retrieved, KindPassed
  <2>6. Scanned(new)
    BY <2>1, <2>3 DEF Scanned
  <2>7. Vetted(new)
    BY <1>1, <2>3, <2>5, <2>6 DEF Vetted, Analysing
  <2>8. new.answer # 200 /\ new.at # "mark"
    BY <1>1, <2>3
  <2> QED
    BY <1>0, <1>1, <2>2, <2>3, <2>4, <2>7, <2>8, StepTo
<1>7. PICK verdict \in Verdicts :
        IF verdict \in {"error", "unavailable"} THEN Answer(q, 503)
        ELSE IF verdict \notin Passes THEN Answer(q, 422)
        ELSE IF ContainerAfterScan(kind, f.metadata, f.bytes) \notin Kinds THEN Answer(q, 422)
        ELSE read' = [read EXCEPT ![q].clean = (verdict = "clean"), ![q].at = "parse"]
  BY DEF Scan
<1>8. CASE Answer(q, 503) \/ Answer(q, 422)
  BY <1>3, <1>8
<1>9. CASE ~(Answer(q, 503) \/ Answer(q, 422))
  <2>1. /\ verdict = "clean" /\ ContainerAfterScan(kind, f.metadata, f.bytes) \in Kinds
        /\ read' = [read EXCEPT ![q].clean = (verdict = "clean"), ![q].at = "parse"]
    BY <1>7, <1>9 DEF Passes
  <2>2. (verdict = "clean") = TRUE
    BY <2>1
  <2> QED
    BY <1>6, <2>1, <2>2
<1> QED
  BY <1>8, <1>9

LEMMA ParseKeepsInv ==
  ASSUME ReadingIInv, NEW q \in Reads, Parse(q)
  PROVE  ReadingIInv'
<1>0. /\ UNCHANGED <<account, revoked, history>> /\ read[q].at = "parse"
  BY DEF Parse
<1>1. ~read[q].sent /\ read[q].at \notin {"idle", "done"} /\ read[q].answer = 0
  BY <1>0, UnderwayIsUnsent DEF Underway
<1>2. Sound(read[q]) /\ read[q] \in ReadStates
  BY DEF ReadingIInv, Sound
<1> DEFINE cut == Truncates(read[q].kind, read[q].file.bytes)
<1>3. CASE Answer(q, 422)
  BY <1>0, <1>1, <1>3, AccountStays, AnswerKeepsInv
<1>4. CASE read' = [read EXCEPT ![q].truncated = cut, ![q].at = "ai"]
  <2> DEFINE new == [read[q] EXCEPT !.truncated = cut, !.at = "ai"]
  <2>0. cut \in BOOLEAN
    BY DEF Truncates
  <2>1. read[q].op = "analyze_attachment" /\ KindPassed(read[q]) /\ Retrieved(read[q]) /\ Scanned(read[q])
    BY <1>0, <1>2 DEF Sound, Flow, Vetted, AttachmentPoints
  <2>2. read' = [read EXCEPT ![q] = new]
    BY <1>4 DEF ReadingIInv, TypeOK
  <2> HIDE DEF cut
  <2>3. /\ new \in ReadStates /\ new.at = "ai" /\ new.op = read[q].op
        /\ new.file = read[q].file /\ new.kind = read[q].kind /\ new.clean = read[q].clean
        /\ new.truncated = cut /\ new.sent = read[q].sent /\ new.answer = read[q].answer
    BY <1>2, <2>0 DEF ReadStates, Points
  <2> HIDE DEF new
  <2>4. Flow(new)
    BY <1>1, <2>1, <2>3 DEF Flow, AttachmentPoints, Operations
  <2>5. Retrieved(new) /\ KindPassed(new)
    BY <2>1, <2>3 DEF Retrieved, KindPassed
  <2>6. Scanned(new)
    BY <2>1, <2>3 DEF Scanned
  <2>7. CutIsTold(new)
    BY <2>3 DEF CutIsTold, cut
  <2>8. Vetted(new)
    BY <2>3, <2>5, <2>6, <2>7 DEF Vetted, Analysing
  <2>9. new.answer # 200 /\ new.at # "mark"
    BY <1>1, <2>3
  <2> QED
    BY <1>0, <1>1, <2>2, <2>3, <2>4, <2>8, <2>9, StepTo
<1> QED
  BY <1>3, <1>4 DEF Parse

(* What is sent to the AI provider is what was established; a failure is    *)
(* answered, a success is left to be saved.                                 *)
LEMMA SentKeepsInv ==
  ASSUME ReadingIInv, NEW q \in Reads, read[q].at = "ai", UNCHANGED <<account, revoked, history>>,
         NEW new, new \in ReadStates, read' = [read EXCEPT ![q] = new],
         new.op = read[q].op, new.file = read[q].file, new.kind = read[q].kind,
         new.clean = read[q].clean, new.sent = TRUE,
         read[q].truncated => new.truncated,
         \/ new.at = "save" /\ new.answer = 0
         \/ new.at = "done" /\ new.answer # 200
  PROVE  ReadingIInv'
<1>1. Sound(read[q]) /\ read[q] \in ReadStates
  BY DEF ReadingIInv, Sound
<1>2. Flow(new)
  BY <1>1 DEF Sound, Flow, AttachmentPoints
<1>3. ASSUME new.op = "analyze_attachment" PROVE Vetted(new)
  <2>1. KindPassed(read[q]) /\ Retrieved(read[q]) /\ Scanned(read[q]) /\ CutIsTold(read[q])
    BY <1>1, <1>3 DEF Sound, Vetted, Analysing
  <2>2. Retrieved(new) /\ KindPassed(new)
    BY <2>1 DEF Retrieved, KindPassed
  <2>3. Scanned(new)
    BY <2>1 DEF Scanned
  <2>4. CutIsTold(new)
    BY <2>1 DEF CutIsTold
  <2> QED
    BY <2>2, <2>3, <2>4 DEF Vetted, Analysing, AttachmentPoints
<1>4. new.answer # 200 /\ new.at # "mark" /\ read[q].at # "done"
  OBVIOUS
<1> QED
  BY <1>2, <1>3, <1>4, StepTo

LEMMA AnalyzeKeepsInv ==
  ASSUME ReadingIInv, NEW q \in Reads, Analyze(q) \/ AnalysisFails(q)
  PROVE  ReadingIInv'
<1>0. /\ UNCHANGED <<account, revoked, history>> /\ read[q].at = "ai"
  BY DEF Analyze, AnalysisFails
<1>1. Sound(read[q]) /\ read[q] \in ReadStates
  BY DEF ReadingIInv, Sound
<1>2. read[q].answer = 0
  BY <1>0, <1>1 DEF Sound, Flow
<1>3. CASE AnalysisFails(q)
  <2>0. PICK failure \in Nat : failure = 500
    OBVIOUS
  <2> DEFINE new == [read[q] EXCEPT !.sent = TRUE, !.at = "done", !.answer = failure]
  <2>1. read' = [read EXCEPT ![q] = new]
    <3>1. read' = [read EXCEPT ![q].sent = TRUE, ![q].at = "done", ![q].answer = failure]
      BY <1>3, <2>0 DEF AnalysisFails
    <3> QED
      BY <3>1 DEF ReadingIInv, TypeOK
  <2>2. /\ new \in ReadStates /\ new.at = "done" /\ new.op = read[q].op
        /\ new.file = read[q].file /\ new.kind = read[q].kind /\ new.clean = read[q].clean
        /\ new.truncated = read[q].truncated /\ new.sent = TRUE /\ new.answer = failure
    BY <1>1 DEF ReadStates, Points
  <2> HIDE DEF new
  <2>3. (read[q].truncated => new.truncated) /\ new.answer # 200
    BY <2>0, <2>2
  <2> QED
    BY <1>0, <2>1, <2>2, <2>3, SentKeepsInv
<1>4. ASSUME NEW cut \in BOOLEAN,
             read' = [read EXCEPT ![q].sent = TRUE, ![q].truncated = @ \/ cut, ![q].at = "save"]
      PROVE  ReadingIInv'
  <2> DEFINE told == read[q].truncated \/ cut
             new == [read[q] EXCEPT !.sent = TRUE, !.truncated = told, !.at = "save"]
  <2>0. told \in BOOLEAN /\ (read[q].truncated => told)
    OBVIOUS
  <2>1. read' = [read EXCEPT ![q] = new]
    BY <1>4 DEF ReadingIInv, TypeOK
  <2> HIDE DEF told
  <2>2. /\ new \in ReadStates /\ new.at = "save" /\ new.op = read[q].op
        /\ new.file = read[q].file /\ new.kind = read[q].kind /\ new.clean = read[q].clean
        /\ new.truncated = told /\ new.sent = TRUE /\ new.answer = read[q].answer
    BY <1>1, <2>0 DEF ReadStates, Points
  <2> HIDE DEF new
  <2>3. read[q].truncated => new.truncated
    BY <2>0, <2>2
  <2> QED
    BY <1>0, <1>2, <2>1, <2>2, <2>3, SentKeepsInv
<1> QED
  BY <1>3, <1>4 DEF Analyze

(* What is saved is what was analysed, and an answered success was saved. *)
LEMMA SavedKeepsInv ==
  ASSUME ReadingIInv, NEW q \in Reads, read[q].at = "save", UNCHANGED <<account, revoked>>,
         history' = history \cup {Record(q)}, NEW status \in {200, 503}, Answer(q, status)
  PROVE  ReadingIInv'
<1>1. Sound(read[q]) /\ read[q] \in ReadStates
  BY DEF ReadingIInv, Sound
<1>2. read[q].sent /\ read[q].op \in {"analyze_message", "analyze_attachment"}
  BY <1>1 DEF Sound, Flow
<1> DEFINE new == Answered(read[q], status)
<1>3. /\ Sound(new) /\ new.at = "done" /\ new.answer = status /\ new.sent
      /\ new.kind = read[q].kind /\ new.file = read[q].file
  BY <1>1, <1>2, AnsweredIsSound, AnsweredFields
<1>4. read' = [read EXCEPT ![q] = new]
  BY DEF Answer, Answered
<1> HIDE DEF new
<1>5. \A p \in Reads : read'[p] = IF p = q THEN new ELSE read[p]
  BY <1>4 DEF ReadingIInv, TypeOK
<1>6. TypeOK'
  <2>1. read' \in [Reads -> ReadStates]
    BY <1>3, <1>4 DEF ReadingIInv, TypeOK, Sound
  <2> QED
    BY <2>1 DEF ReadingIInv, TypeOK
<1>7. \A p \in Reads : Sound(read'[p])
  BY <1>3, <1>5 DEF ReadingIInv
<1>8. ASSUME NEW h \in history PROVE SavedFaithfully(h)'
  <2>1. SavedFaithfully(h) /\ h.by # q
    BY DEF ReadingIInv, SavedFaithfully
  <2>2. read'[h.by] = read[h.by]
    BY <1>5, <2>1 DEF SavedFaithfully
  <2> QED
    BY <2>1, <2>2 DEF SavedFaithfully
<1>9. ASSUME NEW h, h = Record(q) PROVE SavedFaithfully(h)'
  <2>1. h.by = q /\ h.kind = read[q].kind /\ h.file = read[q].file
    BY <1>9 DEF Record
  <2>2. ASSUME read[q].kind # None, Truncates(read[q].kind, read[q].file.bytes)
        PROVE  h.truncated
    <3>1. read[q].op = "analyze_attachment"
      BY <1>1, <1>2, <2>2 DEF Sound, Flow
    <3>2. read[q].truncated
      BY <1>1, <1>2, <2>2, <3>1 DEF Sound, Vetted, Analysing, CutIsTold
    <3> QED
      BY <1>9, <3>2 DEF Record
  <2>3. h.kind # None /\ Truncates(h.kind, h.file.bytes) => h.truncated
    BY <2>1, <2>2
  <2>4. /\ h.by \in Reads /\ read'[h.by].at = "done" /\ read'[h.by].sent
        /\ read'[h.by].answer \in {200, 503}
        /\ h.kind = read'[h.by].kind /\ h.file = read'[h.by].file
    BY <1>3, <1>5, <2>1
  <2> QED
    BY <2>3, <2>4 DEF SavedFaithfully
<1>10. ASSUME NEW h \in history' PROVE SavedFaithfully(h)'
  <2>1. h \in history \/ h = Record(q)
    OBVIOUS
  <2> QED
    BY <1>8, <1>9, <2>1
<1>11. ASSUME NEW p \in Reads PROVE SavedWhenAnswered(p)'
  <2>1. CASE p = q
    <3>1. Record(q) \in history' /\ Record(q).by = q
      BY DEF Record
    <3> QED
      BY <2>1, <3>1 DEF SavedWhenAnswered
  <2>2. CASE p # q
    BY <1>5, <2>2 DEF ReadingIInv, SavedWhenAnswered
  <2> QED
    BY <2>1, <2>2
<1>12. \A p \in Reads : read'[p].at = "mark" => read'[p].credential \in revoked'
  BY <1>3, <1>5 DEF ReadingIInv
<1> QED
  BY <1>6, <1>7, <1>10, <1>11, <1>12 DEF ReadingIInv

LEMMA SaveKeepsInv ==
  ASSUME ReadingIInv, NEW q \in Reads, Save(q)
  PROVE  ReadingIInv'
<1>1. read[q].at = "save" /\ UNCHANGED <<account, revoked>>
  BY DEF Save
<1>2. PICK status \in {200, 503} :
        /\ Answer(q, status)
        /\ \/ history' = history \cup {Record(q)}
           \/ history' = history /\ (read[q].op = "analyze_attachment" => status # 200)
  <2>1. CASE history' = history \cup {Record(q)} /\ Answer(q, 200)
    BY <2>1
  <2>2. CASE /\ history' \in {history, history \cup {Record(q)}}
             /\ Answer(q, IF read[q].op = "analyze_message" THEN 200 ELSE 503)
    <3>1. CASE read[q].op = "analyze_message"
      BY <2>2, <3>1
    <3>2. CASE read[q].op # "analyze_message"
      BY <2>2, <3>2
    <3> QED
      BY <3>1, <3>2
  <2> QED
    BY <2>1, <2>2 DEF Save
<1>3. CASE history' = history \cup {Record(q)}
  BY <1>1, <1>2, <1>3, SavedKeepsInv
<1>4. CASE history' = history /\ (read[q].op = "analyze_attachment" => status # 200)
  BY <1>1, <1>2, <1>4, AccountStays, AnswerKeepsInv
<1> QED
  BY <1>2, <1>3, <1>4

LEMMA MarkKeepsInv ==
  ASSUME ReadingIInv, NEW q \in Reads, Mark(q)
  PROVE  ReadingIInv'
<1>1. read[q].at = "mark" /\ UNCHANGED history /\ revoked' = revoked
  BY DEF Mark
<1>2. account' \in [status : Statuses, credential : Credentials]
  BY DEF Mark, ReadingIInv, TypeOK, Statuses
<1>3. PICK status \in Nat \ {200} : Answer(q, status)
  <2>1. 409 \in Nat \ {200} /\ 503 \in Nat \ {200}
    OBVIOUS
  <2> QED
    BY <2>1 DEF Mark
<1> QED
  BY <1>1, <1>2, <1>3, AnswerKeepsInv

LEMMA StartKeepsInv ==
  ASSUME ReadingIInv, NEW q \in Reads, Start(q)
  PROVE  ReadingIInv'
<1>1. UNCHANGED <<account, revoked, history>> /\ read[q].at = "idle"
  BY DEF Start
<1>2. PICK op \in Operations : read' = [read EXCEPT ![q].op = op, ![q].at = "load"]
  BY DEF Start
<1>3. Sound(read[q]) /\ read[q] \in ReadStates
  BY DEF ReadingIInv, Sound
<1> DEFINE new == [read[q] EXCEPT !.op = op, !.at = "load"]
<1>4. read' = [read EXCEPT ![q] = new]
  BY <1>2 DEF ReadingIInv, TypeOK
<1>5. /\ new \in ReadStates /\ new.at = "load" /\ new.op = op /\ new.kind = read[q].kind
      /\ new.sent = read[q].sent /\ new.answer = read[q].answer
  BY <1>3 DEF ReadStates, Points
<1> HIDE DEF new
<1>6. ~read[q].sent /\ read[q].answer = 0 /\ read[q].kind = None
  BY <1>1, <1>3 DEF Sound, Flow
<1>7. Sound(new)
  BY <1>5, <1>6 DEF Sound, Flow, Vetted, Analysing, AttachmentPoints
<1>8. new.answer # 200 /\ new.at # "mark" /\ read[q].at # "done"
  BY <1>1, <1>5, <1>6
<1> QED
  BY <1>1, <1>4, <1>7, <1>8, AccountStays, MoveKeepsInv

LEMMA StepKeepsInv ==
  ASSUME ReadingIInv, NEW q \in Reads, Step(q)
  PROVE  ReadingIInv'
BY EarlyStepKeepsInv, ListAttachmentsKeepsInv, RereadMetadataKeepsInv, FetchBytesKeepsInv,
   ScanKeepsInv, ParseKeepsInv, AnalyzeKeepsInv, SaveKeepsInv, MarkKeepsInv DEF Step

(* The owner and the provider leave every request alone, and what was        *)
(* revoked stays so.                                                         *)
LEMMA OthersKeepInv ==
  ASSUME ReadingIInv, Disconnect \/ Reauthorize \/ Revoke \/ UNCHANGED vars
  PROVE  ReadingIInv'
<1>1. read' = read /\ history' = history /\ revoked \subseteq revoked'
  BY DEF Disconnect, Reauthorize, Revoke, vars
<1>2. /\ account' \in [status : Statuses, credential : Credentials]
      /\ revoked' \subseteq Credentials
  BY DEF Disconnect, Reauthorize, Revoke, vars, ReadingIInv, TypeOK, Statuses
<1>3. TypeOK'
  BY <1>1, <1>2 DEF ReadingIInv, TypeOK
<1>4. \A q \in Reads : Sound(read'[q]) /\ SavedWhenAnswered(q)'
  BY <1>1 DEF ReadingIInv, SavedWhenAnswered
<1>5. ASSUME NEW h \in history' PROVE SavedFaithfully(h)'
  <2>1. SavedFaithfully(h)
    BY <1>1 DEF ReadingIInv
  <2> QED
    BY <1>1, <2>1 DEF SavedFaithfully
<1>6. \A q \in Reads : read'[q].at = "mark" => read'[q].credential \in revoked'
  BY <1>1 DEF ReadingIInv
<1> QED
  BY <1>3, <1>4, <1>5, <1>6 DEF ReadingIInv

LEMMA ReadingInitially == Init => ReadingIInv
<1> SUFFICES ASSUME Init PROVE ReadingIInv
  OBVIOUS
<1>1. \A q \in Reads : read[q] = Idle
  BY DEF Init
<1>2. Idle \in ReadStates /\ Idle.at = "idle" /\ Idle.op = None /\ Idle.kind = None
      /\ Idle.sent = FALSE /\ Idle.answer = 0
  BY IdleIsARead DEF Idle
<1>3. TypeOK
  BY <1>2 DEF Init, TypeOK
<1>4. Sound(Idle)
  BY <1>2 DEF Sound, Flow, Vetted, Analysing, AttachmentPoints
<1> QED
  BY <1>1, <1>2, <1>3, <1>4 DEF ReadingIInv, Init, SavedWhenAnswered

LEMMA ReadingStep == ReadingIInv /\ [Next]_vars => ReadingIInv'
BY StartKeepsInv, StepKeepsInv, OthersKeepInv DEF Next

(* Of a request's steps only the marking one touches the account. *)
LEMMA OnlyMarkTouches ==
  ASSUME NEW q \in Reads, Start(q) \/ Step(q), account' # account
  PROVE  Mark(q)
<1>1. ~Start(q) /\ ~LoadAccount(q) /\ ~CreateConnector(q) /\ ~ListIds(q) /\ ~FetchListed(q)
  BY DEF Start, LoadAccount, CreateConnector, ListIds, FetchListed
<1>2. ~FetchMessage(q) /\ ~ListAttachments(q) /\ ~RereadMetadata(q) /\ ~ResolveIdentity(q)
  BY DEF FetchMessage, ListAttachments, RereadMetadata, ResolveIdentity
<1>3. ~FetchBytes(q) /\ ~Scan(q) /\ ~Parse(q)
  BY DEF FetchBytes, Scan, Parse
<1>4. ~Analyze(q) /\ ~AnalysisFails(q) /\ ~Save(q)
  BY DEF Analyze, AnalysisFails, Save
<1> QED
  BY <1>1, <1>2, <1>3, <1>4 DEF Step

-----------------------------------------------------------------------------
(* Theorems *)

(* Every request has established, by the point it is at, what that point     *)
(* relies on; the rest of the module follows from it.                        *)
THEOREM ReadingInvariance == Spec => []ReadingIInv
<1>1. Init => ReadingIInv
  BY ReadingInitially
<1>2. ReadingIInv /\ [Next]_vars => ReadingIInv'
  BY ReadingStep
<1> QED
  BY <1>1, <1>2, PTL DEF Spec

(* Whatever the provider's answers describe, what reaches the AI provider is *)
(* scanned clean, of the kind that passed the image gate, within the sizes,  *)
(* and without what its kind must not carry.                                 *)
THEOREM OnlyVettedIsSent == Spec => []AiSeesOnlyVetted
<1>1. ReadingIInv => AiSeesOnlyVetted
  BY InvariantImplies
<1> QED
  BY <1>1, ReadingInvariance, PTL

(* A saved analysis is of what was analysed and admits that text was cut;    *)
(* an attachment's analysis answered with success is saved.                  *)
THEOREM HistoryIsTrue == Spec => []HistoryTellsTruth
<1>1. ReadingIInv => HistoryTellsTruth
  BY InvariantImplies
<1> QED
  BY <1>1, ReadingInvariance, PTL

(* An account comes to need reauthorization only from active, and only by a  *)
(* read whose own credential was refused.                                    *)
THEOREM MarksFollowRefusals == Spec => MarkedByRefusal
<1> DEFINE Refused ==
      account'.status = "reauth_required" /\ account.status # "reauth_required" =>
        /\ account.status = "active"
        /\ account'.credential = account.credential
        /\ \E q \in Reads : read[q].at = "mark" /\ read[q].credential \in revoked
<1>1. ReadingIInv /\ [Next]_vars => Refused
  <2> SUFFICES ASSUME ReadingIInv, [Next]_vars, account'.status = "reauth_required",
                      account.status # "reauth_required"
               PROVE  /\ account.status = "active"
                      /\ account'.credential = account.credential
                      /\ \E q \in Reads : read[q].at = "mark" /\ read[q].credential \in revoked
    OBVIOUS
  <2>1. account \in [status : Statuses, credential : Credentials]
    BY DEF ReadingIInv, TypeOK
  <2>2. account' # account
    OBVIOUS
  <2>3. ASSUME Disconnect \/ Reauthorize PROVE FALSE
    BY <2>1, <2>3 DEF Disconnect, Reauthorize
  <2>4. PICK q \in Reads : Mark(q)
    BY <2>2, <2>3, OnlyMarkTouches DEF Next, vars, Revoke
  <2>5. account.status = "active" /\ account' = [account EXCEPT !.status = "reauth_required"]
    BY <2>2, <2>4 DEF Mark
  <2>6. read[q].at = "mark" /\ read[q].credential \in revoked
    BY <2>4 DEF Mark, ReadingIInv
  <2> QED
    BY <2>1, <2>5, <2>6
<1> QED
  BY <1>1, ReadingInvariance, PTL DEF Spec, MarkedByRefusal
=============================================================================
