---------------------------- MODULE MailboxReading ----------------------------
(***************************************************************************)
(* Reads of a connected mailbox: listing messages or attachments, and      *)
(* analysing a message or one attachment.  A read loads the owned account  *)
(* in one transaction and works from that snapshot: between its calls the  *)
(* owner disconnects or reauthorizes the mailbox, the provider revokes a   *)
(* credential, and every answer of the provider may describe another file. *)
(*                                                                         *)
(* An attachment is vetted in stages: its listed metadata before anything  *)
(* is retrieved, metadata and bytes as retrieved, the scanner's verdict,   *)
(* and for a workbook its container only after the verdict.                *)
(***************************************************************************)
EXTENDS AttachmentPolicy, FiniteSets

CONSTANTS
  Reads,        \* requests that read the mailbox
  Credentials,  \* locators of stored credentials
  Files,        \* attachments a provider's answer may describe
  ImageInput,   \* settings and provider accept image input
  MaxListed,    \* messages on one page
  None

ASSUME ReadingAssumption ==
  /\ Files \subseteq [metadata : Metadata, bytes : Bytes]
  /\ ImageInput \in BOOLEAN
  /\ MaxListed \in Nat
  /\ None \notin Credentials /\ None \notin Files /\ None \notin Kinds

VARIABLES
  account,   \* the owned connector account: status and credential locator
  revoked,   \* credentials the provider has confirmed as dead
  read,      \* per request: operation, point, snapshot and what it holds
  history    \* analyses saved

vars == <<account, revoked, read, history>>

Operations == {"list_messages", "list_attachments", "analyze_message", "analyze_attachment"}
Points == {"idle", "load", "connect", "list", "fetch_listed", "fetch_message", "list_attachments",
           "metadata", "bytes", "scan", "parse", "identity", "ai", "save", "mark", "done"}
Statuses == {"active", "disconnected", "reauth_required"}

Idle == [op |-> None, at |-> "idle", credential |-> None, left |-> 0, kind |-> None,
         file |-> None, clean |-> FALSE, sent |-> FALSE, truncated |-> FALSE, answer |-> 0]

Init ==
  /\ account \in [status : Statuses, credential : Credentials]
  /\ revoked = {}
  /\ read = [q \in Reads |-> Idle]
  /\ history = {}

-----------------------------------------------------------------------------
(* Steps of a read *)

Goto(q, point) == read' = [read EXCEPT ![q].at = point]

(* What a request held is gone with it; of one that reached the provider,   *)
(* the record it saved still tells.                                         *)
Forget(r) == IF r.sent THEN r ELSE [Idle EXCEPT !.op = r.op]
Answer(q, status) ==
  read' = [read EXCEPT ![q] = [Forget(@) EXCEPT !.at = "done", !.answer = status]]

Start(q) ==
  /\ read[q].at = "idle"
  /\ \E op \in Operations : read' = [read EXCEPT ![q].op = op, ![q].at = "load"]
  /\ UNCHANGED <<account, revoked, history>>

(* Not found or not owned, persistence unavailable, not usable for reading, *)
(* or a snapshot of the account.                                            *)
LoadAccount(q) ==
  /\ read[q].at = "load"
  /\ \/ Answer(q, 404)
     \/ Answer(q, 503)
     \/ account.status # "active" /\ Answer(q, 409)
     \/ /\ account.status = "active"
        /\ read' = [read EXCEPT ![q].credential = account.credential, ![q].at = "connect"]
  /\ UNCHANGED <<account, revoked, history>>

FirstCall == [list_messages |-> "list", list_attachments |-> "list_attachments",
              analyze_message |-> "fetch_message", analyze_attachment |-> "fetch_message"]

(* The connector of the account's provider; it fetches tokens on demand. *)
CreateConnector(q) ==
  /\ read[q].at = "connect"
  /\ \/ Goto(q, FirstCall[read[q].op])
     \/ Answer(q, 409)
  /\ UNCHANGED <<account, revoked, history>>

(* A token for the snapshot's credential, then the provider's HTTP answer:  *)
(* reauthorization is only reported of a credential confirmed dead.         *)
CallFails(q, failures) ==
  \/ read[q].credential \in revoked /\ Goto(q, "mark")
  \/ Answer(q, 503)          \* transport, 401, 403, 429, 5xx, no usable token
  \/ Answer(q, 500)          \* any other status
  \/ \E status \in failures : Answer(q, status)

(* A listing page: ids, then each message fetched in turn.  An expired      *)
(* cursor is a 400.                                                         *)
ListIds(q) ==
  /\ read[q].at = "list"
  /\ \/ CallFails(q, {400})
     \/ Answer(q, 200)
     \/ \E n \in 1..MaxListed : read' = [read EXCEPT ![q].left = n, ![q].at = "fetch_listed"]
  /\ UNCHANGED <<account, revoked, history>>

(* A message that is gone, or that has no readable body, fails the page: the *)
(* listing maps neither error.                                               *)
FetchListed(q) ==
  /\ read[q].at = "fetch_listed"
  /\ \/ CallFails(q, {500})
     \/ read[q].left = 1 /\ Answer(q, 200)
     \/ read[q].left > 1 /\ read' = [read EXCEPT ![q].left = @ - 1]
  /\ UNCHANGED <<account, revoked, history>>

FetchMessage(q) ==
  /\ read[q].at = "fetch_message"
  /\ \/ CallFails(q, {404, 500})
     \/ Goto(q, IF read[q].op = "analyze_message" THEN "identity" ELSE "list_attachments")
  /\ UNCHANGED <<account, revoked, history>>

ImageGate(kind) == kind \in Images => ImageInput

(* The listed metadata of the one attachment asked for: policy, then the    *)
(* image capability, before any content is asked for.                       *)
ListAttachments(q) ==
  /\ read[q].at = "list_attachments"
  /\ \/ CallFails(q, {404, 422, 500})
     \/ read[q].op = "list_attachments" /\ Answer(q, 200)
     \/ /\ read[q].op = "analyze_attachment"
        /\ \/ Answer(q, 404)
           \/ \E f \in Files :
                LET kind == EvaluateMetadata(f.metadata)
                IN IF kind \notin Kinds THEN Answer(q, 422)
                   ELSE IF ~ImageGate(kind) THEN Answer(q, 409)
                   ELSE read' = [read EXCEPT ![q].kind = kind, ![q].at = "metadata"]
  /\ UNCHANGED <<account, revoked, history>>

(* The connector reads the metadata again and bounds the size it reports. *)
RereadMetadata(q) ==
  /\ read[q].at = "metadata"
  /\ \/ CallFails(q, {404, 422})
     \/ \E f \in Files :
          IF f.metadata.size > MaxBytes THEN Answer(q, 422)
          ELSE read' = [read EXCEPT ![q].file = f, ![q].at = "bytes"]
  /\ UNCHANGED <<account, revoked, history>>

(* Mutant: the kind retrieved is not compared with the kind that passed. *)
VetUncompared(kind, m, b) ==
  IF EvaluateMetadata(m) \notin Kinds THEN EvaluateMetadata(m)
  ELSE IF kind = "xlsx" THEN IF ContentSize(m, b) = Fine THEN kind ELSE ContentSize(m, b)
  ELSE EvaluateContent(m, b)

(* Vetting of metadata and bytes as retrieved, of the kind that was listed. *)
Vet(kind, m, b) ==
  IF EvaluateMetadata(m) # kind THEN
    IF EvaluateMetadata(m) \in Kinds THEN Unsupported ELSE EvaluateMetadata(m)
  ELSE IF kind = "xlsx" THEN IF ContentSize(m, b) = Fine THEN kind ELSE ContentSize(m, b)
  ELSE EvaluateContent(m, b)

(* The bytes may be those of another file than the metadata. *)
FetchBytes(q) ==
  /\ read[q].at = "bytes"
  /\ \/ CallFails(q, {404, 422})
     \/ \E f \in Files :
          LET m == read[q].file.metadata
          IN IF f.bytes.size = 0 \/ f.bytes.size > MaxBytes THEN Answer(q, 422)
             ELSE IF Vet(read[q].kind, m, f.bytes) \notin Kinds THEN Answer(q, 422)
             ELSE read' = [read EXCEPT ![q].file = [metadata |-> m, bytes |-> f.bytes],
                                       ![q].kind = Vet(read[q].kind, m, f.bytes),
                                       ![q].at = "scan"]
  /\ UNCHANGED <<account, revoked, history>>

(* What clamd's reply is mapped to: only an OK is clean. *)
Verdicts == {"clean", "malicious", "unknown", "error", "unavailable"}
Passes == {"clean"}

ContainerAfterScan(kind, m, b) == IF kind = "xlsx" THEN EvaluateContent(m, b) ELSE kind

Scan(q) ==
  /\ read[q].at = "scan"
  /\ \E verdict \in Verdicts :
       LET f == read[q].file
       IN IF verdict \in {"error", "unavailable"} THEN Answer(q, 503)
          ELSE IF verdict \notin Passes THEN Answer(q, 422)
          ELSE IF ContainerAfterScan(read[q].kind, f.metadata, f.bytes) \notin Kinds
            THEN Answer(q, 422)
          ELSE read' = [read EXCEPT ![q].clean = (verdict = "clean"), ![q].at = "parse"]
  /\ UNCHANGED <<account, revoked, history>>

Parse(q) ==
  /\ read[q].at = "parse"
  /\ IF ParseError(read[q].kind, read[q].file.bytes) # Fine THEN Answer(q, 422)
     ELSE read' = [read EXCEPT ![q].truncated = Truncates(read[q].kind, read[q].file.bytes),
                               ![q].at = "ai"]
  /\ UNCHANGED <<account, revoked, history>>

(* Analysing a message resolves or creates the user before the AI call. *)
ResolveIdentity(q) ==
  /\ read[q].at = "identity"
  /\ \/ Goto(q, "ai")
     \/ Answer(q, 503)
  /\ UNCHANGED <<account, revoked, history>>

(* A provider that fails, or whose output does not validate, is a 500.  A   *)
(* workbook's text may be cut again, to the bound of the tabular prompt.    *)
Analyze(q) ==
  /\ read[q].at = "ai"
  /\ \E cut \in (IF read[q].kind = "xlsx" THEN BOOLEAN ELSE {FALSE}) :
       read' = [read EXCEPT ![q].sent = TRUE, ![q].truncated = @ \/ cut, ![q].at = "save"]
  /\ UNCHANGED <<account, revoked, history>>

AnalysisFails(q) ==
  /\ read[q].at = "ai"
  /\ read' = [read EXCEPT ![q].sent = TRUE, ![q].at = "done", ![q].answer = 500]
  /\ UNCHANGED <<account, revoked, history>>

Record(q) == [by |-> q, file |-> read[q].file, kind |-> read[q].kind,
              truncated |-> read[q].truncated]

(* Mutant: an attachment's analysis is answered as a message's is. *)
SaveForgiving(q) ==
  /\ read[q].at = "save"
  /\ \/ history' = history \cup {Record(q)} /\ Answer(q, 200)
     \/ history' \in {history, history \cup {Record(q)}} /\ Answer(q, 200)
  /\ UNCHANGED <<account, revoked>>

(* A message's analysis is answered even when it cannot be saved; a commit  *)
(* whose answer is lost may have saved.                                     *)
Save(q) ==
  /\ read[q].at = "save"
  /\ \/ history' = history \cup {Record(q)} /\ Answer(q, 200)
     \/ /\ history' \in {history, history \cup {Record(q)}}
        /\ Answer(q, IF read[q].op = "analyze_message" THEN 200 ELSE 503)
  /\ UNCHANGED <<account, revoked>>

(* Mutant: the update does not ask for an active row. *)
MarkWhatever(q) ==
  /\ read[q].at = "mark"
  /\ \/ account' = [account EXCEPT !.status = "reauth_required"] /\ Answer(q, 409)
     \/ UNCHANGED account /\ Answer(q, 503)
  /\ UNCHANGED <<revoked, history>>

(* Mutant: an update that matches no row is tried again. *)
MarkUntilActive(q) ==
  /\ read[q].at = "mark"
  /\ \/ /\ account.status = "active"
        /\ account' = [account EXCEPT !.status = "reauth_required"]
        /\ Answer(q, 409)
     \/ account.status # "active" /\ UNCHANGED <<account, read>>
  /\ UNCHANGED <<revoked, history>>

(* The account is marked by a conditional update of its own transaction. *)
Mark(q) ==
  /\ read[q].at = "mark"
  /\ \/ /\ account.status = "active"
        /\ account' = [account EXCEPT !.status = "reauth_required"]
        /\ Answer(q, 409)
     \/ account.status # "active" /\ UNCHANGED account /\ Answer(q, 409)
     \/ UNCHANGED account /\ Answer(q, 503)
  /\ UNCHANGED <<revoked, history>>

Step(q) ==
  \/ LoadAccount(q) \/ CreateConnector(q) \/ ListIds(q) \/ FetchListed(q) \/ FetchMessage(q)
  \/ ListAttachments(q) \/ RereadMetadata(q) \/ FetchBytes(q) \/ Scan(q) \/ Parse(q)
  \/ ResolveIdentity(q) \/ Analyze(q) \/ AnalysisFails(q) \/ Save(q) \/ Mark(q)

-----------------------------------------------------------------------------
(* The owner and the provider *)

Disconnect ==
  /\ account.status # "disconnected"
  /\ account' = [account EXCEPT !.status = "disconnected"]
  /\ UNCHANGED <<revoked, read, history>>

(* A reauthorization stores a new credential and activates the row. *)
Reauthorize ==
  /\ account.status # "active"
  /\ \E c \in Credentials \ (revoked \cup {account.credential}) :
       account' = [status |-> "active", credential |-> c]
  /\ UNCHANGED <<revoked, read, history>>

Revoke ==
  /\ \E c \in Credentials \ revoked : revoked' = revoked \cup {c}
  /\ UNCHANGED <<account, read, history>>

Next ==
  \/ \E q \in Reads : Start(q) \/ Step(q)
  \/ Disconnect \/ Reauthorize \/ Revoke

Spec == Init /\ [][Next]_vars
FairSpec == Spec /\ \A q \in Reads : WF_vars(Step(q))

-----------------------------------------------------------------------------
(* Properties *)

ReadStates ==
  [op : Operations \cup {None}, at : Points, credential : Credentials \cup {None},
   left : Nat, kind : Kinds \cup {None},
   file : [metadata : Metadata, bytes : Bytes] \cup {None},
   clean : BOOLEAN, sent : BOOLEAN, truncated : BOOLEAN, answer : Nat]

TypeOK ==
  /\ account \in [status : Statuses, credential : Credentials]
  /\ revoked \subseteq Credentials
  /\ read \in [Reads -> ReadStates]

(* What no kind of attachment may carry to a parser or a provider. *)
Harmless(kind, b) ==
  /\ kind = "pdf" => b.magic = "pdf" /\ b.marks \cap {"encrypt", "html"} = {}
  /\ kind \in {"docx", "xlsx"} => b.magic = "zip" /\ b.names \cap {"vba", "encryption"} = {}
  /\ kind = "xlsx" => /\ b.names \cap {"links", "connections"} = {}
                      /\ b.marks \cap {"external", "macro_type"} = {}
  /\ kind \in Images => b.magic = kind
  /\ kind = "txt" => b.magic = "text" /\ "undecodable" \notin b.marks

(* Whatever files the provider's three answers described, an attachment that *)
(* reaches the AI provider was scanned clean, is of the kind that passed the *)
(* image gate, is no longer than allowed and than reported, and carries no   *)
(* macro, encryption or external link of its kind.                           *)
AiSeesOnlyVetted ==
  \A q \in Reads :
    read[q].sent /\ read[q].op = "analyze_attachment" =>
      LET f == read[q].file IN
      /\ read[q].clean
      /\ read[q].kind \in Kinds /\ ImageGate(read[q].kind)
      /\ f.bytes.size \in 1..MaxBytes /\ f.bytes.size <= f.metadata.size
      /\ Harmless(read[q].kind, f.bytes)

(* A saved analysis comes from a read that went through the provider, says   *)
(* so when text was cut off, and an attachment analysis answered with        *)
(* success is saved.                                                         *)
HistoryTellsTruth ==
  /\ \A h \in history :
       /\ read[h.by].sent /\ read[h.by].answer \in {200, 503}
       /\ h.kind = read[h.by].kind /\ h.file = read[h.by].file
       /\ h.kind # None /\ Truncates(h.kind, h.file.bytes) => h.truncated
  /\ \A q \in Reads :
       read[q].op = "analyze_attachment" /\ read[q].answer = 200 =>
         \E h \in history : h.by = q

(* A read changes the account only from active to reauthorization required,  *)
(* after the provider refused the credential it had read; never a row        *)
(* disconnected meanwhile, and never the credential.                         *)
MarkedByRefusal ==
  [][account'.status = "reauth_required" /\ account.status # "reauth_required" =>
       /\ account.status = "active"
       /\ account'.credential = account.credential
       /\ \E q \in Reads : read[q].at = "mark" /\ read[q].credential \in revoked]_vars

(* Every read is answered. *)
ReadsReturn == \A q \in Reads : read[q].at = "load" ~> read[q].at = "done"
=============================================================================
