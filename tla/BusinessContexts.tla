--------------------------- MODULE BusinessContexts ---------------------------
(***************************************************************************)
(* Business contexts (matters, cases, projects) of one owner and the links *)
(* that associate mailbox messages with them.                              *)
(*                                                                         *)
(* Every operation is one transaction of several statements at READ        *)
(* COMMITTED: it reads a row, decides, and writes later; other requests    *)
(* run in between.  A context is saved by an UPDATE of all its mutable     *)
(* columns that is conditional on nothing but the owner.  A transaction    *)
(* that fails before its commit changes nothing.                           *)
(***************************************************************************)
EXTENDS Naturals, FiniteSets

CONSTANTS
  Contexts,   \* business context ids
  Titles,     \* values of the editable columns (type, title, description, ...)
  Messages,   \* provenances: a connector account and a provider message id
  Editors,    \* concurrent update, archive and restore requests
  Linkers,    \* associate requests; a link is named by the one that made it
  Removers,   \* concurrent remove requests
  None

ASSUME ContextsAssumption == None \notin Contexts \cup Messages \cup Linkers

VARIABLES
  context,  \* business_contexts rows: status and the editable columns
  links,    \* business_context_communication_links rows
  editor,   \* the row an editor is about to save
  linker,   \* where an associate request is
  remover   \* the link a remove request has read

contextVars == <<context, editor>>
linkVars == <<links, linker, remover>>

Rows == [status : {"absent", "active", "archived"}, title : Titles]
Edits == {"update", "archive", "restore"}
Links == [id : Linkers, context : Contexts, message : Messages]

Saves == [op : Edits, context : Contexts,
          row : [status : {"active", "archived"}, title : Titles]]
Associations == [at : {"check", "insert", "linked", "refused"},
                 context : Contexts, message : Messages]

Idle == [op |-> "idle", context |-> None, row |-> None]
NotStarted == [at |-> "idle", context |-> None, message |-> None]

EditInit ==
  /\ context \in [Contexts -> [status : {"absent"}, title : Titles]]
  /\ editor = [e \in Editors |-> Idle]

LinkInit ==
  /\ links = {}
  /\ linker = [l \in Linkers |-> NotStarted]
  /\ remover = [r \in Removers |-> None]

ContextInit == EditInit /\ LinkInit

-----------------------------------------------------------------------------
(* Contexts *)

CreateContext(c, t) ==
  /\ context[c].status = "absent"
  /\ context' = [context EXCEPT ![c] = [status |-> "active", title |-> t]]
  /\ UNCHANGED editor

(* apply_update, archive and restore on the row as read: an archived context *)
(* is not editable, a repeated archive or restore leaves the row as it is.  *)
Edited(row, op, t) ==
  [status |-> CASE op = "archive" -> "archived"
                [] op = "restore" -> "active"
                [] OTHER -> row.status,
   title  |-> IF op = "update" THEN t ELSE row.title]

ReadContext(e, c, op, t) ==
  /\ editor[e] = Idle
  /\ context[c].status # "absent"
  /\ op = "update" => context[c].status = "active"
  /\ editor' = [editor EXCEPT
       ![e] = [op |-> op, context |-> c, row |-> Edited(context[c], op, t)]]
  /\ UNCHANGED context

(* save_owned writes the whole row, even after an archive or a restore that *)
(* had nothing to do, and commits; or the request fails and writes nothing. *)
SaveContext(e) ==
  /\ editor[e] # Idle
  /\ \/ context' = [context EXCEPT ![editor[e].context] = editor[e].row]
     \/ UNCHANGED context
  /\ editor' = [editor EXCEPT ![e] = Idle]

ContextStep ==
  \/ \E c \in Contexts, t \in Titles : CreateContext(c, t)
  \/ \E e \in Editors, c \in Contexts, op \in Edits, t \in Titles :
       ReadContext(e, c, op, t)
  \/ \E e \in Editors : SaveContext(e)

-----------------------------------------------------------------------------
(* Links *)

MoveLinker(l, point) == linker' = [linker EXCEPT ![l].at = point]

(* associate: the context is read and must be ACTIVE. *)
ReadForAssociation(l, c, m) ==
  /\ linker[l].at = "idle"
  /\ context[c].status = "active"
  /\ linker' = [linker EXCEPT ![l] = [at |-> "check", context |-> c, message |-> m]]
  /\ UNCHANGED <<links, remover>>

(* The rows of the unique constraint (context, connector account, message). *)
SameProvenance(l) ==
  {k \in links : k.context = linker[l].context /\ k.message = linker[l].message}

(* get_by_provenance_owned *)
CheckDuplicate(l) ==
  /\ linker[l].at = "check"
  /\ MoveLinker(l, IF SameProvenance(l) = {} THEN "insert" ELSE "refused")
  /\ UNCHANGED <<links, remover>>

NewLink(l) == [id |-> l, context |-> linker[l].context, message |-> linker[l].message]

(* Mutant: the table has no unique constraint. *)
InsertUnchecked(l) ==
  /\ linker[l].at = "insert"
  /\ links' = links \cup {NewLink(l)} /\ MoveLinker(l, "linked")
  /\ UNCHANGED remover

(* add and commit, whose acknowledgement can be lost: the unique constraint *)
(* decides between two requests that both found no duplicate.               *)
InsertLink(l) ==
  /\ linker[l].at = "insert"
  /\ \/ /\ SameProvenance(l) = {}
        /\ links' = links \cup {NewLink(l)}
        /\ MoveLinker(l, "linked") \/ MoveLinker(l, "refused")
     \/ /\ SameProvenance(l) # {}
        /\ MoveLinker(l, "refused") /\ UNCHANGED links
  /\ UNCHANGED remover

(* A statement or the commit of associate fails and rolls back. *)
FailAssociation(l) ==
  /\ linker[l].at \in {"check", "insert"}
  /\ MoveLinker(l, "refused")
  /\ UNCHANGED <<links, remover>>

(* remove: allowed on an archived context too. *)
ReadForRemoval(r, k) ==
  /\ remover[r] = None
  /\ remover' = [remover EXCEPT ![r] = k.id]
  /\ UNCHANGED <<links, linker>>

(* remove_owned deletes the row, or finds it gone: both end the request. *)
DeleteLink(r) ==
  /\ remover[r] # None
  /\ links' = {k \in links : k.id # remover[r]}
  /\ remover' = [remover EXCEPT ![r] = None]
  /\ UNCHANGED linker

LinkStep ==
  \/ \E l \in Linkers, c \in Contexts, m \in Messages : ReadForAssociation(l, c, m)
  \/ \E l \in Linkers : CheckDuplicate(l) \/ InsertLink(l) \/ FailAssociation(l)
  \/ \E r \in Removers, k \in links : ReadForRemoval(r, k)
  \/ \E r \in Removers : DeleteLink(r)

-----------------------------------------------------------------------------
ContextNext ==
  \/ ContextStep /\ UNCHANGED linkVars
  \/ LinkStep /\ UNCHANGED contextVars

ContextSpec == ContextInit /\ [][ContextNext]_<<contextVars, linkVars>>

-----------------------------------------------------------------------------
(* Properties *)

(* The variables hold what their columns and handlers can hold, and no link *)
(* belongs to a context that was never created.                            *)
ContextTypeOK ==
  /\ context \in [Contexts -> Rows]
  /\ editor \in [Editors -> {Idle} \cup Saves]
  /\ links \subseteq Links
  /\ \A k \in links : context[k.context].status # "absent"
  /\ linker \in [Linkers -> {NotStarted} \cup Associations]
  /\ remover \in [Removers -> Linkers \cup {None}]

(* However associate and remove requests interleave, a message is linked to *)
(* a context at most once.                                                 *)
LinkIsUnique ==
  \A j, k \in links : j.context = k.context /\ j.message = k.message => j = k

(* What the uniqueness of links and the type rest on: an associate request  *)
(* has found its context, and a context is never deleted.                   *)
LinkersHaveContext ==
  \A l \in Linkers : linker[l].at \in {"check", "insert"} =>
    context[linker[l].context].status # "absent"

ContextIInv == ContextTypeOK /\ LinkersHaveContext /\ LinkIsUnique

(* ADR-029: an archived context becomes active again by Restore, and only  *)
(* an active one can be updated.                                           *)
ArchivedUntilRestored ==
  [][\A c \in Contexts :
       context[c].status = "archived" /\ context'[c].status = "active" =>
         \E e \in Editors : editor[e].op = "restore" /\ editor[e].context = c /\ editor'[e] = Idle
    ]_context
=============================================================================
