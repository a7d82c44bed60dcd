# Verification of the Enterprise Communication Intelligence service

TLA+ models of the parts of the service in which several requests, a database
and an outside system have to agree, the TLC configurations that check them on
small instances, and proofs, checked by TLAPS, that hold for every instance.

`PROJECT.json` is the machine-readable index: the components, the runs, the
source lines of every definition (`map`), a plausible bug for every property
(`mutants`), the disagreements between documents and code (`findings`), the
hazards and the theorems. Paths below are relative to `src/app` unless they say
otherwise.

Contents: 1 the system, 2 the models, 3 the runs, 4 fairness, 5 what is proved,
6 what was found, 7 what is not modelled, 8 what could come next.

## 1. The system

A FastAPI service over PostgreSQL, with a secret store (Azure Key Vault, AWS
Secrets Manager or memory), two mailbox providers (Gmail, Microsoft Graph) and AI
providers outside it. Any number of instances run, each with a pool of threads;
all shared state is in the database and the secret store. Every service method
opens a unit of work (`infrastructure/storage/unit_of_work.py`), that is one
transaction at PostgreSQL's default READ COMMITTED (`database.py` sets no other
level): two statements of one transaction may see different commits.

| component | state it keeps | operations | hard behaviour | what makes it correct |
|---|---|---|---|---|
| Workflow actions and execution (`services/workflow_actions.py`, `workflow_action_execution.py`) | `workflow_actions`: status, approved text, execution target | create, approve, reject, execute | two transactions around a call nothing covers; conditional UPDATE as the only mutual exclusion | a reply is sent at most once, only after approval; a recorded outcome is true |
| Reply executors (`infrastructure/executors`) | none | token, profile, original message, one POST | late answer, lost answer, ambiguous status | never a second POST; ambiguity is not reported as failure |
| Connector accounts (`services/connector_accounts.py`, `*_mailbox_oauth.py`) | `connector_accounts`: status, locator; the secret store | OAuth callback for CONNECT and REAUTHORIZE, disconnect, mark REAUTH_REQUIRED | row and secret share no transaction; compensation; races of callbacks | a row's credential belongs to its mailbox; a loser cleans up its own and nobody else's |
| Authorization sessions (`mailbox_authorization_sessions.py`) | `mailbox_authorization_sessions`: state hash, verifier, bound account, consumed | start, consume | replayed state | one exchange per state |
| OAuth HTTP clients (`infrastructure/oauth`) | none: the secret material they make is stored by others | authorization URL, code exchange, ID token, refresh, revocation | every status and error body, tenants, rotation | the secret is of the mailbox that consented; only a dead grant is given up, but for one class of answers at Google |
| Access tokens and credential stores (`infrastructure/credentials`) | token cache and keyed locks per process, secret versions, advisory lock | token, refresh with rotation, replace-if-version, delete | threads and processes refresh at once; the lock is lost with its connection | one refresh per process, no stale write, no token of a deleted credential |
| Business contexts and links (`business_contexts.py`, `business_context_communication_links.py`) | `business_contexts`, `business_context_communication_links` | create, update, archive, restore; associate, remove | unconditional whole-row UPDATE; check, then insert | one link per message and context; archived contexts stay as they are |
| Work items (`work_items.py`, `repositories/business_work_item.py`) | `business_work_items`, sources, event journal | idempotent create; status, edit, context, archive, restore under an expected version | unique-violation retry at READ COMMITTED; nested row locks | one item per key; no lost update; journal explains row |
| Owner bootstrap, identity (`owner_bootstrap.py`, `identity.py`) | `users`, `external_identities` | promote, resolve-or-create | count, then update; duplicate insert | one owner; one user per principal |
| Mailbox reading and analysis (`connectors`, `connected_mailbox_*.py`, `communication_*.py`) | `analyses`, `attachment_analyses` | list, fetch, analyse, store | the account is a snapshot, every answer may be about another state; ambiguous commit | history is true; an account is marked only after a refusal |
| Attachment pipeline (`infrastructure/attachments`, `attachment_*.py`, `domain/attachment_policy.py`) | none beyond the request | policy, scan, parse, analyse | three answers about one file; bounds of an extraction | nothing unvetted reaches a parser or the AI provider; what is cut is told |
| Routes, dependencies, settings (`api`, `core/config.py`, `core/security.py`) | per request: resolved dependencies, open HTTP clients | resolve, check, build, answer, close | order of parameters; errors in the middle; combinations of settings | refused before anything is built; clients closed; production closed |
| Timeline (`services/context_timeline.py`) | none; reads six tables | page by offset | two merges of one definition; rows written during a walk | pages agree; nothing lasting is skipped |
| Suggestions, provenance, AI providers, logging, migrations, frontend | none that handlers share | conversions and I/O | | |

Interactions. Execution reads `connector_accounts` and marks an account
REAUTH_REQUIRED in the transaction that fails the action; mailbox reading marks it
as well; a callback and a disconnect change the same row and the secret it names.
Execution and reading fetch access tokens through the resolver, which rotates the
stored secret that callbacks create and disconnects delete. Work items lock
context rows; contexts do not know of items. Links and items are two independent
ways to belong to a context, and the timeline reads both. Every service is
constructed, per request, by the dependencies of its route.

## 2. The models

Common conventions. A request is a process with a program counter; one action is
one SQL statement with what the handler does up to its next one, or one call of an
outside system. The UPDATE or INSERT and the COMMIT that follows it directly are
one action, because row locks and index entries make competitors wait for the
commit. A conflict that rolls back changes no row. An ambiguous commit is the
choice between the effect and none, followed by the handler's error path. Owner
filters, timestamps and texts that no property tells apart are left out; names of
rows are model values. An INSERT names its row after the request that makes it,
which is what a fresh UUID does. Definitions named as a mutant in a comment are
used by no specification.

How the modules depend on each other:

    ApprovedDelivery <- WorkflowActions            (implements it)
    BusinessContexts <- WorkItems                  (shares the context rows)
    AttachmentPolicy <- MailboxReading             (uses its operators)
    Settings         <- RequestGate                (deployments of accepted settings)
    ConnectorCredentials, CredentialTokens, MailboxOAuth, Identities, Workbook, ContextTimeline
    MCParts composes BusinessContexts, Identities, MailboxOAuth, Workbook,
            CredentialTokens and ContextTimeline in one run
    MCX extends X with the values of its constants
    X_proofs extends X and TLAPS; WorkItems_proofs also has BusinessContexts, and
            Parts_proofs has Identities, MailboxOAuth and Workbook

### `ApprovedDelivery`, `WorkflowActions`

`ApprovedDelivery` is the promise with no requests, accounts or network: an action
is proposed, approved or rejected, attempted, delivered by the provider at most
once, and recorded. `WorkflowActions` is the code, and implements the promise
(`Promise == INSTANCE ApprovedDelivery WITH ...`, the property `KeepsPromise`): the
status and the provider's deliveries stay, requests, accounts and wire are hidden.

| variable | code |
|---|---|
| `status`, `target` | `workflow_actions.status`, the account of its execution target |
| `accStatus`, `accSend` | `connector_accounts.status`, whether its grants include sending |
| `pc`, `job` | where a request is, and the action it serves |
| `wire`, `delivered` | the provider: requests it has not processed, replies it has sent |
| `abandoned` | history: EXECUTING actions whose request is gone |

`Create`, `ReadForDecision` and `SaveDecision` are `WorkflowActionService`.
`ReadForExecution`, `LoadAccount` and `SaveExecuting` are the first transaction of
`WorkflowActionExecutionService`; `SaveConflict` is every conditional UPDATE that
matched no row. `AcquireToken`, `PrepareReply` (Gmail only) and `PostReply` are the
executor. `ProviderSends` and `ProviderRefuses` are the provider, which may act long
after the client stopped waiting (`StopWaiting`); `Answer` lets the client see what
happened, or not. `SaveTerminal` and `SaveReauthFailure` are the second
transaction. `GiveUp` is a crash or a failed statement anywhere.

### `ConnectorCredentials`

| variable | code |
|---|---|
| `accStatus`, `locator` | `connector_accounts.status`, `credential_ref`, by external mailbox |
| `store`, `refused` | the secret store; grants the provider has revoked |
| `session`, `bound` | authorization sessions and the account of a REAUTHORIZE session |
| `pc`, `job`, `identity`, `seen` | a callback: place, session, mailbox the person chose, previous locator |
| `disconnect`, `reader` | the two other kinds of request |
| `withdrawn` | history: credentials deleted by a disconnect |

`ConsumeState`, `ObtainCredential`, `LookUp`, `Insert`, `LoadTarget`,
`DeletePrevious`, `Reactivate` and `Compensate` follow the callback of
`gmail_mailbox_oauth.py` (Microsoft's is the same line by line). `Insert` includes the
unique violation, after which the callback compensates. The person chooses any
mailbox at the provider: `ObtainCredential` has the mailbox as a parameter.
`FailStatement` is a failed or ambiguous statement, `CrashCallback` a dead process.
A disconnect loads, deletes the secret and clears the row in three actions.

### `MailboxOAuth`

What one exchange, refresh or revocation makes of every answer a provider may give;
who calls when is the business of `ConnectorCredentials` and `CredentialTokens`.

| variable | code |
|---|---|
| `config` | Google, or the tenant configured for Microsoft |
| `asked`, `response`, `claims` | the call under way, the HTTP answer, the verified ID token |
| `grant` | the provider: whose consent, its scopes, tokens issued, whether it is alive |
| `material`, `result` | the serialized secret; the identity and capabilities that are returned |
| `answer` | what the last call returned or raised |

`VerifyIdToken`, `IssuerMatches` and `TenantAdmits` are the checks after the signature;
`Retryable` and `ConfirmedInvalidGrant` classify an error. For Microsoft the code does it
by status: 429 and every 5xx are passing failures, and the error is read in a 400 or 401
only. For Google it trusts `RefreshError.retryable`, which knows transport errors and
408, 429, 500 and 503 (`LibraryRetryable`, the statuses of google-auth), and reads the
error in whatever is left. The provider is constrained in one respect only
(`TokenAnswers`): an `invalid_grant` with the status of the token endpoint, 400, is sent
of a dead grant, while an answer of any other status, a gateway's among them, may wear
any error. `OnlyDeadGrantsAreGivenUp` therefore excepts, for Google alone, the answers
that are not of the token endpoint and that the library does not list (`Misleading`);
section 6 says what follows.

### `CredentialTokens`

| variable | code |
|---|---|
| `cache`, `entry`, `users`, `holder` | per process: `_AccessTokenCache`, the table of `_KeyedLocks` with its counts, the locks |
| `secret`, `origin`, `issued` | the store: version under a locator, version its refresh token was obtained with |
| `advisory`, `slipped` | `pg_advisory_xact_lock` of a locator; whether one was lost with its connection |
| `pc`, `loc`, `lock`, `seen`, `attempt` | a thread that asks for a token (`_provide_access_token`) or deletes a credential |

`BeginToken`, `AcquireKey`, `Recheck`, `ReleaseKey` and `Drop` are the keyed lock;
`ReadRecord`, `CallAdapter`, `PutToken` a refresh; `TakeAdvisoryLock`, `Compare`,
`MoveStage` (AWS), `SetSecret` and `Reread` (Azure) the replacement of a rotated token;
`FinishMismatch` the one retry of its loser. `Expire` stands for expiry and
eviction at any moment, so time is not counted.

### `BusinessContexts`, `WorkItems`

An editor reads a whole row (`ReadContext`), applies its change to the copy (`Edited`)
and writes the copy back (`SaveContext`), as `save_owned` does. An associate request
reads the context, looks for an existing link and inserts one; `InsertLink` has the
unique violation, which the handler reports as a conflict, and the commit that is
durable although the handler reports a failure. The columns that are
edited together are one value of `Titles`.

| variable of `WorkItems` | code |
|---|---|
| `items` | `business_work_items`: key, intent, status, archive mark, context, version |
| `journal` | `business_work_item_events` in insertion order |
| `creator` | a create request: place, key, intent, the item its answer is about |
| `mutator` | a change request: place, item, the version its author saw, command |

`ReadKey` and `ReadCandidate` are the two lookups of `_existing_creation`,
`LockContextToCreate` the `FOR UPDATE` of the context, `InsertItem` the INSERT of item
and events and the unique violation, after which both lookups are made again.
`LockItem` is the `FOR UPDATE` of the item with the version check, `LockContextToMutate`
the nested context lock, `WriteItem` the UPDATE, the events and the commit. A lock is
not a variable: a request holds what its place says it holds (`CreatorHolds`,
`MutatorHolds`, `ItemLocked`). `Changes` gives the events of a command in the order
the code appends them. `SaveUnlocked` adds to `SaveContext` the wait for the row lock.

### `Identities`

`Lookup`, `LookAgain`, the insert and the reread are `resolve_or_create` with the unique
index on (issuer, subject); a caller may also ask whether it is an owner. An operator
goes through the lookup, the count of owners and the promotion of
`promote_first_owner`, each a statement of its own.

### `AttachmentPolicy`, `MailboxReading`

`AttachmentPolicy` has no state: bytes are records of what the policy looks at
(signature, size, parts of a ZIP directory, findings), and `EvaluateMetadata`,
`EvaluateContent`, `ParseError` and `Truncates` are the checks in the order of the code.
`MailboxReading` is a request of one of the four operations that use a connector.

| variable | code |
|---|---|
| `account` | the owned `connector_accounts` row |
| `revoked` | credentials the provider has confirmed as dead |
| `read` | a request: operation, place, the snapshot it works from, the file and kind it holds, verdict, answer |
| `history` | analyses saved |

`ListAttachments`, `RereadMetadata` and `FetchBytes` are three answers of the provider,
each of which may describe any file: what was checked of one says nothing of the
next. `Scan` has every verdict of clamd; a workbook's container is only looked into
after a clean one. `Save` is the commit that may be lost, `Mark` the conditional
UPDATE.

### `Workbook`

The extraction of an XLSX cell by cell, with `reasons` as the code's truncation reasons
and `chars`, `cells`, `kept` as its counters. A cell is the length of its text.
`handed` is history: every text that is in a kept row, with its sheet, row, column
and length, over all sheets; the result is complete when these are all the texts
of the workbook (`Complete`). `Hints` are the declared dimensions of a worksheet,
the only sign of rows and columns that are not asked for.

### `Settings`, `RequestGate`

`Settings` has no state: `Accepted` is the set of environments the validators let
through, `Deployments` what the factories build from them. `RequestGate` handles a
request as FastAPI does. A JSON body is read first: one that cannot be parsed is 422,
one that cannot be decoded 400, whoever sent it (`RefuseBody`). Then the dependencies of
the route are resolved: `Needs` and `Routes` list, for every dependency and every
handler, its parameters in their order; `Refusal` and `Builds` say what its body raises
and constructs. The errors of a body that is JSON but not what its model says are
answered in place of the handler, after all dependencies (`CallHandler`), so that a
caller without permission is told 401 or 403 and nothing of its body. `CloseClients` is
the exit stack of the request. The tables are functions of distinct names, put together
by `Merged`; `BodyRoutes` are the routes that read a body.

### `ContextTimeline`

The rows of the six tables, every write to them at a clock that may stand still,
and a client that asks for page after page. `StoredPage` is the SQL statement,
`PortablePage` the merge in memory with its bounded prefixes of events, which serves
repositories without a page of their own: the SQL repository of a deployment always
has one, so that its pages are `StoredPage`'s. An order is
described by the `Place` of an entry, the number of entries before it; `EventPrefix`
is the set of the events that the loop over repository pages has read when it ends,
a page being read when no earlier one was short. `walk` is the client: its page
size, which merge answers it, its offset, the entries there were when it began
(`lasting`) and those it was shown.

## 3. The runs

| run | instance | states | what it shows |
|---|---|---|---|
| `workflow_actions` | 1 action, 3 requests, a Gmail and a Graph account | 58 thousand | exclusive execution, true outcomes, at most one send, the status machine, the refinement of `ApprovedDelivery`; an EXECUTING action is settled or was given up, every handler returns |
| `credentials` | 2 mailboxes, 2 consents, 2 callbacks, a disconnect, a reader | 156 thousand | single-use states, no mix-up of mailboxes, losers clean up, no ACTIVE account is robbed by another callback, every callback settles |
| `work_item_creation` | 2 creators, 2 keys, a candidate, a context, a change request | 65 thousand | one item per key and candidate, true answers, nobody waits for ever |
| `work_item_changes` | 1 item, 2 change requests, 2 contexts, an editor, versions up to 4 | 341 thousand | the journal explains the row, no lost update, only active contexts are joined |
| `credential_tokens` | 2 processes, 3 threads, 1 credential, 3 lock objects, versions up to 3, both cloud stores | 729 thousand | one refresh at a time in a process, an exact lock table, replacements descend from what they replace, deleted credentials stay uncached |
| `mailbox_reading` | 2 reads, 2 credentials, 5 files, pages of up to 2 messages | 289 thousand | only vetted attachments are sent, history is true, marks follow refusals, every read is answered |
| `request_gate` | every route, every accepted deployment, 4 outcomes of a token's validation, 3 sets of permissions, bodies that are valid, invalid or malformed | 789 thousand | refusal before construction and by the token alone, or by a body that nobody could parse; production is closed, every request is answered with its clients closed |
| `parts` | contexts: 2 contexts, 2 messages, an editor, 2 associate and a remove request; identities: 3 requests of 2 principals, an operator; tokens: 2 threads of a process, versions up to 2; workbooks of up to 3 sheets; consent: 3 directories, 2 scopes, 2 tokens; timeline: 1 message, 2 rows | 145 thousand | one link per message and context; one user per principal, agreeing answers; bounded extraction that loses nothing silently; secrets of the consent, only dead grants given up, but for the exception of section 6; agreeing merges, walks that miss nothing; threads never wait for one another for ever |
| `disconnect_leaves_none`, `archived_until_restored`, `sole_owner`, `truncation_told` | one mailbox, one context, 2 operators, one worksheet | | each a violation: section 6 |

Why the bounds are enough to be interesting. Two requests are the race of every
conditional UPDATE and unique constraint here, as each looks at one row and one
competitor; the workflow run has a third, so that a decision races with two
executions. Two accounts, mailboxes, principals or contexts show mix-ups. Two
threads of one process and one of another are a keyed lock with a waiter and a
competitor for the store; version 3 is a replacement of a replacement, which the
retry of a loser needs. Version 4 of a work item leaves room for every command
after another one that changed what it depends on (archive, restore, move). The
files of `MCMailboxReading` are one of every way a kind is treated and two that must
not pass, and every combination of the provider's three answers occurs. Workbooks
of up to three sheets over bounds of one or two cells, rows and columns reach each
bound alone and together with another. `RequestGate` is not bounded in routes and
settings: all routes meet all accepted deployments. In the timeline two rows and
pages of two with repository pages of one reach a full page, a short one and a
prefix read in several pages, with ties of time.

The bounds on counters, `MaxVersion`, `MaxTokens`, `MaxRows`, `MaxTime` and
`MaxListed`, sit in guards and are named in the modules; where they or used-up requests
stop an instance, its configuration does not check for deadlock, and the others
do. That nothing depends on these numbers is what the proofs add.

`parts` holds six parts that share no variable. An execution chooses one and leaves
the others as they were, so the states add up instead of multiplying.

Every property of a passing run has a mutant in `PROJECT.json`: a dropped
condition in a WHERE clause, a missing reset, a retry of the POST, a check left
out, two parameters swapped. TLC finds the property violated by it under the same
configuration.

## 4. Fairness

Weak fairness of a request's own steps (`RequestStep`, `CallbackStep`,
`DisconnectStep`, `Step` of a read, `Refresh` of a thread, a request in
`RequestGate`). The code justifies it: handlers are synchronous, every HTTP client
has a timeout (`api/dependencies.py` sets 30 seconds), so has every store call, and
there is no waiting loop. Strong fairness where a step is disabled while another
holds a lock and enabled again in between: creators and mutators of work items,
and the advisory lock (PostgreSQL grants locks in the order of arrival), and
`AcquireKey` (the interpreter hands a thread lock to one of its waiters).

Nothing is assumed of people, of the provider, of crashes (which may happen for
ever, and are excused in each liveness property), nor that a user who loaded
an item changes it.

## 5. What is proved

Each proof module establishes an inductive invariant for any number of
requests, rows and names, from the assumptions on constants stated in its model
(`None`, `NoTarget`, `Unset`, `Never` or `Undeclared` is not one of the other names;
Gmail accounts are accounts; bounds and sizes are numbers; files are of the form the
policy looks at, workbooks of the form of `Sheets`). The properties follow. Every
safety invariant and action property that a passing run checks is a theorem.

- `WorkflowActions_proofs`. The safety properties are not inductive: that an
  outcome is true says nothing of a reply still on its way. `OneCopy` says that a
  request on the wire is the only one its action ever had and that the action is
  EXECUTING, `PointsAgree` what a request may conclude from where it is (before the
  POST nothing was sent; after an answer, exactly that), `BeforeExecution` that
  nothing is sent for an action not yet EXECUTING. Theorems: `TypeCorrect`,
  `Invariance`, `Exclusion`, `TruthfulOutcome`, `AtMostOnceAfterApproval`, `Lifecycle`, and
  `Implementation`: every step is a step of `ApprovedDelivery` or leaves it alone.
- `ConnectorCredentials_proofs`. The key is `ReadLocatorsArePublished`: any locator
  in a row, or that a request has read from one, belongs to a callback that is
  past attaching, so it can neither attach it again nor still be about to.
  `PreviousIsStale` says that the locator a reauthorization is about to delete is not
  that of an ACTIVE account. `CallbackHasConsent` and `IdentityMatched` tie a callback
  to its session and mailbox. Theorems: `TypeCorrect`, `Invariance`, `SingleUse`,
  `CredentialMatches`, `Compensation`, `ActiveAccountsWork`, `ConsentedRows`.
- `CredentialTokens_proofs`. `ReferencesCounted` says that the threads an entry counts
  are those that got its lock object and that all got the same, `LocksOwned` that a
  lock object belongs to one key and is held by the thread inside: together they
  are the exclusion. `AdvisoryOwned` says who holds the advisory lock and what a
  comparison made under it is worth until the write. Theorems: `TokenInvariance`,
  `KeyedLocksExclude`, `TableIsExact`, `Descent`, `DeletionLasts`.
- `WorkItems_proofs`. Of `BusinessContexts`: `LinkersHaveContext` carries the foreign key;
  the constraint does the rest. Theorems: `ContextInvariance`, `ContextsWellTyped`,
  `OneLinkPerMessage`. Of `WorkItems`: `HoldersAreExclusive` and `HoldersSeeTheRow` say
  that the row lock keeps the version check true until the write, `LockedContextIsActive` that the
  context lock keeps the status check true until the commit. The journal has an
  invariant of its own, `JournalIInv`: it is numbered without gaps (`Numbered`), and
  explains each column by the last event about it (`Explains`); `LatestIs` and
  `Appended` say what appending events does to the last of a kind, and a change that
  reaches its write differs from the row (`Differs`), so its last event is about it.
  Theorems: `Invariance`, `WellTyped`, `ItemsAreUnique`, `AnswersTrue`,
  `NoUpdateIsLost`, `OnlyActiveContextsAreJoined`, `JournalsExplain`.
- `MailboxReading_proofs`. `Vetted` says, for each point of a request, what has been
  established of the file it holds: `KindPassed`, `Retrieved`, `Scanned`, `CutIsTold`.
  `ContentIsOfItsKind` and `VetPasses` are lemmas about the policy itself, for any
  metadata and bytes. Theorems: `ReadingInvariance`, `OnlyVettedIsSent`,
  `HistoryIsTrue`, `MarksFollowRefusals`.
- `Parts_proofs`, three models that share nothing.
  - `Identities`: `CallersTrack` says what a request knows of the mapping from
    where it is. Theorems: `IdentityInvariance`, `PrincipalsAreUnique`,
    `AnswersAreConsistent`.
  - `MailboxOAuth`: `GrantIsKnown`, `ClaimsAreOfTheConsent` and `RefreshIsOfTheGrant`
    carry the consent through the calls under way. `LiveGrantsAreKept` is about the step
    that ends a refresh: what it takes for confirmed is either an answer of the token
    endpoint, and then the invariant has the grant dead, or has a status that only
    Google's branch reads and its library does not list. It rests on that list, which is
    the library's and not this repository's. Theorems: `OAuthInvariance`,
    `SecretsAreOfTheConsent`, `LiveGrantsAreKept`.
  - `Workbook`: `RowIsRendered` says that the row in the making has one text per column
    so far, none beyond its width, and that with it the texts handed on are no more
    than `cells` (`TextsAreCounted` says so between rows): a bound that is checked cell
    by cell thus bounds the workbook. `NothingLostSoFar` says that while there is no
    reason to truncate, the workbook fits the bounds and exactly the texts before the present
    row were handed on in full (`TextsBefore`). Theorems: `WorkbookInvariance`,
    `ExtractionStaysBounded`, `NothingIsLostSilently`.
- `ContextTimeline_proofs`. First lemmas on orders and slices: a finite set of entries
  is sorted by their places (`OrderedIsSorted`), a slice of it has exactly the entries
  whose places it covers (`SliceOfOrdered`). Then `PrefixReachesThePage`: the repository
  pages that are read, of any size, hold every event whose place is below the end of
  the page. An entry of the page has fewer entries before it than that end, so the
  events among it are in the prefix, and both merges begin alike (`SameBeginning`).
  For the walk, `WalkOnTrack` says that a lasting entry with fewer than `offset`
  entries before it has been shown; a write only adds entries, so places grow
  (`PlaceGrows`) and the statement survives it. Theorems: `MergesAlwaysAgree`,
  `EveryPageAgrees` (offsets and limits beyond the end too), `WalksMissNothing`.
- `RequestGate_proofs`. The tables are proved about as they stand. `Wired` says of each
  dependency that a permission which one of its parameters demands is demanded by
  itself, and how principals lead to checks and checks to authentication; `RouteWired`
  says of each route that its parameters demand no more than is documented and that
  the first leads to a check of exactly that. `GateComesFirst` follows: what is
  resolved next before the gate belongs to the gate. The invariant `GateIInv` says where
  a request may be: a caller who is not entitled only before the gate
  (`StopsUnentitled`), nobody behind a principal without authentication
  (`StopsEverybody`), and an entitled caller only at checks it passes
  (`PassesEntitled`). A malformed body never gets that far: its request is refused with
  nothing resolved, and `Refused` names the statuses it can have. Theorems:
  `GateInvariance`, `RefusalComesFirst`,
  `ProductionStaysClosed`, for any claims in the token.

Only model-checked: liveness (`ExecutionSettles`, every `RequestsReturn`, `ConsentSettles`,
`ReadsReturn`, `CallsReturn`, `AnsweredAndClosed`), which rests on ENABLED and is out of
the prover's reach. `KeepsPromise` is proved and checked for the safety part of
`ApprovedDelivery`, which has no fairness.

## 6. What was found

Four statements of the repository that the code does not keep, each the property
of a run in which TLC finds the interleaving or the input:

1. `DisconnectLeavesNoCredential` (ADR-023: after a disconnect no usable credential is
   left). The UPDATE of a disconnect clears any locator, not the one it deleted.
2. `ArchivedUntilRestored` (ADR-029: only Restore leads back to active). An update that
   overlaps an archive writes the old status back.
3. `SoleOwner` (`owner_bootstrap.py`: promotes the *sole* owner). Two operators count
   none and both promote.
4. `TruncationIsTold` (phase 21B report: truncated whenever sampling occurred). A
   worksheet without a declared dimension loses its further rows without a word.

More of the kind is in the models and no run is about it.

- `docs/api/error-handling.md` (line 48) has a provider's 5xx remain a 503 that leaves the
  account as it is. At Microsoft it does. At Google a 502 or 504 is not retryable for the
  library, so one whose body says `invalid_grant` marks an account REAUTH_REQUIRED while
  its grant is alive; the same goes for a 403 of something between (`Misleading`).
- The same page (line 7) has an invalid body rejected before any application code runs.
  That is so of a malformed one. A body that is JSON and fails its model is answered
  after every dependency: 401 or 403 come first, and of an entitled caller the service
  of the route has been constructed by then.
- A link can be added to a context that is archived between the check and the
  INSERT, which takes no lock (ADR-029 forbids the operation on archived contexts).
- CONNECT of a mailbox in REAUTH_REQUIRED replaces the locator and never deletes
  the previous credential, which stays in the store (REAUTHORIZE does delete it).
- Between the two lookups of a work item's creation the twin of a request can
  commit; the second request is then told of a candidate conflict with its own
  twin, although a replay by key would have been possible.
- An execution can turn EXECUTING after its account was disconnected, because the
  account is read before the commit and not locked; the executor's token lookup
  then fails closed.
- A mailbox read that failed on an old credential can mark an account
  REAUTH_REQUIRED after a callback has made it ACTIVE with a new one, because the
  UPDATE compares the status and not the locator.
- A refresh token that was rotated in an answer whose access token cannot be used
  (missing, or without an expiry) is not stored: `RefreshUnusable` fails before the
  replacement, and the next refresh uses the old one.
- Google's revocation takes any answer of 4xx as done, 429 included; nothing
  depends on it, as a disconnect ignores the outcome.

Three exceptions in properties are deliberate. That of `OnlyDeadGrantsAreGivenUp` is the
first item above. `ActiveCredentialIsStored`: when the
commit that attached a credential was durable but reported as failed, the
callback deletes the credential it has just attached, and the account is ACTIVE
without one until its next use marks it. `ReplacementDescends`: on Azure, once an
advisory lock was lost with its connection during a write, `set_secret` may put a
stale replacement over a newer one; on AWS the stage move is conditional and no
exception is needed.

## 7. What is not modelled

See the table of components in `PROJECT.json` with the reason for each. In short: AI
providers, message building and normalisation, the text extraction of PDF, DOCX
and plain text, migrations, logging and the frontend are conversions and I/O
without state shared between requests. Work-item provenance and context
suggestions read stored rows in one transaction and write nothing; a suggestion
checks the status of each context again before it is returned. Within the
modelled components: `register()` of connector accounts (nothing calls it), due
dates and sources of work items, the optional analysis of a link, cursors of
mailbox listings, PKCE and state values (taken as fresh), signatures of ID tokens
and bearer tokens (valid or not), the memory store of credentials, profile fields
of a user. The timeline has one clock: instances whose clocks differ can insert
an entry below the head of a timeline that is being walked.

## 8. What could come next

- `WorkItems` with sources and provenance, and abstract specifications of idempotent
  creation (a map from keys to items) and of a versioned register it implements.
- `ConnectorCredentials`, `CredentialTokens` and `MailboxReading` over one secret store:
  today each has the effect of the others as nondeterministic steps.
- The cursors of the two providers' listings, and the listing of attachments over
  many pages.
- The refinement of those abstract specifications as theorems, and the page cursor of
  a provider's listing proved like the walk over a timeline.
