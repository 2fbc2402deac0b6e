# Mimir backend: specification, model checking and proofs

This directory holds TLA+ modules for the parts of the Mimir backend whose
correctness depends on what overlaps with what, what fails half way, and what
is old when it is used: the life of a document's versions, the review of what
agents propose, the idempotency keys of the write endpoints, the folder tree,
the policy cache of the workers, annotations and their retention, the search
index, conversations and their expiration, and the review of extracted fields.
Every definition is translated from the source; paths below are relative to
`src/`.

- [1. The system](#1-the-system)
- [2. What is modelled, and how it corresponds to the code](#2-what-is-modelled-and-how-it-corresponds-to-the-code)
- [3. The runs](#3-the-runs)
- [4. The proofs](#4-the-proofs)
- [5. Where the code departs from what it says](#5-where-the-code-departs-from-what-it-says)
- [6. What is not modelled](#6-what-is-not-modelled)
- [7. What is left](#7-what-is-left)

## 1. The system

Mimir is a FastAPI service over PostgreSQL (with Valkey for caches, broadcasts,
one-time marks and cool-downs, and Milvus for vectors). It runs as four uvicorn
worker processes (`Dockerfile:53`), each with its own memory, caches and
scheduler threads. A request is served by one thread in one transaction, opened
by `get_db` (`app/db/connection.py:95`): it commits when the handler returns
and rolls back when it raises. The isolation level is PostgreSQL's default,
READ COMMITTED, and the handlers read with plain SELECTs and write with UPDATEs
that carry no condition on what was read. That is where most of what can go
wrong comes from.

| Component | State it keeps | Operations | Hard behaviour | What makes it correct |
|---|---|---|---|---|
| Versions and drafts (`draft_service`, `versions_service`, `versions_repository`, `nodes_repository`) | `documents` (two pointers), `versions` (two status columns, number, snapshot), `nodes` | save, discard, publish, create, restore | reads before writes without locks; two first saves; publish and discard from stale readings; keys violated half way | pointers stay in the document and refer to live rows; the nodes of a version with a snapshot mirror it; published content does not change |
| Workflow (`workflow_service`, `domain/workflow`) | `versions.workflow_status` | six actions under a transition table and a role table | two actions on one reading; a second way of publishing beside the draft's; start-up fills the column | transitions follow the table; the two columns do not contradict each other |
| Agent proposals (`agent_proposal_service`, `proposal_queue`, `agent_repository`) | `agent_proposals`, `mcp_tasks`, `agents`, and rows in `versions` | propose, approve, reject, withdraw, roll back, kill switch, delete agent | decisions that overlap; retries with a key; the lifecycle working on the same rows | nothing is published before its review; the queue and the version tell one story |
| Idempotency (`idempotency_service`, `idempotency_repository`, `documents`) | `idempotency_records` | check, reserve, write, finalize | three transactions per request, crashes between them, a failing store that is passed over | one reserved write per key; an answer names a committed write |
| Folders (`folders_service`, `folders_repository`) | `folders`: a parent, and a copy of the place (path, depth); `document_folder` | create, rename, move, delete, place a document | a subtree rewritten by a LIKE pattern; checks on paths that others rewrite | copies follow the parents; no cycle; a move touches its subtree only |
| Scope policy cache (`scope_profile_policy`, `cache/pubsub`) | a dictionary per worker | look-up, PATCH, delete, broadcast, reconnect | lost messages, a read cached after its invalidation | a setting is answered for a bounded time after it was withdrawn |
| Annotations, mentions, retention (`annotations_service`, `notifications_service`, `retention_job`) | `annotations`, `annotation_mentions`, `notifications`, `annotations_archive` | create, reply, edit, resolve, delete; a batch in every worker | a reply to a thread that is being moved; batches that overlap; edits from a stale reading; notifications dropped at a limit | a reply has its root; who is mentioned is told, or passed over at the limit; what is moved is archived |
| Vectorization (`vectorization_service`, the pool of `api/v1/workflow`) | `document_chunks`, `nodes`, Milvus | index after a publish or on request, clean up | background runs that overlap, wait for each other, fail in the middle and commit all the same, stop with the process | one current generation; what can take a published version out of the index is known |
| Conversations (`multiturn_rag_service`, `citation_cache`, `conversation_repository`, `expiration_batch`) | `conversations`, `turns`; a window of recent turns in the memory of each worker | ask, store the answer, update, delete, expire | a number read before the model is called and used after; windows lost or full; a batch per worker | answers are stored in an order that fits their histories; what is due expires |
| Extraction review (`extractions`, `admin_extraction_results` and their repositories) | `extraction_candidates`, `approved_extractions` | approve, modify, reject, in batches | overlapping reviews; errors caught inside a transaction; deadlocks | an approval has its row; an answer is true; every request ends |
| Refresh tokens, reset and e-mail tokens, users, organisations, OAuth, authorization | tables and marks of their own | authentication | | left out, section 6 |
| Batch extraction, alerts, view throttle, evaluation, collections, tags, links, saved views, vault import, MCP server, search and RAG, audit, rendering and diff, plugins, schedulers | tables of their own, or none | mostly CRUD, queries and pure functions | | left out, section 6 |

How they interact. The draft endpoints, the workflow endpoints and the proposal
endpoints all write the same `versions` rows, through different services, each
with its own idea of the state of a version: `status`, `workflow_status`, and
the status of the queue row. `init_db` joins in at every start, when it fills
empty `workflow_status` values from `status`
(`app/db/connection.py:235`). The idempotency store wraps two of the write
endpoints from outside, in transactions of its own. A workflow publish hands the
version to the indexing through a thread pool, and a save replaces the node rows
that an indexing refers to. A PATCH of a scope profile in one worker invalidates
the caches of the others through Valkey. The schedulers start the retention and the
expiration batch in every worker at the same hour, beside the handlers that write
the same rows. PROJECT.json lists the hazards this gives, each at its line, and
the properties aimed at it.

## 2. What is modelled, and how it corresponds to the code

| Module | Stands for |
|---|---|
| `VersionLifecycle` | the tables `documents`, `versions`, `nodes` and every handler of `DraftService`, `VersionsService`, `WorkflowService` that writes them, with the start-up migration |
| `DocumentSlots` | the abstract specification: what the version store promises of a document's draft slot and published slot |
| `VersionRefinement` | the mapping from `VersionLifecycle` to `DocumentSlots` |
| `VersionPromises` | what comments and docs promise of a version |
| `AgentProposals` | the proposal queue, the agents and the mcp tasks, composed with `VersionLifecycle` over the shared tables |
| `ProposalPromises` | what comments and docs promise of versions and proposals served together |
| `Idempotency` | `IdempotencyService` around the write of `POST /documents` and `POST /documents/{id}/versions` |
| `Folders` | the folder tree of one owner, with its materialized paths |
| `PolicyCache` | the cached setting of one scope profile in every worker, its invalidation by broadcast, and time |
| `Annotations` | the threads of a document, their mentions and notifications, and the retention batch |
| `ChunkIndex` | the indexing runs of one document, its chunks and vectors |
| `Conversations` | conversations, turns, the workers' windows and the expiration batch |
| `Extractions` | the candidates under review and their approved rows |
| `MC*` | constants and symmetry for TLC |
| `*_proofs` | theorems and proofs |

**How a request becomes steps.** A request is its reads, one step for each
point where another transaction may commit in between and change what follows,
then one step with all its writes and the commit. Merging the writes is sound
because a row that was updated stays locked until the transaction commits: no
other transaction can read an uncommitted value or write between two writes of
one row. Where a transaction writes several rows one after the other with work
in between, so that others meet its locks, the writes and the commit are steps of
their own and the locks are in the model: `ChunkIndex`, `Conversations` and
`Extractions`. Transactions that wait for each other in a circle are aborted by
PostgreSQL (`Abort`, `StatementFails`, `RolledBack`). Reads stay apart from
writes because a plain SELECT takes no lock. Where the code does lock, the step
is atomic: `batch_rollback` reads its row FOR UPDATE, so `Rollback` is one step.

**VersionLifecycle.**

| Variable | Code |
|---|---|
| `documents[d]` | `current_draft_version_id`, `current_published_version_id` |
| `versions[v]` | `document_id` (None: not inserted), `version_number`, `status`, `workflow_status`, `content_snapshot` (abstracted to its set of node ids) |
| `nodes[n]` | the primary key of `nodes` and the version that holds it |
| `tx[r]` | the local variables of the handler that serves r |

`Save*` is `save_draft` (read the document, check the draft's state, read the
next number, then update or insert and rebuild the nodes), `SaveViolatesKey` its
end when a node id belongs to another version; `Create*` is `create_version`, which
inserts the request's nodes, under ids of the database's, for a version that has no
snapshot; `Discard*`, `Publish*` the draft endpoints;
`WorkflowRead`/`WorkflowWrite` the six workflow actions with the endpoint's
roles, the transition table and the role table as they stand in
`authorization.py`, `policies.py` and `workflow_service.py`; `Restart` the
migration at the start of a worker; `Abort` every rollback, that of a worker that
stops included. A worker that starts fills the column beside the requests of the other
three, so `Restart` leaves `tx` alone.
`expected_current_status` is compared with the very status that was read, so it
cannot tell one reading from a later one and has no variable. `restore` has no
action: no role that reaches it passes its check (section 5).

**AgentProposals** extends it. `proposals[v]` is the queue row of version v,
`tasks[v]` its mcp task, `agents[a]` the agent's row with its kill switch.
`ProposeCheck`, `ProposeReadNumber`, `ProposeInsert` are `propose_draft`: the
agent's check and the key's look-up, the next number, the three inserts.
`DecideRead`/`DecideWrite` are approve, reject and withdraw: they read the
workflow state, then update the version without a condition, the queue row only
while it is pending, and the task only while it waits for input.
`ServeLifecycle` interleaves every action of VersionLifecycle; a worker that is
in a proposal call serves nothing else. A batch request is modelled as one
decision per transaction. Left out: the transition proposals, whose rows are
inserted and neither read nor decided by anything, and the new document
`propose_draft` may insert (a document with no versions is in `Init` already).
A withdrawal comes from an active agent; the code does not ask that it be the
one that made the proposal.

**Idempotency.** `records[k]` is the row of a key, `created[x]` the write that
made resource x, `request[r]` the handler's local state, `answers` what clients
were told. `reserved`, in a request and in a write, is history: it says whether
the request holds the key's reservation or was let through by the fail-open
handler. The three transactions are separate steps with `Crash` possible
between any two; `StoreMayFail` switches failures of the store. A body is its
fingerprint.

**Folders.** `tree[f]` is a live row: parent, name, and the copies `path` and
`depth`. `placed[d]` is the row of `document_folder`, `pending[c]` what a
request has read: each operation is a `...Read` (ownership, parent, cycle and
depth checks, counts) and a `...Write`. `Accepted` is the table's constraints:
a write they refuse is rolled back. A path is a sequence of names, and LIKE is
modelled by what it does: `Like` compares name by name. Neither `_` and `%` nor
the backslash, which is LIKE's own escape character, is escaped in the pattern
(`folders_repository.py:162`, :214). The constant `Left` says which names act as
patterns for others, and what a cut at the pattern's length leaves of the other;
`Escaped` are the names with a backslash, which do not match themselves, so that
LIKE finds nothing of what is below such a folder. A request's `late`, and
`overlapped` and `stranded`, are history: a write was committed since it read,
some write followed such reads, and some rename or move was committed while LIKE
missed a row below its folder (`Strands`).

**PolicyCache.** `cache[w]` is `_cache` of worker w, `link[w]` its subscription
(a break is noticed later), `inbox[w]` the messages under way, `call[c]` a
thread in `should_expose_viewers`, `patch[w]` how far a PATCH in w is: commit,
clear the own cache, publish. `Dispatch` is the subscriber's handler, `Subscribe`
a reconnect, `Restart` a worker's stop and start, `DeleteProfile` the delete that
tells nobody. `Tick` makes every entry and call one unit older; a call ends
within `Slow` ticks, an assumption, since the code puts no bound on the time of
a database read. `ago`, `missed` and `raced` are history: how long the setting
has been off, which workers a message never reached, which were cleared while
one of their calls held an older value.

**Annotations.** `row[a]` is an annotation (or how it went), `mentions`, `told` and
`archive` the three tables beside it, `request[c]` what a reply or an edit has read,
`job[j]` the snapshot of a batch. A new annotation mentions the users of its text and
those picked for it (`ps`, the explicit ids of the request); an edit mentions the users
of its text only, as `update_content` does. `Tell` is `enqueue_mention`: `recent` counts
what an author sent a user in the last minute (`MinutePasses` lets one of them grow
older), and from `Limit` on the notification is dropped for good. The count and the
insert are one step, so the model keeps to the limit more strictly than overlapping
requests of the code do. The batch is one SQL statement with data-modifying CTEs: it
archives the rows of its snapshot (`JobStart`), and deletes, with the foreign key's
cascade, the rows there are (`JobFinish`). `meanwhile`, `picked` and `dropped` are
history: what was written while a batch had its thread, who was picked beside the
present text, and who was not told.

**ChunkIndex.** `run[r]` is an indexing, `chunks[r]` the generation it inserted,
`nodes[v]` the committed copies of the node rows of a version (a save's or a
run's), `vectors` the generations that reached Milvus. `Start`
reads the node rows, or parses and inserts them; `EmbedRaises` is the error
that is caught inside the transaction, which then commits; `Retire` is the
snapshot of the UPDATE, `Write` its rows once no other run holds them, the
inserts, and the vectors, which are written before the commit. `_save_chunks`
gives each INSERT a savepoint, logs its error and goes on: the foreign key refuses a
node that a save has replaced, and with `ok` FALSE every INSERT fails for whatever
other reason; a run whose INSERTs fail in part is one that inserted a smaller
generation. `Commit`, `RolledBack`, `Crash` and `Cleanup` are the ends. `Pool`
bounds the runs that follow a publish, as the executor does. `Bare` are versions
saved before a save wrote node rows (`draft_service.py:226`). A run's `meets` is
history: which runs and saves it overlapped.

**Conversations.** `status`, `deleted`, `due`, `turns` are the tables (a turn
is the call whose answer it stores), `window[w]` and `order[w]` the in-memory
deques of a worker with their eviction, `call[k]` a request: `Ask` takes the
number and the history and waits for the model; `Answer` joins the window and
reads the row; `Save` inserts the turn. A worker does not switch to another
answer between the last two, because there is no await between them (`Busy`);
batches, handlers in threads, and other workers do interleave there. `List`,
`Mark`, `Commit` are the expiration batch, with its row locks (`Locked`) and its
audit events, which are committed at once on a connection of their own: `owed`
holds what was audited and is not expired yet. The list of a batch is a set, of the
soonest rows: it updates them one by one and the order shows nowhere. `torn` and
`cut` are history: conversations whose turns no single window has held, and calls
whose window was evicted before their answer came. A conversation's owner check and its
texts are left out.

**Extractions.** `status`, `edits`, `approved` are the tables; `call[k]` is a
review of one candidate or of a list: `Look` reads the candidate and inserts the
approved row, `Decide` updates the status when no other request has the row,
`Finish` commits and answers. `Refuse` is the error of one candidate: the end
of a single review, a failed id of a batch. `StatementFails` is an error of the
database, which aborts the transaction a batch goes on with; COMMIT is then a
rollback that raises nothing. `Waits` and `Deadlocked` are PostgreSQL's. The re-extraction
of approved documents is not part of it: no job can be created (section 5).

Bounds on state: `MaxVersionNumber` (guards of the inserts), `MaxDepth` (the
code's own), `MaxInbox`, `MaxRun`, `MaxCall`, `MaxFault`, `Horizon` (ages
saturate, from where nothing can tell them apart), and the pools of ids
(`Version`, `Resource`, `Folder`, `Ann`, `Save`). Nothing else grows.

## 3. The runs

| Run | Instance | What it shows |
|---|---|---|
| `versions` | 2 documents, 2 versions, 1 node id, 2 requests | the structural invariants and the refinement to `DocumentSlots`, under every interleaving with restarts |
| `one_at_a_time` | 1 document, 2 versions, 1 node id, 1 agent, 1 key, 1 request | what the code promises of review, workflow and queue holds as long as requests do not overlap |
| `proposals` | 1 document, 2 versions, 2 agents, 1 key, 2 requests | the review cannot be by-passed, the draft is a human's, no step of the composed system reopens a version |
| `idempotency` | 2 keys, 2 bodies, 3 resources, 2 requests, failing store | one reserved write, truthful answers that agree |
| `folders` | 3 folders, 2 names, one of them a pattern for the other, which holds a backslash, 1 document, 2 requests, depth 0 to 3 | paths follow parents and parents close no cycle until a write follows old reads or LIKE misses a row below its folder; a move touches its subtree only |
| `policy_cache` | 2 workers, 1 call at a time, time to live 2, a call up to 1, 1 message under way | a withdrawn setting is answered for a bounded time, whatever messages are lost; it is gone for good at last |
| `annotations` | 2 annotations of an author, 1 user to mention, 1 notification a minute, 2 requests, 2 batches, at most three of the four at work | threads are whole, mentions follow the text and are told or passed over at the limit, what a batch deletes is archived as it last was |
| `chunk_index` | 1 version without node rows, 3 runs, 1 save, a pool of 1 | the version is indexed once unless runs overlap; it leaves the index only by the commit of a run that inserted nothing, the search only by that of a run without vectors; runs end |
| `conversations` | 1 conversation, 1 made-up session, 2 workers, 3 requests, window 1, capacity 1, batches of 1, 1 failure | turns fit their histories, a lone answer is stored, what is audited is expired, what is due expires |
| `extractions` | 2 candidates, one without fields, 4 lists, 2 requests, 2 failures | approvals have their rows, rows their decisions, answers are true, every request ends |
| `edit_after_publish`, `turn_numbers` | the smallest instance; that of `conversations` | one documented promise each that the code does not keep (section 5) |

*Properties.* The invariants of `versions` are the ones the code never checks:
foreign keys accept any version as a pointer, nothing keeps the nodes and the
snapshot together but the order of statements, and no statement compares what it
overwrites. `DraftPointerIsLive` and `PublishedPointerWasPublished` are as
strong as the code allows: the workflow's publish leaves the draft pointer on the
version it published, and a discard then marks that version. `ImplementsSlots`
says that for all its races the store still behaves like two slots of a
document: only a version created in that step enters the draft slot, and a
published slot is never emptied. In `proposals`, `NothingPublishedUndecided` is
the point of the queue: there are two ways of publishing, and neither publishes
an agent's version before its first decision.

Where an unconditional property fails for the code because two actors overlap,
the property says exactly which overlap it needs, from a history variable, and
claims everything else: `...UnlessLeft` of the folders, `...UnlessTogether`
of the index and the review, `meanwhile` of the retention, `missed` and `raced` of
the policy cache, `torn`, `cut` and `alone` of the conversations. These are not
preconditions that hide the interesting case: an overlap excuses the very rows it
touches and no others, the run contains it, and a single actor that fails, stops
or is retried is excused nothing. `overlapped` and `stranded` of the folders are the
coarsest of them, because a wrong path spreads to whatever is written below it later;
`stranded` is set by the one write that leaves rows behind, not by the presence of a
name with a backslash. `ChunksStay` and `SearchStays` excuse a failure instead of
an overlap, and name it: a commit, and what the run that commits did not write.

*Bounds.* Two requests suffice for the races on versions, each of which is one stale
reading against one commit; a third request would have to be stale against two. Two
documents and two versions of them distinguish "another document's version" from
"another version of mine". One node id in `versions` is enough to be held by the wrong
version. In `proposals`, `NodeId` is empty because proposals share only the insert with
the nodes, whose consistency `versions` checks, and the constraint
`SecondVersionWhileUndecided` follows one version to the end of its life and lets a
second exist only while a proposal is undecided, which is when the two can be confused.
In `folders`, three folders make a chain of three, a move of a subtree below its
sibling, and a neighbour whose name matches a pattern; the names are "my_list", which
stands for the other too, and "my\list", which does not even stand for itself (for a `%`
see section 5); the constraint `WhileRight` stops where the properties claim nothing
more. In `policy_cache`, one worker answers and both serve PATCHes, which gives a worker
that is told by itself and one that is told by others; a time to live of 2 and calls of
1 let an entry be young, old, and too old by the length of a call. In `annotations`, a
root and a reply are a thread with its cascade, two batches can have the same thread, a
limit of 1 is reached by the second mention, and the author is not the user who is
mentioned (authors are passed over by `Tell` whatever the limit; the proofs have any
authors). The constraint `ThreeAtWork` leaves out the states in which both requests and
both batches are under way. In `chunk_index`, three runs of one version are two that
overlap and one before or after, and a pool of 1 makes runs wait for a thread while they
hold rows. In `conversations`, a window of 1 is full after one answer and a capacity of
1 is full after one conversation, three calls then show the answer before, the one at
the boundary, and the one after. In `extractions`, two candidates in either order are
enough for two batches to wait for each other, and one candidate twice in a list for a
batch to meet its own decision. The proofs of section 4 have none of these bounds.
Symmetry is over model values that no definition tells apart, and used with safety
properties only.

*Deadlock* is checked in `versions`, `one_at_a_time`, `proposals`, `idempotency`,
`policy_cache` and `edit_after_publish`: there something can always be begun, aborted or
restarted. In the others the bounded supply of ids, calls or runs may be used up, and
the system stops then (`CHECK_DEADLOCK FALSE`); that those who wait for each other do go
on is what `RunsEnd`, `RequestsEnd` and `DueIsExpiredAtLast` are for.

*Fairness* is weak everywhere, and of what a running thread, process or the
clock does; nothing is assumed of clients, of deliveries, of the provider, or of
failures.

| Run | Fair | Why the code justifies it | Liveness |
|---|---|---|---|
| `policy_cache` | `Tick`; the steps of each call | time passes; a thread in `should_expose_viewers` waits for one bounded read | `HiddenAtLast` |
| `chunk_index` | `Goes(r)` of each run | a thread of the executor that runs goes on, a free thread takes the next submission, PostgreSQL gives a row lock once it is free; failing steps are not in `Goes` | `RunsEnd` |
| `conversations` | `Batch(w)` of the workers with the schedule on | `scheduler.py` wakes up again and again and calls the batch; a batch goes on as long as nothing fails | `DueIsExpiredAtLast` |
| `extractions` | `Serve(k)` of each request | a request runs in a thread of its own; among those that wait for each other PostgreSQL fails one after `deadlock_timeout` | `RequestsEnd` |

The other components have no liveness to state: each request ends by itself, and
nothing in them waits for another request, other than by PostgreSQL's row locks,
whose cycles are broken by an abort.

## 4. The proofs

All theorems hold for every value of the constants: any number of documents, versions,
requests, agents, keys, workers, annotations, batches, candidates, runs, calls and
folders. Two groups have a hypothesis of their own, written in the theorem: one request
at a time, and names without `%` (below). The other assumptions are named in the modules
that declare the constants and evaluated by TLC in every run: `None` and the other marks
differ from every value they stand beside (`NoneIsNoRow`, `NoneIsNoProposal`,
`NoneIsNoValue`, `NoneIsNoSetting`, `NoneIsNoAnnotation`, `NoneIsNoRequest`,
`NoneIsNoAnswer`, `RootIsNoFolder`), bounds and times are natural numbers
(`NumbersAreBounded`, `TimesAreNatural`, `BoundsAreNumbers`, `LimitIsNatural`,
`DepthIsNatural`, `SavesAreNoRuns`), a constant that relates two sets relates those sets
(`HomesAreWorkers`, `InputsAreCandidates`, `BareAreVersions`, `SessionsHaveNoRow`,
`SomeWorkerExpires`), sizes that must be positive are (`WindowHoldsTurns`,
`BatchTakesSome`), `Left` gives names and `Escaped` are names (`LeftIsNames`,
`EscapedAreNames`), a flag is a flag (`StoreMayFailIsFlag`).

| Module | Theorems |
|---|---|
| `Documents_proofs`: `Spec` of `VersionLifecycle` | `TypeCorrect`, `PointersCorrect`, `DraftPointerLives`, `PublishedPointerCorrect`, `NumbersUnique`, `NodesMirror`, `ColumnsAgree`, `NeverReopened`, `DraftMovesForward`, `Refinement` |
| `Documents_proofs`: `ProposalSpec` of `AgentProposals` | `ProposalTypeCorrect`, `ReviewComesFirst`, `DraftsAreHumans`, `KeysAreUnique`, `DecidedOnce`, `NeverReopenedByAgents`, `LifecycleHoldsBesideProposals`, `RefinementBesideProposals` |
| `Documents_proofs`: `ProposalSpec`, one request at a time | `QueueTellsTheTruth`, `ReviewFreezesContent`, `PolicyIsFollowed` |
| `Idempotency_proofs` | `TypeCorrect`, `OneReservation`, `AnswersAreTrue`, `AnswersDoAgree`, `RecordsAreKept` |
| `PolicyCache_proofs` | `TypeCorrect`, `ExposureIsBounded`, `CutOffReadsThrough`, `ToldIsCleared` |
| `Annotations_proofs` | `TypeCorrect`, `ThreadsAreWhole`, `MentionsAreTold`, `ArchiveFirst`, `ArchiveIsLast`, `ArchiveIsKept` |
| `ChunkIndex_proofs` | `TypeCorrect`, `IndexedOnce`, `CopiedOnce`, `ChunksAreKept`, `SearchIsKept` |
| `Extractions_proofs` | `TypeCorrect`, `ApprovalsAreBacked`, `DecidedOnce`, `RowsHaveTheirDecision`, `AnswersAreTrue` |
| `Conversations_proofs` | `TypeCorrect`, `HistoriesAreListedFirst`, `LoneAnswersStayStored`, `AuditTellsTheTruth` |
| `Folders_proofs` | `TypeCorrect`; for names without `%`: `CopiesFollowParents`, `ParentsHaveNoCycle`, `WritesStayInTheirSubtree` |

Every invariant and every action property that a passing run checks is a theorem.

*Versions.* The inductive invariant is `TypeOK /\ ReadsStayTrue /\ TablesInv`.
The tables' invariants are not inductive by themselves: a write is as good as
the reading behind it. `ReadsStayTrue` says what of a reading survives any
commit of others: the versions a request has read belong to the document it
serves for good, a draft it goes on to publish or discard was there, and a
version it goes on to archive has left the status draft, to which nothing
returns. One lemma shows that every step keeps it; a lemma per write then shows
that the write keeps `TablesInv`, given the reading. Numbers are unique by the
key of the table alone, however stale the reading. `NeverReopened` needs only
that rows persist.

*Refinement.* Under the same invariant each write maps to `Create`, `Drop` or
`Publish` of `DocumentSlots`, and every other step stutters.

*Proposals.* `CallTyping /\ ReviewInv /\ QueueInv`. `ReviewInv` says that an
undecided version is in the state `proposed` and not published, that the draft
pointer refers to humans' versions and, the part that makes it inductive, that
what the lifecycle's requests have read of drafts are humans' versions and what
they have read for a workflow action is not undecided. `QueueInv`: a row of
the queue refers to an agent's version. Typing of the lifecycle's steps is not
proved again, its lemmas are cited; how those steps leave a proposal alone is
one lemma for each part of `ReviewInv`.

*The lifecycle beside the proposals.* `BesideInv` is `CallTyping /\ ReviewInv /\
QueueInv /\ IInv` and `DecidesExisting`, that a decision under way is about a version
that exists. The lemmas on the lifecycle's writes are used again for `ServeLifecycle`;
what is new is that the three inserts of a proposal, a decision and a rollback keep
`TablesInv`, and the readings of the requests beside them. With it every invariant of
the version tables and the refinement of `DocumentSlots` hold for `ProposalSpec`, and
not only where TLC could carry both state spaces.

*One request at a time.* `QueueAgreesWithVersion`, `ReviewedContentIsFrozen` and
`WorkflowFollowsPolicy` are what the code promises and an overlap breaks (section 5), so
these theorems assume that `Request` has at most one element, and nothing about the
number of agents, documents, versions or keys. `SerialInv` adds to `BesideInv` that what
the one request has checked still holds when it writes (`ChecksHold`), that the queue
row agrees with the version (the mcp task is not part of it: a rollback leaves it
behind, section 5), and that only agents' versions are ever in the state `proposed`
(`ProposedByAgents`). It is over histories of any length: decisions, rollbacks,
resubmissions and start-ups in any order.

*Idempotency.* `TypeOK /\ ResponsesInv /\ ReservationInv`: a key has a record,
or else neither a request nor a write that holds its reservation; the holder in
flight and the write it made exclude each other. The answers need two more
invariants: `BodiesInv`, that the record of a key has the fingerprint of the body
its holder sends or has written, and `AnswersInv`, that an answer, a completed
record and a response in hand all name a committed write of that key, of that body when it
was made under the reservation. Two answers agree because the write they name
under one reservation is one.

*Policy cache.* `AgesAreTrue`: an entry or a call that says TRUE is at least as
old as the last moment at which the profile exposed its viewers. That the time is
taken before the read is what makes it inductive. `StaleIsTold`: a stale
entry has an invalidation under way, or its worker missed one, or a call was
filling the cache when it was cleared; it is inductive together with its
counterpart for the calls that have read and not stored yet.

*Annotations.* `ThreadInv`: replies have their root, mentions are those of the text
and those picked for it, and whoever is mentioned, or was when a request under way
read the mentions, has been told or was passed over at the limit (`TellTells`: that
is what one call of `enqueue_mention` leaves of each user, for any limit and any
authors). `ArchiveInv`: what is
in a batch's snapshot and was not written since is as in the snapshot, or gone, and
then archived that way if it was a batch that took it.

*Chunk index.* `TypeOK /\ IndexInv`: two runs of a version that are under way know
of each other (`Meeting`); only a run that has ended has rows committed
(`WrittenByEnded`); what a run is about to retire is all there is, but for what
came from runs it met (`RetiresOrMeets`); a run that writes node rows met every
other writer (`CopiesMeet`); unless a save fell into it a run keeps node rows to
refer to, so that it inserts unless its INSERTs fail (`KeepsItsCopies`); and a run with
vectors has inserted (`VectorsInserted`). Only `Commit` retires chunks, and only those
of its version (`CurrentStays`); what it retires it replaces when it inserted
(`CommitInserts`): that gives `ChunksStay` and `SearchStays`.

*Extractions.* `TypeOK /\ ReviewInv`: what a request has decided it has also added, but
for rejections, and, blank candidates aside, nothing else unless the transaction is lost
(`AllSteady`); requests that are under way together know of each other (`Met`);
committed decisions are in the tables (`Stored`) and rows come from committed requests
(`Sourced`); two committed requests that did not meet decided different candidates
(`AllApart`).

*Conversations.* `NumbersInv` for the order of the turns: a window holds answers of its
own worker and conversation (`WindowIsOwn`); while it is not full their numbers
are at most its length (`WindowCounts`), so that a number handed out now is larger than
all of them (`AskingCounts`, `HistoryCounts`). An eviction makes a window short again while a
call still holds a larger number: that call is in `cut`, and excepted. In a full window
numbers repeat, at `Window + 1`, and there the unique key of the table, which stores
one of them only (`TurnsAreUnique`), keeps the order. `LoneInv` for
the lone answer: whatever is stored of a conversation that is not `torn` is in one
window or has been pushed out of it (`StoredIsRemembered`), so the next number is taken
by nobody (`LoneIsNext`). `AuditInv` needs of a batch only that no transaction was lost.

*Folders.* Everything is `ShapeInv /\ TreeInv`. `ShapeInv`: the rows, and what a request
remembers, have the shape of the table and non-empty paths; what could break it
`Accepted` refuses. `TreeInv`, until `overlapped` or `stranded`: every row's path and
depth are those of its parent plus one, and what a request that is not `late` has read
is still so. The step that needs an argument is the rewriting of a subtree. That LIKE
finds all of the subtree is what a write that does not set `stranded` says;
`HitsAreBelow` says that it finds nothing else: a hit g has an ancestor a whose path is
as long as `old` (`Ancestors`), a is a hit too, a's new path would be the new path of
the folder itself, and the unique paths let only the folder have it. So the write is a
graft (`Grafted`), and `GraftKeepsCopies` shows for any tree that a graft outside its
own subtree keeps every copy right, `GraftIsLocal` that it changes paths below the
folder only. `ParentsLeadOut` gives the absence of cycles: of a set of folders, the one
with the shortest path has its parent outside. Where the argument seems to need
induction over paths or chains of parents, a least number does (`LeastNumber`, from the
well-foundedness of the naturals). The last three theorems take names without `%`
(`NoPercent`); `_` and the backslash they may have. A name with `%` takes a neighbour
along (section 5), and the copies of that neighbour no longer follow its parent.
`TypeCorrect` holds for any `Left`.

What stays with TLC: liveness under fairness (`HiddenAtLast`, `RunsEnd`,
`DueIsExpiredAtLast`, `RequestsEnd`), which the installed provers do not reach, and the
counterexamples.
No module needs a RECURSIVE operator.

## 5. Where the code departs from what it says

Two disagreements have a run that finds them, and their quotes in PROJECT.json.

1. `edit_after_publish`: `save_draft` checks that the draft is editable and
   updates it later without a condition; a publish in between, and the content
   of the published version is rewritten (`draft_service.py:210`).
2. `turn_numbers`: the number of an answer is the length of the window plus
   one, and the window holds ten turns: from the eleventh on every answer is
   number 11, and all but the first of them are lost to the unique constraint,
   with a line in the log (`citation_cache.py:168`).

Observations without a run of their own, seen while modelling or found with TLC on
variants of the runs:

Versions and workflow.
- *Two drafts.* Two first saves, or a save and a discard, that overlap leave a
  draft row with content that no pointer refers to (`draft_service.py:198`, against :14).
- *Restore.* `_can_restore` asks for the roles "publisher" and "admin", the router
  lets AUTHOR, ORG_ADMIN and SUPER_ADMIN in: every restore is refused
  (`draft_service.py:61`, :434).
- *Node ids.* They are the key of the whole `nodes` table, so the first save after a
  publish cannot keep the ids `snapshot_sync_service.py:33` tells it to keep
  (`nodes_repository.py:145`). For the same reason `NodeDiffer` never finds a node
  modified, moved or unchanged between two versions.
- *A lost transition.* Two workflow actions on one reading both succeed, and the
  second overwrites the first; seen from outside, an edge that is not in the
  table. `WorkflowFollowsPolicy` holds one request at a time and fails with two,
  and so do `ReviewedContentIsFrozen` and `QueueAgreesWithVersion`.
- *Terminal states.* A version that is discarded or superseded in `status` keeps its
  `workflow_status` and can be submitted, approved and published, although
  `domain/workflow/policies.py:128` calls these states terminal.
- *Two ways of publishing.* The draft's publish asks for no approval. The workflow's
  publish neither supersedes the version published before nor clears the draft
  pointer, and a discard then marks the published version as discarded.
- *Roles.* The endpoint lets APPROVER reject and REVIEWER and APPROVER return to
  draft; the role table of the workflow then refuses them.

Proposals.
- *A withdrawn version is approved.* An approval that read `proposed` before a
  withdrawal committed approves the withdrawn version (`agent_proposal_service.py:380`, :453).
- *Rollback.* `batch_rollback` spares only the workflow state "committed", which no
  version has, and sends a published one back to `proposed` (:633, against :602).
  The mcp task keeps the decision that was undone.
- *Kill switch.* It may be thrown between an agent's check and its insert.
- *Batches.* A batch catches every exception of an id and goes on in the same
  transaction; after a database error the commit is a rollback and the response
  still counts its approvals (`proposal_queue.py:366`).

Idempotency.
- *Two writes.* The loser of a reservation is let through and writes too
  (`idempotency_service.py:188`, against :9).
- *A failed write keeps its key.* `mark_failed` has no caller: after a refused write
  the key stays in progress, and every retry with it is a conflict.
- *A foreign completion.* `mark_completed` carries no fingerprint, so a write
  that was let through may complete the record that another body reserved.

Folders.
- *Overlapping moves* of two folders into each other close a cycle
  (`folders_service.py:181`, against :6); a rename of the parent between the reads and
  the write of a child leaves the child an old path.
- *Patterns.* A name with `_` or `%` takes a neighbour for a descendant
  (`folders_repository.py:160`). With `_` the rewritten neighbour would have the
  path of the renamed folder, and the unique paths refuse the whole write: the
  rename fails, which is what the run has. With `%` something of the neighbour's
  name is left: a folder "50%" that is renamed takes "50% off" along. TLC
  finds that with `Left` giving a name instead of nothing, by one request alone.
- *Backslashes.* `normalize_display_name` lets them into a name, and a path with one
  does not match itself in LIKE (`folders_repository.py:162`, :214). A rename or a move
  of such a folder, by itself and with nothing beside it, rewrites the folder and
  leaves everything below it on the old path. The cycle check of a move reads paths, so
  a later move of the folder below what it left behind closes a cycle. TLC finds both with
  one request at a time; `ChainedUnlessLeft` and `NoCycleUnlessLeft` excuse what follows
  such a write or an overlapped one, and nothing else.

Policy cache.
- A value read before a PATCH and stored after its invalidation stays for the
  time to live (`scope_profile_policy.py:234`, against :18). Deleting a profile
  tells no worker. A reconnect does not clear what was cached before. `WORKER_ID` is
  a process id, which two containers may share.

Annotations and retention.
- A reply committed after the statement's snapshot is deleted by the cascade and
  archived nowhere (`retention_job.py:343`, against :292). An annotation its user
  deleted may still enter the archive from an overlapping batch's snapshot.
- The notifications' rate limit counts, then inserts (`notifications_service.py:75`), so
  that overlapping requests can pass it. What it drops is sent at no later time: an edit
  tells only those who were not mentioned before. An edit also loses the mentions that
  were picked and are not in the text, since `update_content` has the text only
  (`annotations_service.py:325`).
- `create_annotation` does not look
  whether its node exists. Saves and proposals mark annotations as orphans, and a
  withdrawal or a rejection does not restore them.

Vectorization.
- *Errors of the INSERTs.* They are caught chunk by chunk after the old chunks were
  retired (`vectorization_service.py:683`): when all of them fail, because a save
  has replaced the nodes or for any other reason, the run commits, counts them, and the
  version is out of the index without a failed run; when some of them fail it is there
  in part. `ChunksStay` says that nothing else takes it out.
- With the embedding service down, the vectors are zeros and are left out: a re-index
  replaces a generation that could be found by one that cannot, and reports "indexed".
  Vectors are written before the commit, although a comment says after, and never
  deleted. The chunks of superseded versions stay current. A run lost with its
  process is not submitted again. `update_permission_metadata` has no caller. Two
  listings query columns the DDL does not have.

Conversations.
- *An evicted window.* When the window of a conversation is evicted while a call of it
  waits for the model, the call keeps the number it took and joins a new, empty window;
  the next call gets a smaller or the same number, with the first in its history
  (`citation_cache.py:114`). With windows of 2 and a capacity of 1, five calls do it;
  `AnswersFollowTheirHistory` excepts the evicted call.
- A restart or another worker starts the numbers at 1 again, and the answers are
  refused their rows; `next_turn_number` of the repository is not used. Text that
  is redacted or deleted stays in the windows. When the oldest `batch_limit`
  conversations are made active again every day, the others wait. The event
  "conversation.expired" is committed before the batch is (against `emitter.py:10`).

Extractions.
- *No re-extraction starts.* `start_batch_retry` and `start_sample_retry` call
  `actor_type_str` (`batch_extractions.py:109`, :174), which the module does not import
  (:18 to :41): both raise NameError before the job is created. A job would fail as
  soon as it found a document, since its rows are dictionaries and are read by
  position (`batch_extraction_service.py:255`).
- A batch whose transaction was aborted answers with an `approved_count` that was
  rolled back. Overlapping approval and rejection leave an approved row for a
  rejected candidate; a plain approval erases the edits of an overlapping
  correction. `admin_extraction_results.py:398` says that a race is answered with
  409; nothing detects it.

Others.
- *Diffs.* The cache has one key for both directions, answers a diff the wrong way
  round, and is never invalidated: `invalidate_cache_for_document` has no caller.
- *Alerts.* Two evaluations both notify; a unique index keeps one firing row.
- *The pool* of ten connections does not wait: the eleventh request fails
  (`connection.py:83`).

## 6. What is not modelled

PROJECT.json lists each component left out and why. In short:

- *Authentication*: refresh tokens and sessions, reset and e-mail tokens, OAuth,
  users and organisations, authorization. What makes them correct is said about an
  adversary, which these models do not have. The permission rows the workflow
  and draft endpoints use are in `VersionLifecycle`.
- *CRUD* over tables nothing else depends on: collections, tags, links, saved views,
  schemas, golden sets, notifications' flags, scope profiles but for the cached
  setting, administration.
- *Data, not control*: search, retrieval, prompts and RAG, evaluation metrics,
  rendering, graphs, diffs, plugins, the archives of the vault import, the MCP tools
  that read.
- *Little left to check*: alerts (a unique index keeps one firing row), the view
  throttle (one SET NX), the scheduler threads (their effect, a batch in every worker at
  any time, is in `Annotations` and `Conversations`), audit rows, which are written
  and never read.
- *Not reachable*: the batch extraction jobs, which no request can create, the
  extraction pipeline behind them and `cancel_batch_job`'s flag; `restore`,
  `mark_failed`.

In the modelled components, titles, labels, summaries, texts, audit, history and
review rows and `documents.status` are left out, because no handler modelled reads
them back; what else is left out is said with each module in section 2 and in
PROJECT.json.

The definitions map to a small part of the implementation's lines, under a tenth.
Most of the rest is the authentication, administration, search, retrieval,
evaluation, MCP, plugin and schema code above: the part that keeps state under
concurrency and failure is small, and is the part modelled here.

## 7. What is left

In the order in which it would be worth doing:

1. `ChunkIndex` with two versions and the supersession between them, composed with
   `DocumentSlots`: superseded versions' chunks stay current today, so the property
   to state would be one the code does not have yet.
2. Orphan marks of annotations (`draft_service.py:251`) composed with the saves of
   `VersionLifecycle`.
3. Folders with `%`: what a write of a folder called "50%" may take along, as a theorem
   with the neighbours it reaches in place of `NoPercent`.
4. An abstract specification of the idempotency store (a key, a body, one answer) and of the
   folder tree (parents only), with the refinements of the present modules.
