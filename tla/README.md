# Verification of AgentMesh

TLA+ models of the concurrent core of AgentMesh (`src/agentmesh`, a FastAPI
server over SQLite), the TLC runs that check them and the TLAPS proofs about
them. `PROJECT.json` is the index: components, runs, the source lines each
definition stands for, the hazards of the code, findings and theorems.

    tlc -workers 2 -config MCChatTurn.cfg MCChatTurn     # any run below
    tlapm ChatTurnProofs.tla                             # any *Proofs module

## 1. The system

One server process. Every `def` endpoint runs on a thread of FastAPI's pool, so
any two requests overlap. The background workers are asyncio loops; document
parsing has a thread pool of its own. All of them share one `SQLiteStore`, whose
single table `records(collection, id, payload)` keeps whole JSON documents.

The rule that decides what can go wrong: **a store method is one short
transaction, a handler is several of them**, and most handlers read a document,
change their copy and save all of it. So a step of the models is one store
operation (with the local computation after it), and everything between two
steps is a place where another thread, an exception or a restart gets in. A
restart loses everything but the database.

| Component | State it keeps | Operations | Talks to | What is hard | Correct when |
|---|---|---|---|---|---|
| Web client: composer (`agentmesh-demo`) | state, text and turn id of the message, open thread | send, retry, edit, reload, look a receipt up | chat API | an answer is lost, a lookup overtakes its post | what is shown as sent was executed, once |
| Chat turns (`routes/chat.py`) | receipts, threads, messages | post a message, look up a receipt, thread CRUD | agent, store | retries and duplicates of one client turn id; failure between the writes of a turn | a turn runs at most once, a success is the stored answer and stands for a whole turn |
| Personal agent (`agents.py`, `chat_skills.py`) | tasks, request posts, evidence, memory | chat, skills, research, delegated answers | models, providers, board, inbox | one of several writes fails; fallbacks of models and providers | a task tells what happened to its evidence, the trace where the answer comes from |
| Research dispatch (`routes/blackboard.py`, `agents.py`) | posts, tasks, review items | worker drain, dispatch endpoint, resolve a review | agent, inbox | check and write in two transactions; worker against callers against reviewers | quarantined content is not cited; every request is served or reviewed |
| Board (`routes/blackboard.py`) | posts, execution locks, auto-post queue | lock, unlock, handoff, reply, read, auto posts | tasks | read-modify-write of posts and tasks | one owner at a time, a reviewed auto post published once |
| Inbox and governance (`routes/inbox.py`, `store.confirm_brief`, `agents.py`) | inbox items, consent grants, briefs, candidate memory | PATCH, confirm a Brief, consent, delegated answers | store | PATCH saves a whole item over a finished one | a Brief is confirmed once |
| Memory tiers (`routes/memory.py`, `skill_extractor.py`) | user memory, team items, relations, skills | note, summarise, archive, share, accept, dispute, learn; daily worker | store | exists-then-create; PATCH saves an old copy | one summary a day, what was decided stands |
| Search (`store.search`, `agents.py`) | index rows, nothing of its own | search with the asker's rights, layer by layer, term by term | memory, documents, posts | records, roles and index change in between; limits before rights | nothing is shown that could not be read; the board is asked only for what nobody knew |
| Signal market (`marketplace.py`) | signals, set of seen needs, consents, matches | publish, scout, answer for a peer | delegated answers | people leave in a run; a run stops early; a restart forgets | unasked answers are ordinary, who left is silent, needs are met |
| Ingestion (`ingestion.py`, `routes/documents.py`) | documents, jobs, memory items | upload, parse, import, edit, fail | store, pool, chunker | edits during an import; half an import | the memory serves the whole current text or none of it |
| Chunker and parsers (`chunker.py`, `documents.py`) | none | cut a text; parse a file | ingestion | limits of a chunk | chunks are windows that leave nothing out |
| Ingestion pool (`ingestion.py`, `app.py`) | futures, permits, shutdown flags | submit, run, callbacks, shutdown | jobs | shutdown against uploads and running jobs | no permit lost, no job left open, shutdown ends |
| Vector index (`vector_index.py`, `store.py`) | vector states and vectors | prepare, process, backfill | embedding provider | text changes while it is embedded; crash in between; limited backfill | a ready vector is of the current text |
| Accounts (`auth.py`, `routes/auth.py`, `routes/users.py`, `tools.py`) | users, credentials, sessions, agents, project members, tool grants | login, OAuth login, password change and reset, create, status, role, grants | store | one account over several records; saves of whole copies; defaults seeded by every request | a new password shuts the old one out, what an admin orders stands |
| Providers (`acquisition.py`, `o2.py`, `llm.py`, ...) | none | HTTP calls | personal agent | timeouts, empty answers | a fallback says so |
| Permissions, risk, seed, registries | policy and fixed records | pure functions, read-only endpoints | all | | their definitions |

`PROJECT.json` lists the same parts with their status, and under `hazards` each
place in the code that is hard to test, at its line, with the properties that
would catch it going wrong or the reason why none does.

## 2. Modules

| Module | Models |
|---|---|
| `TurnOnce` | abstract: a named turn begins once, is done with one value or failed, and every success handed out is that value |
| `IngestionService` | abstract: a job is accepted or refused, runs at most once and ends; nothing is accepted once a shutdown has begun, which ends when all accepted jobs have |
| `ChatTurn` | `POST /chat/messages` with the agent's writes; refines `TurnOnce` |
| `ChatComposer` | the web page's composer in front of `ChatTurn`, over a network that delays and loses |
| `Sourcing` | one turn of the agent: models with their failover, providers, risk review, and the trace |
| `ResearchDispatch` | request posts, worker, dispatch endpoint, quarantine, reviewers, inbox PATCH |
| `Board` | the posts of one task, their locks and handoffs, and the queue of automatic posts |
| `Governance` | a Brief: its document, its inbox item, its confirmation and the candidate memory |
| `MemoryTiers` | a user's memory on its way up, the daily summary, team items, learned skills |
| `Search` | one search over what is indexed, with rights, layers and the term by term fallback |
| `Market` | signals, scouting, consent, answers and matches, with both workers |
| `DocumentIngestion` | parse job, import, edit and clean-up of one document |
| `Chunker` | `chunk_text` |
| `IngestionPool` | the bounded executor under the ingestion service, and their shutdown; refines `IngestionService` |
| `VectorIndex` | life of the vector of a record, through crashes and the backfill |
| `Accounts` | accounts, passwords, sessions, OAuth logins and tool grants |
| `ChatTurnProofs` | theorems about `ChatTurn` and `ChatComposer` |
| `ResearchDispatchProofs` | theorems about `ResearchDispatch` and `Sourcing` |
| `GovernanceProofs` | theorems about `Governance`, `MemoryTiers` and `Search` |
| `IngestionProofs` | theorems about `DocumentIngestion`, `Chunker` and `IngestionPool` |
| `VectorIndexProofs`, `BoardProofs`, `MarketProofs`, `AccountsProofs` | theorems about the module of that name |
| `MC*` | the instances TLC checks |

Definitions whose comment begins with "Variant:" are not part of the models: each
is a faulty form of the definition after it, and substituting it makes TLC
report the property it is listed with (`mutants` in `PROJECT.json`). Every
property of every passing run is broken by at least one of them.

Several modules speak of handlers that read a record and save a copy of it later.
Where a property holds only of handlers that took turns, its name begins with
`Serial`, and a history variable (`raced`, `disturbed`) records where they did not.
That is what the code gives: each of those properties is violated if the
exception is dropped, and its comment says how.

### ChatTurn

A call is one execution of `create_chat_message`; `pc` is where its thread is,
`req` its body and `reply` what it was answered. `receipt`, `threads`, `messages`
and `task` are the collections. `Lookup`, `Claim` and `Rejoin` are the receipt
protocol (`claim_chat_turn_receipt` is an insert that the first call wins);
`CreateThread` to `AssistantReplies` are the writes of a turn in their order;
`FinishCompleted`, `FinishFailed` and `Raise` the end of the handler and its
except clauses. `StorageError` and `Restart` are the faults. A skill is abstract:
it succeeds, waits for an approval or another agent, or raises. A client turn id
belongs to a user, as in `chat_turn_receipt_id`; one user is enough because no
state is shared between two.

`CanonicalAnswer` relates a reply to the receipt and both to the request: whoever
gets a success sent the payload that was recorded and got the response that was
recorded. `CompletedTurnIsWhole` relates the receipt to messages, thread and task.
`AtMostOnceExecution` is about messages, not receipts, so it covers a retry after
a failure and after a restart. `ImplementsTurnOnce` maps the receipt's status to
the outcome of the turn, its response to the value, and the successful replies to
what was handed out.

### ChatComposer

`composer` is what `Workspace.tsx` and the mutation of `queries.ts` keep: the
state of the message that is pending, its text, its turn id and the open thread.
A post is in `transit` until the server takes it, which may be after the page has
given it up (`HearNothing`) and looked its receipt up (`LookUp`): then the page
says "retryable" of a turn that is going to be executed. A retry keeps the turn id,
an edit or a reload draws a new one. `SentIsExecuted` joins the page with receipt
and messages of `ChatTurn`. `ClientSpec` has two kinds of initial states: the page is
the only client, or there is none and anybody posts anything, as in `ChatTurn`
alone; the run checks it with the fairness of the server.

### Sourcing

One turn, step by step: `Classify` and `ChatPlainly` use one client
(`FailoverChatLLM` keeps what it says of its last call); `SearchMemory`,
`QueryData`, `Gate`, `LookIntoDocuments` and `ReviewRisk` are the skills;
`AskConnector`, `AskResearcher` and `Collect` the providers, of which each brings
material, raises or has nothing; `Assess` the risk review; `DraftBrief` and
`Answer` the end. `chosen` may change at any step (`SwitchModel`), and the client
is built again where the code builds it again. `trace` is what
`_apply_trace_provenance` leaves in `ChatTrace`. `TraceIsTrue` relates it to who
brought and wrote what; `RequestIsServed` relates the request post, its reply, the
task and the inbox at the end of the turn. Unknown commands, missing input and
`ask_system_info`, which ask nobody, are left out.

### ResearchDispatch

Actors are workers (a drain walks all requests), callers of
`POST /blackboard/posts/{id}/dispatch` and reviewers. `Scan` is the filter of the
drain and the endpoint, `Check` the already-fulfilled test of
`fulfill_research_request`, `Acquire` the second read of the task, the provider
and the risk assessment, then the writes of the clean and the quarantined branch
one by one; `OpenReview`, `Judge` and what follows is
`resolve_injection_review_item`, `ReadForPatch` and `SavePatch` the inbox PATCH.
`copy` is the document a handler read and will save. A task is reduced to its
status, an evidence post to its status and whether its content looks like an
injection.

`QuarantineHolds` is unconditional. `SerialAnsweredOnce` and
`SerialQuarantineIsReviewed` except requests on which two handlers worked at the
same time; the latter and `NeverLeftHanging` look at quiet states, so a handler
that is still going to add the item is not counted.

### DocumentIngestion and Chunker

One document. `Runner` executes `run_job` for its upload, importers execute
`import_document_to_memory`, editors `update_document`. `own` is the copy of the
record each of them holds, `cut` the text it cuts into chunks and how many of them
it has saved, `todo` the memory items it listed and is going to save. `SaveIfCurrent` is
`save_document_if_version`, the only write that looks at the database first; the
rest saves copies. A text is reduced to its number of chunks (`ChunksOf`, up to
`MaxChunks`); slot 0 is the summary.

`CompletedIsThere` holds through every interleaving of the instance: progress never
counts a chunk that is not there, and a completed job has its summary and all
chunks. The two `Serial...` properties need handlers that did not overlap, and
`edit_makes_stale` shows what happens otherwise.

How a text is cut is `Chunker`: its characters are numbered, the newline before each
paragraph included, and a paragraph is given by the ends of its sentences. A step is one
round of a loop of the code: the paragraphs (`LongParagraph`, `NextChunk`,
`JoinParagraph`), the sentences of a long one (`GatherSentence`), the cuts of a piece
(`CutPiece`); `Return` strips. `ChunksAreWindows` is the reference: each chunk is a part
of the text as it stands there, bounded, without a newline at its ends, and goes beyond
the one before; what lies between two is nothing but newlines, and the last one ends the
text. What is repeated is at most the overlap and only where it fits.

### IngestionPool

The semaphore (`free`), the executor's queue and threads, the futures with their
done callbacks in order, the table `_submitted`, the flags of the shutdown, and
any number of callers of `shutdown`. `Take`, `FinishItem` and `RunCallback`
are what `ThreadPoolExecutor` does and are marked external. What a job
does to its document is the module above; here it ends well, badly or with an
exception that not even `fail_job` could record. `submit` is one step because it
runs under `_shutdown_lock`. The module's names begin with `Pool` where
`DocumentIngestion` has the same ones, since the proofs extend both.

`ImplementsService` maps a future to a job that was accepted, the two flags to a door
that is open, closing or closed, and the jobs in `slipped` that have no final status to
the lost ones. Queue, permits, callbacks and the list of the shutdown are not seen. What
remains is what a client of the service may rely on: no job runs twice, also not after a
restart, none is accepted behind a shutdown, and one that runs is never given up by it.

### VectorIndex

`Write` is a save with `prepare` in the same transaction; `Process` the embedding
that follows outside of it; `StartUp`, `ProcessBoot` and `Serve` the start of the
process with its limited backfill. Texts stand for their content hashes. `Crash`
may strike between any two transactions, and the next process may have embedding
switched on or off. The initial states include the database of an earlier
version, with vectors and no states.

### Board

`call[c]` is a handler of `routes/blackboard.py` after it has read its post and
passed its checks: the changed copy, the copy of the task (from `LoadTask` on), and
in `plan` the store operations that it has still to do, in the order of the code.
`Lock`, `Unlock`, `Handoff`, `Reply` and `MarkRead` read and decide, `AddChild`,
`SavePost`, `LoadTask` and `SaveTask` write. The handoff saves its parent only where
it gives up a lock, as the code does. A drain of the queue works through the
requests that it listed, each as `Publish` and then `Mark`; the worker and an
admin's endpoint run the same drain. `Visible`, `Controls`, `Manages`, `MayLock` and
`MayRelease` are the permission predicates; who sees a task depends on names that
are written on its posts. A handoff is signed with the display name of an agent and
not with its id (`Label`), so the signature gives nobody access. Threads are alike:
the first free one takes the next call, here and in the other modules with handlers.

`ChainOfCustody` is unconditional: whatever stale copies are saved, everybody who
takes part was named by a handoff that is still on the board, or appointed by a
lead or an admin. `SerialNoTakeover` and the single publication in
`PublicationsAreReviewed` hold where no handlers overlapped or died. They fail
otherwise: two handlers that read a free post both get its lock, and two drains
publish one request twice. `ReviewedIsPublished` rests on the worker, whose loop
records an error and goes on.

### Governance

The draft document and the item that a chat turn leaves, `EditDocument`
(`update_document`), `PatchItem` (`update_inbox_item`), `Accept`
(`update_memory_item`) as read-then-save, and `Confirm` as the one transaction that
`confirm_brief` is. A memory is named by its place; in the code it is a random id.

`ResolvedIsConfirmed` is unconditional. A PATCH that read the item before its
confirmation does reopen it when it saves afterwards, and then it is confirmed a
second time; two edits that read one version save two texts under the next one. So
`SerialConfirmedOnce` and `SerialVersionNamesOneText` except handlers that
overlapped or died.

### MemoryTiers

Extends `Governance`, whose threads and bounds it uses. `personal`, `items`,
`relations` and `skills` are the collections; `task[c]` is what a handler has to do
still and the copies it has read. `SummarizeDay` is the worker, its manual run and
the endpoint alike: `LookForSummary`, `Collect` and `SavePersonal` in three
transactions. `AcceptItem` and `Dispute` are the two transitions that
`ensure_can_update_memory` lets pass; `Learn`, `Activate`, `ShareSkill` and
`Deprecate` the life of a skill. What a summary says is left out, but not what it
is made of.

`DecisionsStand` is an action property. For items it is unconditional: no late save
moves what the team accepted, because the only two transitions exclude each other
on every item. For skills handlers must take turns: a share that read the skill
before it was deprecated saves it active again.

### Search

The index is read in one transaction (`ReadIndex`: any `RowLimit` of the rows that
match), each record and the role in one of their own (`Fetch`, `Judge`), and then
the next layer, or term by term (`ReadPool`). Meanwhile a candidate is accepted, a
document imported or outdated, the asker promoted. `Readable` is the reference for
who may be served what; `ItemVisible`, `ActivityVisible` and `Shown` are the code's
checks, in the order and at the moment of the code. `ever` and `always` record what
could be served at some, or at every, moment of the search: what is shown is in
`ever`, and nothing in `always` is passed over by a turn that then asks the board.
`always` has pairs of a record and the right (`Rights`) that entitled the asker to it
all the time. A record that was served first by one right and then by another can be
missed: a lead who reads a candidate, loses the role after its acceptance and is judged
on the copy that was read does not get it.
The two exceptions are the code's: the term by term way looks at no status, so a
user's own memory may be of an older version; and with a single term there is no
way past a crowded index. Nothing the program creates has a team id, so teams are
left out; so are `search_for_agent` and the bindings, which nothing calls.

### Market

`worker` is the run that is under way; the two loops run one after the other on the
event loop, calls on other threads in between. `NextUser` begins a user's turn and
reads who participates then, `Look` remembers a need before it follows it up,
`Grant`, `AnswerForPeer` and `PostMatch` are the rest of a match. What the model
extracts or judges is a choice; topics stand for keywords. `Error` ends the run,
`Restart` forgets `seen`. `gone` records those who left and whose turn is over:
`GoneAreSilent` demands nothing of theirs changes, although the users of a run were
listed at its start. `NeedsAreMet` is liveness: a run stops at `Cap` matches, but
what was seen is not looked at again, so the next runs get to the rest.

### Accounts

An account is a user, a credential, sessions, an agent, a membership and grants,
saved one by one. `call[c]` holds the plan of a handler and its copies, as in
`Board`. `Login` compares in `Verify` and issues in `IssueSession`; `ChangePassword`
and `ResetPassword` save, list and then end the sessions one by one; `SetStatus` and
`SetRole` are an admin's PATCH; `OAuthLogin` creates, or refreshes a name by saving
the whole user. `SeedGrants` is any request: each seeds the default grants first.
`ordered` and `allowed` record what was last asked for. `LoginIsWhole` needs no turns
for the agent of an account, but a death in the middle of its creation leaves it
without one for ever.

## 3. Runs

| Run | Instance | Distinct states | Checks |
|---|---|---|---|
| `chat_turn` | 2 turn ids, 2 contents, 2 calls, the page or anybody, 1 fault | 649 041 | the page, the three invariants, settling, refinement |
| `research_races` | 1 request, worker, caller, 2 symmetric reviewers, 1 fault | 2 111 355 | quarantine, answered once, reviewed |
| `research_worker` | 3 requests (one gated), worker, reviewer, 1 fault; or one turn over all configurations, 2 models | 196 476 | the worker reaches every request; trace and request of a turn |
| `document_import` | texts of 1 and 2 chunks, 2 versions, runner, editor, importer, 1 fault; or up to 3 paragraphs to cut | 3 251 017 | three import invariants, windows |
| `ingestion_pool` | 3 uploads, 1 thread, queue of 1, 2 shutdowns, 1 fault | 171 395 | permits, liveness, refinement |
| `vector_index` | 2 records, 2 texts, 2 writers, backfill of 1, 2 crashes | 18 170 | ready vectors, waiting ends |
| `board` | initiator, member, admin, worker, 1 auto post, 2 overlapping calls of 3, 1 fault | 480 204 | custody, locks, offered actions, auto posts |
| `governance` | a Brief with 3 texts, or a user's memory: 2 overlapping calls of 6, 1 fault; or a search over 3 records, 2 changes | 5 811 477 | Brief, memory and search |
| `accounts` | 3 accounts, 2 passwords, 2 overlapping calls of 4, 1 death | 1 521 672 | sessions, orders, whole accounts |
| `market` | 3 users, 1 topic, 1 match a run, 1 call, 1 change of a signal, 1 fault | 119 336 | answers, silence, needs met |
| `never_left_hanging` | 1 request, one dispatcher, reviewer, no fault | | violated, see below |
| `edit_makes_stale` | as `document_import`, no fault | | violated |

Some runs put modules side by side that share no variable (`MCResearchWorker`,
`MCDocumentIngestion`, `MCGovernance`): each initial state belongs to one of them
and the others stand still, so such a run is the union of the runs of its parts.
`MCChatTurn` is different: page and server are composed and share `ChatTurn`'s
state.

Why the bounds are enough for what the runs ask. Two calls are a first attempt and
its retry, a duplicate, or an edited resend; two turn ids show that they do not
disturb each other; the fault is a failure of the turn, of its clean-up, or a crash.
(The theorems of `ChatTurn` hold for every number.) Two turn ids are also what a
page needs for an edit; with a third the page only draws another one. Racing on the
board is per request, so one request with every kind of actor is the interesting
instance; the drain needs several requests and gets three with the awkward one in
the middle. A turn of `Sourcing` is finite: all configurations of two models, a
backup, two researchers and a data API, with one change of the model at any step. A
text of one and one of two chunks lets an edit shrink and grow the document and
leaves a middle of an import to fall into; with two versions an edit is late for
everybody who read the first. Chunks of six letters with an overlap of two, and
paragraphs of one to nine letters, of three cuts, or of two or three sentences around half
of the limit, put every comparison of the chunker on, below and above its boundary; the
theorem has no bound. Three uploads are
one more than the pool and its queue take. A backfill limit of one is below the
number of records, and two crashes put a crash into the recovery from another one.

On the board three calls are a handoff, a lock by its receiver and a third that is
late for both, two of them at a time; a member who is not the initiator can only
come in by a handoff or an appointment, and with the worker a queue of one request
is drained from two sides. Leads and public agents differ from admins and users only
in whom they may name; they are in the theorems, not in `board`, where they double
the instance again. For a Brief six calls are the draft, two edits, a PATCH, a
confirmation and what may come after it; for the memory they are a note, two
summaries, a share, an acceptance and a late PATCH. Three records, two rows and two
results are the least with which an upper layer can be enough, the index crowded and
a third record hidden behind both; they are sorted, since their order says nothing.
Two changes are what it takes to exchange one right for another. An account needs
one call to come in, one that orders and one that saves late, and one more to see
it; one account of each kind, as kinds differ in who creates and seeds them.
Passwords are symmetric. In the market one who helps and two in need with one match
a run leave a need to a second run; the fault is an error or a restart in any place.

`MaxFaults`, `MaxPoolFaults`, `MaxCrashes`, `MaxCalls`, `MaxChanges`, `MaxSwitches`
and `MaxVersion` only bound the runs. `CHECK_DEADLOCK FALSE` is set where everything
may be answered or settled with nothing left to do: `chat_turn`, `research_worker`
(a finished turn), `document_import` and `edit_makes_stale` (a text that is cut),
`ingestion_pool`, `board`, `governance`, `accounts` and `market` (whose bounds end).

**Fairness.** Weak fairness of the steps of a handler that has begun: providers
have timeouts and SQLite locks are short, so its next step is always taken.
Nothing makes a client post, upload, review or shut down, and nothing makes the
page go on. The worker is fair as a
whole (its loop sleeps and drains for ever), pool threads and a begun shutdown go
on, the embedding call has a timeout. The steps of a market run are weakly fair,
and each of its two loops starts again strongly fairly: they share the event
loop, a run of the one keeps the other waiting, and asyncio serves the loops whose
sleep is over in turn. No step of a fault is fair.
Restarts and storage errors are excepted by name in the liveness properties
(`faults`, `slipped`, `skipped`), because the code has no recovery for them:
a receipt in processing, a job in running and a failed vector stay as they are.
In `NeedsAreMet` a need that an error hit counts as settled.

## 4. What the runs found

* **A reviewed request can be left hanging** (`never_left_hanging`). The review
  item is on the inbox before the dispatcher has saved its task. A reviewer who
  discards the evidence in between marks the task failed, and the dispatcher's
  older copy sets it back to waiting. The docstring says that this state was
  closed off (`agents.py:1025-1026`).
* **An edit can leave chunks of the old text searchable** (`edit_makes_stale`).
  The import checks the version and saves the chunk separately; an edit in between
  has already invalidated what it found. The stabilization design demands the
  opposite (line 129).

Met while modelling, and recorded without a run of their own:

* A request can be answered twice: `fulfill_research_request` looks for evidence in
  one transaction and saves it in a later one, and worker and caller both pass; its
  docstring promises an error (`agents.py:873`).
* A lock belongs to a post, so two agents can hold the locks of two posts of one
  task; the pitch calls the lock exclusive (`PITCH.md:133`).
* What is found term by term, and the memory that an answer is matched with, is of
  any status: an outdated version of a user's own document memory can be shown,
  and an evidence post counts whatever its status.
* A provider that fails raises (`o2.py:415-419`), where the smoke test and the
  capability list describe a mock that stands in (`O2_SMOKE_TEST.md:228`). Material
  of several providers counts as real even if one of them is the mock. The sources
  of evidence in quarantine are still attached to the answer.
* Adjacent chunks need not overlap, though the docstring of `chunk_text` says so
  (`chunker.py:23`): the tail is dropped where the next paragraph does not fit behind it.
* The data registry of a chat turn never has the o2 connector.
* Only expected errors fail over to the backup model; any other exception ends in
  the local answer, with its name as the reason.

## 5. Proofs

| Theorem | Statement |
|---|---|
| `ChatTurnProofs!TypeCorrect`, `ExecutedOnce`, `Canonicity`, `Wholeness`, `Finality` | `TypeOK`, `AtMostOnceExecution`, `CanonicalAnswer`, `CompletedTurnIsWhole`, `ReceiptIsFinal` of `Spec` |
| `ChatTurnProofs!Refinement` | `Spec => ImplementsTurnOnce` |
| `ChatTurnProofs!SentExecuted` | `ClientSpec => []SentIsExecuted` |
| `ResearchDispatchProofs!TypeCorrect`, `QuarantineHeld`, `AnsweredOnce`, `QuarantineIsReviewed` | `TypeOK`, `QuarantineHolds`, `SerialAnsweredOnce`, `SerialQuarantineIsReviewed` of `Spec` |
| `ResearchDispatchProofs!TraceHolds`, `RequestServed` | `TraceIsTrue`, `RequestIsServed` of `SourcingSpec` |
| `IngestionProofs!DocumentTypeCorrect`, `CompletedHolds`, `WholeOrNothing`, `ServedCurrent` | `TypeOK`, `CompletedIsThere`, `SerialWholeOrNothing`, `SerialServedIsCurrent` of `Spec` |
| `IngestionProofs!ServiceRefinement` | `PoolSpec => ImplementsService` |
| `IngestionProofs!ChunkerTypeCorrect`, `WindowsReturned` | `ChunkerTypeOK`, `ChunksAreWindows` of `ChunkerSpec` |
| `IngestionProofs!PoolTypeCorrect`, `Permits`, `StoppedSettled`, `SettledStays` | `PoolTypeOK`, `PermitsAccounted`, `StoppedIsSettled`, `SettledIsFinal` of `PoolSpec` |
| `VectorIndexProofs!TypeCorrect`, `ReadyCurrent`, `Tracked`, `Owed` | `TypeOK`, `ReadyIsCurrent`, `EveryTextIsTracked`, `WaitingIsOwed` |
| `BoardProofs!TypeCorrect`, `CustodyHolds`, `OfferedAccepted`, `PublicationsReviewed`, `NoTakeover` | `TypeOK`, `ChainOfCustody`, `OfferedIsAccepted`, `PublicationsAreReviewed`, `SerialNoTakeover` |
| `GovernanceProofs!TypeCorrect`, `Confirmed`, `ConfirmedOnce`, `VersionsCited` | `TypeOK`, `ResolvedIsConfirmed`, `SerialConfirmedOnce`, `SerialVersionNamesOneText` of `Spec` |
| `GovernanceProofs!MemoryTypeCorrect`, `OneDailySummary`, `DecisionsLast` | `MemoryTypeOK`, `SerialOneDailySummary`, `DecisionsStand` of `MemorySpec` |
| `GovernanceProofs!ShownWasServedHolds`, `AsksWhenUnknown` | `ShownWasServed`, `AsksOnlyWhenUnknown` of `SearchSpec` |
| `MarketProofs!TypeCorrect`, `AnswersAreOrdinary`, `Silence` | `TypeOK`, `AutomaticIsOrdinary`, `GoneAreSilent` |
| `AccountsProofs!AccountsTypeCorrect`, `PasswordEndsSessions`, `OrdersStand`, `LoginWhole` | `TypeOK`, `SerialPasswordEndsSessions`, `SerialOrdersStand`, `LoginIsWhole` |

They hold for all values of the constants that satisfy the named assumptions
(`ChatTurnAssumption`, `ResearchAssumption`, `VectorAssumption`, ...), which only
say that constants which stand for "nothing" are not values, that sets of actors are
disjoint, that what the code counts is finite and that bounds are natural numbers.
The type invariants, `ReceiptIsFinal`, `SettledIsFinal`, `StoppedIsSettled`,
`EveryTextIsTracked` and `WaitingIsOwed` are proved and in no run. Every safety property
that a passing run checks has a theorem. None of the theorems uses fairness.

*ChatTurn.* None of the properties is inductive: that a turn runs once depends on
who may write a message. `IInv` adds that a call beyond the claim holds the
receipt of its turn (`OwnerHoldsReceipt`), that two such calls have different
turns (`OneOwner`), that a message was written by the call that holds the receipt
(`MessagesAreOwned`) and that an answer ends its call (`AnswersEndCalls`).
`WholeInv` adds what has been stored at each label (`StoredByLabel`) and that the
call named by a completed receipt is past its work (`ResponderIsPast`). The
refinement follows from `IInv`: every step of a call changes the outcome of at most
its own turn.

*ChatComposer.* The steps of the page's server are steps of `ChatTurn`, so `IInv` and
`WholeInv` hold behind the page as well. `ComposerInv` adds that the call the page
listens to serves the very post that it waits for, still on its way or begun (`Heard`),
that whatever is on its way, begun or recorded under a turn id was posted with its text
(`PageFits`), and that what was shown as sent has a completed receipt with that text
(`SentIsCompleted`). An edit draws a new id, so no older post can be taken for the
edited one.

*ResearchDispatch.* `IInv` says what a handler holds at each label
(`EvidenceHeld`, `CopyHeld`): a dispatcher on its way to publish has evidence that
is not injected, a reviewer on its way to finalize has released what it is about;
and that only published evidence is cited (`CitedIsSaved`). The serial properties need
`Serially`: on a request without overlap there is one handler at work (`OneAtWork`) and
one evidence (`OneEvidence`), its label tells what is on the board (`Stage`), task,
answer and evidence agree (`Agree`), and, as long as nothing has failed, whatever is not
yet as it should be has a handler on its way to it (`SeenTo`). Only one request changes
in a step (`Alone`), so the others need no proof of their own.

*Sourcing.* A turn is sequential, and `SourcingFits` says at each of its steps what it
may have asked, got and missed so far (`DataFits`, `ResearchFits`, `OthersFit`): the
samples of a data question only after the API gave nothing, the second provider only
after the first. A failure that did not end the turn is one beside material
(`FailedBeside`). `TraceIsTrue` and `RequestIsServed` are then proved per step.

*DocumentIngestion.* The invariant is about copies and lists, as both are saved late.
A record counts only chunks that exist, whoever holds it (`RecordsAreBacked`); what is of
the current version is of the current text, for the first version and for handlers in
turn (`Agreed`). That a completed job has all its chunks needs who will still activate
what another import has staged again (`WholeOrOwed`). For handlers in turn, what lives of
an older version is listed, or about to be, by an edit or by the job (`OldAreGoing`,
`FailingIsWhole`), and the current chunks are all active or none is, unless somebody is
at them (`WholeFits`).

*IngestionPool.* The permits need that a thread has an upload of its own and the queue
each pending one once (`WorkFits`, `QueueFits`); an upload holds its permit until its
release callback has run (`CallbacksFit`). The end of a shutdown needs that there is only
one under way (`StopFits`), that what it cancels is on its list until it is failed
(`CancelledFit`), and that it comes past its joins with an empty queue (`StoppedFits`).
The refinement adds that what is lost has no thread and no place in the queue, and that
no shutdown will fail it (`SlippedFit`), so it stays lost; and that a shutdown which
comes to failing jobs is owed exactly what is on its list (`OwedIsListed`).

*Chunker.* What a loop computes for every text would need induction over the text; the
model takes one step per round instead, so it is an invariant of a specification. That
invariant, `ChunkerFits`, has one part for every loop. The chunks put away so far are
windows in order up to the last character, except for newlines (`Covers`); the chunk that
is being filled goes on from there, or from the tail that it repeats (`InParagraphs`); the
pieces of a long paragraph adjoin each other and end where the sentences yet to be
gathered begin (`InSentences`, `Adjoin`); and the first piece continues behind what is
cut off already (`InPieces`). No two newlines are next to each other (`Spaced`), so one
`strip` is enough. That the part of a window is a window, and two that adjoin are one, are
lemmas about sequences (`WindowCut`, `WindowJoined`).

*VectorIndex.* Each property is inductive with the type and with what a work
carries: adoption compares hashes, so a late answer cannot match another text.

*Board.* `ChainOfCustody` speaks of what is stored, but a stale copy may be stored at
any time, so `IInv` says the same of every copy in a handler (`HandlerFits`): it names
known agents only, and a post that is going to be overwritten has the handoff that the
copy has. Hence no save ever takes a handoff back, and who is known stays known. The
same for the queue (`Reviewed`): a copy is of the request that its post was made of, and
a drain works on requests that were reviewed. One post of each request needs `OneEach`:
a lone drain works on requests without a post, and the post it has just added is the one
it is about to mark. `LInv` is what a handler has seen of a lock when no other is at work:
if its copy gives up or replaces an active lock, its user was allowed to.

*Governance.* `IInv` adds that no handler holds a copy of the item that says resolved
(`NoneCarriesResolved`): a PATCH of a resolved item is refused. The two serial theorems
need `SerialInv`: one handler at a time, whose edit is one version above the stored
one, with every stored version at or below it (`NextIsNew`), whose memory cites a
stored text (`MemoriesCite`), and which carries no item once a memory is there
(`ConfirmedForGood`).

*MemoryTiers.* A save may come late, so the invariant is about the copies:
`ItemFits` says that a handler on its way to save an item either accepts one that is
not private, or disputes a private one, which is never accepted
(`AcceptedIsShared`); since privacy never changes, this survives whatever others
save, and the step follows. For the serial parts `SerialFits` says what the one
handler at work has seen: that the skill it saves was not deprecated, and that there
was no summary.

*Search.* A record that is held was read at a moment of this search: if it was active and
readable then, it is in `ever`, and every right that has held all the time shows on the
copy (`HeldFits`). For a turn that asks the board, every matching record with such a right
is among the rows to be read, the copies or what was found (`RowsFit`), and what
a term by term pool has read is found (`TermsFit`).

*Market.* That an answer given unasked is ordinary is visible in its step, once the
matter at hand is known to be the helper's own (`MattersAreOwn`). `GoneAreSilent`
needs that nobody's turn goes on who has left before it (`GoneAreOut`), that there is
a user wherever the worker is in a turn (`TurnHasUser`), and that a match still counts
(`RoomForMatch`).

*Accounts.* The type needs that a handler at work is at work on a user
(`AtWorkOnUsers`). `Fits` says of each of the nineteen plans about accounts and six about
tools what its copies and lists are worth while handlers take turns: that a copy of the
user differs from the record in the one field that was ordered (`OrderFits`), that
sessions of an old password are on the list of whoever is ending them (`KeyFits`), that
an OAuth login is a member before its session is issued (`MemberFits`), and that there is
one grant, which says what was asked for last (`GrantKept`). `AccountStep` and `ToolStep`
reduce every action to its own account: the others see nothing of it, unless the two are
marked as having raced.

Out of the prover's reach, and checked by TLC only: liveness (`ReceiptSettles`,
`WorkerServesAll`, `JobSettles`, `StopEnds`, `WaitingEnds`, `ReviewedIsPublished`,
`NeedsAreMet`) and anything with ENABLED. Induction over data, which needs a theorem
with an operator parameter, and RECURSIVE operators, behind which the prover loses its
arithmetic, are out of its reach as well; no module here has need of either.

## 6. Not modelled

Text: prompts, wording, parsing of files, what a summary says, ranking and full text
matching. HTTP and its formats. Audit events and activity logs, which nothing reads to
decide anything (search finds activities, and `Search` has them). The web client's
pages other than the composer, and the older demo page: rendering and queries. The
evaluation harness and scripts, which are not part of the running system. The
permission policy is the seeded one; where a module does not have its predicates they
are taken as satisfied: the actors of a model are those the code lets through. Time:
timeouts are the choice that a provider fails, sessions do not expire. SQLite's own
lock waits count as a storage error.

Of the board: private posts, posts without a task, posts that somebody adds by hand,
and those that chat and research add to it. Of the inbox: delegated answers that are
revoked, resolved or adopted, which have no endpoint. Of accounts: names, teams,
cookies. Of the market: tasks as a source of signals. Of a turn: unknown commands,
missing input and `ask_system_info`.

## 7. Plan

Done: every part of the inventory that keeps state has its module and its run, the
safety properties of all of them have theorems, and two of them implement an abstract
specification.

1. `Board` joined with `ResearchDispatch`: replies and stale saves against evidence
   in quarantine, where a reply of type evidence counts as fulfilment.
2. Two editors of one document (lost edits), by a second editor in
   `DocumentIngestion`; jobs that a dead process left behind.
3. Pure algorithms against reference definitions: rank fusion, the scopes of data
   authorization.
4. Proofs: that the store operations of the handlers refine what each endpoint promises
   as one step where handlers take turns.
