# Verification of Rupsaa

TLA+ models of the Rupsaa companion service (this repository), the TLC runs
that check them on small instances, and the theorems about them that TLAPS
checks. `PROJECT.json` is the index: components, runs, mutants, the map from
definitions to source lines, hazards, findings and theorems. All paths below
are relative to the repository's root.

Contents: 1 the system, 2 the components and what makes each correct, 3 the
modules, 4 the runs, 5 what the runs found, 6 the proofs, 7 what is not
modelled, 8 the plan.

## 1. The system

Rupsaa is a chat companion around one local language model. A browser page
(`web/`) talks to a FastAPI server (`api/main.py`); the server has one
`RupsaaService` (`api/services.py`) that answers a chat turn from the model,
several local knowledge stores, what the user allowed it to remember, and, if
permitted, the web. An owner can log in inside the chat and teach it; the
taught records go to the knowledge stores. Next to the server there is an
offline workshop: a store of training examples with a review workflow,
snapshots and freezes of datasets, training drivers, and release scripts.

Three facts about how the server runs shape everything that follows.

* **`/chat` and `/teach/auth` run in worker threads** (`run_in_threadpool`,
  `api/main.py:144`), so several turns, of one conversation too, run at the
  same time. **Every other route is `async def` without a thread**, so it runs
  on the event loop, one at a time, between the steps of the turns.
* **State is in memory and keyed by a conversation id** the browser sends
  back: the conversations, the pending web question, the owner's login and
  teaching session, the follow-up terms, the language choice. A restart loses
  all of it and the browser does not know. User memory, internet preferences
  of users with an id, and knowledge records are files.
* **Some of this state has a lock, some has none.** The conversation table,
  the rate limiter, the knowledge store and the read-modify-write of a user's
  memory file do. A `Conversation` object, the side dicts, the pending
  question, and the owner's objects do not.

```
 page (web/app.js)
   |  /chat, /teach/auth            |  /conversation/reset, /memory/*, /internet/mode,
   |                                |  /teach/logout, /teach/cancel, /ready
   v                                v
 rate limiter (event loop)  ------> event loop
   |
   v  worker thread: RupsaaService.chat
 get_or_create ---- conversation store (locked)
 owner state ------ failure limiter, teaching session ---> knowledge stores
 preference, pending question ---------------------------> web search
 route, retrieve -- RAG index, general / terminology / dance stores
 generate --------- model, one generation at a time
 remember --------- user memory file
 append_turn ------ the Conversation object (no lock), then the store
 side state ------- _last_terms, _language, pruning
```

## 2. The components, their state, and what makes them correct

For every component: what it keeps, what it does, what is hard, and the
properties that make it correct. `PROJECT.json` lists the same components with
their files and status, and the hazards at their lines.

**Conversation store** (`rupsaa/conversation/manager.py`,
`InMemoryConversationStore`). *State:* an `OrderedDict` of id to conversation
and time last seen. *Operations:* `get`, `save`, `delete`, each under one lock;
the first two sweep idle and excess entries from the front. *Hard:* the sweep
looks at the front only. *Correct if:* the order is by last use, the bound
holds, nothing idle survives a use, nothing is lost early, nothing stale is
handed out.

**Conversation turns and side state** (`ConversationManager`, and
`RupsaaService.chat` around it). *State:* messages and the counter of dropped
ones in each `Conversation`; `_last_terms` and `_language` by id.
*Operations:* get-or-create, append a turn with the cap on the history, save,
note terms and language, prune, reset. *Hard:* no lock on a `Conversation`;
resets between the steps of a turn; ids that come from before a restart.
*Correct if:* a history is capped, a browser only ever continues its own
conversations, truncation is not hidden, a reset is final, the side state is
bounded.

**Rate limiter** (`api/security.py`). *State:* a deque of times per client and
one for the server. *Operation:* `check`. *Hard:* boundaries of a sliding
window, forgetting idle clients. *Correct if:* no window holds more than its
limit, no refusal without a full window, the wait it names is long enough.

**User memory** (`rupsaa/conversation/user_memory.py`). *State:* a file per
browser id: consent, facts. *Operations:* remember, consent on and off, delete
a fact, forget, get. *Hard:* read-modify-write from threads and the event
loop, a crash between them, an unlocked unlink. *Correct if:* one value per
slot, no acknowledged fact is lost, what was erased stays erased.

**Internet permission policy** (`rupsaa/conversation/internet_policy.py`).
*State:* ASK, ALLOW or DENY per user (file) or anonymous conversation
(memory); a pending question per conversation. *Operations:* commands in the
chat, approval and rejection, expiry of the question, search, the page's
selector, reset. *Hard:* the permission is given in one turn and used in
another, with other turns in between or beside it. *Correct if:* no search
without permission, a permission is used once and for the question it was
given for, an old one lapses.

**Owner / teacher mode** (`rupsaa/owner/teaching.py`). *State:* per
conversation an `OwnerState` (prompting, authenticated, times) and in it a
`TeachingSession` (topic, record to update, notes, draft, evidence); a failure
limiter per conversation and client. *Operations:* the secret, exit, expiry,
logout; lessons, corrections, preview, save, cancel, restart, topic check, web
evidence. *Hard:* a turn captures objects that others replace; the draft is
made by the slow model outside any lock. *Correct if:* what is saved is what
was previewed and confirmed, in a session that had not ended; an ended login
stays ended; guessing is limited.

**Model loading and readiness** (`api/services.py`, `api/main.py`,
`rupsaa/model/loader.py`). *State:* the engine, a loading flag, an error.
*Operations:* preload in a thread, lazy load under a lock, `/ready`, the 503 of
`/chat`. *Hard:* a failed load, several first requests. *Correct if:* the
model is loaded once, the server becomes ready or says why it is not.

**Knowledge stores** (`rupsaa/rag/general_knowledge.py`, `terminology.py`,
`dance.py`, with the owner's routes and imports): one JSON file per record, a
backup before each change, a cache; the first has a lock, the others do not.
*Hard:* concurrent edits, caches keyed by time stamps, backups named by the
second. *Correct if:* titles and aliases stay unique, no edit is lost, every
replaced revision is in the backups, readers see what was written.

**Documents and the RAG index** (`rupsaa/rag/document_manager.py`,
`pipeline.py`, `vector_store.py`, `retriever.py`, `chunker.py`, with backup and
restore): documents with a metadata file, an index written as two files,
pipelines held by different parts of the process. *Hard:* partial failure,
stale pipelines, a cut that must end. *Correct if:* what was saved stays, a
document of the tool can be edited, a reindex reaches the chat, no character of
a document is lost.

**Routing, context, language, web evidence** (`rupsaa/rag/router.py`,
`context_builder.py`, `web_search.py`, `source_policy.py`,
`rupsaa/conversation/language_control.py`): functions of the message and of
what earlier turns left: the carried entries, the language choice, the cached
answers. *Hard:* overlapping turns, entries switched off meanwhile, names
within names. *Correct if:* the turn follows on, and gets the best current
evidence.

**Prompts, guardrails, generation** (`rupsaa/personality/`,
`rupsaa/guardrails/`, `rupsaa/model/generation.py`): text in, text out.

**The page** (`web/app.js`) sends one message at a time, gives up after a
timeout, keeps the conversation id. *Hard:* a late reply against a new chat, a
retry of a message that was answered. *Correct if:* nothing the user wrote once
is recorded twice behind his back, New chat is new, no state lasts for ever.

**The owner's pages** (`web/knowledge.js`, `terminology.js`, `dance.js`,
`general.js`, `teach*.js`): forms, lists and imports. *Hard:* answers out of
order. *Correct if:* what is sent is what is shown.

**Start and stop** (`start_rupsaa.py`, the shell scripts). *State:* pid file,
processes, ports. *Correct if:* a stop stops, half a service does not stay.

**Training examples and their review** (`rupsaa/dataset/store.py`, `teach.py`,
`repair.py`, `voice_audit.py`, `dedup.py`, `scripts/dataset_*.py`): records as
files in directories by status. *Hard:* moves are two file operations, ids are
the largest on disk plus one, several processes. *Correct if:* nothing is lost,
decisions count, a verdict follows from the text, a split is fair.

**Review for training, training sets, training** (`scripts/v02_*.py`,
`v021_*.py`, `v021r2_*.py`, `v022_*.py`, `v03_*.py`, `posttrain_*.py`): batch
programs that read each other's files. *Hard:* files of different age, deaths
between writes. *Correct if:* a freeze holds what was reviewed and never
changes, held-out conversations are unseen, a recommendation was earned.

**Release** (`rupsaa/release.py`, `scripts/release_model.py`,
`release_gemma_final.py`, `fetch_adapter.py`, `finalize_release.sh`,
`check_production_config.py`). *Hard:* three remote calls, an adapter that is
trained anew meanwhile. *Correct if:* published is what was recorded, installed
is what was published, launched is what was approved.

## 3. The modules

| module | what it is | code |
| --- | --- | --- |
| `ConversationStore`, `MCConversationStore` | the table and its clock, one action per locked operation; with a history of uses for TLC | `manager.py:51-95` |
| `ChatTurns` | turns, resets and side state, step by step; has the store as an instance | `manager.py:98-150`, `services.py`, `main.py` |
| `RateLimiter` | `check`, with the true history of accepted requests beside it | `security.py:35-72` |
| `OwnerAuth` | the secret, the failure limiter, the two expiry limits, over concurrent turns | `teaching.py:130-230`, `services.py` |
| `UserMemoryAtomic` | the abstract memory: each request at once | docstrings of `user_memory.py` |
| `UserMemory` | the file, the lock, the steps of each operation, crashes; implements the abstract one | `user_memory.py:196-290` |
| `InternetPolicy` | turns, commands, the pending question, the routes | `internet_policy.py`, `services.py:308-420` |
| `Teaching` | the objects of an owner's login and lesson, turns and routes | `teaching.py`, `services.py:495-640` |
| `Serving` | a page with its server: sending, timeouts, retries, loading, readiness, the locks around the engine | `web/app.js`, `main.py`, `services.py` |
| `Launcher` | start script, Python launcher, stop script, pid file, signals, dying servers | `start_rupsaa.py` and the scripts |
| `KnowledgeStore` | the three record stores, file operation by file operation, with backups, caches, imports | `rag/general_knowledge.py`, `terminology.py`, `dance.py`, `owner_routes.py` |
| `KnowledgeDocuments` | documents, their metadata, the index on disk and in the chat, backup and restore | `rag/document_manager.py`, `pipeline.py`, `vector_store.py` |
| `OwnerPages` | forms, lists and imports of the owner's pages against late answers | `web/knowledge.js`, `terminology.js`, `dance.js`, `general.js`, `teach*.js` |
| `Chunking` | the cut of a document | `rag/chunker.py` |
| `Topics` | routing, look-ups, choice of entries, follow-ups, languages | `rag/router.py`, `context_builder.py`, `conversation/language_control.py` |
| `WebEvidence` | the web cache, ranking and cut; the choice among index hits | `rag/web_search.py`, `source_policy.py`, `pipeline.py` |
| `DatasetCuration` | the record files under lessons, imports, reviews, repairs, snapshots | `dataset/store.py`, `scripts/dataset_*.py` |
| `VoiceAudit` | the verdict on a conversation in its corpus | `dataset/voice_audit.py` |
| `DatasetSplits` | groups that must not be divided, and their division | `dataset/dedup.py`, `scripts/v02_freeze.py` |
| `TrainingReview` | diagnosis, automatic repair, decisions, candidate set, freeze of V0.2 | `dataset/language_quality.py`, `scripts/v02_*.py` |
| `TrainingSets` | the four corrective sets, each built on the one before | `scripts/v021_*.py` ... `v03_build_final.py` |
| `AdapterTraining` | preflight, checkpoints, evaluation, recommendation | `scripts/v02_preflight.py`, `posttrain_v02.py` |
| `EvalSuites` | which held-out records V0.1 never saw, worked out twice; the terms of the suite | `scripts/v02_freeze.py`, `v02_build_eval_suites.py` |
| `PreflightChecks` | the preflight of V0.2: what it runs, reads, moves aside and reports | `scripts/v02_preflight.py`, `v02_pretrain_smoke.py`, `v02_verify_frozen.py` |
| `PostTraining` | the measurement of three variants on one loaded model | `scripts/posttrain_v02.py` |
| `Release` | record, upload, tag, fetch, install, approval, launch check | `scripts/release_model.py`, `fetch_adapter.py`, `finalize_release.sh`, ... |
| `MCStores`, `MCHandlers`, `MCServing`, `MCScripts` | one run for several modules (section 4) | |
| `MCChatTurns`, `MCUserMemory`, `MCTrainingReview` | symmetry or sample data for the run of one module | |
| `Ordering` | Python's `sorted` of a set of pairs, for `WebEvidence` and `TrainingSets` | `sorted`, `list.sort` |
| `ConversationStore_proofs`, `ChatTurns_proofs`, `Teaching_proofs` | the theorems about the module each is named after, section 6 | |
| `Tables_proofs` | the theorems about `RateLimiter`, `UserMemory`, `OwnerAuth` | |
| `Service_proofs` | those about `Serving`, `Launcher`, `InternetPolicy` | |
| `KnowledgeStore_proofs` | those about `KnowledgeStore`, `KnowledgeDocuments`, `OwnerPages`, `WebEvidence`, `Topics` | |
| `Scripts_proofs` | those about the parts of `MCScripts`: suites, splits, release, training, measurement, curation, voice audit, review, training sets, preflight | |
| `DataLemmas` | facts about numbers, sets and sequences that several proofs cite | |

Conventions. A comment "Mutant of X" marks a definition that is a plausible
bug of the code X stands for; no specification uses it. Variables marked
"history" are not in the program: they remember what a property needs.
Constants called `Max...` that are marked "bound" limit a behaviour, not the
program. Threads are split where the interpreter may switch between them,
which is at calls; commands and page scripts where they may die or wait; what
happens between two such points is one step.

**ConversationStore.** `table` is the `OrderedDict` as a sequence, least
recently used first, `now` the monotonic clock. `Expire` is the loop of
`_expire`, stated as "from the first entry at which the loop stops"; `GetHit`
and `GetMiss` are the two outcomes of `get`. The clock may move between any
two operations.

**ChatTurns.** A turn is a program counter and its local variables:
`lookup` and `create` (`get_or_create`), `answer`, the two appends, `measure`,
`overflow` and `trim` (the cap), `save`, `terms`, `lang`, and the pruning loop
with one `get` per key. The append of a message is two steps, because Python
fetches the list before it builds the message and another turn may bind
`conversation.messages` to a new list in between (`listNo` tells lists apart).
The dict iteration of the pruning raises when another turn changed the number
of keys (`PruneRaises`). A reset is three steps on the event loop. A reply, a
fixed reply (which does not note terms) and a refused message (which is not
recorded) differ in the steps they take. Of the two side dicts the model has the
sets of their keys (`terms`, `lang`). `Foreign` ids are those of before a
restart, or made up.

**RateLimiter.** `hits`, `keys`, `global` are the code's; `log` and `glog` hold
every accepted request for ever. `check` runs under its lock and its three
outcomes are three actions.

**OwnerAuth.** A turn takes the time it arrived, looks at its conversation's
owner object, and goes on as the owner's turn, as the answer to the secret
prompt or as anybody's; asking the limiter, comparing, and counting the failure
are three steps, as in `_handle_secret`. `heard` is the history of logins and
turns, per `OwnerState` object (two logins of one conversation are two of them),
`failures` that of the failed attempts.

**UserMemory.** One browser id. A request goes through the steps of its
operation: lock, `exists`, read, change, write (atomic replace), unlock; or for
`forget`, exists and unlink without the lock. A read or an unlink that finds
the file gone raises and ends the request. `Crash` ends everything that runs
and keeps the file. A chat turn is taken to state one fact; the reads of a
chat turn outside these operations change nothing and are left out.
`UserMemoryAtomic` is the abstract specification; `AtomicSpec` is the
refinement under `consent <- file.consent, facts <- file.facts`.

**InternetPolicy.** A turn reads the mode, reads (and maybe expires) the
pending question, decides which command the message is, stores a preference or
drops the question, asks, searches, or does neither. What the patterns tell
apart about a message is its *kind*; `Command` is `detect_command` on kinds.
The turn's time is the time it arrived, as in the code. That an approval does
not look at the mode (`services.py:334`) is in the model, and that the pending
question is popped after its search only; section 5 tells of both. The
passing properties leave these cases out: `OnlyWithPermission` is about turns
that go by ASK, `ApprovalSearchesTheQuestion` about those that do not go by DENY,
`SearchedAtMostOnce` about turns that arrive after the answer.

**Teaching.** A turn captures the `OwnerState` and its session and keeps using
them, so both are numbered objects; `owner` is the one in `_owner[cid]`.
Session expiry is left open (it may happen at the start of any turn): its
times are in `OwnerAuth`. Branches, in the code's order: exit, save,
cancel, restart, verify, check, teaching content; a "save" without a draft and
a "cancel" with nothing to cancel fall through to teaching content, as in the
code. The draft of a lesson is made of the notes the model was given, or of
those there are when it failed. A save may be refused by the store, and
creating a draft twice is. The record a check found is put into the session
that is the owner's by then, which another turn or a route may have replaced. A
restart keeps the record and the evidence of the session it replaces (`Held`):
it reads them from the session the turn captured and puts them into a new one
later, so a record that was discarded in between is in use again, and the history
`gone` of what was discarded says so.

**Serving.** `page` holds what app.js keeps (conversation id, what is being
sent, the text offered again, the countdown); a request is a thread with a
program counter from `/chat`'s checks over the lock of the loader, the second
look, the load and the generation lock to the reply. A reply travels by itself:
the page may have given up, pressed New chat or been opened anew. The
environment fails loads, changes the adapter's directory under a load, and
kills and restarts the server; configurations with and without preload and
production mode are initial states.

**Launcher.** One record per run of the start script: the shell, the Python
process it started, the two servers. The shell writes the pid file, then forks
its child, which becomes Python a moment later (`WritePidFile`, `Fork`, `Exec`).
The stop script looks for that child and then signals it or, when `pgrep` saw
none, the shell (`FindChild`, `KillChild`, `KillShell`); a child whose shell was
killed goes on. When the signal finds nobody, the script ends with an error
(`KillFails`, `set -e`). The ports are taken by whoever binds
first. A signal may find Python anywhere, also between spawning a server and
noting it (`slipped`), which is a window of the code itself.

**KnowledgeStore.** `kind` says which of the three stores a behaviour is of:
they share the sequence of file operations and differ in lock, backup and
cache key. An actor (the event loop, a worker with a lesson or a look-up) has a
list of operations still to do. A bulk import has the rows it was given, with
what commit does with each: create, update, or skip. When one row's handler ends,
by success or by an error, the next row that is not skipped begins. The
signature of a file is its modification time (general) or time, size and inode.
The clock may stand still for any number of writes. The general cache cannot tell
two versions of one tick apart; `blurred` is the history of the records of that
store that were written twice in one tick.

**KnowledgeDocuments.** A document is a version, the index two files, the
pipelines what they loaded; owner routes, the ingest script and the first chat
turn are the actors. A crash may tear the metadata file that is being written,
and leave the two files of the index of different ages.

**OwnerPages.** Each script of the page is a set of handlers over `form`,
`upload` and the calls in flight; answers come in any order, late or never.

**Topics.** A message is what the patterns see in it (the header lists the
fields), the stores are sets of names that the owner switches on and off
between and during turns. `Knowledge` is `match_records` and the choice of
`context_builder` in their order. **WebEvidence** has the cache by query and
the provider's clock; pages are a url and a class. The index is scored
pieces, of the owner's documents and, when it is old, of tooling files; the
`TopK` best of all are retrieved (any of equal ones), those below `MinScore`
dropped, then those of tooling files, and the rest measured against the best of
what is left. **Chunking** is one action per pass of the loops.

**DatasetCuration.** Records are files by directory and number, a move is two
operations, ids are the largest number on disk plus one; commands may die
between any two operations, lessons of the web server run beside them. A write empties
its file first, so a process that dies in it leaves a torn file (`torn`): one
that cannot be loaded, and at which every command that lists the store fails.
**VoiceAudit** and **DatasetSplits** are pure functions with a behaviour around
them: faults or replies are added and the audit run again; relations are united
in any order and then whole groups placed. **TrainingReview** and
**TrainingSets** are the files that scripts leave for one another; each script
reads what is there when it runs. The leakage check of the first two sets lets a
held-out turn that also stands in V0.2 pass when it is shorter than MIN_LEN
(`NearLong`, `ShortTurns`); the later sets compare ids only. **AdapterTraining** keeps the directory of
the adapter, the runs moved aside, the trainer and the evaluation, each of
which may die. **EvalSuites** has the texts a record had in V0.1's snapshot and
has in the live store, which the owner edits meanwhile; the freeze and the suite
builder each work out which held-out records V0.1 never saw, and the builder
stops when they disagree. **PreflightChecks** takes the steps of the preflight
one by one, between which the owner edits files and the programs it runs die.
**PostTraining** goes through the jobs, variants and turns of the evaluation;
the adapter that is active and the turns of the case so far are its state.
**Release** has the adapter directories, the hub (folder and
tag), the record with its checksums and the lines of `.env`.

## 4. The runs

Every run that passes is exhaustive over its instance. Deadlock is not checked:
each model stops when its bounds are used up or its clock is at its last
reading. Four runs join modules that share no state: the first state chooses
which part runs (`part`), the others stand still, so the states add up and do
not multiply. Within a part everything that shares state is composed.

| run | instance | distinct states | properties |
| --- | --- | --- | --- |
| `stores` | conversations: 4 ids, 2 kept, idle 2, clock 0..5; limiter: 2 clients, 2 per client, 3 for the server, window 3, 1 key, clock 0..6; sessions: 2 workers, 4 turns, idle 1, at most 2, lock after 2; records: 2 names, 2 ids, 2 edits, files of 2 rows; documents: 2, 3 requests, 1 crash; pages: 3 clicks, 2 files; texts of up to 3 paragraphs, 4 overlaps; 5 entries, 12 messages, 2 chats, 3 turns; 5 web answers, cache of 2 ticks; memory without forget: 5 requests | 1.9 million | `StoreInv`, `NoEarlyLoss`, `NothingIdleAfterUse`; `LimiterInv`, `WindowLimits`, `RefusedOnlyWhenFull`, `WaitIsEnough`; `OwnerGuarded`; `NamesUnique`, `SavedIsServed`; `DocumentsKept`; `PagesSendWhatTheyShow`; `ChunkingEnds`; `TurnsFollowOn`; `BestEvidenceOnly`; `AtomicSpec` |
| `turns` | 3 turns of 2 browsers on 2 threads, 3 ids and one foreign, 1 conversation kept, cap 2, clock 0..1 | 4.2 million | `HistoryBounded`, `OwnHistoryOnly`, `HonestTruncation`, `ResetIsFinal`, `SideStateBounded` |
| `handlers` | permission: 3 turns on 2 threads, 5 kinds of messages, 1 setting on the page, question valid 0, clock 0..1; lessons: 4 turns on 2 threads, one beginning while another runs, 7 kinds of messages and logins, 1 route; memory: 5 requests, 2 threads and the loop, 3 slots, cap 2 | 8.3 million | `OnlyWithPermission`, `SearchedAtMostOnce`, `ApprovalSearchesTheQuestion`; `SavesOnlyInSession`, `DiscardedStaysUnsaved`, `SavedAsPreviewed`, `UpdatesTheSubject`; `FactsStay` |
| `serving` | 2 messages, 2 requests, 1 incident, 1 New chat; 2 runs of the start script, 1 server that dies | 0.7 million | `EngineIsRight`, `PageIsTrue`, `NobodyWaitsForEver`; `StopWorks`, `NoHalfService` |
| `scripts` | 2 record numbers, 5 commands; 7 faults, 2 in a text; 4 records in 2 languages; 7 replies, 6 commands; 12 conversations, 2 versions of the knowledge; 2 runs of 2 checkpoints; 2 releases, 2 builds, 4 scripts, 1 death; suites of 2 records in 2 wordings, 1 term, 1 edit; 4 jobs measured, 3 possible replies; 2 preflights, 2 edits | 3.0 million | `FinishedStays`, `ReviewsCount`, `OnlyApprovedServes`, `VerdictIsJust`, `JudgedOnUnseen`, `TrainedOnSound` |
| `memory_erased`, `serving_refused`, `knowledge_reindex`, `freeze_rejected`, `import_unreviewed`, `deny_searched`, `stop_orphans` | the instances above or smaller; `memory_erased` with 6 requests | | one each, section 5 |

What the properties that join several facts say, conjunct by conjunct (each
conjunct is a definition of its own with its comment, and most have their own
mutant):

| property | conjuncts |
| --- | --- |
| `FactsStay` | one value per slot; an acknowledged fact is kept unless the cap or a request removes it |
| `OwnerGuarded` | `GuessesBounded`: the comparisons a window admits, with as many more as turns may overlap; `SessionEnds`: no owner's turn after the idle or the absolute limit |
| `SavedIsServed` | acknowledged edits of the general store stay; the caches of the other two serve what the file says |
| `DocumentsKept` | saved documents stay; those from before the tool are untouched; those of the tool remain editable without crash and restore |
| `PagesSendWhatTheyShow` | a form is saved to the record it shows; the terminology import sends the file that was previewed |
| `TurnsFollowOn` | nothing switched off is used; a follow-up keeps its topic; the specific name wins, but for a looser one that is asked for by its exact name or by its meaning, and for messages with more general names than a look-up returns; a lasting language lasts |
| `BestEvidenceOnly` | a page is shown only with every better one; nothing from the cache is an hour old; a good piece of a document is taken unless `TopK` pieces of the index, tooling files among them, are at least as near |
| `EngineIsRight` | production never has the base model; one load per process |
| `PageIsTrue` | a message is recorded once, plus once per request given up; New chat leaves the old conversation |
| `NobodyWaitsForEver` | sending ends; a turn that waits for the model ends; "starting up" ends |
| `StopWorks` | after a stop script that found the launcher its instance is gone; without overlapping scripts the pid file names what runs |
| `FinishedStays` | records survive moves and commands that die, but for a death while the only file of one is written over; snapshots, freezes, finished trainings and published releases never change |
| `ReviewsCount` | nothing undecided and objected to is frozen; the manifest tells the truth wherever a freeze died; a bulk review changes nothing decided since its list |
| `OnlyApprovedServes` | the guide names the best checkpoint and was earned; the three variants were measured alike; what is recorded as uploaded is; only recorded files are installed; only approved weights pass the launch check |
| `VerdictIsJust` | STRONG has no flag; ungrounded claims are WEAK; one fault more never raises the verdict |
| `JudgedOnUnseen` | `SplitIsFair`: no relation crosses the split, no set exceeds its share by more than a group; `ComparisonIsFair`: V0.2 and V0.1 are compared on exactly the held-out records V0.1 never saw, and on terms the frozen data do not mention |
| `TrainedOnSound` | `SetsAreSound`: held-out conversations are not trained on (the first two sets by turns and subjects, but for short turns that V0.2 has too; the later two by id), a freeze is what was authorized, the trainer's evaluation slice is unseen; `PreflightIsHonest`: a preflight that passed judged the files of now |

Why the bounds are enough to be interesting:

* *conversations*: four ids against a table for two make evictions by number; idle 2
  within 0..5 makes expiry, the boundary (exactly 2) and two generations of it.
* *limiter*: the clock covers two windows, so a deque is filled, partly aged
  and filled again; the server's limit lies between one client's limit and the
  sum of all; with one key remembered, the forgetting of clients happens.
* *sessions*: three readings after the login pass the idle limit, the absolute
  one, and the first without the second; two workers overlap two guesses.
* *memory*: a cap of two below three slots makes the cap drop facts; two
  values make corrections; five requests are enough for on, remember, and three
  more in any order, on three processes.
* `turns`: a table for one conversation and two browsers make a turn's
  conversation disappear under it; three turns with a cap of two messages make
  every turn after the first trim, and let two overlapping turns meet a third
  that comes later.
* *permission*: a question, its answer and one more turn, any two at once. A
  validity of 0 with clock 0..1 has both sides of the boundary. The kinds
  leave out "ask", "halt" and "chat", which differ from "deny", "no" and "no"
  in no guard these properties look at, and "stop", which is "no" with a question
  pending and "deny" without (`Command`).
* *lessons*: check, restart, lesson and save make four turns. One turn may
  begin while another runs (`MaxOverlaps`), anywhere, and a route at any moment.
  With three turns, any number overlapping, the properties hold too.
* *records, documents, pages*: two changes of one record, or of two records
  that want one name, in every order of their file operations; a request, a
  crash in it and the request after it; two files with their previews in
  flight, and an edit, a cancel and a save on one form.
* *texts*: paragraph lengths around the chunk size of 5 (1, 2, 4, 5, 6, 11), up
  to three of them, with overlaps 0, below, one below and equal to the size.
* *topics*: a general name that contains a term, a misspelt one, a common word
  that is a dance; three turns are a topic, a follow-up and what comes after
  it, two of them overlapping, with two switches between.
* `serving`: a timeout with a retry needs two requests for one message, a late
  reply after New chat needs one more; one incident is a failed load, a changed
  adapter or a crash. Two runs of the start script meet on pid file and ports.
* `scripts`: every file operation of a command may be the last one before it
  dies, and the next command finds what it left; two hands at one record, two
  runs of one adapter, two releases in one `.env` are the smallest instances
  in which something can be overwritten. In the suites two records may hold one
  wording, and an edit or a deletion in the store falls between any two steps of
  freeze and builder. The measured jobs are two losses, a terminology case whose second reply
  must be shorter than the first, and a live check. Two preflights let one find the files
  of the other, with two edits or a training in between.

Symmetry is used for ids, threads, slots and values that no definition tells
apart, and only in runs without liveness properties.

Properties about turns that are said to hold "unless turns overlapped" are
about the conversations of a page that waits for each reply, as the page does
except after its timeout; the histories say when a turn ran alone. What holds
in every interleaving is stated without that condition.

**Fairness.** Safety properties are checked without any: a thread or a command
may stop at any point, which also stands for a call that never returns.
Liveness is stated in three places, under weak fairness of what runs by itself.
`ServingFairness`: threads of the server take their steps (a load or a
generation ends, with success or failure), replies that were sent arrive or the
page's timer fires, the health poll runs. Nothing else is owed: nobody has to
open the page, write, press New chat, or restart a server that died. Locks are
taken by threads that are fair step by step; with the bounded number of
requests a fair lock needs no more. `LauncherFairness`: the Python launcher goes
on with its loop; nobody has to start or stop anything and no server has to
die. `Chunking`: the loop runs on.

**Mutants.** For every property of a passing run, one or more definitions of
the model are replaced by a form with a plausible bug, named in `PROJECT.json`;
TLC then finds the property violated. For instance: assigning an entry without
moving it to the end (`RewriteInPlace`), adopting the id a browser sends
(`AdoptSentId`), not taking the lock (`MayEnterUnlocked`), a page that gives up
without leaving the sending state (`GiveUpSilently`), a load that fails with the
lock held (`LoadFailsLocked`), unlinking before writing in a move
(`MoveUnlinkingFirst`), uniting leaves instead of roots (`UniteLeaves`), comparing
held-out conversations by id only (`LeakCheckByIdOnly`), a manifest written
before the files it lists (`ManifestFirst`).

## 5. What the runs found

Each is a run that TLC must find violated, with the document or comment it goes
against quoted in `PROJECT.json`.

* `memory_erased` (bug): `forget` unlinks the file without the lock. A
  remember that has read the file writes it back: facts and consent return
  after the user was told they are gone. `stores` shows (`AtomicSpec`) that
  without this operation the memory is atomic, so the lock is all that is
  missing.
* `serving_refused` (bug): a preload that fails sets `load_error`, nothing clears
  it, and `/chat` refuses every turn with "please try again in a minute", also
  when a load on demand would succeed.
* `knowledge_reindex`: a reindex from the owner's page builds a pipeline of its
  own; the chat keeps the one it loaded.
* `freeze_rejected`: the candidate set takes an automatically accepted repair
  without looking whether a person has rejected the record since.
* `import_unreviewed` (bug): on the dance and general tabs the rows of one file
  may be on the page while Import sends another; the terminology tab sets file
  and rows together and keeps it (`PagesSendWhatTheyShow`).
* `deny_searched`: a question is pending, the page sets DENY, the user answers
  "ha": the approval does not look at the mode and the web is searched, although
  DENY "never searches".
* `stop_orphans` (bug): the pid file is written before the launcher is started. A
  stop in between kills the shell only and says "stopped", while the child starts both
  servers, which no pid file names any more.

Observations on the way, for which no run is kept: no document contradicts them,
they are visible without a model, or a property says what is left without them.

*Server.* The pending question is popped after its search (`services.py:334`), so two
approvals that overlap (two tabs, or a retry after the page gave up) both search it:
`SearchedAtMostOnce` is what holds of turns that follow one another. New chat beside a
turn that is being answered is undone by the turn's save, with all of its messages
(`services.py:634`): `ResetIsFinal` is what holds when no turn is under way. Two
overlapping turns may count dropped messages twice
(`HonestTruncation`: never too few). A pruning turn can fail with a
`RuntimeError` when another changes the dict (`PruneRaises`), after its reply
was recorded. Idle clients' deques with old hits are never deleted
(`security.py:66`), nor are entries of `_owner` (`services.py:224`). With a question pending, a one-off "stop using
the internet" is neither a preference nor a rejection. A cancel between the two
assignments of a topic check leaves the record in the fresh session
(`services.py:574`; the preview names it). Of several lasting language choices in
overlapping turns the one recorded last wins, and a turn under way may undo a
choice made beside it (`ChoiceLasts` says exactly when).

*Knowledge.* The cache of the general store goes by `st_mtime_ns` alone, the key that the
terminology store gave up because it "missed a rewrite landing in the same timestamp tick"
(`terminology.py:155`). An import that updates one record from two rows can write it twice
in a tick; the next check for duplicates then reads the names of the version between, and
two records may share one (`NamesUnique` leaves such records out). Backups are
named by the second; concurrent edits in the terminology and dance stores lose
one another. `.metadata.json` is not written atomically, and the restore script
accepts no `knowledge/general`, which the backup script archives. A crash between
the two files of the index leaves vectors and chunks of different ages; an embedding
that fails in `service.reindex` leaves an empty store. Pieces of tooling files in an
old index are retrieved like any other and dropped afterwards, so each takes the
place of a piece of a document. The row numbers of an import
are those of the preview, the rows those of the commit. With two carried topics
a message that names a third drops it. A failed Wikipedia look-up is cached for an
hour. A long sentence with overlap yields a last slice that is contained in the
one before.

*Pages.* After a failed first health check the page never polls again
(`app.js:186` also reads a field `/health` does not have). A reply that arrives
after New chat sets the conversation id back (`NewChatIsNew` exempts exactly
that). Late list answers overwrite newer ones; text typed while a save is in
flight is wiped.

*Scripts.* Two lessons may get one id (`store.py:64`). A crash in a move leaves
the record in two directories, although the store says one file per record. A
crash in a write over the record's only file (a repair, a move between `draft` and
`needs_edit`) loses the record (`TornInPlace`), and the torn file makes every
command that lists the store fail. A
partial snapshot blocks its name. A freeze that dies after making its directory
blocks later ones. Decisions after a build do not reach the frozen set.
`v022_build_final --freeze` does not look whether a freeze exists, and compares
held-out conversations by id only. The leakage check only warns of held-out turns below
MIN_LEN characters that stand in the frozen V0.2, which is trained on again; its
report says so. The preflight may move a running training's
directory aside. A crash between upload and tag leaves a folder every later
upload refuses. Fetching another release overwrites the adapter path of `.env`.
With `RUPSAA_PROMPT_VERSION=v0.2` from `.env.example` the prompt does not follow
the release's name. The stop script's last `rm` may remove the pid file of a new
instance; two starts at once may each get one port and both give up.

## 6. The proofs

TLAPS proves these for every value of the constants that satisfies the named
assumptions; the runs show them on the instances of section 4. Every safety and
action property of a passing run, and the refinement, is the statement of one of
them; only liveness is left to TLC.

| module | theorem | statement |
| --- | --- | --- |
| `ConversationStore_proofs` | `StoreCorrect` | `Spec => []StoreInv` |
| | `IdleConversationsExpire` | `Spec => NothingIdleAfterUse` |
| | `NothingIsLostEarly` | `MCSpec => []NoEarlyLoss` |
| `ChatTurns_proofs` | `TurnsCorrect` | `Spec => []TurnsInv` |
| | `HistoryStaysBounded` | `Spec => []HistoryBounded` |
| | `NoForeignWords` | `Spec => []OwnHistoryOnly` |
| | `TruncationIsHonest` | `Spec => []HonestTruncation` |
| | `ResetStaysFinal` | `Spec => []ResetIsFinal` |
| | `SideStateCounted` | `Spec => []SideInv` |
| | `SideStateStaysBounded` | `Spec => []SideStateBounded` |
| `Teaching_proofs` | `TeachingCorrect` | `TeachingSpec => []TeachInv` |
| | `NoSaveWithoutOwner` | `TeachingSpec => []SavesOnlyInSession` |
| | `DiscardedIsFinal` | `TeachingSpec => []DiscardedStaysUnsaved` |
| | `PreviewIsSaved` | `TeachingSpec => []SavedAsPreviewed` |
| | `LessonIsAboutTheSubject` | `TeachingSpec => []UpdatesTheSubject` |
| `Tables_proofs` | `LimiterCorrect` | `LimiterSpec => []LimiterInv` |
| | `LimitsHold` | `LimiterSpec => []WindowLimits` |
| | `RefusalsAreJustified` | `LimiterSpec => RefusedOnlyWhenFull` |
| | `WaitingHelps` | `LimiterSpec => WaitIsEnough` |
| | `MemoryCorrect` | `MemorySpec => []MemoryInv` |
| | `FactsStayRemembered` | `MemorySpec => []FactsStay` |
| | `MemoryIsAtomic` | without `forget`: `MemorySpec => AtomicSpec`, the refinement |
| | `AuthCorrect` | `AuthSpec => []AuthInv` |
| | `TeacherModeGuarded` | `AuthSpec => OwnerGuarded` |
| `Service_proofs` | `ServingInvariant` | `ServingSpec => []ServingInv` |
| | `EngineRight` | `ServingSpec => []EngineIsRight` |
| | `PageTrue` | `ServingSpec => []PageIsTrue` |
| | `LauncherInvariant` | `LauncherSpec => []LauncherInv` |
| | `StopAlwaysWorks` | `LauncherSpec => []StopWorks` |
| | `PolicyCorrect` | `PolicySpec => [](PolicyInv /\ ApprovalInv)` |
| | `NeverWithoutPermission` | `PolicySpec => []OnlyWithPermission` |
| | `NoSecondSearch` | `PolicySpec => []SearchedAtMostOnce` |
| | `ApprovalIsOfTheQuestion` | `PolicySpec => []ApprovalSearchesTheQuestion` |
| `KnowledgeStore_proofs` | `KnowledgeCorrect` | `KnowledgeSpec => []KnowledgeInv` |
| | `NoNameTwice` | `KnowledgeSpec => []NamesUnique` |
| | `WhatWasSavedIsServed` | `KnowledgeSpec => []SavedIsServed` |
| | `DocumentsCorrect` | `DocumentsSpec => []DocumentsInv` |
| | `DocumentsSafe` | `DocumentsSpec => []DocumentsKept` |
| | `PagesCorrect` | `PagesSpec => []PagesInv` |
| | `PagesHonest` | `PagesSpec => []PagesSendWhatTheyShow` |
| | `EvidenceInvariant` | `EvidenceSpec => []EvidenceInv` |
| | `BestIsShown` | `EvidenceSpec => []BestEvidenceOnly` |
| | `TopicsCorrect` | `TopicsSpec => []TopicsInv` |
| | `TurnsGoOn` | `TopicsSpec => TurnsFollowOn` |
| `Scripts_proofs` | `JudgesCorrect` | `WorkSpec => [](SplitsInv /\ SuitesInv)` |
| | `JudgesAreFair` | `WorkSpec => []JudgedOnUnseen` |
| | `ApprovalsCorrect` | `WorkSpec => []ServingWorkInv`: release, training, measurement |
| | `ApprovedServes` | `WorkSpec => OnlyApprovedServes` |
| | `DataCorrect` | `WorkSpec => []DataWorkInv`: curation, audit, review, training sets, preflight |
| | `DecisionsCount` | `WorkSpec => ReviewsCount` |
| | `WhatIsDoneStays` | `WorkSpec => FinishedStays` |
| | `SetsAreAsSaid` | `WorkSpec => []TrainedOnSound` |
| | `AuditsAreJust` | `WorkSpec => VerdictIsJust` |

*The assumptions* are the `ASSUME`s of the modelled modules, and TLC evaluates
them in every run. Limits and bounds are naturals, those the code forces to be at
least one are positive, times are naturals that include the first reading, and the
markers ("no user", "no id", "no file", "no reply", the event loop) are not
members of the sets they are markers for. Sets that the proofs count are finite:
threads (a pool has a limit), workers, documents, records, conversations of the
training data. What else there is, by module:

* `OwnerAuth`: some failures are needed for a lock, and a lock lasts at least as
  long as the window in which failures are counted (in
  the code five failures within 15 minutes lock for 15 minutes). With a shorter lock the old failures would still count after it.
* `KnowledgeStore`, `KnowledgeDocuments`: ids are 1..n. The model has finitely
  many; the code tries `_2`, `_3`, ... until one is free.
* `WebEvidence`: an engine does not give one page twice in one answer, and
  answers are kept for some time.
* `Topics`: the three stores are finite and disjoint; "is part of" between names
  is transitive, and of any general names the longest is part of none.
* `VoiceAudit`: the shares are naturals (percent), to block takes no smaller one
  than to warn.
* `DatasetSplits`: the two shares leave something for the test.
* `TrainingSets`: an id has its kind in it (the prefix of each source file), so
  conversations with one id are of one kind; the evaluation slice of n rows is some
  of these n rows.

Threads, browsers, conversations, slots, values and names are any sets, the kinds
of messages any of those the models know; the bounds on turns, requests, edits
and rows are any naturals. The one hypothesis beside them is that of
`MemoryIsAtomic`; with `forget` the refinement is false, which is the finding
`memory_erased`.

What follows is the argument of each proof: the inductive invariant, and why the
property needs it.

*The store.* The bound and the absence of idle entries do not follow from
themselves: `_expire` stops at the first entry that may stay, so they need the
table to be ordered by the time last seen, and that needs each id to occur
once, or moving an entry to the end could leave an older copy behind.
`StoreInv` is therefore the conjunction of type, `UniqueIds`, `OrderedBySeen`
and `Bounded`, and is inductive. The lemmas: the first stop exists and is
first (`FirstKeptIsFirst`), sweeping keeps a suffix, its order and its
uniqueness and leaves it bounded (`ExpireProperties`, `ExpireKeepsOrder`), a
fresh front means a fresh table when it is ordered (`FreshHeadFreshTable`),
and removing and re-appending an entry (`WithoutProperties`,
`MoveToEndProperties`). For `NoEarlyLoss` the invariant counts (`UsesInv`): the
conversations behind an entry are among those used since its last use
(`BehindCounts`), so when the bound pushes an entry out enough of them were;
what goes for any other reason was idle or deleted.

*The turns.* `TurnsInv` uses the proved theorems about the store: `ConversationStore_proofs`
is instantiated with the table the turns share, and each of its operations keeps
`StoreInv`. Beyond that: an id is known to the browser it was created for and nobody else
(`Issued`); a list is replaced only by a trim that drops something, and a message
misses its list only after one (`Truncated`), so a hole is always announced;
a conversation that was reset while nobody worked on it is out of the
store and of every later turn's reach (`ResetKept`).

*The side state.* The bound of `SideStateBounded` is a count. Who adds a key checks the
limit afterwards (`WillCheck`), so at rest the last to check decides. A prune goes
over keys it listed earlier while others add some. Of the keys it listed it will leave
those it may still find alive (`Remaining`): at most the table and the conversations
in the hands of other turns (`Reach`). `SideInv` says that a prune has failed, or
somebody will still check, or what a prune under way will leave is within what the
overlaps allow.

*The teacher.* `TeachInv` says what a turn holds at each label (`Fits`), that two
logins never share a session or anything in one (`Apart`), that what a turn brings is
nowhere before it puts it somewhere (`Unused`), and that without overlap the last
preview is of the current session (`ShownIsCurrent`, `SubjectIsCurrent`). The
attempt to prove `DiscardedStaysUnsaved` failed at `Replace`, rightly: the
history took everything of the replaced session as discarded, while a
restart that was slow puts a record back which a route had discarded meanwhile.
The code means that (`services.py:543` keeps topic, record and evidence on a restart), the
history was wrong, and `Held` corrects it.

*The limiter.* `WindowLimits` is about every accepted request there ever was,
which the program does not keep. The inductive invariant relates the deques to
that log: each deque is the end of the log, and what it has dropped has aged
(`Tracks`). A full deque then means the last `limit` requests, so a request
that is let in comes at least a window after the `limit`-th before it
(`AppendSpaced`). For the refusals the converse is needed: the hits in a full
deque are that many different requests of the log inside the window
(`QueueCountsWindow`), with the cardinality of an interval. `WaitingHelps`: at the
time `check` names, the first hit of the full deque has left the window, and what
is still in it is less than the limit (`RoomAfterFirst`).

*The memory.* `MemoryInv` follows a fact from its acknowledgement: while it is
expected to be there, no request that touches its slot runs, so the file has it, and
so does the copy in the hands of whoever holds the lock and will write. The lemmas
say what a correction, a new slot, the cap and a deletion do to a list of
facts. The refinement needs one more fact, true only without `forget`: the
holder's copy is the file. The write is then the abstract step, everything else a
stutter (`StepIsAtomic`).

*The owner's login.* The failures of a key are again a history of which the queue is
the end, but it loses entries for two reasons: they have aged, or the key was locked,
which empties it. `LockedAt(k, j)` says of the failure that locked what makes it count:
until the lock ends only turns that had asked the limiter before it can still fail,
of which there is at most one for each other worker (`Comparing` counts those on
their way). Five failures and one more in a window then have a lock between
them unless these turns are in it. Sessions: the history of logins and turns is at
least as late as the times `expired` looks at (`SessionTold`), and a turn about to be
served came before both limits (`InTime`).

*The service.* `ServingInv` has the engine and the page. Past the second look a thread holds
the lock of the loader while there is no engine (`LoaderHoldsLock`), hence one load
(`LoadsCounted`); in production an engine is adapted, whatever happened to the
directory (`ProductionServesAdapter`). A message the page still waits for is under way or
answered, and in one place (`PageWaits`, `TextOnce`); one that was recorded for a request that
was given up is nowhere else (`RecordedIsGone`), so each record is paid for by a request.

*The launcher.* `LauncherInv`: Python and the servers of a launch come after its shell
has forked, and outlive it only when a stop killed the shell (`LaunchesAreNested`); a server that runs is noted, about to be noted, or was
slipped by a signal (`ServersAreKnown`); the stop script knows past its wait that
the shell it found has ended (`StopperFollows`); and without overlap one script
is at work (`AloneAtWork`), so that the pid file names what runs.

*The permission.* Questions are numbered by the turn that raised them. `PolicyInv`
says where a number may be: pending, in the hands of the one turn that took it up
in time, or given up; it never comes back after it left. A search is
of the turn's own question under ALLOW, or of one it took up: under ASK its message
approves it. `ApprovalInv` follows the question a conversation stands on
through the turn that approves it.

*The records.* `KnowledgeInv` has two parts beyond types. `Versions`: a signature that
a later write will give a file has been seen by nobody, neither in a cache nor in the hands
of a look-up between stat and read, and the same holds of the version that waits in a
temporary file; hence a cached record that looks fresh is the file's. Of the general store this
is said of the records outside `blurred` only: a second write in one tick has a signature
that a cache may have seen. `LockGuards`, of the general
store: past its first step a handler holds the lock, so what it read, that no other
record outside `blurred` has its names, and what its temporary file holds are still true when it
renames. Unique names and the acknowledged edits follow. A restart in the middle leaves a
temporary file behind, which is why `LockGuards` speaks about it only from the write on.
For the proof the rows of an import became a function with "skip" entries, as commit
goes through them, instead of a concatenation of what is left.

*The documents.* `DocumentsInv` says of a document that no tool created that no file
calls it the owner's, neither the metadata nor an archive, nor does the page
(`ReadOnlyKept`); that a handler past its write finds the file as it wrote it, as it
is alone on the event loop (`WriteInv`); that what was answered with success is as it was
saved until a request names it (`SavedDocumentsStay`); and, without a crash and a restore,
that a file without metadata is one whose request still runs (`EditableInv`).

*The pages.* `PagesInv` ties `editingId` to the record whose content the fields hold, and a
call under way to the form or the preview it was made of. On the terminology tab file
and rows are of one preview; for the other tabs this is the finding
`import_unreviewed`.

*The evidence.* `EvidenceInv`: an answer, what is kept of it and what a second answer
adds have no page twice, and they are sorted by a key that is the trust, so that
what the cut drops is trusted no more than what is shown; a cached answer is younger than
its time when it is used. Of the documents: a good piece that was
not retrieved has `TopK` pieces at least as near (`GoodAreTaken`), by the cardinality of what was. The order had to be stated anew for the proof:
`SetToSortSeq` takes the comparison as an operator, and no prover can be told
about that. `Sorted` of `Ordering` puts a pair at the place that as many are not
after it; `SortedInOrder` of `DataLemmas` says that every member has a place of its own, in order.

*The topics.* `TopicsInv` counts: every look-up returns two entries of its store at most, so a
turn has two of each store at most and a follow-up has room for all of them
(`FollowUpKeepsTopic`). The best two exist because the stores are finite. That a looser
name never stands where the specific one is in the message was first stated
without exceptions, and the proof failed: an entry that is asked for by its exact
name is used although a longer name is in the message, so is one the semantic index
finds, and a message with three general names has one that no look-up returns.
The code means all three; `NoLooserEntry` names them.

*The splits.* `SplitsInv`: `parent` is a forest, as every record is higher than its
parent for some heights (`Forest`), and then there is exactly one map that leads each
record to its root (`Roots`, `RootsAreUnique`), which is what the recursive function of
`Find` is; a link that was united joins two records with one root; records with one root
are placed together; and the set that is served next is the neediest, so that none is over
its share by more than a group (`NearTheTarget`).

*The suites.* The builder reconstructs from texts which records V0.1 was trained with. Those are
some of the records V0.1 had; when the counts agree they are all of them
(`AsManyIsTheSame`, the cardinality of a finite set's part), and the builder goes on only
then.

*The release.* `ReleaseInv` follows an upload: at each of its steps it carries the weights of
the record it began with, or a build newer than the checksums (`UploadInv`; no checksum is of
a build that is yet to come, `NothingNewer`), so what is recorded as uploaded is on the
Hub. What a fetch is about to install is what the checksums list (`FetchInv`), and `.env`
names only weights that were approved or are pinned (`LaunchInv`).

*Training and measurement.* `TrainingInv`: the best checkpoint in an adapter's directory is the best
of some run's log, and there is none while a trainer writes (`DirInv`); what an evaluation
has verified stays that one, and it goes on to the guide only when the outcome is good enough
(`EvaluationInv`, `GuideInv`). `PostInv`: the history of the model is what is filed under the
variant, so a variant's first turn is asked with an empty one.

*Curation and review.* `CurationInv`: the files of an id that was given once say the same in
whichever directories they are, a torn one what was to be written (`TextInv`), a move under way has written the new file,
whole, before it unlinks the old one (`MoveInv`), what was decided exists and is in no draft (`DecidedInv`),
and a snapshot's manifest is of its files (`SnapshotInv`). `ReviewInv`: a class tells which
severe codes are left (`TriageInv`, `ClassIsRight`), so a candidate has none, by a repair or by
a decision (`CandidateInv`), and a freeze has written what its step says (`FreezeInv`), wherever
it dies.

*The voice audit.* `AuditInv`: while the text only got worse since the last audit, an audit now
would say nothing better. Scores and signals are monotone in the faults, and a share
that is too large stays so with one more reply of its kind. The attempt to prove it
showed that `Severity` had been a `CASE` with overlapping guards, where TLA+ leaves the choice
open and TLC takes the first; it is now the if-chain of the code. The same was put
right in `Topics` (`RouteOf`, `LookupMode`) and `KnowledgeStore` (`ByNames`, `ById`).

*The training sets.* `SetsInv` follows a build from what it read: as long as nothing disturbed
it, that is what was authored and, from the snapshot on, what the authorization names
(`FirstTwoInv`); a written set has each base row once and each new one as often as it is
copied, and no conversation both in its evaluation slice and among the other rows (`WrittenInv`,
`RowsRight`). `PreflightInv`: unless files were edited meanwhile, each step up to now failed
or found things right.

The parts of `MCScripts` share no state: a step of the work is a step or a stutter of each
(`PartsStep`), and each invariant is proved about its part alone.

TLC agreed to each property on the instances of section 4 before its proof was tried. Where an
invariant or a definition was not right yet, a step could not be proved and showed it, as told above.

*Model-checked only:* liveness (`NobodyWaitsForEver`, `NoHalfService`, `ChunkingEnds`; and,
violated, `RefusalsEnd` and `ReindexReachesChat`). Liveness under fairness and `ENABLED` are
out of the prover's reach, as are induction over data and `RECURSIVE` operators (no module
declares one). Nothing is proved about what the chunker returns for every text: its loop
would need induction over the text.

## 7. What is not modelled, and why

* *Text.* Patterns, prompts, wording, similarity measures and detectors are
  data. Where control depends on a text, the models have what is seen in it. The
  personality prompts and the guardrails are nothing but text.
* *Numbers of the model and of the index.* Tensor and embedding code is
  external library code around which there is little state. Which entries the
  semantic index finds is an input of `Topics` and `WebEvidence`.
* *HTTP and parsing* of the web search providers and of import files; a row or a
  page is parsed or is not.
* *Stateless filters*: the request size limit, the owner key, static files, the
  development server.
* *External programs*: the trainer, the Hub, git and pip; what the scripts expect
  of them is in the models and marked external in the map.
* *Set-up* (`setup_rupsaa.sh`) beyond the fetch it calls, and the reports the
  dataset scripts print.
* *The other evaluation scripts* (`scripts/evaluate.py`, `evaluate_v01.py`,
  `eval_knowledge_v1.py`, `gemma_live_eval.py`, `posttrain_v021.py`): loops over prompts
  that print or write a report. How variants are measured side by side is in
  `PostTraining`, what is recommended from it in `AdapterTraining`.
* *The export of the dataset* beyond its split, and the verification of a frozen
  set, which read and compare.
* *Disk failures other than a crash.* A replaced file is taken to be complete,
  as `os.replace` promises.
* *Growth of dicts without a documented bound* (`_owner`, `_pending`): there is no
  claim to check.
* *Check-then-create of the lazy members* (`_owner`, `_pending`, stores, except
  the engine and the pipelines): only a process's first requests meet it.

## 8. What could come next

The models are complete as far as section 7 allows, and what a passing run checks is
proved where the prover reaches. What would add to it:

* *Assumptions that could become models*: that an engine gives a page once, that an id is of one
  source file. Each is a fact about something outside the modelled code.
* *Text.* `Topics` takes what the patterns see as an input. The patterns themselves (which
  messages are follow-ups, which name is part of which) could be checked against lists of messages,
  but by tests rather than by a model.
* *When the code changes*: each definition names its lines in `PROJECT.json`, so a change shows
  which module to look at. A finding of section 5 that is repaired turns its run from a violation
  into a property to prove: with `forget` under the lock, `MemoryIsAtomic` loses its hypothesis.
