# Formal models of tapps-brain

TLA+ specifications of the concurrent and failure-prone parts of tapps-brain,
model-checked with TLC, with the central results proved for every instance with
TLAPS. Paths below are relative to the repository root; the Python package is
`src/tapps_brain/`.

    cd tla
    tlc -workers 2 -config MCAnswers.cfg MCAnswers           # any run of section 3
    tlc -workers 2 -config Store_trim.cfg StoreCache
    tlapm StoreCache_proofs.tla                              # any *_proofs module

PROJECT.json lists every component with what is and is not modelled, the source
lines of every definition, every hazard with the line where it bites, and for
every property a mutation of the model that breaks it.

## 1. The system

tapps-brain is a memory service for agents. One Python process holds a
`MemoryStore` per project and agent, an in-process cache in front of PostgreSQL,
and exposes it through an HTTP adapter, an MCP server, a command line and an
async facade. Several replicas may share one database.

| Component | State | Operations | What is hard | Module |
|---|---|---|---|---|
| Memory store (`store.py`, `_store_query.py`) | `_entries` (bounded by `max_entries`), tombstones, table `private_memories` | save, get, list, update_fields, reinforce, delete, durable passes, cold start | round trips run outside the lock; a read-modify-write spans two lock sections | StoreCache, AtomicStore, StoreAtomicity |
| Entry lifecycle, GC, consolidation, conflicts (`store.py`, `gc.py`, `auto_consolidation.py`, `_save_conflict.py`) | `status`, `valid_at` / `invalid_at`, `superseded_by`, archive, merge flag | supersede, close, undo, promote, demote, gc, consolidate | scans decide, later steps write; half-finished supersession | Lifecycle |
| Decay and tiers (`decay.py`, `promotion.py`, `reinforcement.py`, `gc.py`) | confidence, tier, dates, counts of one entry | decay, reinforce, access, collect | clocks that restart, floors, boundaries of days | TierDynamics |
| Recall (`recall.py`, `retrieval.py`, `injection.py`, `fusion.py`, `services/memory_service.py`) | none of its own | search, fuse, filter, inject, merge the Hive, explain an empty answer | two channels that fail alone, rows that change between two reads, filters in several places | Recall |
| Async facade (`aio.py`, `async_postgres_private.py`) | captured writes, write slots | save, delete, supersede, ingest, gc, flush | cache and table change at different times; cancellation | AsyncFacade |
| Hive (`backends.py`, `postgres_hive.py`, `_save_propagation.py`, `services/hive_service.py`) | version chains per namespace and key, memberships, revision | propagate, push, supersede, forget, wait for a write | scope rules, tips that move, lost wake-ups | Sharing |
| Federation (`postgres_federation.py`) | published copies, entry count | publish, unpublish | a count beside the rows it counts | Federation |
| Knowledge graph, experience (`postgres_kg.py`, `experience.py`, `services/kg_service.py`) | entities, aliases, predicates, edges, events | upsert, supersede, reinforce, contradict, record, batch, feedback, explain | reads and writes of a transaction at READ COMMITTED | KnowledgeGraph |
| Documents (`documents.py`, `services/document_service.py`) | `documents`, `document_chunks` | put, delete, expire, search | four transactions per put | Documents |
| Research (`docs_lookup.py`, `web_research.py`, `docs_import.py`, `doc_validation.py`) | cached memories, doc-* tags | lookup, fetch, import, validate, apply | freshness, fallbacks, a validator whose memory is the entry's tags | ResearchCache, DocValidation |
| Feedback flywheel (`feedback.py`, `flywheel.py`) | events, cursor, entry deltas, Hive mirror | record, process, penalise | deltas that are not idempotent; runs that die | Flywheel |
| Sessions and relay (`session_index.py`, `memory_relay.py`) | session chunks, relay documents | index, search, clean up, import | two implementations of one promise; imports that stop half way | Sessions, Relay |
| Import, export, sync (`io.py`, `markdown_import.py`, `markdown_sync.py`) | MEMORY.md, JSON bundles, vectors | sync to, sync from, export, import | conversions that are not injective | Transfer |
| Integrity (`integrity.py`, `_store_integrity.py`) | signing key file, cached key, hashes | sign, verify, rehash, resign | lazy key creation, passes beside saves | Integrity |
| Maintenance (`maintenance_daemon.py`, `services/maintenance_cycle.py`, `services/retention_slo.py`) | partitions, heartbeat, per-tenant cursors | cycle, probe, scan | a pass that fails starves the next; row-level security | Maintenance, RetentionScan |
| Schema migrations (`postgres_migrations.py`) | version tables, advisory lock | auto-migrate, apply, roll back | two releases at once, death between two files, plans older than the lock | Migrations |
| Tenancy migration (`maintenance/tenancy_migrate.py`) | plan file, rows of two tables, archives | dry run, apply | plan and apply are two processes; the application writes meanwhile | TenancyMigration |
| HTTP adapter, MCP server, registry (`http_adapter.py`, `mcp_server/`, `project_registry.py`) | registrations, tokens, store cache, guards | every route and tool as a sequence of gates | check-then-act between gates; administrators in between | Gateway |
| HTTP idempotency (`http_adapter.py`, `idempotency.py`) | `_idem_guards`, table `idempotency_keys` | guard, check, execute, store, release, sweep | duplicates in flight, cancelled waiters, expiry, a failing store | Idempotency |
| Read-through caches (`http/probe_cache.py`, `http/profile_resolver.py`, `http_adapter.py`) | profile, readiness, snapshot with their ages | ask, fetch, store, gate a tool | reads outside the lock | ServingCaches |
| Connections (`postgres_connection.py`, `mcp_server/context.py`) | pools, session variables, store cache | get or create, borrow, set scope, return, evict, close | pools closed under their users | Connections |
| Client SDK (`client.py`) | session id, retry state | call, retry, re-initialise | lost answers, restarts, proxies | ClientCalls |
| Rate limiter (`rate_limiter.py`) | deque of stamps | check | clock read before the lock | RateLimiter |
| Quality circuit (`diagnostics.py`, `store.diagnostics`) | breaker, probes, cool-downs, Hive weight | probe, transition, remediate | no lock; clocks that must restart | QualityCircuit |
| Span circuit (`otel_exporter.py`) | failures, open-until | export | the lock does not cover the export | SpanCircuit |
| Namespace reaper, audit log, scoring and text, visual snapshot, command line | see section 5 | | | |

How they interact: HTTP and MCP handlers pass the gates of `Gateway` and call
`services/*`, which call one `MemoryStore`; a save consults the rate limiter, may
merge durable rows and evict, writes the cache, then the table (`StoreCache`),
may close or supersede other rows (`Lifecycle`), then propagates to the Hive
(`Sharing`). Recall reads what those leave behind. `diagnostics()` sets the weight
with which Hive results are recalled. The daemon runs the flywheel and the
retention passes. Migrations run before a store opens.

## 2. Modules

Conventions. Each `with lock` block, each SQL transaction (or, at READ COMMITTED,
each statement whose result is used later) and each stretch between two awaits
is one action. An operation that needs several is a program counter that walks
through them in the order of the code, so everything the code reads and uses
later may be out of date when it is used. Failures are actions, bounded by
`MaxFail`, `MaxFaults` and the like; operations are bounded by `MaxOps`, `MaxCalls`,
`MaxJobs`; time by `MaxDay`, `MaxClock`. A history variable is named as such where it is
declared and no action reads it.

### The store

**StoreCache**. `cache` is `_entries`, `durable` the rows of `private_memories`, `epoch` /
`removedAt` the tombstones; the rest are the locals of the threads. An entry is a
version number, because the code compares entries by identity and makes a new
object for each change; contents and ranking are abstracted, so any key may be
the one that is evicted or trimmed.

| Code | Actions |
|---|---|
| `_merge_durable_entries` | `MergeSnapshot`, `LoadAll`, `Merge` |
| `_durable_view`, `_trim_cache_to_cap` | `PreExisting`, the merge, `Trim` |
| `_ensure_entry_cached` | `Ensure`, `LoadOne`, `Fill` |
| `save`: assign, evict, embed | `SaveAssign`, `SaveEvict`, `SaveEvictFails`, `EmbedEntry` |
| `get`, `record_access` and the like | `Touch` |
| `update_fields`, `reinforce`, promotion after it | `UpdateFields`, `Reinforce`, `Promote` |
| `_persist_entry_or_rollback` | `Persist`, `Rollback` |
| `_drop_if_concurrently_removed` | `DropIfConcurrentlyRemoved` |
| `delete` | `DeletePop`, `DurableDelete`, `UndoDelete`, `DeleteRelations`, `UndoRelations`, `Resave`, `DeleteNote` |
| process death, `_load_cold_start_state` | `Crash`, `ColdStart` |

`acked` is a history variable: keys whose last write returned with its row in
place and whose removal nobody asked for since.

**AtomicStore** is the promise to a caller who is alone: a map on which every
operation happens at once or not at all. **StoreAtomicity** maps `StoreCache` to it:
while an operation is unsettled a reader of the promise sees its pre-image.

**Lifecycle**. `rows` is what one store serves (that its cache agrees with the table is
StoreCache's subject); a row has a status, an open or closed validity, a
successor, a version that stands for `updated_at`. Threads save with a conflict
plan (`SaveStep`), close, promote, demote, undo (`RowStep`), supersede in three writes
with its restore (`SupersedeStep`), scan for garbage, refresh and decay
(`SweepStep`), merge, scan periodically and undo merges (`MergeStep`). Which rows have
decayed or look alike is an input.

**TierDynamics**. One entry over days: confidence in twentieths, rounded up so that
"at most the floor" means what it means of the fractions, a curve per tier
that halves at whole half-lives (or the power law), reinforcement and its ceiling,
promotion and demotion by the profile's conditions, collection after the floor
retention.

**AsyncFacade**. A write takes a slot, notes what it would restore, applies the sync
store with persistence captured, then flushes the saves in one batch and after them
archives and deletes (one row each, in any order); `FlushFails` restores and `Cancel`
does not. A save, a supersede or an ingest may change entries beside its own (it
closes what it conflicts with, consolidates, evicts), and a collection demotes some
entries and archives and deletes others in the same capture. `Get` hydrates and writes
its access through at once. `LeftOver` is what a failed flush leaves out of step: an
entry put back although its row has changed already, and an entry changed beside the
write's own, which nothing restores.

**Recall**. A row is the kind that decides whether it may be shown. `StartRecall` goes
through `Fts`, `StoreKnn`, `GetCandidates`, `VectorSearch`, `Hydrate`, `Rank`, `Inject`, `MergeHive`,
`PostFilterStep`; `StartBrainRecall` ends after the store's search in `AnswerBrain`. Rows
`Change` in between. Scores enter as an order of the rows; a list is the set of its items,
each with its place.

**Integrity**. An ideal hash over key, canonical form and text, except that the legacy
form does not tell some contents apart (`Pipe`). A saver and a keeper load the key
lazily (`SaverKeyStep`, `KeeperKeyStep`), verify, rehash and resign; somebody may
`Tamper` with a row or `Truncate` the key file, and the process may `Boot` with another
environment.

**Transfer**. Keys have a slug (`SlugOf`, not injective) and values may contain a line
that reads as a heading; `Keyed` is the parser's loop, one section at a time. `BeginSyncTo`/`ReplaceMd` write MEMORY.md, `BeginFromMd`,
`CheckItem`, `SaveItem` read it back, `Export` and `BeginImport` move bundles and vectors,
while agents save, close and delete and the user edits the file.

### Shared rows

**Sharing**. The rows of a key in a namespace are a sequence, element 1 under the key
itself and later ones under `key-v<timestamp>`. Save, relay import, push, propagate
and forget queue writes that a worker carries out (`Work`), each reading the tip and
then writing; `Wait`, `WaitTimeout` and `WaitFails` are the reader that listens for a
revision. **Federation** is the hub's rows and their count.

**KnowledgeGraph**. An entity is its type and canonical name, an edge a position in
`edges`. `EdgeRead`/`EdgeWrite`, `ReinforceRead`/`ReinforceWrite`, `ResolveEntity`/`ResolveCreate` and
`SupersedePoint` are the two halves of operations that read and then write; `RecordBegin`,
`RecordCommit`, `PerEventBegin`, `PerEventStep`, `PerEventAnswer` the event tools.
`explain_connection` expands each name with at most `Fanout` of its edges, chosen by
confidence: `Views` is every choice `get_neighbors` may make. `ExplainConnection` is
checked against the shortest path, by definition, of the view it was given; what it
answers is a path of the graph, and a shortest one of the graph when no name is `Crowded`.

**Documents**. A text is the lengths of its paragraphs and the verdict of the scan; a
put is `Validate`, `StoreDoc`, `IndexDocument`, `SetIndexStatus`, and may die after each.
The chunker is a fold over paragraphs.

**ResearchCache** (`ReadCached`, `Fetch`, `Scan`, `SaveCopy`, and the fallbacks): content
is the instant at which it came into the brain. Besides the lookups, `ImportFile` and
`ImportSave` put the files of a legacy cache directory there, stamped with the instant
of the import, and `PutPlain` is a client's own memory under the key, without a stamp or
with one that does not parse. **DocValidation** (`BeginBatch`, `ValidateOne`, `EndBatch`,
`ApplyRead`, `ApplyWrite`): a doc-* tag is its kind and day, user tags are counted
because none of them is ever evicted.

**Flywheel**. Events committed out of order, runs that read the unprocessed events and
apply them in ascending order, with a cursor flushed every `FlushEvery` events; runs that overlap, fail and die, and the penalty of
events mirrored to the Hive. **Sessions** drives the table and the in-memory index by
the same calls; a bucket of the index is the set of its chunks, each with its place. **Relay**
imports a document item by item and runs it again. A save under a key that holds an
equal value only reinforces the row, so the item's scopes are not applied although it
is counted as imported (`Saved`); RerunCompletes therefore claims the value of the last
usable item, and of what goes with it only that it is some item's or the store's own.

**TenancyMigration**. `base` is what is committed, `live` what the tool's transaction sees,
`archive` the archive tables. `Enumerate`, `CountLive`, `DetectCollisions` are the dry run;
`BeginApply`, `CheckStale`, `Snapshot`, `Rehome` (once per row), `FinishTable` and `Commit` the apply; any
refusal, and `Die`, rolls back. A row carries the facts the rules R1 to R5 look at.
`Save` and `Remove` are the application, which waits for rows the transaction has
changed. `due`, `dirty` and `drifted` are history variables. An operator who makes
a second plan does not go back to the first.

### The serving process

**Gateway**. A request is a route or tool with a sequence of gates in the code's
order: origin, token, project, registration, body, guard, stored response, store.
Gates that look only at the request refuse or pass; the others are steps, and
administrators register, approve, delete and rotate between them.
**Idempotency** is the guard table in detail: an asyncio lock is its owner and FIFO
queue; all requests carry one key, because keys share neither guard nor row.

**Connections**. A store has a pool opened on first use; `GetOrCreate` constructs outside
the lock and closes the loser or the evicted; a borrower sets the session scope
and the pool resets it. **ServingCaches** has the profile cache, the probes and the
snapshot with its build lock. **SpanCircuit**, **QualityCircuit** and **RateLimiter** are the
breakers and the limiter; scores are the four classes the code distinguishes and
jitter is a choice of ticks.

**ClientCalls** composes the SDK with the server's side of a write tool: sessions,
idempotency check, write, record, with lost messages and restarts.

**Maintenance** runs the daemon's cycle pass by pass over months of partitions;
**RetentionScan** is the probe that visits one tenant after another under row security.

**Migrations**. A runner is an auto-migrating replica, an operator's apply or rollback,
with a binary that bundles the first `bundle` files. Each file runs in a
transaction with its own version row. The session-level lock goes with the
connection, so a failure and a death both give it up.

## 3. Runs

### How the parts are put together

Each passing run checks a group of parts. The variable `focus` is chosen in the
initial state and never changes; the part in focus moves, the others stay in one
of their initial states (`Parked`). In the models the parts of a group share no
variable, so the reachable states of a part are those it has alone and the run
is the disjoint union of the parts' state graphs. `StoreCache` appears in two
passing runs, with the workloads that the two questions need.

Deadlock is checked in every run: a part may rest only where its own `Done`,
`Finished` or `Rest` step says so, or where `AtRest` says that nobody is in the
middle of an operation. A thread that waits for ever while it holds something is
therefore an error. The symmetry sets permute requests and replicas (`gateway`), actors (`graph`), and the writers of the
async facade and the callers that put documents (`memory`), about which those runs state
no liveness.

### Passing runs

"States" is the number of distinct states.

| Run | Part | What is checked | Bounds |
|---|---|---|---|
| `answers` (4 750 000) | StoreCache | NoLostKey, NoPhantom | 3 keys, cap 2, 2 threads, 3 operations, no delete, pass or failure; crash |
| | Recall | RecallAdmissible, RecallComplete | 2 rows of any kind and match, one change meanwhile, every channel may fail, budget of one row |
| | Integrity | VouchedIsGenuine | 3 contents of which 2 share a legacy text, 1 save, 2 passes, 1 fault, 1 boot, 3 keys |
| | TierDynamics | CollectedWasAtFloor | 3 tiers with both curves, 7 days, counts to 2 |
| `memory` (1 941 000) | Lifecycle | OpenMeansOpen, SuccessorExists | 2 sources, 2 threads, 2 operations of 12 kinds, 1 failure |
| | AsyncFacade | InStep | 2 keys, 2 writers in 2 slots, 2 writes that may change the other key too, failure at every flush step, cancellation; followed while some key is not exposed |
| | Transfer | RoundTripStable | 2 names with one slug, a value with a heading, 3 edits, 3 jobs |
| | Relay | RerunCompletes | 1 key, 2 values, 2 items (the second spells its scopes in one field), a value the store holds already, 2 runs |
| | Documents | IndexedMeansChunked | 3 identities, 2 putters, quota 1, texts that fill, overfill and split a chunk |
| `graph` (733 000) | KnowledgeGraph | ActiveTripleUnique, OncePerWindow, ExplainIsShortest, ClosedEdgesStayClosed | 2 actors, 4 calls of 13 kinds, 3 names, fan-out 1, lists of up to 2 events, 1 window |
| | ClientCalls | NoneAfterRecord | 2 tasks, 2 attempts, 1 restart, lost requests and answers |
| `gateway` (1 530 000) | Gateway | CredentialWasValid, DuplicatesExecuteOnce | 2 requests through every route and tool, 2 replicas, 2 projects (one a literal default), 3 deployments, 1 administrative act |
| | StoreAtomicity | AtomicOperations (refinement of AtomicStore) | 3 keys, cap 2, 1 thread, 3 operations of any kind, 1 failure each, crash, embedding |
| | RateLimiter | NeverForgets | 2 threads, limit 2, 6 checks, 4 ticks |
| | Sessions | IndexesAgree | 2 sessions, up to 3 chunks per call, 3 in memory, 4 calls, 3 days |
| `tenants` (2 168 000) | TenancyMigration | NothingLost, NewestSurvives | 1 key in 2 tables, 2 projects (a placeholder, approved or not), 3 agents, up to 2 rows, 1 write, 2 plans, any number of crashes |
| | ResearchCache | FreshUnlessWarned | 2 callers (one at most about a search), 2 kinds of lookup, time-to-live 1, 2 ticks, imports, unstamped and malformed copies |
| | QualityCircuit | RecoveryTakesProbes | 2 threads, 4 runs, 3 ticks, cool-down 2, 2 probes |
| `serving` (1 040 000) | Connections | ScopeExact | 2 users, 2 stores, cache of 1, pool of 1, 3 uses |
| | ServingCaches | ServedRecently | 2 requests, time-to-live 2, 3 ticks, 1 write of each kind |
| | Migrations | PrefixRecorded, EveryRunnerEnds | 2 runners of any role, 3 files, binaries with 2 and 3, 2 faults, 2 restarts |
| | SpanCircuit | TrippedIsOpen | 3 exporters, 2 failures, 6 ticks |
| | Flywheel | NothingSkipped | 3 events of 2 projects, 2 processors, flush every 2, 2 stops |
| | DocValidation | AdjustedOncePerInterval | 2 entries that share a claim, 3 days, tag limits reached |
| `shared` (438 000) | Sharing | ReadableUnlessArchived, WakesUp | 2 workers, 1 key, 2 tiers, 1 group, 3 calls |
| | Maintenance | HorizonHonest | 2 tenants, months of 2 ticks, 6 ticks |
| | Federation | CountInSync | 2 publishers, 2 keys, 3 transactions |
| | RetentionScan | ScanHonest | 3 tenants of which 1 is unlisted, 3 changes |
| | Idempotency | AtMostOncePerWindow, EveryRequestAnswered | 3 requests, 2 routes, 1 replica, 1 failed lookup, 1 failed store, 1 expiry, oversized responses |

The runs state what relates several steps or several parts; types, guard
tables, the absence of leaks and other supporting facts are conjuncts of the
inductive invariants of section 4 or theorems of their own.

The comment above each property in its module says what it claims and which code
it is about.

Some properties are stated for the behaviours in which the code keeps them, by a
condition in the property and not by a smaller model: PrefixRecorded for behaviours
in which nobody rolls back (roles never change); in `TenancyMigration`, NothingLost
and NewestSurvives for transactions during which nobody writes, NewestSurvives for
approved projects that are not placeholders; CountInSync while no two publishes
have overlapped (`overlap`); SuccessorExists outside the keys on which merges
overlapped (`overlap`); InStep outside the keys on which two writes, or a write and a
read, overlapped, the keys of a cancelled write and the `LeftOver` of a failed flush
(`exposed`); FreshUnlessWarned for copies that carry a stamp; NothingSkipped for events that were
neither committed late nor left out by `since`. Except for the stamp, which the copy
itself carries, these exceptions are history variables, set by the steps that the
code leaves unprotected; what happens in them is described below.
The passing store workloads exclude exactly the operations that the violation
runs show to be unsafe together: `answers` has no delete, no maintenance pass and
no failure, and AtomicOperations is claimed for one caller only.

The bounds are chosen so that the interesting cases happen: more keys than the
cap, so saves evict; more operations than threads, so a thread meets the
leftovers of an earlier operation; more duplicates than a guard's holder and
first waiter; fewer slots, pool connections, chunks, tags and documents than
users of them; a failure and a restart in the same behaviour; an outage, a
recovery and a second outage within the ticks.

### Fairness

- EveryRequestAnswered: weak fairness of each request's steps; the event loop runs
  every ready coroutine and Postgres calls return or raise. `Cancel`, `Age` and
  `SweepExpired` are not fair.
- EveryRunnerEnds: a live runner is scheduled and Postgres grants a free advisory
  lock. Deaths and restarts are not fair.
- WakesUp: the waiter's loop goes on (its query returns or raises). The workers
  that write and notify are not fair.

The other parts are checked for safety only.

### Runs that find a disagreement

Each checks one sentence of the repository against what the code does;
PROJECT.json quotes the sentence.

| Run | Property | What happens |
|---|---|---|
| `store_trim` | NoLostKey | a maintenance pass trims a key that a reader is persisting; the reader's clean-up takes the missing cache entry for a removal and deletes the row |
| `store_order` | WriteThrough | two saves assign in one order and persist in the other; the cache and the table disagree until the next write |
| `idempotency_expiry` | ReusedKeyDeduplicated | an expired, unswept row blocks the new one, and every duplicate of the re-used key executes |
| `migrations_two_rollbacks` | OnlyRecordedRolledBack | the plan is older than the lock |
| `research_miss` | ResearchFetchedOnMiss | the keys of web searches contain colons, which a memory key may not, so no result is stored and every call goes to the provider |

### Behaviours that no property forbids

What the models contain, for the reader who wonders why a property is not stated
more strongly.

Store and lifecycle:

- `_ensure_entry_cached` has no cap check, so `get` may take the cache past
  `max_entries` until a maintenance pass trims it.
- `delete` pops the cache, deletes the row and writes its tombstone in three
  steps: a save of the key that returns in between loses its row, and a merge
  that loaded the row earlier brings it back.
- The rollback of a failed save is unconditional, so it may pop an entry that
  another thread has just written; `supersede`'s restore likewise.
- gc deletes the row it finds after it archived an older payload, without the
  `updated_at` check the docstring of `_archive_and_delete` mentions.
- The periodic scan and `undo` do not take the merge flag, so merges overlap; saving
  a merged source again merges it again.
- `decay_learnings` may demote an entry that was approved after the scan;
  `refresh_decay` may close one that was contradicted; `promote_learning` writes an
  old `updated_at` back; a conflict plan that fails half way leaves rows closed.
- A floor candidate that was read lately cannot be demoted and is archived at
  once, while an unread one is demoted (`store.py` 5112-5135). Reinforcement does not
  touch `last_accessed`.
- Async facade: overlapping flushes may reach the table in the opposite order of
  the cache; a failed flush restores over a newer write; a cancelled call neither
  flushes nor restores; what a failed write changed beside its own key stays in the
  cache. A collection saves the entries it demotes before it archives others; when
  an archive fails, the flush ends "so cache can roll back" (`aio.py` 605-606), and the
  cache goes back to the old tiers while the rows keep the new ones.
- AtomicOperations does not notice a row that the second half of `delete` loses: in
  the promise a key may be removed at any moment.
- A relayed item whose value the key holds already does not get its tier, tags or
  scopes there, and is counted as imported.

Recall and integrity:

- `include_contradicted` does not bring back rows that lost a save-time conflict, and
  `include_stale` is not forwarded to the hybrid candidates.
- Rows shared with a group are lost when candidates are re-hydrated; `empty_reason`
  stays set when only Hive rows fill the answer; `last_search_relevance` belongs to the
  store, so a concurrent search overwrites it.
- Two processes that start without a key file may sign with different keys;
  `rehash` and `resign` write back an entry they read earlier; `resign` vouches for whatever
  it finds.

Shared rows:

- Private tiers are not consulted by the group fan-out and the expert publish.
- Two concurrent supersedes of a Hive key may leave two live rows; a save in
  flight may share again what `forget` has just archived; copies in groups the agent
  has left are not reaped. Overlapping federation publishes store a stale count.
- Two writers may exceed a predicate's cardinality; the per-event batch numbers its
  results after malformed events are set aside; an edge's `memory_key` may dangle.
- `explain_connection` ("Find the shortest path", `kg_service.py` 963) sees at most the
  fan-out cap of an entity's edges, 50 by default: at an entity with more it may miss a
  path or answer a longer one.
- A document put that dies leaves `pending` for ever and its retry stores a second
  document; at `expires_at = now` a document is neither searchable nor swept.
- Looked-up entries longer than a memory's limit are never cached. A copy without
  a stamp is fresh for ever (`docs_lookup.py` 207-209), and an import stamps a file of
  any age with the present: FreshUnlessWarned excepts the first and counts the second
  from its arrival.
- A validated entry with many user tags loses the fresh stamp; the ceiling lowers
  the confidence of a validated entry; a verdict may be applied to an edited value.
- Flywheel: events before `since` are skipped for good, late-committed events are not
  applied, overlapping runs apply twice; `process_hive_feedback` has no cursor.
- A key that is not its own slug gets a copy at every sync; a deleted key is
  created again; vectors of skipped keys are overwritten by an import.
- A row that the application writes under a planned identity after the tenancy
  migration's snapshot is deleted with the old one and is not in the archive; if a
  placeholder project is approved, a row re-homed under it may survive in the
  archive only.

Serving:

- The idempotency guard is per process and a response that cannot be stored is
  answered 503 after the write: in both cases a duplicate executes again. A
  client's retry after a 5xx whose handler goes on may execute twice.
- Strict mode is enforced where a store is opened, so routes that open none
  (`/v1/profile/data:set`) do not consult it; a cached store is served after its project
  was deleted; automatic registration may overwrite an administrator's.
- A store that is evicted while in use re-opens a pool that nobody closes;
  a borrower may find its pool closed.
- `ProfileResolver.invalidate` has no caller, and a slow lookup may store an older
  profile; an agent created with a memory profile is refused by the tool gate.
- Overlapping diagnostics runs may publish their weights in the opposite order of
  their transitions and may both run a remedy; leaving HALF_OPEN counts probes and
  looks at the last score only. A late successful export closes the span circuit.
- A row in the default partition prevents the creation of the partition it belongs
  to; a failing tenant pass, and a tenant whose store cannot be opened, starve
  partitions and heartbeat; a dry run writes a heartbeat too.
- A rollback by a binary older than the schema leaves the versions it has no down
  file for.
- Stamps recorded out of order in the rate limiter may outlive their minute behind
  a newer one, for as long as the two clocks differ.

## 4. Proofs

Eight `*_proofs` modules. Every theorem is about the module's own specification
and holds for every value of its constants that its `ASSUME` admits: any number of
threads, keys, requests, replicas, failures and restarts. A run whose `focus` is
that part behaves as that specification. The method is the usual one: an inductive
invariant that was checked with TLC first, one lemma per action, the temporal step
last.

| Module | Theorem | States | What carries it |
|---|---|---|---|
| StoreCache_proofs | TypeCorrect | TypeOK | what a thread carries was made before (`Carried`) |
| | NoWriteLost | NoLostKey, if QuietWorkload | an acknowledged key is cached unless nobody is about to persist it (`AckedIsCached`); who persists has an entry (`HasEntry`) |
| | NoPhantomEntry | NoPhantom, if QuietWorkload | before the first eviction nothing read can be gone (`NothingGoneYet`); after it the cache is full, so a merge has no room (`FullOnceEvicted`) |
| | MergesStayBounded | BoundedMerge | the room is counted in the lock section that uses it |
| | ImplementsAtomicStore, SoleWriteThrough | AtomicOperations; WriteThrough; both if SoleCaller | `SoleInv`: the cache agrees with the table on every key but the one in hand, and of that one each label knows what it overwrote, so the roll-back restores it (`Coherent`, `AtWrite`, `AtUndo`) |
| | NoLaundering | VouchedIsGenuine (Integrity) | `IgInv`: every copy of an entry, in the table or in hand, has a hash that covers what was written or what a legacy hash could not tell from it (`Covers`) |
| | OnlyShowableIsInjected, NoChannelLosesARow | RecallAdmissible, RecallComplete (Recall) | `RcInv`: how far the retriever has judged what it carries (`JudgedInv`), and where a showable row that matches the words must be at each step (`Reached`) |
| Idempotency_proofs | GuardsCounted, Serialised | GuardTableExact, OneInHandler | `GuardInv`: reference counts are exact, whoever is in a handler owns its lock, replicas have different locks |
| | OncePerWindow | AtMostOncePerWindow, if OneProcess | one duplicate at a time between lookup and store |
| | KeyUsedOnce | ReusedKeyDeduplicated, if Lossless | an execution is on record or about to be (`OnRecord`) |
| | AnswersAreReal | ReplayIsReal | a response is stored after its execution |
| | SharedKeysStayReadable | ReadableUnlessArchived (Sharing) | `ShInv`: links lead forward and a closed row was archived or names a later version (`ChainOk`), so the walk along them ends at a row; a plan made on a tip that is no longer one still names a version that is there (`PlanOk`) |
| Migrations_proofs | TypeCorrect | TypeOK | whoever plans or executes holds the advisory lock |
| | NoGap, SuccessMeansMigrated, AppliedOnce | PrefixRecorded, CompletedMeansMigrated, NeverRerun and NoDowngradeWrite | `PlanIsExact`: the plan inside the lock is what the runner bundles minus what is recorded |
| | NoFeedbackIsSkipped | NothingSkipped (Flywheel) | `FwInv`: a visible event is settled (applied, late or deferred) or beyond the cursor; and for each run settled, in its `todo` or beyond all the run will set the cursor to, so each run is sound by itself |
| | SessionIndexesAgree | IndexesAgree (Sessions) | a key of the dictionary has one chunk (`Once`), and what a call has put so far is what the table's upserts have written so far (`PutSoFar`) |
| | VerdictsDoNotCompound | AdjustedOncePerInterval (DocValidation) | `DvInv`: an entry the running batch has a verdict for is still without a recent stamp (`VerdictOk`), and the stamp of an entry's last change is among its tags (`StampKept`), because fewer references than tags may follow it (`RefGoesIn`) |
| Connections_proofs | ScopeNeverLeaks, PoolsAccounted | ScopeExact; SlotIsOpen and NoPoolLeaked | an idle connection carries no variable; who opens or checks a pool has the manager's lock; who closes one has taken it from its slot |
| Gateway_proofs | WritesAreAuthorised | CredentialWasValid | a request past its authentication gate holds a credential it saw valid; the gate order of every handler is one closed fact (`HandlersAssumption`), which TLC evaluates |
| | DuplicatesAreHeld | DuplicatesExecuteOnce | `DupInv`: who is past the guard and has not answered holds it (`LoneIn`); while one REST duplicate of a replica is past its lookup none of the others has stored a response (`Twins`); whoever is past its lookup found nothing stored when it arrived. The second part of `HandlersAssumption`: every write of a keyed handler comes after its lookup, every REST lookup after the guard, every REST write just before its record |
| Limits_proofs | LimiterForgetsNothing, LimiterExact | NeverForgets, RefusedLeavesNoTrace | the stamps are a suffix of the admitted writes, and what went is behind the horizon (`Kept`) |
| | RecoveryNeedsProbes | RecoveryTakesProbes | every probe counted is one of this recovery |
| | TrippedCircuitStaysOpen | TrippedIsOpen | the count is the streak, with any overlap |
| | AnswersAreFresh | FreshUnlessWarned (ResearchCache) | `RsInv`: what a call or an import holds waits at most `MaxHold` for its save, so a dated copy is stamped at most that long after its content came in; freshness counts from the stamp, and the only other fresh copy has none |
| | MigrationLosesNothing | NothingLost (TenancyMigration) | `LossInv`: a version the application believes stored is in the committed rows until the commit and, unless it wrote inside the transaction (`dirty`), in the tool's view or in the archive; a planned row still there has been archived |
| | CommitKeepsNewest | NewestSurvives (TenancyMigration) | `RankInv`: after each re-homed row its target holds a row at least as new as every contender dealt with so far |
| | RoundTripAddsNothing | RoundTripStable (Transfer) | `TfInv`: while the file is in step its sections are entries, each once (`Faithful`), so the parser meets no collision (`ReadAsWritten`) |
| Services_proofs | HubCountsItsRows | CountInSync | without an overlap at most one transaction is open and its count is still right |
| | ProbeTellsTheTruth | ScanHonest | the total lies between the visited tenants overdue throughout and those overdue at some time |
| | NoLateExecution | NoneAfterRecord | no handler belongs to an attempt that was not sent |
| | NothingServedTooOld | ServedRecently | what is fetched, stored or cached was true since its check began, or stopped being so within the slack |
| | ProbeSeesTheHorizon | HorizonHonest (Maintenance) | `MtInv`: months and partitions only grow, and partitions are created without gaps |
| | OneActiveEdge | ActiveTripleUnique (KnowledgeGraph) | `KgInv`: the partial unique index decides on the current rows; what a caller has read names rows that still exist (`CallerOk`), because the tables only grow |
| | DebounceHolds | OncePerWindow | an edge's count is bounded by its last window, which only moves forward (`EdgeOk`) |
| | ClosedForGood | ClosedEdgesStayClosed | every step leaves an edge `Grown`: same triple, not reopened, same pointer |
| | ExplainedAlongAShortestPath | ExplainIsShortest (KnowledgeGraph) | no invariant: on the view the fan-out gives, level h of the breadth-first search is `Layer(s, h)`, the names a path of h edges reaches and no shorter one does (`NextLevel`), so a name is met first at its distance; a view shows edges of the graph, and all of them when no name is crowded (`ViewOk`, `PathGrows`) |
| Memory_proofs | OpenRowsAreOpen | OpenMeansOpen | `LifeInv`, see below |
| | PointersLeadSomewhere | SuccessorExists | `LifeInv` |
| | IndexStatusIsHonest, DeletedDocumentsStayDeleted | IndexedMeansChunked; NoOrphanChunks and DeletedStaysDeleted | what a put has stored agrees with where it is, or the row is gone (`DocInv`) |
| | RelayRerun | RerunCompletes (Relay) | the store holds for a key the value of the last of its items dealt with (`LastUpTo`), because an equal value that is left alone is that value |
| | CacheStaysInStep | InStep (AsyncFacade) | `AfInv`: of every unexposed key of a running write it is known what cache and row hold in each phase and that what was noted is the truth (`Tended`); running writes share exposed keys only, and a read leaves an unexposed key in step (`GetOk`) |
| | CollectorIsPatient | CollectedWasAtFloor (TierDynamics) | quotients rounded up: the day solved from a curve is the first day at the floor (`FloorReached`), and nothing positive fades to zero (`StaysPositive`) |

The longest argument is the one about memory rows. SuccessorExists speaks about
moments at which nothing is under way, so what holds in between has to be found:

- a pointer names the successor of its own row or a group its row belongs to
  (`PointersIn`);
- a pointer to a successor that is not there is the business of a supersede that
  will create it or write back the row it closed, which was open (`SuccessorsIn`,
  `SupersedeIn`): the pre-image must be read in the lock section that closes;
- a merged row is there from the save until its merge ends, or somebody removed it
  (`MergedThere`); outside overlaps one merge at a time is past its save
  (`OneMerger`), so a roll-back deletes nothing another merge counts on;
- in a roll-back whoever still points to the merged row is still to be reopened,
  or a failure was logged (`RollbackIn`); an undo reopens all of its sources in one
  lock section.

Each action then has one of a few effects (`Effect`): it keeps a row's pointer or
takes it away, it writes the pointer of the supersede or merge it belongs to, or
it removes a row nobody counts on. One lemma (`EffectKeepsLife`) shows that such a
step keeps the invariant, and the lemmas about the thirty-odd actions show that
each has such an effect.

Three other arguments need a word. A write of the asynchronous store knows its own
keys only, so the invariant says which facts hold of a key while exactly one write
runs on it, and `BeginWrite` exposes a key on which a second one starts; one lemma
(`JobStep`) reduces every phase to what it does to the keys of its write, and
`RolledBack` goes through the kinds of write to show that what a failed flush puts
back is what the row still holds. The refinement is proved step by step: one lemma
per action shows that what a reader of the promise sees stutters, gains one version
or loses one key (`What a step shows` in StoreCache_proofs). Five loops are recursive
functions over a list or a count: the events of a knowledge graph transaction, the
levels of its breadth-first search, the chunks of an indexing call, the references of
a verdict, the sections of MEMORY.md. That every prefix keeps what is claimed is proved by taking the least index at which it does
not and looking at the step before it (`WellFoundedInduction` gives the least
element of a set of naturals without an operator parameter); that the recursive
definition has a solution at all is proved the same way.

Hypotheses. `QuietWorkload` (no delete, no maintenance pass, no backend failure),
`OneProcess` (the guard table is per process), `SoleCaller` (one thread, at most one
backend failure per operation: the second could hit the roll-back itself) and `Lossless` (no response lost,
oversized or expired) are exactly what the violation runs and section 3 show to be
needed. Assumptions on constants, all evaluated by TLC: bounds are naturals, sets of
keys and of groups are finite, a model value such as `NoDoc`, `None` or `NoTenant` is not one of the
values it stands beside, the rows of a question are finitely many and numbered, an ordinary key is not the name of a merged row, among the
times a row may carry one is the greatest, and the events of a list name known
entities and triples.

Only model-checked, and why:

- EveryRequestAnswered, EveryRunnerEnds, WakesUp: liveness under fairness.
- The output of the chunker as such is what a fold over a sequence computes for every
  input, an induction over data; IndexedMeansChunked is proved for any chunker.

## 5. What is left out

- In AsyncFacade: the cached relations, and operations that raise in their thread.
- In Relay: other saves into the parent's store meanwhile, and the entries a save
  closes, merges or evicts beside its own.
- In ResearchCache: the age of a file before its import, and a client that writes
  a well-formed stamp of its own choosing.
- In StoreCache: the per-group cap, `save_many`, relation and entity-index caches, lock
  time-outs, the read of other processes' writes after the cold start.
- Scores, similarity, tokenisation, safety patterns, claim extraction and model
  calls are floating point or text: they are inputs, as an order, a relation or
  a verdict.
- In QualityCircuit: how scores come about, the anomaly detector, history rows.
- In TenancyMigration: probe tenants, the deferred tables and the report fields,
  none of which it writes.
- In KnowledgeGraph: evidence rows, the relation extractor, and `kg_check`, which reads
  what the write checks again. In Flywheel: the clustering of gaps. In Maintenance: the
  objectives that only report.
- In Sharing: Hive search and statistics. In Federation: federated search.
- In Gateway: bodies and rendering; the services behind a gate are one effect.
- In Connections: the asynchronous pool, which takes the same steps.
- Namespace reaper: one sequential pass of single-statement deletes over an expiry
  predicate. Audit log: append-only output. Visual snapshot: read-only rendering
  (its cache is in ServingCaches). Command line: argument parsing and printing over
  the services (the relay import is in Relay).
- Text processing, hashing, output formats.

## 6. Plan

What is worth adding next, most important first.

1. The refinement of AtomicStore for two callers who use different keys.
2. The timed store lock as explicit state, so that a clean-up may fail to get it.
3. StoreCache with Lifecycle: supersede and `save_many` over cache and table.
4. The asynchronous pool; the namespace reaper beside saves.
