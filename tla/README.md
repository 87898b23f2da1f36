# A verification development of the Purpose-Agnostic Agent

The Purpose-Agnostic Agent is a NestJS service that answers questions with
language models over a knowledge base of documents. This directory holds TLA+
modules that model its concurrent parts, the TLC configurations that check them
on small instances, and proofs, checked by TLAPS, that hold for every instance.
Paths below are relative to `src/purpose-agnostic-agent/src/` unless they start
with `src/`.

Run from this directory: `tlc -config X.cfg MCY.tla` for a model, `tlapm
YProofs.tla` for the proofs. `PROJECT.json` lists the runs, the source lines of
every definition, the hazards with the properties that cover them, a mutation of
the code for each property, the findings and the theorems.

## 1. The system

Several API processes (three replicas in `docker-compose.prod.yml`) share one
PostgreSQL database and one Redis. Each process is a single-threaded event loop:
a handler is interrupted only at its `await`s, and that is where every module
here splits an operation. State that lives in a process (breakers, failure
counts, usage counters, the persona cache, login attempts) is not shared between
replicas; rows and queue jobs are.

| Component | State | Operations | Talks to |
| --- | --- | --- | --- |
| Circuit breaker `common/circuit-breaker.ts` | four fields per object | execute, onSuccess, onFailure, timeout | model router |
| Model router `model-router/model-router.service.ts` | a breaker per provider; `failover_events` | generate | breakers, usage tracker, LLM providers, database |
| Usage tracker `model-router/usage-tracker.service.ts` | minute and daily counters | canMakeRequest, trackUsage, timers | model router |
| Ingestion `rag/processors/document-ingestion.processor.ts` | `knowledge_documents`, `knowledge_chunks`, the entity in memory | processIngestion | Bull queue, parser, embedding router, database |
| Bull queue (external, `rag/rag.module.ts`) | jobs, attempts, locks | take, retry with backoff, stalled check | ingestion, upload, retry |
| Ingestion monitor `admin/services/ingestion-monitor.service.ts` | none of its own | retryIngestion, queries | queue, documents |
| Upload `admin/services/admin-document-upload.service.ts` | files of one replica | uploadDocument, bulkUploadDocuments | queue |
| Knowledge base administration `admin/services/admin-knowledge.service.ts` | documents, `knowledge_categories.document_count` | delete, bulk delete, bulk reassign, update counts | database |
| Categories `admin/services/admin-knowledge-category.service.ts` | `knowledge_categories` | create, list (and repair counts), rename, delete | database |
| Embedding router `rag/services/embedding-router.service.ts` | consecutive failures per provider | generateEmbedding, generateBatchEmbeddings | providers behind `@Retry` |
| Search `rag/rag.service.ts` | none | ingestDocument, search | queue, embedding router, vectors |
| Chunking `rag/pdf-parser.service.ts` | none | extractText, chunkText | ingestion |
| Personas `persona/persona.service.ts` | `personas`, a cache per process | load, create, update, delete, get | chat, administration |
| Persona administration `admin/controllers/admin-persona.controller.ts`, `admin/services/admin-persona.service.ts` | none of its own | validate, create, update, delete if unused | personas, sessions, categories |
| Chat `chat/chat.service.ts` | `chat_sessions`, `chat_messages` | chat | personas, search, model router |
| Session cleanup `jobs/processors/session-cleanup.processor.ts` | none | hourly delete, in every replica | sessions |
| Login `admin/services/admin-auth.service.ts` | failed attempts per user and address, per process | login | users, audit log |
| Audit log `admin/interceptors/audit-log.interceptor.ts` | `audit_logs` | write after the call | every admin operation |
| Administrator guard `admin/guards/admin-auth.guard.ts` | none | verifies the token, looks the administrator up | login, `admin_users` |
| MCP server `mcp/mcp-server.service.ts`, `mcp/tools/` | none | JSON-RPC requests, two tools | chat, search |
| Bulk command classes `admin/commands/` | none of their own | validate, execute; only tests call them | database, upload |
| Provider services `model-router/providers/`, `rag/services/*-embedding.service.ts` | none | one HTTP call each, or one per slice of a batch | the routers |
| Health, monitoring statistics, configuration and secrets, API authentication | none that others read | read-only queries, or called by nobody | |

What is hard in each, and what makes it correct:

- **Circuit breaker.** Calls that were admitted before an outage settle during
  or after it, and their outcomes are counted in whatever state they find. It is
  correct if an open circuit leaves its provider alone, a recovery is judged by
  its own probes, only waiting ends an outage, no call hangs, and the circuit
  closes again once the provider is well.
- **Model router.** Concurrent requests share the breakers and sit at different
  providers; limits are read before an await and charged after it. It is correct
  if providers are asked in order, each at most once, the first success answers,
  a request fails only when all have been ruled out, every request ends, and
  limits are not passed by more than concurrency explains.
- **Ingestion.** At-least-once delivery, retries, crashes, lost locks, admins
  who retry, delete or reassign the same document, and whole-entity saves of
  what was read several awaits ago. It is correct if COMPLETED means the chunks
  are there, PROCESSING means somebody is at work, every job ends, and a
  passing failure is healed.
- **Embedding router.** A provider's availability is read before and its failure
  counted after the call. It is correct if a failing provider is taken out after
  its threshold, give or take the calls in flight, and every call ends.
- **Knowledge base, categories.** Counts are recomputed in two statements,
  existence is checked before it is used, an error inside a transaction is caught
  although the database has aborted it, and transactions wait for each other's
  rows. It is correct if a reported success is real, a deleted category leaves no
  earlier document behind, every call ends, and wrong counts can be repaired.
- **Upload, chunking.** Files of one call run together, are told apart by
  millisecond and name, and lie on the disk of one replica of several that take
  jobs. It is correct if a document holds its own file's text, whole and in order,
  and the report counts the jobs in the queue.
- **Personas.** A cache per process over one table, refreshed in two steps. It is
  correct if a cache differs from the table only for a known reason.
- **Chat, sessions.** A turn has an await at every step, its session may expire and be
  cleaned away at each, and an admin may delete its persona. It is correct if the
  transcript agrees with what callers are told, only a session opened after the
  admin's count loses its persona, every caller is answered and every expired
  session goes.
- **Login, guard, audit.** Counters are checked before awaits and raised after
  them; tokens outlive administrators. It is correct if concurrency explains every
  failure beyond the limit, lockouts end, a removal takes effect, and actions are
  logged.

`PROJECT.json` "hazards" gives the line of each.

## 2. Modules

| Module | Models | Checked by | Proved in |
| --- | --- | --- | --- |
| `Breaker` | the fields of one `CircuitBreaker` and its methods, as functions | through the two below | `CircuitBreakerProofs`, `ModelRouterProofs` |
| `CircuitBreaker` | one breaker under concurrent `execute()` calls and a clock | `MCCircuitBreaker` | `CircuitBreakerProofs` |
| `Failover` | what the model router promises: ordered failover, liveness included | as a property of `ModelRouter` | its safety: `ModelRouterProofs` |
| `ProviderFactory` | the LLM providers, as far as the router tells them apart | `MCModelRouter` | |
| `ModelRouter` | `generate()` with all breakers and the usage tracker | `MCModelRouter` | `ModelRouterProofs` |
| `Ingestion` | the ingestion of one `source_path`: queue, row, chunks, admin operations | `MCIngestion` | `IngestionProofs` |
| `EmbeddingRouter` | the embedding router and `@Retry` | `MCEmbeddingRouter` | `EmbeddingRouterProofs` |
| `EmbeddingServices` | the two embedding providers and how they cut a batch into calls | `MCEmbeddingRouter` | `EmbeddingRouterProofs` |
| `KnowledgeBase` | documents and categories under admin calls and bulk transactions | `MCKnowledgeBase` | `KnowledgeBaseProofs` |
| `Personas` | the personas table and a cache per process | `MCChat` (`Personas.cfg`) | `ChatProofs` |
| `Chat` | turns, sessions, messages and the cleanup, composed with `Personas` | `MCChat` (`Chat.cfg`) | `ChatProofs` |
| `Access` | logins and their limit, the guard, the audit log | `MCAccess` | `AccessProofs` |
| `Chunking` | `chunkText()`, one paragraph a step | through `Upload` | `UploadProofs` |
| `Upload` | a bulk upload, the disks of the replicas, the jobs that read them | `MCUpload` | `UploadProofs` |

An operator whose name has a suffix (`Take_LeavesJobWaiting`) is no part of the
model: it is a plausible bug of the operator it is named after, and `PROJECT.json`
"mutants" says which property must fail when it takes that operator's place.
Variables and record fields marked "history" are read by no guard; they record the
past for a property.

### Breaker and CircuitBreaker

`breaker` is the object's four private fields. `lastFailureTime` is kept as the
age it is only ever used for, capped at `resetTimeout`; `failureCount` is capped
at its threshold. `execute()` is two steps, up to its await (`Execute`) and from
the moment the race between operation and timeout is decided (`Succeed`, `Fail`,
`TimeOut`). A call refused by an open circuit changes nothing and is no step. A
late result of a timed-out operation is dropped by the settled promise. `Tick` is
held back while a timeout is due.

### ModelRouter, ProviderFactory and Failover

The body of the provider loop up to its await is `Attempt`; it runs in the step
that starts the request (`Generate`) and in the step that completes the write of a
failover event (`TryNext`), as the code does. `GenerateRefused` is the usage
limit. `Answer` and `AttemptFails` are the two outcomes with all they change:
breaker, usage counters, phase. The write of an event may fail and is swallowed.
`Order` is computed as `getProvidersInOrder()` does, by tier and within a tier in
the factory's order. `ProviderFactory` gives each provider's tier, what it may
report as used, and whether it can answer at all: one without its key is asked
nevertheless and always fails. `Failover` forgets breakers, clock, counters and
events: `RefinesFailover` maps a request's place in the loop to the number of
providers ruled out. `RefinesBreakers` maps each provider's breaker and the
requests calling it to `CircuitBreaker`, so what holds of one breaker there holds
of each here.

### Ingestion

One `source_path`: one row at most (the column is UNIQUE), which versions of the
file replace. `processIngestion()` is split at every await that reads or writes the
database; in between, `worker[w].doc` is the entity as it will next be saved, and
`Save` writes all of it, as TypeORM does: an insert under a fresh id, an overwrite,
or an insert again when the row is gone. The catch block (`Caught`, `Fail`,
`Rethrow`) is entered from any await, by a rejected call (`Rejected`) or by a
constraint of the schema (`Refused`). The file, its hash, its chunks and
`total_chunks` are represented by the version of the file they come from.

The queue is external and modelled from its configuration in `rag/rag.module.ts`:
`attempts`, a delay before each repetition (`Promote`), a lock held by the worker,
and the stalled check that returns a job to the queue when its process died
(`StallRecovered`) or stopped renewing the lock (`LockLost`, after which the result
of the first worker is dropped). Admin operations are `RetryRead`, `Reset`,
`RetryEnqueue`, `RetryFails` and `Revert` for `retryIngestion()`, and `Delete` and
`Reassign`, each one commit as far as this row is concerned; their own control is
`KnowledgeBase`.

### EmbeddingRouter and EmbeddingServices

`generateEmbedding()` and `generateBatchEmbeddings()` have the same control. The
loop runs synchronously past unknown and disabled providers (`Loop`), so they
belong to the step that reaches them. A call of a provider is up to `MaxAttempts`
executions of the method `@Retry` decorates, with a sleep before each repetition;
which errors are retryable is a free choice. `EmbeddingServices` states how one
execution cuts a batch into HTTP calls: one text each for Ollama, a hundred for
OpenAI.

### KnowledgeBase

`docs` holds the category of each committed document and `cats` the rows of
`knowledge_categories`. A call is a record whose `pc` names the statement it is
about to make. `deleteDocument` (`StartDelete`, `DeleteRow`, `DeleteCount`,
`DeleteUpdate`), `createCategory`, `listCategories` (each category counted and
corrected on its own) and `deleteCategory` commit statement by statement. The bulk
operations run in one transaction: `wrote` and `counts` are its uncommitted writes,
seen by itself (`View`) and locked against others (`DocFree`, `CategoryFree`).
`Caught` is the catch block inside the loop, after which the database refuses every
further statement (`Refused`) and COMMIT undoes what was done; `Thrown` is an error
after the loop. Two transactions that wait for each other are `Deadlocked`, and the
database refuses a statement of one. The bulk command classes do the same work
behind `Validate`. `Ingest` is a worker's insert, which asks nobody about the
category and renews no count.

### Personas and Chat

`table` is the personas table, `cache` what each process answers from. An operation
is a record with a `pc` per await: the controller's checks (`Exists`, `Validate`,
`InUse`), the service's look at the row (`Look`), the write (`Put`), the change of
the cache (`Set`) or its reload (`Read`, `Fill`). `Restart` kills what a process was
doing and loads its cache anew; until then it serves nobody. `disturbed` collects the
processes a known reason has left behind; an undisturbed reload removes its own.

`Chat` extends `Personas`. A turn comes by `POST /chat`, by either tool of the MCP
server, or is a persona test; `BeginTurn` reads the cache, `Open` finds or creates
the session, `Ask` and `Answer` insert messages under a foreign key, `Retrieve` and
`Generate` are the search and the model router, `SelfCheck` the second question to
the model, `Touch` the last update. `TurnFails` is a rejection at any await, and
`TurnEnds` turns an outcome into what the caller is told. `Expire` is the passing of
24 hours, `Cleanup` the hourly job. `CheckPersonaInUse` joins the two modules: it
counts the active sessions for `InUse`.

### Access

`attempts` is the map of each process. `StartLogin` is `login()` with
`checkRateLimit` up to the first await, `Find` and `Compare` are the database and
bcrypt coming back, `LogAuthEvent` the audit row, which `Inserted` may turn away.
`Guard` and `Handle` are the guard and the interceptor around a handler; `user` and
`adminUser` are the two fields of the request they use. `Tick` ages every entry up
to just past the window; `RemoveUser` is the deletion of a row by hand, for which no
route exists.

### Upload and Chunking

`StartBatch` is the synchronous part of every `uploadDocument` of a call, in which a
millisecond may pass between two files; `Write` and `Queue` are its two awaits and
`UploadFails` its catch. `disk` is per replica. `Take` is a worker's read of the
path on its own disk, which may hold nothing or another file; `Cut` is one turn of
chunkText's loop and `Store` the end of the job. What else happens in an ingestion is
`Ingestion`. A text is the sequence of its paragraphs' sizes: `Chunking` keeps which
paragraphs a chunk adds, what it repeats of the chunk before, its `tokenCount` and
its true size. `getOverlapText` repeats a short chunk whole; of a long one it decodes
token ids as if they were bytes (`rag/pdf-parser.service.ts:102`), so `Decoded` is a
size of its own and nothing is claimed of its content.

## 3. Runs

| Run | Instance | Shows |
| --- | --- | --- |
| `breaker` | 3 calls, thresholds 3 and 2, timeout 2, reset 3 | counters agree with the state, an open breaker is left alone, a recovery starts with one probe and only by waiting, calls settle, the circuit recovers |
| `router` | 2 requests, 3 providers (one per tier, in another order), all limits and thresholds 1 | usage overshoot, refinement of `Failover` and of each breaker |
| `ingestion_safety` | 2 workers, 1 admin, 2 jobs, 2 attempts, 2 versions, 1 deletion, 1 crash | what COMPLETED and PROCESSING mean |
| `ingestion_liveness` | 2 workers, 1 job, 2 categories, 2 attempts, 1 rejected call, 1 crash, 1 lost lock | jobs end, PROCESSING ends, early failures heal |
| `ingestion_stuck` | 1 worker, 1 admin, 2 jobs, 3 attempts, 6 rejected calls | violated: a failed document can be retried |
| `embedding` | 3 calls, an unknown name before the two providers, threshold 2, 2 attempts | the failure bound, that a disabled provider stays out, that calls end |
| `knowledge_base` | 2 calls of any kind, 2 documents of which one is still to come, 2 names, bulk requests in opposite orders and with a duplicate | reports are true, only late documents are orphaned, calls end despite deadlocks, a listing repairs counts |
| `personas` | 2 replicas, 2 operations, 1 persona with an optional field, no chats | why a cache may differ from the table |
| `chat` | 1 replica, 2 turns (chat or test; ask, search or another request), 2 sessions, 1 operation | transcripts, late sessions, replies, cleanup |
| `access` | 1 replica, 1 administrator, 2 logins, 1 request, 2 attempts, window 1 | the overshoot of the limit, lockouts end, removals take effect |
| `access_actions` | the same with 1 login | violated: actions are logged |
| `upload` | 2 replicas, 2 files, 2 names, 4 texts, 2 milliseconds, batches of 1, chunks of 4 with overlap 2 | only namesakes mix, chunks cover the text, reports are true |

Bounds and why they are enough.

- *breaker, router, embedding.* Three calls give an old call, a probe and a second
  probe at once. Two requests are the smallest number at which limits are passed,
  and with limits of 1 the check and the charge already interleave in every way; the
  threshold of 1 opens circuits at once, so that all three providers are ruled out
  within few steps.
- *ingestion.* Two workers are the most that ever hold the same job, since it stalls
  at most once (`maxStalledCount` 1); two attempts include a repetition and a last
  one. Faults are counted and limited only in the guards of the steps that are faults
  (`MaxFailures`, `MaxLosses`, `MaxLockLosses`, `MaxDeletes`, `MaxVersion`); every
  kind of fault at every place is reached with a bound of 1, and what needs two (a
  rejected call, then a rejected save of the catch block) counts against two bounds.
  Symmetry, over workers and jobs, is used in `ingestion_safety` only, whose
  properties do not tell them apart.
- *knowledge_base.* Two calls are enough for every check before a use, for two
  transactions that lock rows in opposite orders, and for a listing beside a writer.
  The ingestion of the second document supplies the late arrival. The duplicate in a
  request is a document deleted by the very transaction that comes back to it.
- *personas, chat.* One persona, because operations on different ids meet only in a
  reload, which replaces all of them; two replicas, because the others know nothing
  of a write, however many they are. A turn opens at most one session, so two turns
  need two. The slots' routes together cover all five ways a turn may come.
- *access.* Two logins show the overshoot with `MaxAttempts` 2; the counters are per
  process and key, so a second of either would repeat the first.
- *upload.* Two files are the smallest call that can mix. The texts are an empty
  one and three whose paragraphs fit together, fill a chunk exactly, exceed one by
  themselves, and follow a short or a long chunk.

`CHECK_DEADLOCK FALSE` is set for the ingestion, chat and upload runs, where the
slots for jobs, turns or files are used up and the system is at rest.

Fairness is what the runtime gives. Timers fire (`Tick`, `TimeOut`, `Promote`,
`StallRecovered`, and `Cleanup`, an hourly job of any replica); a continuation whose
promise has settled is run (`TryNext`, `AllFailed`, `Work`, `Retrying`, `Retry`). An
HTTP call of an embedding provider has a timeout of its own, so it settles
(`Settles`). Database calls come back, and PostgreSQL finds deadlocks (`Step` of
`KnowledgeBase`, `LoginStep`, `RequestStep`, `CallStep`); a turn's awaits do too
(`TurnStep`), the longest of them because `ModelRouter` ends every request. Nothing
is assumed of an LLM provider: its operation may never settle and only the breaker's
timeout brings it back. No fairness makes anybody start a call, a fault happen or a
fault stay away, with one exception: `BusySpec` adds callers that keep coming, an
assumption about the environment that `Recovers` needs because only a call moves a
breaker.

### Findings

Two runs check a statement of the repository that the code does not keep.

- `ingestion_stuck` (`rag/processors/document-ingestion.processor.ts:192`): a retried
  document whose file cannot be read stays PENDING with no job, and
  `retryIngestion()` accepts only FAILED ones; requirement 3.6 promises a retry
  (`src/.kiro/specs/admin-panel-persona-knowledge-management/requirements.md:59`).
- `access_actions` (`admin/interceptors/audit-log.interceptor.ts:48`): the
  interceptor looks for `request.user`, the guard sets `request.adminUser`, and no
  action of an administrator is ever logged; the requirement is line 108 of the same
  file.

### Other disagreements

Met while modelling; the modules follow the code, and no run is spent on them.
Specifications are those under `src/.kiro/specs/`, `admin` standing for
`admin-panel-persona-knowledge-management`.

| Code | Says otherwise |
| --- | --- |
| `common/circuit-breaker.ts:82`: a failing probe reopens the circuit only if `failureCount`, which a late success may have reset, reaches its threshold | `test/unit/retry-circuit-breaker.pbt.spec.ts:272`, "should reopen circuit if test request fails" |
| `model-router/model-router.service.ts:48`: a reached limit of Gemini refuses the request | `README.md:351`, "automatically fails over to the next provider" |
| `model-router/model-router.service.ts:103`: a failover event names as successful a provider not yet tried | `universal-brain/design.md:251` |
| `rag/processors/document-ingestion.processor.ts:150`: one rejected call after `saveBatch` leaves a stored document FAILED, because each retry inserts its chunks again; a new version of a completed document fails alike | `rag/rag.module.ts:26`, "Retry up to 3 times"; `admin/requirements.md:71` |
| `rag/processors/document-ingestion.processor.ts:137`: a document deleted during its ingestion is inserted again | `admin/requirements.md:72` |
| `rag/services/embedding-router.service.ts:65`: a provider at its threshold is out until the process restarts | `docs/features/EMBEDDING_SYSTEM.md:145`, "disabled temporarily" |
| `rag/services/*-embedding.service.ts`: the retryable errors 'TIMEOUT' and 'CONNECTION_ERROR' are not what axios reports (ETIMEDOUT, ECONNABORTED): only refused connections are repeated | the same lists |
| `rag/services/openai-embedding.service.ts`: falling back gives vectors of 1536 numbers, which the column refuses | `scripts/init-db.sql:26`, `vector(768)` |
| `admin/services/admin-knowledge.service.ts:239`: counted and written in two statements, a count may be left wrong | line 233, "ensures the count stays accurate" |
| `persona/persona.service.ts` `createPersona`: of two concurrent creations through the admin routes the second may write over the first, and both are told of success | `admin/design.md:342` |
| `rag/pdf-parser.service.ts:101`: an overlap is decoded token ids, and one long paragraph or an overlap makes a chunk over 512 tokens | `universal-brain/design.md:288` and `:745` |
| `chat/chat.service.ts:86`: a temperature of 0 becomes 0.7; earlier messages are never sent to the model | `universal-brain/requirements.md:88` |

## 4. Proofs

The theorems hold for every value of the constants that satisfies the named
assumptions: any number of calls, requests, providers, workers, replicas, sessions,
turns, files, any thresholds, limits, texts and fault bounds. The assumptions are the
types of the constants, that `None` and its like are no ordinary values, that some
provider, replica, persona id or administrator exists, the finiteness of `Requests`
and `Logins` (used to count), and `Timeout < ResetTimeout` (the only configuration the
code builds has 30 s and 60 s).

- **`CircuitBreakerProofs`**: `TypeCorrect`, `CountersCorrect`, `OpenLeavesAlone`,
  `ProbeAlone`, `OutageEnds`. The inductive invariant is the conjunction of the type
  invariant, `CountersMatchState` and `NoCallSinceLastFailure`. The last one carries
  the argument: while the circuit is open every pending call is at least as old as the
  last failure. A probe starts when that failure is `ResetTimeout` old, no call is
  older than `Timeout`, and `Timeout < ResetTimeout`, so no call is pending.
- **`ModelRouterProofs`**: `TypeCorrect`, `UsageBounded`, `BreakersRefined`,
  `OpenProvidersLeftAlone`, `OutagesEndWithOneProbe`, `FailoverSafety`. For the usage
  the invariant says that a counter plus the requests in flight is below its limit plus
  the number of requests: admission needs a counter below the limit and adds one in
  flight; an answer moves one from the requests in flight to the counter. For tokens
  each request counts for the largest response, which is the one non-linear fact and a
  lemma of its own.
  `BreakersRefined` is the property `RefinesBreakers` of the run: initial states map to
  initial states, and `NextOfBreaker` maps every step of the router, for every provider,
  to a step of its breaker or to none. It needs one strengthening, `OnlyCallersWait`: a
  request that comes to a provider has not waited anywhere else. `SameBreaker` says that
  the instance's helpers are the router's own.
  `OpenProvidersLeftAlone` and `OutagesEndWithOneProbe` say of each provider what
  `CircuitBreakerProofs` says of a breaker alone. They are proved from `NextOfBreaker`,
  a breaker's step at a time (`StepOfBreaker`), because the prover does not instantiate
  the theorems of a module whose instance takes a parameter, as `BreakerOf(p)` does.
  `FailoverSafety` is the safety part of `RefinesFailover`: there is a lemma per action
  that names the step of `Failover` it maps to, or shows that `Failover` sees none.
- **`IngestionProofs`**: `TypeCorrect`, `CompletedIsStored`, `ProcessingHasWorker`.
  Neither property is inductive: a worker about to save COMPLETED must hold an entity
  whose chunks are stored, and a stale entity must not overwrite another document. The
  strengthening says of every entity in memory, a worker's or an admin's, that its id
  is the row's or was deleted (`Known`), and of every worker that its entity has the
  status it is about to save at that place (`Sound`); it is preserved because ids are
  fresh, a row leaves only by a deletion, and chunks are stored once per row. There is
  one lemma per action.
- **`EmbeddingRouterProofs`**: `TypeCorrect`, `FailuresBounded`, `OutStaysOut`,
  `SlicesPartition`. The invariant is the bound on failures plus calls in flight at
  each provider; a call enters only below the threshold, a failing one moves from one
  summand to the other, and a success sets the count to 0. `OutStaysOut` follows from
  the guard of the loop: nobody is calling, and nobody can. `SlicesPartition` is a fact
  of arithmetic: the slices that start at multiples of the batch size are disjoint, not
  empty, and together all texts.
- **`KnowledgeBaseProofs`**: `TypeCorrect`, `ReportsTrue`, `OnlyLateOnes`. A report is
  made of locals that were filled before an error the code has swallowed, so what makes
  it true lies several statements back. The invariant says it of every call at every
  statement (`Sound`): the rows a transaction has written are there and reported
  (`Holds`); what is reported was written or is gone (`Reported`), for good, because ids
  are never used again (`Inserted`); nobody else holds those rows (`Exclusive`, the row
  locks); and a transaction the database has undone reports nothing or has still a
  category to count after its loop (`Pending`), a statement that the database refuses,
  so that the call is rejected. Without `Pending` an aborted transaction could reach
  COMMIT and answer with successes; without `Exclusive` its rows could be taken back by
  another's commit. `ReportsAreTrue` is then read off the one step that ends a call
  (`CommitReports`; every other end is a rejection that touches nothing). For the
  deletion of a category `AllLate` says that from its count to its DELETE every document
  in it has been marked late.
- **`AccessProofs`**: `TypeCorrect`, `LimitOvershoot`. For each process and key,
  failures counted plus logins under way stay within `MaxAttempts - 1` plus the number
  of logins. A login starts only below the limit; when it fails it moves from one
  summand to the other; a success, a restart or an elapsed window lowers the sum. The
  lemmas on cardinalities say how a step changes the set of logins under way.
- **`UploadProofs`**: `TypeCorrect`, `StoredChunksCover`, `FilesAreToldApart`,
  `ReportedCountsTrue`. For the
  chunker the invariant is `Progress`: the chunks built so far, and after them the open
  one, cover the paragraphs passed, and each fits. `BeganProgress`, `StepProgress` and
  `ResultCovers` are its three facts, about `Chunking` alone, and `Working` carries it
  through interleaved jobs. For the files: a path is its time and name (`Queueing`),
  what lies at a path was uploaded to it (`OnDisk`), so whatever a job reads has its
  own name and millisecond (`Working`, `Storing`). `ReportedCountsTrue` is the safety
  part of `ReportsAreTrue`; its invariant `Counted` ties each count to the uploads that
  have ended and each success to a job, and the cardinalities are added up by
  `CountsAdd`.
- **`ChatProofs`**: `TypeCorrect`, `CachesCohere`, `TranscriptsTold`, `OnlyLateOnes`.
  `PInv`, the part about personas, says of an operation still marked `clean` that it is
  alone and has read the present table (`Clean`), and of every undisturbed process that
  it agrees with the table or is behind by just the one operation under way on it
  (`Coherent`, `Behind`). `Counting` says that no session counted by a deletion about
  to write is active under its persona, which stays true because ids are never used
  twice and no session changes its persona. `Turned` gives for each place in a turn
  what has been said in its session, and `Kept` that a transcript belongs to a session
  and to turns of it; there is a lemma per action.

Every invariant and every action property of a passing run is a theorem. Only
model-checked is liveness: `CallsSettle`, `Recovers`, `JobsEnd`, `ProcessingEnds`,
`EarlyFailuresHeal`, `RequestsEnd`, `CallsEnd`, `ListingRepairs`, `TurnsEnd`,
`ExpiredAreRemoved`, `LockoutsEnd`, `RemovalIsEffective`, the `ReportsAreTrue` of
`Upload` and the fairness of `Failover`, because reasoning about fairness and ENABLED is
out of the prover's reach. Two of them have a safety part that is proved
(`FailoverSafety`, `ReportedCountsTrue`). No theorem speaks of what a violated run
refutes.

## 5. Not modelled

- *Read-only queries and their routes*: listings, statistics, monitoring, audit
  queries, health checks, `getProviderStatus` and the like. Nothing reads their results
  back.
- *Unreachable code*: `updateCategory` (no route; a rename would also leave personas
  with the old name), `cleanupOldLogs`, `SecretsService`, the API-key and JWT guards of
  `auth/`, `GlobalExceptionFilter` (the admin filter is registered for every route and
  answers first), the logging branch of the audit interceptor. `rollback()` of the bulk
  commands changes nothing. The commands themselves are modelled, as their interface
  offers them, although only tests call them.
- *Ingestion*: several source paths at once, `ingestion_events`, a document without any
  chunk (saveBatch of an empty list), a save that commits although its answer is lost.
  `KnowledgeBase` leaves a worker's later saves of a document to `Ingestion`.
- *Several processes* where they share nothing: usage counters, failure counts,
  breakers and login limits are per process, so three replicas have three times each
  quota, and a restart forgets them.
- *Content*: prompts, answers, the ranking of a search, validation rules, the wording
  of errors, the sanitising of audit rows, signatures and hashes, the decoding of PDFs.
- *Scripts*: seeds and migrations; `seed-knowledge.js` inserts COMPLETED documents
  outside the pipeline, which `CompletedMeansStored` does not speak of.

## 6. Plan

Done, in this order: `Breaker` and `CircuitBreaker`, `ModelRouter` with `Failover`,
`Ingestion`, `EmbeddingRouter`, `KnowledgeBase`, `Personas` and `Chat`, `Access`,
`Chunking` and `Upload`, all with their proofs, the refinements of `ModelRouter`
included.

Left, by importance: the safety parts of `RemovalIsEffective` and `ListingRepairs` as
theorems (each needs a history of what the guard, or the listing, has read); `Upload` and
`Ingestion` composed over one queue.
