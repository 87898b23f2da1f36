----------------------------- MODULE Ingestion -----------------------------
(***************************************************************************)
(* The ingestion of one source_path: DocumentIngestionProcessor in several  *)
(* API processes, the Bull queue that feeds them, the knowledge_documents   *)
(* row and its knowledge_chunks, and the admin operations on them.          *)
(*                                                                          *)
(* processIngestion() is split at its awaits on the database.  Between two  *)
(* of them a worker keeps the entity it loaded or created (doc), and each   *)
(* save writes the whole of it: category and retry_count as they were when  *)
(* the worker read them.  doc is always the entity as it will next be       *)
(* saved.                                                                   *)
(*                                                                          *)
(* The file, its hash, its chunks and total_chunks are all represented by   *)
(* the version of the file they come from; 0 is "none yet".                 *)
(***************************************************************************)
EXTENDS Naturals, FiniteSets

CONSTANTS
  None,
  Workers,           \* processes consuming the queue, one job each
  Admins,            \* concurrent retryIngestion() calls
  Jobs,              \* slots for Bull jobs, each used once
  Categories,
  MaxAttempts,       \* attempts: 3 (rag.module.ts)
  MaxStalled,        \* Bull's maxStalledCount: 1
  MaxRetries,        \* the 3 of retryIngestion
  MaxVersion,        \* bound: versions of the file
  MaxDeletes,        \* bound: documents deleted
  MaxFailures,       \* bound: awaits that reject
  MaxLosses,         \* bound: crashes and lost compensating saves
  MaxLockLosses      \* bound: locks lost by a running worker

Statuses == {"pending", "processing", "completed", "failed"}

\* A knowledge_documents row, or an entity in memory; id 0 is one not saved yet.
Document == [id : Nat, status : Statuses, hash : Nat, total : Nat,
             retries : Nat, category : Categories]

ASSUME NoneAssumption == None \notin Document

ASSUME CategoriesAssumption == Categories # {}

ASSUME BoundsAssumption ==
  /\ MaxAttempts \in Nat \ {0} /\ MaxStalled \in Nat /\ MaxRetries \in Nat
  /\ MaxVersion \in Nat \ {0}  /\ MaxDeletes \in Nat
  /\ MaxFailures \in Nat       /\ MaxLosses \in Nat
  /\ MaxLockLosses \in Nat

VARIABLES
  file,              \* version of the file at source_path
  row,               \* its knowledge_documents row, or None
  chunks,            \* version whose chunks are stored for the row, or 0
  nextId,            \* the next fresh id
  deleted,           \* ids an admin has deleted (history)
  jobs,              \* the queue
  worker,            \* per process: where it is in processIngestion()
  admin,             \* per call: where it is in retryIngestion()
  failures, losses, lockLosses   \* what has gone wrong so far (history)

database == <<row, chunks, nextId, deleted>>
faults   == <<failures, losses, lockLosses>>
vars     == <<file, database, jobs, worker, admin, faults>>

JobStates == {"unused", "wait", "active", "delayed", "completed", "failed"}

\* documentId is 0 for a job of an upload; owner holds the job's lock.
JobRecord == [state : JobStates, attempts : 0 .. MaxAttempts, stalls : Nat,
              owner : Workers \cup {None}, documentId : Nat,
              category : Categories]

WorkerPcs == {"idle", "find", "claim", "prepare", "count", "store", "complete",
              "report", "done", "fail", "rethrow"}

\* hash and retry are what the attempt has read of the file and of the job.
WorkerRecord == [pc : WorkerPcs, job : Jobs \cup {None}, retry : BOOLEAN,
                 hash : Nat, doc : Document \cup {None}]

AdminRecord == [pc : {"idle", "reset", "enqueue", "revert"},
                doc : Document \cup {None}]

TypeOK ==
  /\ file \in Nat
  /\ row \in Document \cup {None}
  /\ chunks \in Nat /\ nextId \in Nat \ {0} /\ deleted \subseteq Nat
  /\ jobs \in [Jobs -> JobRecord]
  /\ worker \in [Workers -> WorkerRecord]
  /\ admin \in [Admins -> AdminRecord]
  /\ failures \in 0 .. MaxFailures /\ losses \in 0 .. MaxLosses
  /\ lockLosses \in 0 .. MaxLockLosses

IdleWorker == [pc |-> "idle", job |-> None, retry |-> FALSE, hash |-> 0,
               doc |-> None]
IdleAdmin  == [pc |-> "idle", doc |-> None]

Init ==
  /\ file = 1
  /\ row = None /\ chunks = 0 /\ nextId = 1 /\ deleted = {}
  /\ jobs = [j \in Jobs |->
       [state |-> "unused", attempts |-> 0, stalls |-> 0, owner |-> None,
        documentId |-> 0, category |-> CHOOSE c \in Categories : TRUE]]
  /\ worker = [w \in Workers |-> IdleWorker]
  /\ admin  = [a \in Admins |-> IdleAdmin]
  /\ failures = 0 /\ losses = 0 /\ lockLosses = 0

\* An await that rejects; a process or a compensating save that is lost.
Failure ==
  /\ failures < MaxFailures
  /\ failures' = failures + 1
  /\ UNCHANGED <<losses, lockLosses>>

Loss ==
  /\ losses < MaxLosses
  /\ losses' = losses + 1
  /\ UNCHANGED <<failures, lockLosses>>

-----------------------------------------------------------------------------
\* documentRepository.save(d).  An entity without an id is inserted under a
\* fresh one; one with an id overwrites its row, or is inserted again if the
\* row is gone.  A row of another id at this source_path is a UNIQUE violation.

Conflicts(d) == row # None /\ row.id # d.id

Saved(d) == IF d.id = 0 THEN [d EXCEPT !.id = nextId] ELSE d

Save(d) ==
  /\ ~Conflicts(d)
  /\ row'    = Saved(d)
  /\ nextId' = IF d.id = 0 THEN nextId + 1 ELSE nextId
  /\ UNCHANGED <<chunks, deleted>>

-----------------------------------------------------------------------------
\* processIngestion() in worker w.

Step(w, next) == worker' = [worker EXCEPT ![w] = next]

\* The queue hands w a job; the file is read and hashed.
Take(w, j) ==
  /\ worker[w].pc = "idle"
  /\ jobs[j].state = "wait"
  /\ jobs' = [jobs EXCEPT ![j].state = "active", ![j].owner = w]
  /\ Step(w, [pc |-> "find", job |-> j, retry |-> jobs[j].attempts > 0,
              hash |-> file, doc |-> None])
  /\ UNCHANGED <<file, database, admin, faults>>

\* By documentId when the job has one, by source_path otherwise.
Found(j) ==
  IF row # None /\ jobs[j].documentId \in {0, row.id} THEN row ELSE None

Opened(w, d) ==
  IF d = None
  THEN [id |-> 0, status |-> "processing", hash |-> worker[w].hash,
        total |-> 0, retries |-> 0, category |-> jobs[worker[w].job].category]
  ELSE [d EXCEPT !.status = "processing", !.hash = worker[w].hash,
                 !.retries = @ + IF worker[w].retry THEN 1 ELSE 0]

AlreadyIngested(w, d) ==
  d # None /\ d.hash = worker[w].hash /\ d.status = "completed"

Find(w) ==
  /\ worker[w].pc = "find"
  /\ LET d == Found(worker[w].job) IN
       IF AlreadyIngested(w, d)
       THEN Step(w, [worker[w] EXCEPT !.pc = "done"])
       ELSE Step(w, [worker[w] EXCEPT !.pc = "claim", !.doc = Opened(w, d)])
  /\ UNCHANGED <<file, database, jobs, admin, faults>>

\* A save of processIngestion() that goes through.
SaveStep(w, pc, next) ==
  /\ worker[w].pc = pc
  /\ Save(worker[w].doc)
  /\ Step(w, [worker[w] EXCEPT !.pc = next, !.doc = Saved(@)])
  /\ UNCHANGED <<file, jobs, admin, faults>>

Claim(w)    == SaveStep(w, "claim", "prepare")
Count(w)    == SaveStep(w, "count", "store")
Complete(w) == SaveStep(w, "complete", "report")
Fail(w)     == SaveStep(w, "fail", "rethrow")

Prepare_MarksCompleted(w) ==
  /\ worker[w].pc = "prepare"
  /\ Step(w, [worker[w] EXCEPT !.pc = "count", !.doc.total = file,
                               !.doc.status = "completed"])
  /\ UNCHANGED <<file, database, jobs, admin, faults>>

\* The file is read a second time, split into chunks and embedded.
Prepare(w) ==
  /\ worker[w].pc = "prepare"
  /\ Step(w, [worker[w] EXCEPT !.pc = "count", !.doc.total = file])
  /\ UNCHANGED <<file, database, jobs, admin, faults>>

\* saveBatch(): one transaction; it needs the document's row (foreign key) and
\* no chunks of it yet (UNIQUE(document_id, chunk_index)).
CanStore(d) == row # None /\ row.id = d.id /\ chunks = 0

Store(w) ==
  /\ worker[w].pc = "store"
  /\ CanStore(worker[w].doc)
  /\ chunks' = worker[w].doc.total
  /\ Step(w, [worker[w] EXCEPT !.pc = "complete", !.doc.status = "completed"])
  /\ UNCHANGED <<file, row, nextId, deleted, jobs, admin, faults>>

\* progress(100) and the COMPLETE event, whose failure is swallowed.
Report(w) ==
  /\ worker[w].pc = "report"
  /\ Step(w, [worker[w] EXCEPT !.pc = "done"])
  /\ UNCHANGED <<file, database, jobs, admin, faults>>

Caught_OnlyRethrows(w) == [worker[w] EXCEPT !.pc = "rethrow"]

\* The catch block: FAILED is saved if there is an entity, then the error goes
\* to Bull.  An error of that save takes the place of the first.
Caught(w) ==
  LET me == worker[w] IN
  IF me.doc = None \/ me.pc = "fail"
  THEN [me EXCEPT !.pc = "rethrow"]
  ELSE [me EXCEPT !.pc = "fail", !.doc.status = "failed"]

\* The database itself refuses the write.
Refused(w) ==
  /\ \/ worker[w].pc \in {"claim", "count", "complete", "fail"}
        /\ Conflicts(worker[w].doc)
     \/ worker[w].pc = "store" /\ ~CanStore(worker[w].doc)
  /\ Step(w, Caught(w))
  /\ UNCHANGED <<file, database, jobs, admin, faults>>

\* Any awaited call rejects: Redis, disk, parser, embedding or database.  When
\* it is the save of the catch block the FAILED status is lost with it.
Rejected(w) ==
  /\ worker[w].pc \notin {"idle", "done", "rethrow"}
  /\ IF worker[w].pc = "fail" THEN Loss ELSE Failure
  /\ Step(w, Caught(w))
  /\ UNCHANGED <<file, database, jobs, admin>>

-----------------------------------------------------------------------------
\* The Bull queue.

Holds(w, j) == jobs[j].state = "active" /\ jobs[j].owner = w

\* The handler's promise settles; without the job's lock the result is dropped.
Settle(w, result) ==
  LET j == worker[w].job IN
  /\ jobs' = IF Holds(w, j) THEN [jobs EXCEPT ![j] = result] ELSE jobs
  /\ Step(w, IdleWorker)
  /\ UNCHANGED <<file, database, admin, faults>>

Done(w) ==
  /\ worker[w].pc = "done"
  /\ Settle(w, [jobs[worker[w].job] EXCEPT !.state = "completed"])

Rethrow_NeverRetries(w) ==
  /\ worker[w].pc = "rethrow"
  /\ Settle(w, [jobs[worker[w].job] EXCEPT !.state = "failed"])

Rethrow_RetriesOnceMore(w) ==
  LET job == jobs[worker[w].job] IN
  /\ worker[w].pc = "rethrow"
  /\ Settle(w, [job EXCEPT !.attempts = @ + 1,
       !.state = IF job.attempts + 1 <= MaxAttempts THEN "delayed" ELSE "failed"])

Rethrow(w) ==
  LET job == jobs[worker[w].job] IN
  /\ worker[w].pc = "rethrow"
  /\ Settle(w, [job EXCEPT !.attempts = @ + 1,
       !.state = IF job.attempts + 1 < MaxAttempts THEN "delayed" ELSE "failed"])

\* The backoff delay of a job is over.
Promote(j) ==
  /\ jobs[j].state = "delayed"
  /\ jobs' = [jobs EXCEPT ![j].state = "wait"]
  /\ UNCHANGED <<file, database, worker, admin, faults>>

Stall_RequeuesOnly(j) ==
  /\ jobs[j].state = "active" /\ jobs[j].stalls < MaxStalled
  /\ jobs' = [jobs EXCEPT ![j].stalls = @ + 1, ![j].state = "wait"]
  /\ UNCHANGED <<file, database, worker, admin>>

\* The stalled-job check: the job goes back to waiting, at most MaxStalled times.
Stall(j) ==
  /\ jobs[j].state = "active"
  /\ jobs' = [jobs EXCEPT ![j].stalls = @ + 1,
       ![j].state = IF jobs[j].stalls < MaxStalled THEN "wait" ELSE "failed"]
  /\ UNCHANGED <<file, database, worker, admin>>

Abandoned(j) == worker[jobs[j].owner].job # j

StallRecovered(j) == Stall(j) /\ Abandoned(j) /\ UNCHANGED faults

\* A worker too busy to renew its lock keeps running without it.
LockLost(j) ==
  /\ Stall(j) /\ ~Abandoned(j)
  /\ lockLosses < MaxLockLosses
  /\ lockLosses' = lockLosses + 1
  /\ UNCHANGED <<failures, losses>>

Crash(w) ==
  /\ worker[w].pc # "idle"
  /\ Loss
  /\ Step(w, IdleWorker)
  /\ UNCHANGED <<file, database, jobs, admin>>

-----------------------------------------------------------------------------
\* Uploads and admin operations.

\* Bound: no more jobs than slots, one of which every retry under way reserves.
Room == Cardinality({a \in Admins : admin[a].pc # "idle"})
          < Cardinality({j \in Jobs : jobs[j].state = "unused"})

Add(j, documentId, c) ==
  /\ jobs[j].state = "unused"
  /\ jobs' = [jobs EXCEPT ![j].state = "wait",
                          ![j].documentId = documentId, ![j].category = c]

\* ingestDocument(), or uploadDocument() after it has written the file.
Enqueue(j, c) ==
  /\ Room
  /\ Add(j, 0, c)
  /\ UNCHANGED <<file, database, worker, admin, faults>>

\* Another upload under the same name, or a new version on disk.
ReplaceFile ==
  /\ file < MaxVersion
  /\ file' = file + 1
  /\ UNCHANGED <<database, jobs, worker, admin, faults>>

AdminStep(a, next) ==
  /\ admin' = [admin EXCEPT ![a] = next]
  /\ UNCHANGED <<file, worker>>

\* retryIngestion(): reads the row and its limits ...
RetryRead(a) ==
  /\ admin[a].pc = "idle" /\ Room
  /\ row # None /\ row.status = "failed" /\ row.retries < MaxRetries
  /\ AdminStep(a, [pc |-> "reset", doc |-> [row EXCEPT !.status = "pending"]])
  /\ UNCHANGED <<database, jobs, faults>>

\* ... saves it as PENDING ...
Reset(a) ==
  /\ admin[a].pc = "reset"
  /\ Save(admin[a].doc)
  /\ AdminStep(a, [admin[a] EXCEPT !.pc = "enqueue"])
  /\ UNCHANGED <<jobs, faults>>

\* ... and adds a job for it.
RetryEnqueue(a, j) ==
  /\ admin[a].pc = "enqueue"
  /\ Add(j, admin[a].doc.id, admin[a].doc.category)
  /\ AdminStep(a, IdleAdmin)
  /\ UNCHANGED <<database, faults>>

RetryFails(a) ==
  /\ \/ admin[a].pc = "reset" /\ Conflicts(admin[a].doc) /\ UNCHANGED faults
     \/ admin[a].pc \in {"reset", "enqueue"} /\ Failure
  /\ AdminStep(a, [pc |-> "revert",
                   doc |-> [admin[a].doc EXCEPT !.status = "failed"]])
  /\ UNCHANGED <<database, jobs>>

Revert(a) ==
  /\ admin[a].pc = "revert"
  /\ \/ Save(admin[a].doc)
     \/ Conflicts(admin[a].doc) /\ UNCHANGED database
  /\ AdminStep(a, IdleAdmin)
  /\ UNCHANGED <<jobs, faults>>

\* The call dies, or its compensating save rejects.
RetryLost(a) ==
  /\ admin[a].pc # "idle"
  /\ Loss
  /\ AdminStep(a, IdleAdmin)
  /\ UNCHANGED <<database, jobs>>

\* deleteDocument() and bulkDeleteDocuments(); chunks go with ON DELETE CASCADE.
Delete ==
  /\ row # None
  /\ Cardinality(deleted \cup {row.id}) <= MaxDeletes
  /\ row' = None /\ chunks' = 0 /\ deleted' = deleted \cup {row.id}
  /\ UNCHANGED <<file, nextId, jobs, worker, admin, faults>>

\* bulkReassignCategory()
Reassign(c) ==
  /\ row # None /\ row.category # c
  /\ row' = [row EXCEPT !.category = c]
  /\ UNCHANGED <<file, chunks, nextId, deleted, jobs, worker, admin, faults>>

-----------------------------------------------------------------------------

Work(w) ==
  \/ \E j \in Jobs : Take(w, j)
  \/ Find(w) \/ Claim(w) \/ Prepare(w) \/ Count(w) \/ Store(w) \/ Complete(w)
  \/ Report(w) \/ Done(w) \/ Refused(w) \/ Fail(w) \/ Rethrow(w)

Retrying(a) == Reset(a) \/ Revert(a) \/ \E j \in Jobs : RetryEnqueue(a, j)

Next ==
  \/ \E w \in Workers : Work(w) \/ Rejected(w) \/ Crash(w)
  \/ \E j \in Jobs :
       \/ Promote(j) \/ StallRecovered(j) \/ LockLost(j)
       \/ \E c \in Categories : Enqueue(j, c)
  \/ \E a \in Admins :
       RetryRead(a) \/ Retrying(a) \/ RetryFails(a) \/ RetryLost(a)
  \/ ReplaceFile \/ Delete \/ \E c \in Categories : Reassign(c)

Spec == Init /\ [][Next]_vars

\* A running process goes on, a free one takes a waiting job, and Bull's timers
\* promote delayed jobs and find the stalled ones.
Fairness ==
  /\ \A w \in Workers : WF_vars(Work(w))
  /\ \A a \in Admins  : WF_vars(Retrying(a) \/ RetryFails(a))
  /\ \A j \in Jobs    : WF_vars(Promote(j)) /\ WF_vars(StallRecovered(j))

FairSpec == Spec /\ Fairness

-----------------------------------------------------------------------------

\* COMPLETED is believed: the chunks of the document are stored, and
\* total_chunks is theirs.  Only a document already deleted, and brought back
\* by a worker still holding its entity, may claim chunks it does not have.
CompletedMeansStored ==
  row # None /\ row.status = "completed" /\ row.id \notin deleted =>
    chunks # 0 /\ row.total = chunks

InHand == {"prepare", "count", "store", "complete", "fail"}

\* Until a process or a compensating write is lost, a document that is
\* PROCESSING is in the hands of a worker that will save it again.
ProcessingIsInHand ==
  row # None /\ row.status = "processing" /\ losses = 0 =>
    \E w \in Workers : worker[w].pc \in InHand /\ worker[w].doc.id = row.id

\* Every job leaves the queue, whatever fails or crashes on its way.
JobsEnd ==
  \A j \in Jobs :
    jobs[j].state # "unused" ~> jobs[j].state \in {"completed", "failed"}

\* So PROCESSING comes to an end, unless something is lost.
ProcessingEnds ==
  row # None /\ row.status = "processing" /\ losses = 0 ~>
    row = None \/ row.status # "processing" \/ losses > 0

Uploaded  == \E j \in Jobs : jobs[j].state # "unused"
Completed == row # None /\ row.status = "completed"

\* The retries of the queue heal failures fewer than its attempts, unless one
\* strikes after the chunks have been stored, or a process or lock is lost.
EarlyFailuresHeal ==
  Uploaded /\ chunks = 0 ~>
    \/ Completed
    \/ \E w \in Workers : worker[w].pc = "fail" /\ chunks # 0
    \/ losses + lockLosses > 0

\* requirements.md:59, "IF the Ingestion_Pipeline fails, THEN the Admin_Panel
\* SHALL ... allow retry": with every job over, no document is left in a status
\* that retryIngestion() turns away.
FailedCanBeRetried ==
  (\A j \in Jobs : jobs[j].state \in {"unused", "completed", "failed"})
    /\ (\A w \in Workers : worker[w].pc = "idle")
    /\ (\A a \in Admins : admin[a].pc = "idle")
  => row = None \/ row.status \in {"completed", "failed"}
=============================================================================
