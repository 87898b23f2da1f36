-------------------------- MODULE IngestionProofs --------------------------
(***************************************************************************)
(* Proofs about Ingestion, for any number of workers, admins, jobs and      *)
(* categories and any bounds.                                               *)
(*                                                                          *)
(* The inductive invariant says what every entity in memory still has to do *)
(* with the database: an entity with an id is that of the row, or its       *)
(* document has been deleted (Known); a worker at a given place holds an    *)
(* entity with the status it is about to save there, and one about to save  *)
(* COMPLETED has its chunks stored unless it was deleted (Sound).           *)
(***************************************************************************)
EXTENDS Ingestion, TLAPS

Known(d) ==
  /\ d.id < nextId
  /\ d.id # 0 => d.id \in deleted \/ (row # None /\ row.id = d.id)

HasChunks(d) ==
  row # None /\ row.id = d.id /\ d.id \notin deleted => chunks = d.total

Sound(me) ==
  /\ me.pc # "idle" => me.job \in Jobs
  /\ me.pc \in {"claim"} \cup InHand => me.doc # None
  /\ me.doc # None => Known(me.doc)
  /\ me.pc \in {"prepare", "count", "store", "complete"} => me.doc.id # 0
  /\ me.pc \in {"count", "store", "complete"} => me.doc.total # 0
  /\ me.pc \in {"claim", "prepare", "count", "store"} =>
       me.doc.status = "processing"
  /\ me.pc = "fail" => me.doc.status = "failed"
  /\ me.pc = "complete" => me.doc.status = "completed" /\ HasChunks(me.doc)

SoundRetry(me) ==
  me.pc # "idle" => /\ me.doc # None
                    /\ Known(me.doc)
                    /\ me.doc.id # 0
                    /\ me.doc.status \in {"pending", "failed"}

DatabaseOK ==
  /\ file # 0
  /\ row # None => row.id # 0 /\ row.id < nextId
  /\ row = None => chunks = 0

JobsOK ==
  \A j \in Jobs : jobs[j].state \notin {"completed", "failed"} =>
                    jobs[j].attempts < MaxAttempts

WorkersOK == \A w \in Workers : Sound(worker[w])
AdminsOK  == \A a \in Admins : SoundRetry(admin[a])

IInv == /\ TypeOK /\ DatabaseOK /\ JobsOK /\ WorkersOK /\ AdminsOK
        /\ CompletedMeansStored /\ ProcessingIsInHand

\* Nothing is in memory before the first job.
LEMMA InitIInv == Init => IInv
<1> SUFFICES ASSUME Init PROVE IInv
  OBVIOUS
<1>1. (CHOOSE c \in Categories : TRUE) \in Categories
  BY CategoriesAssumption
<1>2. TypeOK
  BY <1>1, BoundsAssumption
  DEF Init, TypeOK, JobRecord, JobStates, WorkerRecord, WorkerPcs, AdminRecord,
      IdleWorker, IdleAdmin
<1>3. DatabaseOK /\ CompletedMeansStored /\ ProcessingIsInHand
  BY DEF Init, DatabaseOK, CompletedMeansStored, ProcessingIsInHand
<1>4. JobsOK
  BY BoundsAssumption DEF Init, JobsOK
<1>5. WorkersOK
  BY DEF Init, WorkersOK, Sound, IdleWorker, InHand
<1>6. AdminsOK
  BY DEF Init, AdminsOK, SoundRetry, IdleAdmin
<1> QED  BY <1>2, <1>3, <1>4, <1>5, <1>6 DEF IInv

\* A step of worker w that leaves the database alone and does not drop the
\* row it has in hand.
LEMMA LocalStep ==
  ASSUME IInv, NEW w \in Workers, NEW next \in WorkerRecord,
         Step(w, next), Sound(next),
         UNCHANGED <<file, database, admin>>,
         jobs' \in [Jobs -> JobRecord], JobsOK',
         failures' \in 0 .. MaxFailures, losses' \in 0 .. MaxLosses,
         lockLosses' = lockLosses,
         losses' = 0 => losses = 0,
         losses' = 0 /\ worker[w].pc \in InHand /\ row # None
           /\ worker[w].doc.id = row.id
           => next.pc \in InHand /\ next.doc.id = row.id
  PROVE  IInv'
<1> USE DEF database
<1>0. \A v \in Workers : worker'[v] = IF v = w THEN next ELSE worker[v]
  BY DEF IInv, TypeOK, Step
<1>1. TypeOK'
  BY DEF IInv, TypeOK, Step
<1>2. DatabaseOK' /\ CompletedMeansStored'
  BY DEF IInv, DatabaseOK, CompletedMeansStored
<1>3. WorkersOK'
  <2> SUFFICES ASSUME NEW v \in Workers PROVE Sound(worker[v])'
    BY DEF WorkersOK
  <2>1. worker'[v] = next \/ worker'[v] = worker[v]
    BY <1>0
  <2>2. Sound(worker[v])
    BY DEF IInv, WorkersOK
  <2> QED  BY <2>1, <2>2 DEF Sound, Known, HasChunks
<1>4. AdminsOK'
  BY DEF IInv, AdminsOK, SoundRetry, Known
<1>5. ProcessingIsInHand'
  <2> SUFFICES ASSUME row # None, row.status = "processing", losses' = 0
               PROVE  \E v \in Workers : /\ worker'[v].pc \in InHand
                                         /\ worker'[v].doc.id = row.id
    BY DEF ProcessingIsInHand
  <2>1. PICK v \in Workers : worker[v].pc \in InHand /\ worker[v].doc.id = row.id
    BY DEF IInv, ProcessingIsInHand
  <2> QED  BY <2>1, <1>0
<1> QED  BY <1>1, <1>2, <1>3, <1>4, <1>5 DEF IInv

\* What the places of a worker say of its job.
LEMMA JobOf ==
  ASSUME IInv, NEW w \in Workers, worker[w].pc # "idle"
  PROVE  worker[w].job \in Jobs /\ jobs[worker[w].job] \in JobRecord
BY DEF IInv, TypeOK, WorkersOK, Sound

\* The handler starts with a waiting job and no entity.
LEMMA TakeKeeps ==
  ASSUME IInv, NEW w \in Workers, NEW j \in Jobs, Take(w, j)
  PROVE  IInv'
<1> DEFINE next == [pc |-> "find", job |-> j, retry |-> jobs[j].attempts > 0,
                    hash |-> file, doc |-> None]
<1>1. next \in WorkerRecord /\ Sound(next)
  BY DEF IInv, TypeOK, WorkerRecord, WorkerPcs, Sound, InHand
<1>2. jobs' \in [Jobs -> JobRecord]
  BY DEF IInv, TypeOK, Take, JobRecord, JobStates
<1>3. JobsOK'
  BY DEF IInv, TypeOK, JobsOK, Take, JobRecord
<1>4. /\ Step(w, next) /\ worker[w].pc = "idle"
      /\ UNCHANGED <<file, database, admin>> /\ UNCHANGED faults
  BY DEF Take
<1>5. worker[w].pc \notin InHand
  BY <1>4 DEF InHand
<1>6. /\ failures' \in 0 .. MaxFailures /\ losses' \in 0 .. MaxLosses
      /\ lockLosses' = lockLosses /\ losses' = losses
  BY <1>4 DEF IInv, TypeOK, faults
<1> HIDE DEF next
<1> QED  BY <1>1, <1>2, <1>3, <1>4, <1>5, <1>6, LocalStep

\* An opened entity keeps the id of the one found; a created one has none.
LEMMA OpenedFields ==
  ASSUME IInv, NEW w \in Workers, worker[w].pc # "idle",
         NEW d \in Document \cup {None}, d # None => Known(d)
  PROVE  /\ Opened(w, d) \in Document /\ Known(Opened(w, d))
         /\ Opened(w, d).status = "processing"
<1>1. /\ worker[w].hash \in Nat /\ nextId > 0
      /\ jobs[worker[w].job].category \in Categories
  BY JobOf DEF IInv, TypeOK, WorkerRecord, JobRecord
<1>2. CASE d = None
  BY <1>1, <1>2 DEF Opened, Document, Statuses, Known
<1>3. CASE d # None
  <2> DEFINE more == IF worker[w].retry THEN 1 ELSE 0
  <2>1. d \in Document /\ Known(d)
    BY <1>3
  <2>2. more \in Nat
    OBVIOUS
  <2>3. Opened(w, d) = [id |-> d.id, status |-> "processing",
                        hash |-> worker[w].hash, total |-> d.total,
                        retries |-> d.retries + more, category |-> d.category]
    BY <1>3, <2>1 DEF Opened, Document
  <2> HIDE DEF more
  <2> QED  BY <1>1, <2>1, <2>2, <2>3 DEF Document, Statuses, Known
<1> QED  BY <1>2, <1>3

\* The entity findOne() returns is the row.
LEMMA FindKeeps ==
  ASSUME IInv, NEW w \in Workers, Find(w)
  PROVE  IInv'
<1> DEFINE me == worker[w]
           d  == Found(me.job)
<1>1. /\ me.pc = "find" /\ me \in WorkerRecord /\ Sound(me)
      /\ me.job \in Jobs /\ jobs[me.job] \in JobRecord
  BY JobOf DEF IInv, TypeOK, WorkersOK, Find
<1>2. d \in Document \cup {None} /\ (d # None => Known(d))
  BY DEF IInv, TypeOK, DatabaseOK, Found, Known, Document
<1>3. Opened(w, d) \in Document /\ Known(Opened(w, d))
      /\ Opened(w, d).status = "processing"
  BY <1>1, <1>2, OpenedFields
<1>4. /\ UNCHANGED <<file, database, admin>> /\ UNCHANGED <<jobs, faults>>
      /\ me.pc \notin InHand
  BY <1>1 DEF Find, InHand
<1>5. /\ jobs' \in [Jobs -> JobRecord] /\ JobsOK'
      /\ failures' \in 0 .. MaxFailures /\ losses' \in 0 .. MaxLosses
      /\ lockLosses' = lockLosses /\ losses' = losses
  BY <1>4 DEF IInv, TypeOK, JobsOK, faults
<1>6. PICK next : /\ Step(w, next)
                  /\ \/ next = [me EXCEPT !.pc = "done"]
                     \/ next = [me EXCEPT !.pc = "claim", !.doc = Opened(w, d)]
  BY DEF Find
<1>7. next \in WorkerRecord
  BY <1>1, <1>3, <1>6 DEF WorkerRecord, WorkerPcs
<1>8. Sound(next)
  BY <1>1, <1>3, <1>6, NoneAssumption DEF Sound, InHand, WorkerRecord
<1> HIDE DEF me, d
<1> QED  BY <1>4, <1>5, <1>6, <1>7, <1>8, LocalStep DEF me

FaultStep ==
  /\ failures' \in 0 .. MaxFailures /\ losses' \in 0 .. MaxLosses
  /\ lockLosses' = lockLosses
  /\ losses' = 0 => losses = 0

\* The ways the fault counters change in the handler and in a retry.
LEMMA FaultSteps ==
  ASSUME IInv
  PROVE  /\ UNCHANGED faults => FaultStep /\ losses' = losses
         /\ Failure => FaultStep
         /\ Loss => FaultStep /\ losses' # 0
BY BoundsAssumption DEF IInv, TypeOK, faults, Failure, Loss, FaultStep

\* A step of worker w between two places of the handler.
LEMMA MoveStep ==
  ASSUME IInv, NEW w \in Workers, NEW next \in WorkerRecord,
         Step(w, next), Sound(next),
         UNCHANGED <<file, database, admin, jobs>>,
         FaultStep,
         worker[w].pc \in InHand =>
           \/ losses' # 0
           \/ next.pc \in InHand /\ next.doc.id = worker[w].doc.id
           \/ row = None \/ worker[w].doc.id # row.id
  PROVE  IInv'
<1>1. jobs' \in [Jobs -> JobRecord] /\ JobsOK'
  BY DEF IInv, TypeOK, JobsOK
<1> QED  BY <1>1, LocalStep DEF FaultStep

\* The file has a version, so there is something to store.
LEMMA PrepareKeeps ==
  ASSUME IInv, NEW w \in Workers, Prepare(w)
  PROVE  IInv'
<1> DEFINE me   == worker[w]
           d    == [me.doc EXCEPT !.total = file]
           next == [me EXCEPT !.pc = "count", !.doc = d]
<1>1. /\ me.pc = "prepare" /\ me \in WorkerRecord /\ Sound(me)
      /\ file \in Nat /\ file # 0
  BY DEF IInv, TypeOK, DatabaseOK, WorkersOK, Prepare
<1>2. /\ me.doc \in Document /\ Known(me.doc) /\ me.job \in Jobs
      /\ me.doc.id # 0 /\ me.doc.status = "processing"
  BY <1>1 DEF Sound, InHand, WorkerRecord
<1>3. Step(w, next) /\ UNCHANGED <<file, database, admin, jobs>> /\ UNCHANGED faults
  BY <1>1 DEF Prepare, WorkerRecord
<1>4. d \in Document /\ d.id = me.doc.id /\ d.total = file
      /\ d.status = "processing"
  BY <1>1, <1>2 DEF Document
<1> HIDE DEF d
<1>7. next.pc = "count" /\ next.job = me.job /\ next.doc = d
  BY <1>1 DEF WorkerRecord
<1>5. next \in WorkerRecord
  BY <1>1, <1>4 DEF WorkerRecord, WorkerPcs
<1>6. next.pc \in InHand /\ next.doc.id = me.doc.id /\ Sound(next)
  BY <1>1, <1>2, <1>4, <1>7, NoneAssumption DEF Sound, InHand, Known
<1> HIDE DEF next
<1> QED  BY <1>3, <1>5, <1>6, FaultSteps, MoveStep

\* Nothing is left to save.
LEMMA ReportKeeps ==
  ASSUME IInv, NEW w \in Workers, Report(w)
  PROVE  IInv'
<1> DEFINE me   == worker[w]
           next == [me EXCEPT !.pc = "done"]
<1>1. me.pc = "report" /\ me \in WorkerRecord /\ Sound(me)
  BY DEF IInv, TypeOK, WorkersOK, Report
<1>2. next = [pc |-> "done", job |-> me.job, retry |-> me.retry,
              hash |-> me.hash, doc |-> me.doc]
  BY <1>1 DEF WorkerRecord
<1>3. next \in WorkerRecord /\ Sound(next)
  BY <1>1, <1>2 DEF WorkerRecord, WorkerPcs, Sound, InHand
<1>4. /\ Step(w, next) /\ UNCHANGED <<file, database, admin, jobs>>
      /\ UNCHANGED faults /\ me.pc \notin InHand
  BY <1>1 DEF Report, InHand
<1> HIDE DEF next
<1> QED  BY <1>3, <1>4, FaultSteps, MoveStep

\* The catch block keeps the entity's id and is about to save it as FAILED.
LEMMA CaughtFields ==
  ASSUME IInv, NEW w \in Workers, worker[w].pc # "idle"
  PROVE  /\ Caught(w) \in WorkerRecord /\ Sound(Caught(w))
         /\ worker[w].pc \in InHand \ {"fail"} =>
              Caught(w).pc \in InHand /\ Caught(w).doc.id = worker[w].doc.id
<1> DEFINE me == worker[w]
<1>1. me \in WorkerRecord /\ Sound(me) /\ me.job \in Jobs
  BY JobOf DEF IInv, TypeOK, WorkersOK
<1>2. CASE me.doc = None \/ me.pc = "fail"
  <2>1. Caught(w) = [pc |-> "rethrow", job |-> me.job, retry |-> me.retry,
                     hash |-> me.hash, doc |-> me.doc]
    BY <1>1, <1>2 DEF Caught, WorkerRecord
  <2> QED
    BY <1>1, <1>2, <2>1 DEF WorkerRecord, WorkerPcs, Sound, InHand
<1>3. CASE ~(me.doc = None \/ me.pc = "fail")
  <2> DEFINE d == [me.doc EXCEPT !.status = "failed"]
  <2>1. me.doc \in Document /\ Known(me.doc)
    BY <1>1, <1>3 DEF WorkerRecord, Sound
  <2>2. d \in Document /\ d.id = me.doc.id /\ d.status = "failed"
    BY <2>1 DEF Document, Statuses
  <2>3. Caught(w) = [pc |-> "fail", job |-> me.job, retry |-> me.retry,
                     hash |-> me.hash, doc |-> d]
    BY <1>1, <1>3 DEF Caught, WorkerRecord
  <2>4. Known(d) /\ d # None
    BY <2>1, <2>2, NoneAssumption DEF Known
  <2> HIDE DEF d
  <2>5. Caught(w) \in WorkerRecord /\ Sound(Caught(w))
    BY <1>1, <2>2, <2>3, <2>4 DEF WorkerRecord, WorkerPcs, Sound, InHand
  <2> QED  BY <2>2, <2>3, <2>5 DEF InHand
<1> QED  BY <1>2, <1>3

\* A save refused at "fail" concerns a row of another document.
LEMMA RefusedKeeps ==
  ASSUME IInv, NEW w \in Workers, Refused(w)
  PROVE  IInv'
<1>1. worker[w].pc # "idle" /\ (worker[w].pc = "fail" => Conflicts(worker[w].doc))
  BY DEF Refused
<1>2. /\ Step(w, Caught(w)) /\ UNCHANGED <<file, database, admin, jobs>>
      /\ UNCHANGED faults
  BY DEF Refused
<1>3. worker[w].pc = "fail" => worker[w].doc.id # row.id
  BY <1>1 DEF Conflicts
<1> QED  BY <1>1, <1>2, <1>3, CaughtFields, FaultSteps, MoveStep

\* A call rejected at "fail" counts as a loss.
LEMMA RejectedKeeps ==
  ASSUME IInv, NEW w \in Workers, Rejected(w)
  PROVE  IInv'
<1>1. worker[w].pc # "idle" /\ (Failure \/ Loss)
      /\ (worker[w].pc = "fail" => Loss)
  BY DEF Rejected
<1>2. Step(w, Caught(w)) /\ UNCHANGED <<file, database, admin, jobs>>
  BY DEF Rejected
<1> QED  BY <1>1, <1>2, CaughtFields, FaultSteps, MoveStep

\* A worker without a job and without an entity.
LEMMA IdleFields == IdleWorker \in WorkerRecord /\ Sound(IdleWorker)
BY DEF IdleWorker, WorkerRecord, WorkerPcs, Sound, InHand

\* A crash counts as a loss.
LEMMA CrashKeeps ==
  ASSUME IInv, NEW w \in Workers, Crash(w)
  PROVE  IInv'
<1>1. Step(w, IdleWorker) /\ Loss /\ UNCHANGED <<file, database, admin, jobs>>
  BY DEF Crash
<1> QED  BY <1>1, IdleFields, FaultSteps, MoveStep

\* The job's result is recorded, or dropped with its lock.
LEMMA SettleKeeps ==
  ASSUME IInv, NEW w \in Workers, worker[w].pc \in {"done", "rethrow"},
         NEW result \in JobRecord, Settle(w, result),
         result.state \notin {"completed", "failed"} =>
           result.attempts < MaxAttempts
  PROVE  IInv'
<1>1. jobs' \in [Jobs -> JobRecord] /\ JobsOK'
  <2>1. worker[w].job \in Jobs
    BY JobOf
  <2>2. jobs' = jobs \/ jobs' = [jobs EXCEPT ![worker[w].job] = result]
    BY DEF Settle
  <2> QED  BY <2>1, <2>2 DEF IInv, TypeOK, JobsOK
<1>2. /\ Step(w, IdleWorker) /\ UNCHANGED <<file, database, admin>>
      /\ UNCHANGED faults
  BY DEF Settle
<1>3. /\ failures' \in 0 .. MaxFailures /\ losses' \in 0 .. MaxLosses
      /\ lockLosses' = lockLosses /\ losses' = losses
      /\ worker[w].pc \notin InHand
  BY <1>2 DEF IInv, TypeOK, faults, InHand
<1> QED  BY <1>1, <1>2, <1>3, IdleFields, LocalStep

\* The handler returns.
LEMMA DoneKeeps ==
  ASSUME IInv, NEW w \in Workers, Done(w)
  PROVE  IInv'
<1> DEFINE result == [jobs[worker[w].job] EXCEPT !.state = "completed"]
<1>1. worker[w].pc = "done" /\ Settle(w, result)
  BY DEF Done
<1>2. result \in JobRecord /\ result.state = "completed"
  BY <1>1, JobOf DEF JobRecord, JobStates
<1> HIDE DEF result
<1> QED  BY <1>1, <1>2, SettleKeeps

\* The handler throws; a job is delayed only while attempts are left.
LEMMA RethrowKeeps ==
  ASSUME IInv, NEW w \in Workers, Rethrow(w)
  PROVE  IInv'
<1> DEFINE job    == jobs[worker[w].job]
           more   == job.attempts + 1
           state  == IF more < MaxAttempts THEN "delayed" ELSE "failed"
           result == [job EXCEPT !.attempts = more, !.state = state]
<1>1. worker[w].pc = "rethrow" /\ Settle(w, result)
  BY DEF Rethrow
<1>2. worker[w].job \in Jobs /\ job \in JobRecord
  BY <1>1, JobOf
<1>3. CASE Holds(w, worker[w].job)
  <2>1. job.attempts \in Nat /\ job.attempts < MaxAttempts
    BY <1>2, <1>3 DEF IInv, JobsOK, Holds, JobRecord
  <2>3. /\ state \in JobStates /\ more \in 0 .. MaxAttempts
        /\ state # "failed" => more < MaxAttempts
    BY <2>1, BoundsAssumption DEF JobStates
  <2> HIDE DEF state, more
  <2>2. result.state = state /\ result.attempts = more
    BY <1>2 DEF JobRecord
  <2>4. result \in JobRecord
    BY <1>2, <2>3 DEF JobRecord
  <2>5. result.state # "failed" => result.attempts < MaxAttempts
    BY <2>2, <2>3
  <2> HIDE DEF result
  <2> QED  BY <1>1, <2>4, <2>5, SettleKeeps
<1>4. CASE ~Holds(w, worker[w].job)
  <2>1. Settle(w, [job EXCEPT !.state = "completed"])
    BY <1>1, <1>4 DEF Settle
  <2>2. [job EXCEPT !.state = "completed"] \in JobRecord
    BY <1>2 DEF JobRecord, JobStates
  <2>3. [job EXCEPT !.state = "completed"].state = "completed"
    BY <1>2 DEF JobRecord
  <2> QED  BY <1>1, <2>1, <2>2, <2>3, SettleKeeps
<1> QED  BY <1>3, <1>4

-----------------------------------------------------------------------------
\* Steps that write to the database.  An entity may be saved as COMPLETED only
\* with its chunks in place.

Savable(d) ==
  /\ Known(d)
  /\ d.status = "completed" => d.id # 0 /\ d.total # 0 /\ HasChunks(d)

\* save() writes the entity under its id, or under a fresh one.
LEMMA SavedFields ==
  ASSUME TypeOK, NEW d \in Document, Known(d), Save(d)
  PROVE  /\ row' = Saved(d) /\ row' \in Document /\ row' # None
         /\ row'.id # 0 /\ row'.id < nextId'
         /\ row'.status = d.status /\ row'.total = d.total
         /\ d.id # 0 => row'.id = d.id
         /\ d.id = 0 => row'.id = nextId
         /\ nextId' \in Nat \ {0} /\ nextId <= nextId'
         /\ chunks' = chunks /\ deleted' = deleted
<1>1. nextId \in Nat /\ nextId # 0 /\ d.id \in Nat /\ d.id < nextId
  BY DEF TypeOK, Document, Known
<1>2. /\ row' = Saved(d) /\ chunks' = chunks /\ deleted' = deleted
      /\ nextId' = IF d.id = 0 THEN nextId + 1 ELSE nextId
  BY DEF Save
<1>3. CASE d.id = 0
  <2>1. Saved(d) = [d EXCEPT !.id = nextId]
    BY <1>3 DEF Saved
  <2>2. /\ Saved(d) \in Document /\ Saved(d).id = nextId
        /\ Saved(d).status = d.status /\ Saved(d).total = d.total
    BY <1>1, <2>1 DEF Document
  <2> QED  BY <1>1, <1>2, <1>3, <2>2, NoneAssumption
<1>4. CASE d.id # 0
  BY <1>1, <1>2, <1>4, NoneAssumption DEF Saved
<1> QED  BY <1>3, <1>4

\* A row that is there keeps its id, and an entity whose row is gone belongs to
\* a deleted document: so what other entities knew of the database stays true.
LEMMA SaveKeepsKnown ==
  ASSUME IInv, NEW d \in Document, Known(d), Save(d)
  PROVE  /\ \A e \in Document : Known(e) => Known(e)'
         /\ \A e \in Document : Known(e) /\ e.id # 0 /\ HasChunks(e)
                                => HasChunks(e)'
<1>1. TypeOK /\ (row # None => row.id # 0)
  BY DEF IInv, DatabaseOK
<1>2. row # None => row'.id = row.id
  BY <1>1, SavedFields DEF Save, Conflicts
<1>3. nextId \in Nat /\ nextId' \in Nat /\ \A e \in Document : e.id \in Nat
  BY <1>1, SavedFields DEF TypeOK, Document
<1>4. \A e \in Document : Known(e) => Known(e)'
  BY <1>1, <1>2, <1>3, SavedFields DEF Known
<1>5. \A e \in Document : Known(e) /\ e.id # 0 /\ HasChunks(e) => HasChunks(e)'
  BY <1>1, <1>2, <1>3, SavedFields DEF Known, HasChunks
<1> QED  BY <1>4, <1>5

\* What a save does to the invariant, but for the one who saves.
LEMMA SaveKeeps ==
  ASSUME IInv, NEW d \in Document, Savable(d), Save(d), UNCHANGED file
  PROVE  /\ DatabaseOK' /\ CompletedMeansStored'
         /\ \A me \in WorkerRecord : Sound(me) => Sound(me)'
         /\ \A me \in AdminRecord : SoundRetry(me) => SoundRetry(me)'
<1>1. TypeOK /\ Known(d) /\ file # 0
  BY DEF IInv, Savable, DatabaseOK
<1>2. DatabaseOK'
  BY <1>1, SavedFields DEF DatabaseOK
<1>3. CompletedMeansStored'
  BY <1>1, SavedFields DEF CompletedMeansStored, Savable, Known, HasChunks
<1>4. ASSUME NEW me \in WorkerRecord, Sound(me)
      PROVE  Sound(me)'
  <2>1. me.doc # None => me.doc \in Document
    BY DEF WorkerRecord
  <2>2. me.doc # None => Known(me.doc)'
    BY <1>1, <1>4, <2>1, SaveKeepsKnown DEF Sound
  <2>3. me.pc = "complete" => HasChunks(me.doc)'
    BY <1>1, <1>4, <2>1, SaveKeepsKnown DEF Sound, InHand
  <2> QED  BY <1>4, <2>2, <2>3 DEF Sound
<1>5. ASSUME NEW me \in AdminRecord, SoundRetry(me)
      PROVE  SoundRetry(me)'
  <2>1. me.pc # "idle" => me.doc \in Document
    BY <1>5 DEF AdminRecord, SoundRetry
  <2>2. me.pc # "idle" => Known(me.doc)'
    BY <1>1, <1>5, <2>1, SaveKeepsKnown DEF SoundRetry
  <2> QED  BY <1>5, <2>2 DEF SoundRetry
<1> QED  BY <1>2, <1>3, <1>4, <1>5

\* The four saves of the handler.
LEMMA SaveStepKeeps ==
  ASSUME IInv, NEW w \in Workers, NEW pc, NEW next, SaveStep(w, pc, next),
         <<pc, next>> \in {<<"claim", "prepare">>, <<"count", "store">>,
                          <<"complete", "report">>, <<"fail", "rethrow">>}
  PROVE  IInv'
<1> DEFINE me == worker[w]
           d  == me.doc
<1>1. /\ me.pc = pc /\ me \in WorkerRecord /\ Sound(me) /\ me.job \in Jobs
      /\ pc \in {"claim"} \cup InHand /\ pc \notin {"idle", "prepare", "store"}
      /\ next \in WorkerPcs
  BY JobOf DEF IInv, TypeOK, WorkersOK, SaveStep, InHand, WorkerPcs
<1>2. d \in Document /\ Known(d)
  BY <1>1 DEF Sound, WorkerRecord, InHand
<1>3. Savable(d)
  BY <1>1, <1>2 DEF Savable, Sound, InHand
<1>4. Save(d) /\ UNCHANGED <<file, jobs, admin, faults>>
  BY DEF SaveStep
<1>5. TypeOK /\ (\A v \in Workers \ {w} : worker'[v] = worker[v])
  BY DEF IInv, TypeOK, SaveStep, Step
<1>6. /\ worker' \in [Workers -> WorkerRecord]
      /\ worker'[w].pc = next /\ worker'[w].doc = row' /\ worker'[w].job = me.job
  <2>1. Saved(d) = row' /\ row' \in Document
    BY <1>2, <1>4, <1>5, SavedFields
  <2>2. worker' = [worker EXCEPT ![w] = [me EXCEPT !.pc = next, !.doc = row']]
    BY <1>1, <2>1 DEF SaveStep, Step, WorkerRecord
  <2> DEFINE new == [me EXCEPT !.pc = next, !.doc = row']
  <2>3. new \in WorkerRecord
    BY <1>1, <2>1 DEF WorkerRecord
  <2>4. new.pc = next /\ new.doc = row' /\ new.job = me.job
    BY <1>1 DEF WorkerRecord
  <2> HIDE DEF new
  <2> QED  BY <1>5, <2>2, <2>3, <2>4 DEF TypeOK, new
<1>7. TypeOK'
  BY <1>2, <1>4, <1>5, <1>6, SavedFields DEF TypeOK, faults
<1>8. DatabaseOK' /\ CompletedMeansStored' /\ JobsOK'
  BY <1>2, <1>3, <1>4, SaveKeeps DEF IInv, JobsOK
<1>9. WorkersOK'
  <2> SUFFICES ASSUME NEW v \in Workers PROVE Sound(worker[v])'
    BY DEF WorkersOK
  <2>1. CASE v # w
    <3>1. worker[v] \in WorkerRecord /\ Sound(worker[v]) /\ worker'[v] = worker[v]
      BY <1>5, <2>1 DEF IInv, WorkersOK, TypeOK
    <3> QED  BY <1>2, <1>3, <1>4, <3>1, SaveKeeps
  <2>2. CASE v = w
    <3>1. Known(row)' /\ row' # None /\ row'.id # 0
          /\ row'.total = d.total /\ row'.status = d.status
      BY <1>2, <1>4, <1>5, SavedFields DEF Known
    <3>2. next = "store" => d.total # 0
      BY <1>1 DEF Sound
    <3>3. next \in {"prepare", "store"} => d.status = "processing"
      BY <1>1 DEF Sound
    <3> QED  BY <1>1, <1>6, <2>2, <3>1, <3>2, <3>3 DEF Sound, InHand
  <2> QED  BY <2>1, <2>2
<1>10. AdminsOK'
  <2> SUFFICES ASSUME NEW a \in Admins PROVE SoundRetry(admin[a])'
    BY DEF AdminsOK
  <2>1. admin[a] \in AdminRecord /\ SoundRetry(admin[a]) /\ admin'[a] = admin[a]
    BY <1>4 DEF IInv, AdminsOK, TypeOK
  <2> QED  BY <1>2, <1>3, <1>4, <2>1, SaveKeeps
<1>11. ProcessingIsInHand'
  <2>1. row'.status = d.status
    BY <1>2, <1>4, <1>5, SavedFields
  <2>2. d.status = "processing" => next \in {"prepare", "store"}
    BY <1>1 DEF Sound
  <2> QED  BY <1>6, <2>1, <2>2 DEF ProcessingIsInHand, InHand
<1> QED  BY <1>7, <1>8, <1>9, <1>10, <1>11 DEF IInv

\* The chunks go in only where there are none, so no other entity relies on
\* what they replace.
LEMMA StoreKeeps ==
  ASSUME IInv, NEW w \in Workers, Store(w)
  PROVE  IInv'
<1> DEFINE me == worker[w]
           d  == me.doc
           e  == [d EXCEPT !.status = "completed"]
<1>1. /\ me.pc = "store" /\ me \in WorkerRecord /\ Sound(me) /\ me.job \in Jobs
      /\ CanStore(d) /\ TypeOK
  BY JobOf DEF IInv, TypeOK, WorkersOK, Store
<1>2. d \in Document /\ Known(d) /\ d.id # 0 /\ d.total # 0 /\ d.total \in Nat
  BY <1>1 DEF Sound, WorkerRecord, InHand, Document
<1>3. e \in Document /\ e.id = d.id /\ e.total = d.total /\ e.status = "completed"
  BY <1>2 DEF Document, Statuses
<1>4. /\ chunks' = d.total /\ chunks = 0 /\ row.id = d.id /\ row # None
      /\ UNCHANGED <<file, row, nextId, deleted, jobs, admin, faults>>
  BY <1>1 DEF Store, CanStore
<1> DEFINE new == [me EXCEPT !.pc = "complete", !.doc = e]
<1>5. worker' = [worker EXCEPT ![w] = new]
  BY <1>1 DEF Store, Step, WorkerRecord
<1> HIDE DEF e
<1>6. new \in WorkerRecord
  BY <1>1, <1>3 DEF WorkerRecord, WorkerPcs
<1>7. new.pc = "complete" /\ new.doc = e /\ new.job = me.job
  BY <1>1 DEF WorkerRecord
<1> HIDE DEF new
<1>8. TypeOK' /\ \A v \in Workers : worker'[v] = IF v = w THEN new ELSE worker[v]
  BY <1>1, <1>2, <1>4, <1>5, <1>6 DEF TypeOK, faults
<1>9. DatabaseOK' /\ JobsOK' /\ CompletedMeansStored'
  BY <1>4 DEF IInv, DatabaseOK, JobsOK, CompletedMeansStored
<1>10. WorkersOK'
  <2> SUFFICES ASSUME NEW v \in Workers PROVE Sound(worker[v])'
    BY DEF WorkersOK
  <2>1. CASE v = w
    <3>1. /\ e # None /\ e.id < nextId' /\ row' # None /\ row'.id = e.id
          /\ chunks' = e.total
      BY <1>2, <1>3, <1>4, NoneAssumption DEF Known
    <3>2. /\ worker'[v].pc = "complete" /\ worker'[v].job \in Jobs
          /\ worker'[v].doc = e
      BY <1>1, <1>7, <1>8, <2>1
    <3> QED
      BY <1>2, <1>3, <3>1, <3>2 DEF Sound, InHand, Known, HasChunks
  <2>2. CASE v # w
    <3>1. Sound(worker[v]) /\ worker'[v] = worker[v] /\ worker[v] \in WorkerRecord
      BY <1>1, <1>8, <2>2 DEF IInv, WorkersOK, TypeOK
    <3> QED  BY <1>4, <3>1 DEF Sound, Known, HasChunks
  <2> QED  BY <2>1, <2>2
<1>11. AdminsOK'
  BY <1>4 DEF IInv, AdminsOK, SoundRetry, Known
<1>12. ProcessingIsInHand'
  BY <1>3, <1>4, <1>7, <1>8 DEF ProcessingIsInHand, InHand
<1> QED  BY <1>8, <1>9, <1>10, <1>11, <1>12 DEF IInv

-----------------------------------------------------------------------------
\* Steps of the queue alone.

\* Workers, entities and database are as they were.
LEMMA QueueStep ==
  ASSUME IInv, UNCHANGED <<row, chunks, nextId, deleted, worker, admin>>,
         file' \in Nat \ {0}, jobs' \in [Jobs -> JobRecord], JobsOK',
         failures' = failures, losses' = losses,
         lockLosses' \in 0 .. MaxLockLosses
  PROVE  IInv'
<1>1. TypeOK' /\ DatabaseOK' /\ CompletedMeansStored'
  BY DEF IInv, TypeOK, DatabaseOK, CompletedMeansStored
<1>2. WorkersOK' /\ AdminsOK'
  BY DEF IInv, WorkersOK, AdminsOK, Sound, SoundRetry, Known, HasChunks
<1>3. ProcessingIsInHand'
  BY DEF IInv, ProcessingIsInHand
<1> QED  BY <1>1, <1>2, <1>3 DEF IInv

\* One job changes; it keeps its attempts, or is over.
LEMMA JobStep ==
  ASSUME IInv, NEW j \in Jobs, NEW job \in JobRecord,
         jobs' = [jobs EXCEPT ![j] = job],
         job.state \in {"completed", "failed"} \/ job.attempts < MaxAttempts
  PROVE  jobs' \in [Jobs -> JobRecord] /\ JobsOK'
BY DEF IInv, TypeOK, JobsOK

\* A delayed job waits again.
LEMMA PromoteKeeps ==
  ASSUME IInv, NEW j \in Jobs, Promote(j)
  PROVE  IInv'
<1> DEFINE job == [jobs[j] EXCEPT !.state = "wait"]
<1>1. jobs[j] \in JobRecord /\ jobs[j].attempts < MaxAttempts
  BY DEF IInv, TypeOK, JobsOK, Promote
<1>2. job \in JobRecord /\ job.attempts < MaxAttempts
  BY <1>1 DEF JobRecord, JobStates
<1>3. jobs' = [jobs EXCEPT ![j] = job]
  BY DEF Promote
<1> HIDE DEF job
<1>4. jobs' \in [Jobs -> JobRecord] /\ JobsOK'
  BY <1>2, <1>3, JobStep
<1> QED  BY <1>4, QueueStep DEF Promote, database, faults, IInv, TypeOK, DatabaseOK

\* A stalled job waits again or has failed.
LEMMA StallKeeps ==
  ASSUME IInv, NEW j \in Jobs, StallRecovered(j) \/ LockLost(j)
  PROVE  IInv'
<1> DEFINE more  == jobs[j].stalls + 1
           state == IF jobs[j].stalls < MaxStalled THEN "wait" ELSE "failed"
           job   == [jobs[j] EXCEPT !.stalls = more, !.state = state]
<1>1. jobs[j] \in JobRecord /\ jobs[j].attempts < MaxAttempts
  BY DEF IInv, TypeOK, JobsOK, StallRecovered, LockLost, Stall
<1>2. more \in Nat /\ state \in JobStates
  BY <1>1 DEF JobRecord, JobStates
<1>3. jobs' = [jobs EXCEPT ![j] = job]
  BY <1>1 DEF StallRecovered, LockLost, Stall
<1>4. /\ failures' = failures /\ losses' = losses
      /\ lockLosses' \in 0 .. MaxLockLosses
      /\ UNCHANGED <<file, row, chunks, nextId, deleted, worker, admin>>
  BY BoundsAssumption
  DEF IInv, TypeOK, StallRecovered, LockLost, Stall, database, faults
<1> HIDE DEF more, state
<1>5. job \in JobRecord /\ job.attempts < MaxAttempts
  BY <1>1, <1>2 DEF JobRecord
<1> HIDE DEF job
<1>6. jobs' \in [Jobs -> JobRecord] /\ JobsOK'
  BY <1>3, <1>5, JobStep
<1> QED  BY <1>4, <1>6, QueueStep DEF IInv, TypeOK, DatabaseOK

\* A job that has not been used has attempts left.
LEMMA AddFields ==
  ASSUME IInv, NEW j \in Jobs, NEW documentId \in Nat, NEW c \in Categories,
         Add(j, documentId, c)
  PROVE  jobs' \in [Jobs -> JobRecord] /\ JobsOK'
<1> DEFINE job == [jobs[j] EXCEPT !.state = "wait", !.documentId = documentId,
                                  !.category = c]
<1>1. jobs[j] \in JobRecord /\ jobs[j].attempts < MaxAttempts
  BY DEF IInv, TypeOK, JobsOK, Add
<1>2. job \in JobRecord /\ job.attempts < MaxAttempts
  BY <1>1 DEF JobRecord, JobStates
<1>3. jobs' = [jobs EXCEPT ![j] = job]
  BY <1>1 DEF Add
<1> HIDE DEF job
<1> QED  BY <1>2, <1>3, JobStep

\* An upload.
LEMMA EnqueueKeeps ==
  ASSUME IInv, NEW j \in Jobs, NEW c \in Categories, Enqueue(j, c)
  PROVE  IInv'
<1>1. jobs' \in [Jobs -> JobRecord] /\ JobsOK'
  BY AddFields DEF Enqueue
<1> QED  BY <1>1, QueueStep DEF Enqueue, database, faults, IInv, TypeOK, DatabaseOK

\* A new version of the file.
LEMMA ReplaceFileKeeps ==
  ASSUME IInv, ReplaceFile
  PROVE  IInv'
<1>1. jobs' \in [Jobs -> JobRecord] /\ JobsOK'
  BY DEF ReplaceFile, IInv, TypeOK, JobsOK
<1> QED
  BY <1>1, QueueStep DEF ReplaceFile, database, faults, IInv, TypeOK, DatabaseOK

-----------------------------------------------------------------------------
\* Steps of the admin panel.

\* A step of call a that leaves the database alone.
LEMMA AdminMove ==
  ASSUME IInv, NEW a \in Admins, NEW next \in AdminRecord,
         AdminStep(a, next), SoundRetry(next), UNCHANGED database, FaultStep,
         jobs' \in [Jobs -> JobRecord], JobsOK'
  PROVE  IInv'
<1> USE DEF database
<1>1. /\ \A b \in Admins : admin'[b] = IF b = a THEN next ELSE admin[b]
      /\ admin' \in [Admins -> AdminRecord] /\ UNCHANGED <<file, worker>>
  BY DEF IInv, TypeOK, AdminStep
<1>2. TypeOK' /\ DatabaseOK' /\ CompletedMeansStored'
  BY <1>1 DEF IInv, TypeOK, DatabaseOK, CompletedMeansStored, FaultStep
<1>3. WorkersOK'
  BY <1>1 DEF IInv, WorkersOK, Sound, Known, HasChunks
<1>4. AdminsOK'
  <2> SUFFICES ASSUME NEW b \in Admins PROVE SoundRetry(admin[b])'
    BY DEF AdminsOK
  <2>1. (admin'[b] = next \/ admin'[b] = admin[b]) /\ SoundRetry(admin[b])
    BY <1>1 DEF IInv, AdminsOK
  <2> QED  BY <2>1 DEF SoundRetry, Known
<1>5. ProcessingIsInHand'
  BY <1>1 DEF IInv, ProcessingIsInHand, FaultStep
<1> QED  BY <1>2, <1>3, <1>4, <1>5 DEF IInv

\* The save of an entity that is PENDING or FAILED, after which call a is at
\* another place with the same entity, or over.
LEMMA AdminSave ==
  ASSUME IInv, NEW a \in Admins, admin[a].pc # "idle", Save(admin[a].doc),
         NEW next \in AdminRecord, AdminStep(a, next),
         next.pc = "idle" \/ next.doc = admin[a].doc,
         UNCHANGED <<jobs, faults>>
  PROVE  IInv'
<1> DEFINE d == admin[a].doc
<1>1. /\ d \in Document /\ d # None /\ Known(d) /\ d.id # 0
      /\ d.status \in {"pending", "failed"} /\ Savable(d)
  BY DEF IInv, TypeOK, AdminsOK, SoundRetry, AdminRecord, Savable
<1>2. /\ \A b \in Admins : admin'[b] = IF b = a THEN next ELSE admin[b]
      /\ admin' \in [Admins -> AdminRecord] /\ UNCHANGED <<file, worker>>
  BY DEF IInv, TypeOK, AdminStep
<1>3. TypeOK
  BY DEF IInv
<1>4. TypeOK'
  BY <1>1, <1>2, <1>3, SavedFields DEF TypeOK, faults
<1>5. DatabaseOK' /\ CompletedMeansStored' /\ JobsOK'
  BY <1>1, <1>2, SaveKeeps DEF IInv, JobsOK
<1>6. WorkersOK'
  <2> SUFFICES ASSUME NEW v \in Workers PROVE Sound(worker[v])'
    BY DEF WorkersOK
  <2>1. worker[v] \in WorkerRecord /\ Sound(worker[v]) /\ worker'[v] = worker[v]
    BY <1>2, <1>3 DEF IInv, WorkersOK, TypeOK
  <2> QED  BY <1>1, <1>2, <2>1, SaveKeeps
<1>7. AdminsOK'
  <2> SUFFICES ASSUME NEW b \in Admins PROVE SoundRetry(admin[b])'
    BY DEF AdminsOK
  <2>1. admin[b] \in AdminRecord /\ SoundRetry(admin[b])
    BY <1>3 DEF IInv, AdminsOK, TypeOK
  <2>2. CASE b # a
    BY <1>1, <1>2, <2>1, <2>2, SaveKeeps
  <2>3. CASE b = a
    <3>1. admin'[b] = next
      BY <1>2, <2>3
    <3>2. d.id < nextId' /\ row' # None /\ row'.id = d.id
      BY <1>1, <1>3, SavedFields
    <3> QED  BY <1>1, <3>1, <3>2 DEF SoundRetry, Known
  <2> QED  BY <2>2, <2>3
<1>8. ProcessingIsInHand'
  <2>1. row'.status = d.status
    BY <1>1, <1>3, SavedFields
  <2> QED  BY <1>1, <2>1 DEF ProcessingIsInHand
<1> QED  BY <1>4, <1>5, <1>6, <1>7, <1>8 DEF IInv

\* A call that is over holds nothing.
LEMMA IdleAdminFields ==
  IdleAdmin \in AdminRecord /\ SoundRetry(IdleAdmin) /\ IdleAdmin.pc = "idle"
BY DEF IdleAdmin, AdminRecord, SoundRetry

\* With the queue untouched its part of the invariant holds on.
LEMMA JobsKept ==
  ASSUME IInv, UNCHANGED jobs
  PROVE  jobs' \in [Jobs -> JobRecord] /\ JobsOK'
BY DEF IInv, TypeOK, JobsOK

\* The entity of a new call is the row's.
LEMMA RetryReadKeeps ==
  ASSUME IInv, NEW a \in Admins, RetryRead(a)
  PROVE  IInv'
<1> DEFINE d    == [row EXCEPT !.status = "pending"]
           next == [pc |-> "reset", doc |-> d]
<1>1. row \in Document /\ row # None /\ Known(row) /\ row.id # 0
  BY DEF IInv, TypeOK, DatabaseOK, RetryRead, Known
<1>2. d \in Document /\ d.id = row.id /\ d.status = "pending"
  BY <1>1 DEF Document, Statuses
<1>3. AdminStep(a, next) /\ UNCHANGED database /\ UNCHANGED <<jobs, faults>>
  BY DEF RetryRead
<1> HIDE DEF d
<1>4. next \in AdminRecord /\ SoundRetry(next)
  BY <1>1, <1>2, NoneAssumption DEF AdminRecord, SoundRetry, Known
<1> HIDE DEF next
<1> QED  BY <1>3, <1>4, JobsKept, FaultSteps, AdminMove

\* The entity of a call that is under way.
LEMMA RetryFields ==
  ASSUME IInv, NEW a \in Admins, admin[a].pc # "idle"
  PROVE  /\ admin[a] \in AdminRecord /\ admin[a].doc \in Document
         /\ admin[a].doc # None /\ Known(admin[a].doc) /\ admin[a].doc.id # 0
BY DEF IInv, TypeOK, AdminsOK, SoundRetry, AdminRecord

\* The row is PENDING.
LEMMA ResetKeeps ==
  ASSUME IInv, NEW a \in Admins, Reset(a)
  PROVE  IInv'
<1> DEFINE next == [admin[a] EXCEPT !.pc = "enqueue"]
<1>1. /\ admin[a].pc # "idle" /\ Save(admin[a].doc) /\ AdminStep(a, next)
      /\ UNCHANGED <<jobs, faults>>
  BY DEF Reset
<1>2. next \in AdminRecord /\ next.doc = admin[a].doc
  BY <1>1, RetryFields DEF AdminRecord
<1> HIDE DEF next
<1> QED  BY <1>1, <1>2, AdminSave

\* The job for the PENDING row is in the queue.
LEMMA RetryEnqueueKeeps ==
  ASSUME IInv, NEW a \in Admins, NEW j \in Jobs, RetryEnqueue(a, j)
  PROVE  IInv'
<1> DEFINE d == admin[a].doc
<1>1. /\ Add(j, d.id, d.category) /\ AdminStep(a, IdleAdmin)
      /\ UNCHANGED database /\ UNCHANGED faults /\ admin[a].pc # "idle"
  BY DEF RetryEnqueue
<1>2. d.id \in Nat /\ d.category \in Categories
  BY <1>1, RetryFields DEF Document
<1>3. jobs' \in [Jobs -> JobRecord] /\ JobsOK'
  BY <1>1, <1>2, AddFields
<1> QED  BY <1>1, <1>3, IdleAdminFields, FaultSteps, AdminMove

\* The catch block of retryIngestion().
LEMMA RetryFailsKeeps ==
  ASSUME IInv, NEW a \in Admins, RetryFails(a)
  PROVE  IInv'
<1> DEFINE d    == [admin[a].doc EXCEPT !.status = "failed"]
           next == [pc |-> "revert", doc |-> d]
<1>1. /\ admin[a].pc # "idle" /\ AdminStep(a, next) /\ UNCHANGED database
      /\ UNCHANGED jobs /\ (UNCHANGED faults \/ Failure)
  BY DEF RetryFails
<1>2. /\ d \in Document /\ d.id = admin[a].doc.id /\ d.status = "failed"
      /\ Known(admin[a].doc) /\ d.id # 0
  BY <1>1, RetryFields DEF Document, Statuses
<1> HIDE DEF d
<1>3. next \in AdminRecord /\ SoundRetry(next)
  BY <1>2, NoneAssumption DEF AdminRecord, SoundRetry, Known
<1> HIDE DEF next
<1> QED  BY <1>1, <1>3, JobsKept, FaultSteps, AdminMove

\* The row is FAILED again, unless it is another document's by now.
LEMMA RevertKeeps ==
  ASSUME IInv, NEW a \in Admins, Revert(a)
  PROVE  IInv'
<1>1. /\ admin[a].pc # "idle" /\ AdminStep(a, IdleAdmin)
      /\ UNCHANGED <<jobs, faults>>
      /\ Save(admin[a].doc) \/ UNCHANGED database
  BY DEF Revert
<1>2. CASE Save(admin[a].doc)
  BY <1>1, <1>2, IdleAdminFields, AdminSave
<1>3. CASE UNCHANGED database
  <2>1. UNCHANGED jobs /\ UNCHANGED faults
    BY <1>1
  <2> QED  BY <1>1, <1>3, <2>1, IdleAdminFields, JobsKept, FaultSteps, AdminMove
<1> QED  BY <1>1, <1>2, <1>3

\* The call is gone.
LEMMA RetryLostKeeps ==
  ASSUME IInv, NEW a \in Admins, RetryLost(a)
  PROVE  IInv'
<1>1. AdminStep(a, IdleAdmin) /\ UNCHANGED database /\ UNCHANGED jobs /\ Loss
  BY DEF RetryLost
<1> QED  BY <1>1, IdleAdminFields, JobsKept, FaultSteps, AdminMove

\* Whoever holds the deleted document's entity holds a deleted one now.
LEMMA DeleteKeeps ==
  ASSUME IInv, Delete
  PROVE  IInv'
<1>1. /\ row \in Document /\ row' = None /\ chunks' = 0
      /\ deleted' = deleted \cup {row.id}
      /\ UNCHANGED <<file, nextId, jobs, worker, admin, faults>>
  BY DEF IInv, TypeOK, Delete
<1>2. TypeOK'
  BY <1>1 DEF IInv, TypeOK, Document, faults
<1>3. /\ DatabaseOK' /\ JobsOK' /\ CompletedMeansStored' /\ ProcessingIsInHand'
  BY <1>1
  DEF IInv, DatabaseOK, JobsOK, CompletedMeansStored, ProcessingIsInHand
<1>4. WorkersOK' /\ AdminsOK'
  BY <1>1
  DEF IInv, WorkersOK, AdminsOK, Sound, SoundRetry, Known, HasChunks
<1> QED  BY <1>2, <1>3, <1>4 DEF IInv

\* The row keeps its id, status and chunks.
LEMMA ReassignKeeps ==
  ASSUME IInv, NEW c \in Categories, Reassign(c)
  PROVE  IInv'
<1>1. /\ row \in Document /\ row # None /\ row' = [row EXCEPT !.category = c]
      /\ UNCHANGED <<file, chunks, nextId, deleted, jobs, worker, admin, faults>>
  BY DEF IInv, TypeOK, Reassign
<1>2. /\ row' \in Document /\ row' # None /\ row'.id = row.id
      /\ row'.status = row.status /\ row'.total = row.total
  BY <1>1, NoneAssumption DEF Document
<1>3. TypeOK'
  BY <1>1, <1>2 DEF IInv, TypeOK, faults
<1>4. /\ DatabaseOK' /\ JobsOK' /\ CompletedMeansStored' /\ ProcessingIsInHand'
  BY <1>1, <1>2
  DEF IInv, DatabaseOK, JobsOK, CompletedMeansStored, ProcessingIsInHand, faults
<1>5. WorkersOK' /\ AdminsOK'
  BY <1>1, <1>2
  DEF IInv, WorkersOK, AdminsOK, Sound, SoundRetry, Known, HasChunks
<1> QED  BY <1>3, <1>4, <1>5 DEF IInv

-----------------------------------------------------------------------------

\* Every step of the system keeps the invariant.
LEMMA NextIInv == IInv /\ [Next]_vars => IInv'
<1> SUFFICES ASSUME IInv, [Next]_vars PROVE IInv'
  OBVIOUS
<1>1. ASSUME NEW w \in Workers, Work(w)
      PROVE  IInv'
  <2>1. ASSUME NEW j \in Jobs, Take(w, j) PROVE IInv'
    BY <2>1, TakeKeeps
  <2>2. CASE Find(w)
    BY <2>2, FindKeeps
  <2>3. CASE Claim(w) \/ Count(w) \/ Complete(w) \/ Fail(w)
    BY <2>3, SaveStepKeeps DEF Claim, Count, Complete, Fail
  <2>4. CASE Prepare(w) \/ Report(w)
    BY <2>4, PrepareKeeps, ReportKeeps
  <2>5. CASE Store(w)
    BY <2>5, StoreKeeps
  <2>6. CASE Done(w) \/ Rethrow(w) \/ Refused(w)
    BY <2>6, DoneKeeps, RethrowKeeps, RefusedKeeps
  <2> QED  BY <1>1, <2>1, <2>2, <2>3, <2>4, <2>5, <2>6 DEF Work
<1>2. ASSUME NEW w \in Workers, Rejected(w) \/ Crash(w)
      PROVE  IInv'
  BY <1>2, RejectedKeeps, CrashKeeps
<1>3. ASSUME NEW j \in Jobs, \/ Promote(j) \/ StallRecovered(j) \/ LockLost(j)
                             \/ \E c \in Categories : Enqueue(j, c)
      PROVE  IInv'
  BY <1>3, PromoteKeeps, StallKeeps, EnqueueKeeps
<1>4. ASSUME NEW a \in Admins, Retrying(a)
      PROVE  IInv'
  BY <1>4, ResetKeeps, RevertKeeps, RetryEnqueueKeeps DEF Retrying
<1>5. ASSUME NEW a \in Admins, RetryRead(a) \/ RetryFails(a) \/ RetryLost(a)
      PROVE  IInv'
  BY <1>5, RetryReadKeeps, RetryFailsKeeps, RetryLostKeeps
<1>6. CASE ReplaceFile
  BY <1>6, ReplaceFileKeeps
<1>7. CASE Delete
  BY <1>7, DeleteKeeps
<1>8. ASSUME NEW c \in Categories, Reassign(c) PROVE IInv'
  BY <1>8, ReassignKeeps
<1>9. CASE UNCHANGED vars
  <2>1. jobs' \in [Jobs -> JobRecord] /\ JobsOK'
    BY <1>9, JobsKept DEF vars
  <2> QED
    BY <1>9, <2>1, QueueStep
    DEF vars, database, faults, IInv, TypeOK, DatabaseOK
<1> QED
  BY <1>1, <1>2, <1>3, <1>4, <1>5, <1>6, <1>7, <1>8, <1>9 DEF Next

\* The invariant of every behaviour.
THEOREM Invariance == Spec => []IInv
BY InitIInv, NextIInv, PTL DEF Spec

\* Rows, entities, jobs and counters are always typed.
THEOREM TypeCorrect == Spec => []TypeOK
<1>1. IInv => TypeOK
  BY DEF IInv
<1> QED  BY <1>1, Invariance, PTL

\* processIngestion() marks a document COMPLETED only with its chunks stored,
\* however many workers, retries, crashes, lost locks and failing calls there
\* are: only what an admin has deleted can come back COMPLETED and empty.
THEOREM CompletedIsStored == Spec => []CompletedMeansStored
<1>1. IInv => CompletedMeansStored
  BY DEF IInv
<1> QED  BY <1>1, Invariance, PTL

\* A PROCESSING row always has a worker that will save it again, as long as no
\* process and no compensating save has been lost.
THEOREM ProcessingHasWorker == Spec => []ProcessingIsInHand
<1>1. IInv => ProcessingIsInHand
  BY DEF IInv
<1> QED  BY <1>1, Invariance, PTL
=============================================================================
