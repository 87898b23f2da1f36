------------------------------- MODULE Upload -------------------------------
(***************************************************************************)
(* A bulk upload of documents, by AdminDocumentUploadService or by         *)
(* BulkUploadCommand in batches of Limit: each file is written under a     *)
(* name made of the time and its own name, and a job with that path is     *)
(* queued.  A process takes the job, reads the file at the path and cuts   *)
(* its text into chunks (module Chunking); what else the ingestion does,   *)
(* its retries included, is module Ingestion.                              *)
(*                                                                         *)
(* uploads/documents is a directory of the process that took the upload,   *)
(* and the job may be taken by another.                                    *)
(***************************************************************************)
EXTENDS Chunking, FiniteSets

CONSTANTS
  None,
  Replicas,    \* API processes
  Count,       \* how many files the call uploads
  Names,       \* names after sanitizeFilename
  Texts,       \* texts of files
  Limit,       \* concurrencyLimit: 5
  MaxTime      \* bound: milliseconds

Files == 1 .. Count
Modes == {"service", "command"}
Paths == (0 .. MaxTime) \X Names

ASSUME UploadAssumption ==
  /\ Count \in Nat \ {0} /\ Limit \in Nat \ {0} /\ MaxTime \in Nat
  /\ Texts \subseteq Seq(Paragraphs) /\ Replicas # {}
  /\ None \notin Files /\ None \notin Paths

VARIABLES
  document,    \* per file: its name, its text and whether validate() accepts it
  now,         \* Date.now()
  disk,        \* per process and path: the file whose content is there, or None
  call,        \* the call and the counts it will report
  upload,      \* per file: where its upload is, and when it began (history)
  job,         \* per file: the state of the job it has queued
  work,        \* per process: the job it is at and how far it has cut the text
  stored       \* per file: what its job has stored: of which file, and the chunks

vars == <<document, now, disk, call, upload, job, work, stored>>

Document == [name : Names, text : Texts, valid : BOOLEAN]
CallRecord == [pc : {"idle", "running", "refused", "done"}, mode : Modes,
               on : Replicas, ok : Nat, failed : Nat]
UploadRecord == [pc : {"todo", "write", "queue", "ok", "failed"}, path : Paths \cup {None},
                 time : 0 .. MaxTime]
WorkRecord == [file : Files, from : Files, chunker : Chunker]
StoredRecord == [of : Files, chunks : Seq(Chunk)]

TypeOK ==
  /\ document \in [Files -> Document]
  /\ now \in 0 .. MaxTime
  /\ disk \in [Replicas -> [Paths -> Files \cup {None}]]
  /\ call \in CallRecord
  /\ upload \in [Files -> UploadRecord]
  /\ job \in [Files -> {"none", "wait", "active", "failed", "done"}]
  /\ work \in [Replicas -> WorkRecord \cup {None}]
  /\ stored \in [Files -> StoredRecord \cup {None}]
  /\ \A f \in Files : job[f] # "none" => upload[f].path # None
  /\ \A r \in Replicas : work[r] # None => job[work[r].file] = "active"

Init ==
  /\ document \in [Files -> Document]
  /\ now = 0
  /\ disk = [r \in Replicas |-> [p \in Paths |-> None]]
  /\ call = [pc |-> "idle", mode |-> "service", on |-> CHOOSE r \in Replicas : TRUE,
             ok |-> 0, failed |-> 0]
  /\ upload = [f \in Files |-> [pc |-> "todo", path |-> None, time |-> 0]]
  /\ job = [f \in Files |-> "none"]
  /\ work = [r \in Replicas |-> None]
  /\ stored = [f \in Files |-> None]

-----------------------------------------------------------------------------

\* The category may be missing; validate() of the command also wants every file to
\* be acceptable.
Begin(mode, r) ==
  /\ call.pc = "idle"
  /\ \E refused \in BOOLEAN :
       /\ mode = "command" /\ (\E f \in Files : ~document[f].valid) => refused
       /\ call' = [call EXCEPT !.pc = IF refused THEN "refused" ELSE "running",
                               !.mode = mode, !.on = r]
  /\ UNCHANGED <<document, now, disk, upload, job, work, stored>>

\* Promise.all starts every file of the service's call, or of the command's batch.
BatchOf(f) == IF call.mode = "service" THEN 0 ELSE (f - 1) \div Limit

Settled(f) == upload[f].pc \in {"ok", "failed"}

Path_WithoutTime(time, f) == <<0, document[f].name>>
Path(time, f) == <<time, document[f].name>>

\* uploadDocument up to its first await, for each file in turn: the millisecond may
\* pass between two of them.
StartBatch ==
  /\ call.pc = "running"
  /\ \E b \in {BatchOf(f) : f \in Files}, k \in Files \cup {Count + 1} :
       LET batch == {f \in Files : BatchOf(f) = b}
           at(f) == IF f < k THEN now ELSE now + 1 IN
       /\ \A f \in batch : upload[f].pc = "todo"
       /\ \A f \in Files : BatchOf(f) < b => Settled(f)
       /\ k \in batch => now < MaxTime
       /\ k \in batch \cup {Count + 1}
       /\ now' = IF k \in batch THEN now + 1 ELSE now
       /\ upload' = [f \in Files |->
            IF f \notin batch THEN upload[f]
            ELSE IF document[f].valid THEN [pc |-> "write", path |-> Path(at(f), f), time |-> at(f)]
            ELSE [pc |-> "failed", path |-> None, time |-> at(f)]]
       /\ call' = [call EXCEPT !.failed = @ + Cardinality({f \in batch : ~document[f].valid})]
  /\ UNCHANGED <<document, disk, job, work, stored>>

Succeeds(f) ==
  /\ upload' = [upload EXCEPT ![f].pc = "ok"]
  /\ call' = [call EXCEPT !.ok = @ + 1]

\* uploadDocument never throws: its catch returns a failure.
UploadFails(f) ==
  /\ upload[f].pc \in {"write", "queue"}
  /\ upload' = [upload EXCEPT ![f].pc = "failed"]
  /\ call' = [call EXCEPT !.failed = @ + 1]
  /\ UNCHANGED <<document, now, disk, job, work, stored>>

\* fs.writeFile, which replaces what is there.
Write(f) ==
  /\ upload[f].pc = "write"
  /\ disk' = [disk EXCEPT ![call.on][upload[f].path] = f]
  /\ upload' = [upload EXCEPT ![f].pc = "queue"]
  /\ UNCHANGED <<document, now, call, job, work, stored>>

Queue_ReportsNothing(f) ==
  /\ upload[f].pc = "queue"
  /\ job' = [job EXCEPT ![f] = "wait"]
  /\ upload' = [upload EXCEPT ![f].pc = "ok"]
  /\ UNCHANGED <<document, now, disk, call, work, stored>>

\* ingestionQueue.add.
Queue(f) ==
  /\ upload[f].pc = "queue"
  /\ job' = [job EXCEPT ![f] = "wait"]
  /\ Succeeds(f)
  /\ UNCHANGED <<document, now, disk, work, stored>>

Return ==
  /\ call.pc = "running" /\ \A f \in Files : Settled(f)
  /\ call' = [call EXCEPT !.pc = "done"]
  /\ UNCHANGED <<document, now, disk, upload, job, work, stored>>

Millisecond ==
  /\ now < MaxTime
  /\ now' = now + 1
  /\ UNCHANGED <<document, disk, call, upload, job, work, stored>>

-----------------------------------------------------------------------------
\* A process at a job.

Take_LeavesJobWaiting(r, f) ==
  LET from == disk[r][upload[f].path] IN
  /\ job[f] = "wait" /\ work[r] = None /\ from # None
  /\ work' = [work EXCEPT ![r] =
       [file |-> f, from |-> from, chunker |-> Began(document[from].text)]]
  /\ UNCHANGED <<document, now, disk, call, upload, job, stored>>

\* extractText reads the path on the process's own disk, where it may be missing.
Take(r, f) ==
  LET from == disk[r][upload[f].path] IN
  /\ job[f] = "wait" /\ work[r] = None
  /\ IF from = None
     THEN job' = [job EXCEPT ![f] = "failed"] /\ UNCHANGED work
     ELSE /\ job' = [job EXCEPT ![f] = "active"]
          /\ work' = [work EXCEPT ![r] =
               [file |-> f, from |-> from, chunker |-> Began(document[from].text)]]
  /\ UNCHANGED <<document, now, disk, call, upload, stored>>

Cut(r) ==
  /\ work[r] # None /\ ~AtEnd(work[r].chunker)
  /\ work' = [work EXCEPT ![r].chunker = Step(@)]
  /\ UNCHANGED <<document, now, disk, call, upload, job, stored>>

Store(r) ==
  LET me == work[r] IN
  /\ me # None /\ AtEnd(me.chunker)
  /\ stored' = [stored EXCEPT ![me.file] = [of |-> me.from, chunks |-> Result(me.chunker)]]
  /\ job' = [job EXCEPT ![me.file] = "done"]
  /\ work' = [work EXCEPT ![r] = None]
  /\ UNCHANGED <<document, now, disk, call, upload>>

CallStep == StartBatch \/ Return \/ \E f \in Files : Write(f) \/ Queue(f)

Next ==
  \/ \E mode \in Modes, r \in Replicas : Begin(mode, r)
  \/ CallStep \/ Millisecond
  \/ \E f \in Files : UploadFails(f) \/ \E r \in Replicas : Take(r, f)
  \/ \E r \in Replicas : Cut(r) \/ Store(r)

Spec == Init /\ [][Next]_vars

\* Awaited calls come back.
FairSpec == Spec /\ WF_vars(CallStep)

-----------------------------------------------------------------------------

\* A job stores the file it was queued for, whatever else is written meanwhile,
\* unless another file of the same name was uploaded in the same millisecond.
OnlyNamesakesMix ==
  \A f \in Files : stored[f] # None /\ stored[f].of # f =>
    \E g \in Files \ {f} :
      /\ document[g].name = document[f].name
      /\ upload[g].pc # "todo" /\ upload[g].time = upload[f].time

\* The chunks of a document are its paragraphs in order, each once, beside what is
\* repeated; and each fits, by its own count, unless it is one paragraph.
ChunksCoverText ==
  \A f \in Files : stored[f] # None =>
    Covers(stored[f].chunks, Len(document[stored[f].of].text))

\* Every accepted call returns, and reports as successful the files that have a job
\* and as failed the rest.
ReportsAreTrue ==
  call.pc = "running" ~>
    /\ call.pc = "done" /\ call.ok + call.failed = Count
    /\ call.ok = Cardinality({f \in Files : job[f] # "none"})
=============================================================================
