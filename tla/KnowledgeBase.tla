--------------------------- MODULE KnowledgeBase ---------------------------
(***************************************************************************)
(* Knowledge base administration: the categories of knowledge_documents,   *)
(* the rows of knowledge_categories with their document_count, and the     *)
(* admin calls that read and write both, each split at its database        *)
(* statements.                                                             *)
(*                                                                         *)
(* bulkDeleteDocuments and bulkReassignCategory, and the bulk commands     *)
(* that wrap the same work in a validation, run in one transaction at      *)
(* PostgreSQL's READ COMMITTED: a statement sees what has been committed   *)
(* when it starts and what its own transaction wrote; a row written is     *)
(* locked until the end; a statement that fails undoes the transaction and *)
(* releases its locks at once, every later statement of it fails too, and  *)
(* its COMMIT is a ROLLBACK.  The code catches an error of one document    *)
(* and goes on.  All other calls commit statement by statement.            *)
(***************************************************************************)
EXTENDS Naturals, Sequences, FiniteSets

CONSTANTS
  None,
  Docs,       \* ids a document may get
  Names,      \* category names, of existing categories or not
  Calls,      \* slots for admin calls, each used once
  Requests,   \* the sequences of ids a bulk request may name
  Operations, \* the operations admins call
  Stored      \* per id: the category of a document that exists at first, or None

AllOperations == {"delete", "bulkDelete", "bulkReassign", "create", "list", "remove"}

Category == [id : Nat, count : Nat]

ASSUME NoneAssumption == None \notin Names /\ None \notin Category /\ None \notin Nat

ASSUME BoundsAssumption ==
  /\ IsFiniteSet(Docs) /\ Stored \in [Docs -> Names \cup {None}]
  /\ Names # {}
  /\ Requests \subseteq Seq(Docs)
  /\ Operations \subseteq AllOperations

VARIABLES
  docs,     \* per id: the category of its committed row, or None
  used,     \* ids ever inserted (history)
  cats,     \* per name: its committed row, or None
  nextId,   \* the next fresh category id
  call,     \* per slot: the call and where it is
  late      \* per id: category deletions that had counted before the document
            \* came into their category (history)

vars == <<docs, used, cats, nextId, call, late>>

Bulk  == {"bulkDelete", "bulkReassign"}
Ended == {"done", "rejected"}
Pcs   == {"unused", "validate", "find", "write", "count", "update", "insert",
          "each", "erase"} \cup Ended

\* A call.  ids, at: the documents it names and the one it is at; name, id: the
\* category it is about; command: it runs in a bulk command class.  ok and failed
\* are the report of a bulk call, affected the categories it has still to count,
\* wrote and counts the uncommitted writes of its transaction.  listCategories
\* keeps the rows it read in seen and what it counted in counts.
CallRecord ==
  [op : AllOperations, pc : Pcs, command : BOOLEAN,
   ids : Seq(Docs), at : Nat, name : Names, id : Nat,
   aborted : BOOLEAN, invalid : BOOLEAN,
   wrote : SUBSET Docs, ok : SUBSET Docs, failed : SUBSET Docs,
   affected : Seq(Names), value : Nat,
   counts : [Names -> Nat \cup {None}],
   seen : [Names -> Category \cup {None}]]

TypeOK ==
  /\ docs \in [Docs -> Names \cup {None}]
  /\ used \subseteq Docs
  /\ cats \in [Names -> Category \cup {None}]
  /\ nextId \in Nat
  /\ call \in [Calls -> CallRecord]
  /\ late \in [Docs -> SUBSET Calls]

\* The filter of listDocuments and documents_by_category of getStatistics.
ListDocuments(n)    == {d \in Docs : docs[d] = n}
DocumentsByCategory == [n \in Names |-> Cardinality(ListDocuments(n))]

SomeName == CHOOSE n \in Names : TRUE

UnusedCall ==
  [op |-> "list", pc |-> "unused", command |-> FALSE, ids |-> <<>>, at |-> 1,
   name |-> SomeName, id |-> 0, aborted |-> FALSE, invalid |-> FALSE,
   wrote |-> {}, ok |-> {}, failed |-> {}, affected |-> <<>>, value |-> 0,
   counts |-> [n \in Names |-> None], seen |-> [n \in Names |-> None]]

\* Every category has its row and an accurate count.
Init ==
  /\ docs = Stored
  /\ used = {d \in Docs : Stored[d] # None}
  /\ cats = [n \in Names |-> [id |-> 0, count |-> Cardinality(ListDocuments(n))]]
  /\ nextId = 1
  /\ call = [c \in Calls |-> UnusedCall]
  /\ late = [d \in Docs |-> {}]

-----------------------------------------------------------------------------
\* Rows as transaction c sees them, and the row locks of transactions.

Written(c) == IF call[c].op = "bulkDelete" THEN None ELSE call[c].name

View(c, d) == IF d \in call[c].wrote THEN Written(c) ELSE docs[d]

CountSeen(c, n) == Cardinality({d \in Docs : View(c, d) = n})

LocksDoc(c, d)      == d \in call[c].wrote
LocksCategory(c, n) == call[c].op \in Bulk /\ call[c].counts[n] # None

DocFree(c, d)      == \A t \in Calls \ {c} : ~LocksDoc(t, d)
CategoryFree(c, n) == \A t \in Calls \ {c} : ~LocksCategory(t, n)

\* The transactions that hold the row the next write of transaction c needs.
Blockers(c) ==
  LET me == call[c] IN
  {t \in Calls \ {c} :
     /\ me.op \in Bulk
     /\ \/ me.pc = "write"  /\ LocksDoc(t, me.ids[me.at])
        \/ me.pc = "update" /\ LocksCategory(t, Head(me.affected))}

Deadlocked(c) ==
  Blockers(c) # {} /\ \E S \in SUBSET Calls : c \in S /\ \A t \in S : Blockers(t) \cap S # {}

At(c, op, pc) == call[c].op = op /\ call[c].pc = pc

Goes(c, next) == call' = [call EXCEPT ![c] = next]

\* The call is answered, or fails; its locals are gone and so are its locks.
Ends(c, pc) == Goes(c, [UnusedCall EXCEPT !.op = call[c].op, !.pc = pc])

Starts(c, op, next) ==
  /\ call[c].pc = "unused" /\ op \in Operations
  /\ Goes(c, next)

\* UPDATE knowledge_categories SET document_count = k WHERE name = n
SetCount(n, k) ==
  cats' = IF cats[n] = None THEN cats ELSE [cats EXCEPT ![n].count = k]

-----------------------------------------------------------------------------
\* bulkDeleteDocuments, bulkReassignCategory and the bulk commands.

HasDuplicates(s) == \E i, j \in DOMAIN s : i # j /\ s[i] = s[j]

\* n is the new category; a deletion has none.
StartBulk(c, op, s, n, command) ==
  /\ op \in Bulk /\ (op = "bulkDelete" => n = SomeName)
  /\ Starts(c, op, [UnusedCall EXCEPT
       !.op = op, !.ids = s, !.name = n, !.command = command,
       !.pc = IF command THEN "validate" ELSE "find",
       !.affected = IF op = "bulkReassign" THEN <<n>> ELSE <<>>,
       !.invalid = command /\ \/ HasDuplicates(s)
                              \/ op = "bulkReassign" /\ cats[n] = None])
  /\ UNCHANGED <<docs, used, cats, nextId, late>>

\* validate() of a command looks every document up, outside the transaction.
Validate(c) ==
  LET me      == call[c]
      invalid == me.invalid \/ docs[me.ids[me.at]] = None IN
  /\ me.pc = "validate"
  /\ IF me.at < Len(me.ids)
     THEN Goes(c, [me EXCEPT !.at = @ + 1, !.invalid = invalid])
     ELSE IF invalid THEN Ends(c, "rejected")
          ELSE Goes(c, [me EXCEPT !.at = 1, !.pc = "find"])
  /\ UNCHANGED <<docs, used, cats, nextId, late>>

InBulk(c, pc) == call[c].op \in Bulk /\ call[c].pc = pc
InLoop(c)     == InBulk(c, "find") /\ call[c].at <= Len(call[c].ids)
PastLoop(c)   == InBulk(c, "find") /\ call[c].at > Len(call[c].ids)

Added(s, n) == IF \E i \in DOMAIN s : s[i] = n THEN s ELSE Append(s, n)

\* findOne() of the next document; a reassigning command skips one that is
\* already where it should go.
Find(c) ==
  LET me    == call[c]
      d     == me.ids[me.at]
      found == View(c, d) IN
  /\ InLoop(c) /\ ~me.aborted
  /\ \/ found = None
        /\ Goes(c, [me EXCEPT !.failed = @ \cup {d}, !.at = @ + 1])
     \/ found # None
        /\ LET hit == [me EXCEPT !.affected = Added(@, found)] IN
           IF me.command /\ me.op = "bulkReassign" /\ found = me.name
           THEN Goes(c, [hit EXCEPT !.ok = @ \cup {d}, !.at = @ + 1])
           ELSE Goes(c, [hit EXCEPT !.pc = "write"])
  /\ UNCHANGED <<docs, used, cats, nextId, late>>

\* delete() or update() of it, counted as a success whether or not a row is
\* still there.
Write(c) ==
  LET me == call[c]
      d  == me.ids[me.at] IN
  /\ InBulk(c, "write") /\ DocFree(c, d)
  /\ Goes(c, [me EXCEPT !.wrote = IF View(c, d) = None THEN @ ELSE @ \cup {d},
                        !.ok = @ \cup {d}, !.at = @ + 1, !.pc = "find"])
  /\ UNCHANGED <<docs, used, cats, nextId, late>>

Count(c) ==
  LET me == call[c] IN
  /\ PastLoop(c) /\ ~me.aborted /\ me.affected # <<>>
  /\ Goes(c, [me EXCEPT !.pc = "update", !.value = CountSeen(c, Head(me.affected))])
  /\ UNCHANGED <<docs, used, cats, nextId, late>>

Update(c) ==
  LET me == call[c]
      n  == Head(me.affected) IN
  /\ InBulk(c, "update") /\ CategoryFree(c, n)
  /\ Goes(c, [me EXCEPT !.counts[n] = IF cats[n] = None THEN None ELSE me.value,
                        !.affected = Tail(@), !.value = 0, !.pc = "find"])
  /\ UNCHANGED <<docs, used, cats, nextId, late>>

Erasing(n) == {c \in Calls : At(c, "remove", "erase") /\ call[c].name = n}

Apply(c) ==
  /\ docs' = [d \in Docs |-> View(c, d)]
  /\ cats' = [n \in Names |-> IF call[c].counts[n] = None THEN cats[n]
                              ELSE [cats[n] EXCEPT !.count = call[c].counts[n]]]
  /\ late' = [d \in Docs |->
       IF d \in call[c].wrote /\ Written(c) # None
       THEN Erasing(Written(c)) ELSE late[d]]

Commit_SkipsCountsAfterAnError(c) ==
  /\ PastLoop(c) /\ (call[c].affected = <<>> \/ call[c].aborted)
  /\ Ends(c, "done")
  /\ IF call[c].aborted THEN UNCHANGED <<docs, cats, late>> ELSE Apply(c)
  /\ UNCHANGED <<used, nextId>>

\* COMMIT, which undoes a transaction one of whose statements has failed.
Commit(c) ==
  /\ PastLoop(c) /\ call[c].affected = <<>>
  /\ Ends(c, "done")
  /\ IF call[c].aborted THEN UNCHANGED <<docs, cats, late>> ELSE Apply(c)
  /\ UNCHANGED <<used, nextId>>

\* An error of one document, caught: the database has undone the transaction.
Caught(c) ==
  LET me == call[c] IN
  /\ InLoop(c) \/ InBulk(c, "write")
  /\ Goes(c, [me EXCEPT !.aborted = TRUE, !.wrote = {}, !.pc = "find",
                        !.failed = @ \cup {me.ids[me.at]}, !.at = @ + 1])
  /\ UNCHANGED <<docs, used, cats, nextId, late>>

Thrown_KeepsLocks(c) ==
  /\ PastLoop(c) \/ InBulk(c, "update")
  /\ Goes(c, [call[c] EXCEPT !.pc = "rejected"])
  /\ UNCHANGED <<docs, used, cats, nextId, late>>

\* An error after the loop rejects the transaction, and the request with it.
Thrown(c) ==
  /\ PastLoop(c) \/ InBulk(c, "update")
  /\ Ends(c, "rejected")
  /\ UNCHANGED <<docs, used, cats, nextId, late>>

\* Statements of an undone transaction fail, and so does one that waits in a
\* circle.
Refused(c) ==
  /\ \/ call[c].aborted /\ (InLoop(c) \/ call[c].affected # <<>>)
     \/ Deadlocked(c)
  /\ Caught(c) \/ Thrown(c)

Transaction(c) ==
  Find(c) \/ Write(c) \/ Count(c) \/ Update(c) \/ Commit(c) \/ Refused(c)

BulkStep(c) == Validate(c) \/ Transaction(c)

-----------------------------------------------------------------------------
\* deleteDocument

StartDelete(c, d) ==
  /\ Starts(c, "delete",
       IF docs[d] = None
       THEN [UnusedCall EXCEPT !.op = "delete", !.pc = "rejected"]
       ELSE [UnusedCall EXCEPT !.op = "delete", !.pc = "write",
                               !.ids = <<d>>, !.name = docs[d]])
  /\ UNCHANGED <<docs, used, cats, nextId, late>>

DeleteRow(c) ==
  LET d == call[c].ids[1] IN
  /\ At(c, "delete", "write") /\ DocFree(c, d)
  /\ docs' = [docs EXCEPT ![d] = None]
  /\ Goes(c, [call[c] EXCEPT !.pc = "count"])
  /\ UNCHANGED <<used, cats, nextId, late>>

\* updateCategoryDocumentCount
DeleteCount(c) ==
  /\ At(c, "delete", "count")
  /\ Goes(c, [call[c] EXCEPT !.pc = "update",
                             !.value = DocumentsByCategory[call[c].name]])
  /\ UNCHANGED <<docs, used, cats, nextId, late>>

DeleteUpdate_Decrements(c) ==
  LET n == call[c].name IN
  /\ At(c, "delete", "update") /\ CategoryFree(c, n)
  /\ SetCount(n, cats[n].count - 1)
  /\ Ends(c, "done")
  /\ UNCHANGED <<docs, used, nextId, late>>

DeleteUpdate(c) ==
  /\ At(c, "delete", "update") /\ CategoryFree(c, call[c].name)
  /\ SetCount(call[c].name, call[c].value)
  /\ Ends(c, "done")
  /\ UNCHANGED <<docs, used, nextId, late>>

DeleteStep(c) == DeleteRow(c) \/ DeleteCount(c) \/ DeleteUpdate(c)

-----------------------------------------------------------------------------
\* createCategory, listCategories, deleteCategory

StartCreate(c, n) ==
  /\ Starts(c, "create", [UnusedCall EXCEPT
       !.op = "create", !.name = n,
       !.pc = IF cats[n] = None THEN "insert" ELSE "rejected"])
  /\ UNCHANGED <<docs, used, cats, nextId, late>>

\* name is UNIQUE.
Create(c) ==
  LET n == call[c].name IN
  /\ At(c, "create", "insert")
  /\ IF cats[n] = None
     THEN /\ cats' = [cats EXCEPT ![n] = [id |-> nextId, count |-> 0]]
          /\ nextId' = nextId + 1
          /\ Ends(c, "done")
     ELSE /\ Ends(c, "rejected")
          /\ UNCHANGED <<cats, nextId>>
  /\ UNCHANGED <<docs, used, late>>

StartList(c) ==
  /\ Starts(c, "list", [UnusedCall EXCEPT !.pc = "each", !.seen = cats])
  /\ UNCHANGED <<docs, used, cats, nextId, late>>

ListCount_OnlyGrowth(c, n) ==
  LET me == call[c]
      k  == DocumentsByCategory[n] IN
  /\ At(c, "list", "each") /\ me.seen[n] # None /\ me.counts[n] = None
  /\ Goes(c, IF k <= me.seen[n].count THEN [me EXCEPT !.seen[n] = None]
                                      ELSE [me EXCEPT !.counts[n] = k])
  /\ UNCHANGED <<docs, used, cats, nextId, late>>

\* Every category on its own: it is counted, and corrected if it is out of step.
ListCount(c, n) ==
  LET me == call[c]
      k  == DocumentsByCategory[n] IN
  /\ At(c, "list", "each") /\ me.seen[n] # None /\ me.counts[n] = None
  /\ Goes(c, IF k = me.seen[n].count THEN [me EXCEPT !.seen[n] = None]
                                     ELSE [me EXCEPT !.counts[n] = k])
  /\ UNCHANGED <<docs, used, cats, nextId, late>>

ListWrite(c, n) ==
  LET me == call[c] IN
  /\ At(c, "list", "each") /\ me.seen[n] # None /\ me.counts[n] # None
  /\ CategoryFree(c, n)
  /\ IF cats[n] # None /\ cats[n].id = me.seen[n].id
     THEN SetCount(n, me.counts[n]) ELSE UNCHANGED cats
  /\ Goes(c, [me EXCEPT !.seen[n] = None])
  /\ UNCHANGED <<docs, used, nextId, late>>

ListDone(c) ==
  /\ At(c, "list", "each") /\ \A n \in Names : call[c].seen[n] = None
  /\ Ends(c, "done")
  /\ UNCHANGED <<docs, used, cats, nextId, late>>

ListStep(c) == ListDone(c) \/ \E n \in Names : ListCount(c, n) \/ ListWrite(c, n)

\* The controller and the service each look the category up by id ...
StartRemove(c, n) ==
  /\ cats[n] # None
  /\ Starts(c, "remove", [UnusedCall EXCEPT
       !.op = "remove", !.name = n, !.id = cats[n].id, !.pc = "count"])
  /\ UNCHANGED <<docs, used, cats, nextId, late>>

RemoveCount_Stored(c) ==
  LET me == call[c] IN
  /\ At(c, "remove", "count")
  /\ IF cats[me.name] # None /\ cats[me.name].count > 0
     THEN Ends(c, "rejected") ELSE Goes(c, [me EXCEPT !.pc = "erase"])
  /\ UNCHANGED <<docs, used, cats, nextId, late>>

\* ... and it is refused while documents have its name.
RemoveCount(c) ==
  LET me == call[c] IN
  /\ At(c, "remove", "count")
  /\ IF DocumentsByCategory[me.name] > 0
     THEN Ends(c, "rejected") ELSE Goes(c, [me EXCEPT !.pc = "erase"])
  /\ UNCHANGED <<docs, used, cats, nextId, late>>

Erase(c) ==
  LET me    == call[c]
      there == cats[me.name] # None /\ cats[me.name].id = me.id IN
  /\ At(c, "remove", "erase") /\ (there => CategoryFree(c, me.name))
  /\ cats' = IF there THEN [cats EXCEPT ![me.name] = None] ELSE cats
  /\ Ends(c, IF there THEN "done" ELSE "rejected")
  /\ UNCHANGED <<docs, used, nextId, late>>

CategoryStep(c) == Create(c) \/ ListStep(c) \/ RemoveCount(c) \/ Erase(c)

-----------------------------------------------------------------------------
\* A worker saves the document of an upload; nobody asks whether its category
\* exists, and no count is renewed.
Ingest(d, n) ==
  /\ d \notin used
  /\ docs' = [docs EXCEPT ![d] = n]
  /\ used' = used \cup {d}
  /\ late' = [late EXCEPT ![d] = Erasing(n)]
  /\ UNCHANGED <<cats, nextId, call>>

\* The database fails a statement of any call.
Fails(c) ==
  \/ ~call[c].aborted /\ (Caught(c) \/ Thrown(c))
  \/ /\ call[c].op \notin Bulk \/ call[c].pc = "validate"
     /\ call[c].pc \notin Ended \cup {"unused"}
     /\ Ends(c, "rejected")
     /\ UNCHANGED <<docs, used, cats, nextId, late>>

Start(c) ==
  \/ \E op \in Bulk, s \in Requests, n \in Names, command \in BOOLEAN :
       StartBulk(c, op, s, n, command)
  \/ \E d \in Docs : StartDelete(c, d)
  \/ StartList(c)
  \/ \E n \in Names : StartCreate(c, n) \/ StartRemove(c, n)

Step(c) == BulkStep(c) \/ DeleteStep(c) \/ CategoryStep(c)

Next ==
  \/ \E c \in Calls : Start(c) \/ Step(c) \/ Fails(c)
  \/ \E d \in Docs, n \in Names : Ingest(d, n)

Spec == Init /\ [][Next]_vars

\* The database answers every statement, and finds its deadlocks.
FairSpec == Spec /\ \A c \in Calls : WF_vars(Step(c))

-----------------------------------------------------------------------------

Accurate ==
  \A n \in Names : cats[n] # None => cats[n].count = DocumentsByCategory[n]

\* A bulk request that is answered has done what it reports, although it goes
\* on after an error that has undone its work: when it ends, every document
\* reported as successful is deleted or moved (or was deleted by another), and
\* nothing else is touched; a rejected request has touched nothing.  Documents a
\* command skipped because they were in place may since have been moved.
ReportsAreTrue ==
  [][\A c \in Calls :
       call[c].op \in Bulk /\ call[c].pc # call'[c].pc /\ call'[c].pc \in Ended =>
         /\ \A d \in Docs : docs'[d] # docs[d] =>
              call'[c].pc = "done" /\ d \in call[c].ok
         /\ call'[c].pc = "done" /\ ~(call[c].command /\ call[c].op = "bulkReassign")
              => \A d \in call[c].ok : docs'[d] \in {None, Written(c)}]_vars

\* A category is deleted under documents only if they came into it after
\* deleteCategory had counted.
OnlyLateDocumentsAreOrphaned ==
  [][\A n \in Names, c \in Calls :
       At(c, "remove", "erase") /\ call'[c].pc = "done" /\ call[c].name = n =>
         \A d \in ListDocuments(n) : c \in late[d]]_vars

\* Every call comes to an end, also when transactions wait for each other.
CallsEnd == \A c \in Calls : call[c].pc # "unused" ~> call[c].pc \in Ended

AloneFrom(c) ==
  /\ used = Docs /\ \A t \in Calls \ {c} : call[t].pc \in Ended
  /\ At(c, "list", "each") /\ call[c].seen = cats
  /\ \A n \in Names : call[c].counts[n] = None

\* Whatever has made counts wrong, a listing nobody disturbs makes them right.
ListingRepairs ==
  \A c \in Calls : AloneFrom(c) ~> Accurate \/ call[c].pc = "rejected"
=============================================================================
