------------------------ MODULE KnowledgeBaseProofs ------------------------
(***************************************************************************)
(* Proofs about KnowledgeBase, for any documents, category names, calls     *)
(* and requests.                                                            *)
(*                                                                          *)
(* The inductive invariant says, of every call, what its locals have to do  *)
(* with the rows: the rows a transaction has written are its own and still  *)
(* there (row locks), what it reports as successful it has written or is    *)
(* gone for good (ids are never used again), and a transaction the database *)
(* has undone reports nothing or is bound to be rejected, because the       *)
(* categories still to be counted make the code issue another statement.    *)
(***************************************************************************)
EXTENDS KnowledgeBase, FiniteSetTheorems, TLAPS

\* The parts of the invariant of one call, me, are about its record, the rows
\* (docs), the ids ever inserted (used) and the categories (cats).

\* A call that is at a document, or at the count of a category, has one to be
\* at; and it gets there only in a transaction that is still alive.
Located(me, known) ==
  /\ me.at >= 1
  /\ me.op \in Bulk /\ me.pc = "write" =>
       /\ ~me.aborted /\ me.affected # <<>>
       /\ me.at <= Len(me.ids) /\ me.ids[me.at] \in known
  /\ me.op \in Bulk /\ me.pc = "update" =>
       ~me.aborted /\ me.affected # <<>> /\ me.at > Len(me.ids)

\* The rows a transaction has written are still there, and it reports them.
Holds(me, rows, known, kept) ==
  /\ me.op \notin Bulk => me.wrote = {}
  /\ me.wrote \subseteq me.ok /\ me.ok \subseteq known
  /\ \A d \in me.wrote : rows[d] # None
  /\ me.op \in Bulk => \A n \in Names : me.counts[n] # None => kept[n] # None

\* What is reported as successful has been written, or is gone.
Reported(me, rows) ==
  me.op \in Bulk /\ ~me.aborted /\ ~(me.command /\ me.op = "bulkReassign")
    => \A d \in me.ok : d \in me.wrote \/ rows[d] = None

\* Successes leave a category to count, until a transaction that is alive has
\* counted it after its loop.
Pending(me) ==
  /\ me.pc = "validate" => me.ok = {}
  /\ me.op \in Bulk /\ me.ok # {} =>
       me.affected # <<>> \/ (~me.aborted /\ me.at > Len(me.ids))

Sound(me, rows, known, kept) ==
  /\ Located(me, known)
  /\ Holds(me, rows, known, kept)
  /\ Reported(me, rows)
  /\ Pending(me)

\* No two transactions hold the same document.
Exclusive ==
  \A c, t \in Calls : c # t => call[c].wrote \cap call[t].wrote = {}

\* A document that is there was once inserted.
Inserted == \A d \in Docs : docs[d] # None => d \in used

\* The documents of a category that is about to be deleted came into it late.
AllLate ==
  \A c \in Calls : At(c, "remove", "erase") =>
    \A d \in Docs : docs[d] = call[c].name => c \in late[d]

IInv ==
  /\ TypeOK
  /\ \A c \in Calls : Sound(call[c], docs, used, cats)
  /\ Exclusive /\ Inserted /\ AllLate

-----------------------------------------------------------------------------
\* Values and records.

\* Absence is no name, no row and no number.
LEMMA NoneIsNothing ==
  None \notin Names /\ None \notin Category /\ \A k \in Nat : k # None
BY NoneAssumption

\* The number of documents of a category is a number.
LEMMA CountTyped ==
  ASSUME NEW S \in SUBSET Docs
  PROVE  Cardinality(S) \in Nat
BY BoundsAssumption, FS_Subset, FS_CardinalityType

\* So is every entry of documents_by_category.
LEMMA ByCategoryTyped ==
  ASSUME NEW n \in Names
  PROVE  DocumentsByCategory[n] = Cardinality(ListDocuments(n))
         /\ DocumentsByCategory[n] \in Nat
BY CountTyped DEF DocumentsByCategory, ListDocuments

\* A slot nobody has used is a call, of no operation in particular.
LEMMA UnusedTyped ==
  /\ UnusedCall \in CallRecord
  /\ UnusedCall.wrote = {} /\ UnusedCall.ok = {} /\ UnusedCall.at = 1
  /\ \A n \in Names : UnusedCall.counts[n] = None
<1>1. SomeName \in Names
  BY BoundsAssumption DEF SomeName
<1>2. <<>> \in Seq(Docs) /\ <<>> \in Seq(Names)
  OBVIOUS
<1> QED  BY <1>1, <1>2, Zenon
         DEF UnusedCall, CallRecord, AllOperations, Pcs, Ended

\* A call that is at its end, or at any step of another operation than a bulk
\* one, with no writes of its own, is in order whatever the rows are.
LEMMA PlainSound ==
  ASSUME NEW me \in CallRecord, NEW rows, NEW known, NEW kept,
         me.at >= 1, me.wrote = {}, me.ok = {},
         me.op \in Bulk => /\ me.pc \notin {"write", "update"}
                           /\ \A n \in Names : me.counts[n] = None
  PROVE  Sound(me, rows, known, kept)
BY DEF Sound, Located, Holds, Reported, Pending

\* A call stays in order when rows it has not written change, as long as ids
\* are not used again and the categories it has counted stay.
LEMMA SoundFrame ==
  ASSUME NEW me \in CallRecord,
         NEW rows, NEW known, NEW kept, NEW rows2, NEW known2, NEW kept2,
         Sound(me, rows, known, kept), known \subseteq known2,
         \A d \in me.wrote : rows2[d] # None,
         \A d \in known : rows[d] = None => rows2[d] = None,
         me.op \in Bulk => \A n \in Names : me.counts[n] # None => kept2[n] # None
  PROVE  Sound(me, rows2, known2, kept2)
<1>1. Located(me, known2)
  BY DEF Sound, Located
<1>2. Holds(me, rows2, known2, kept2)
  BY DEF Sound, Holds
<1>3. Reported(me, rows2)
  BY DEF Sound, Holds, Reported
<1> QED  BY <1>1, <1>2, <1>3 DEF Sound

-----------------------------------------------------------------------------
\* Steps of one call.

\* A step of call c that leaves the calls of others as they are, in the rows
\* it makes.
LEMMA StepKeeps ==
  ASSUME IInv, NEW c \in Calls, NEW me \in CallRecord,
         call' = [call EXCEPT ![c] = me],
         docs' \in [Docs -> Names \cup {None}], UNCHANGED used,
         cats' \in [Names -> Category \cup {None}], nextId' \in Nat,
         late' \in [Docs -> SUBSET Calls],
         Sound(me, docs', used, cats'),
         \A t \in Calls \ {c} : Sound(call[t], docs', used, cats'),
         \A t \in Calls \ {c} : me.wrote \cap call[t].wrote = {},
         \A d \in Docs : docs'[d] # None => d \in used,
         AllLate'
  PROVE  IInv'
<1>1. TypeOK'
  BY DEF IInv, TypeOK
<1>2. \A t \in Calls : call'[t] = IF t = c THEN me ELSE call[t]
  BY DEF IInv, TypeOK
<1>3. \A t \in Calls : Sound(call[t], docs, used, cats)'
  BY <1>2
<1>4. Exclusive'
  BY <1>2 DEF IInv, Exclusive
<1> QED  BY <1>1, <1>3, <1>4 DEF IInv, Inserted

\* A step of call c that writes nothing but its locals.
LEMMA QuietStep ==
  ASSUME IInv, NEW c \in Calls, NEW me \in CallRecord,
         call' = [call EXCEPT ![c] = me],
         UNCHANGED <<docs, used, cats, nextId, late>>,
         Sound(me, docs, used, cats), me.wrote \subseteq call[c].wrote,
         ~(me.op = "remove" /\ me.pc = "erase")
  PROVE  IInv'
<1>1. \A t \in Calls \ {c} : Sound(call[t], docs', used, cats')
  BY DEF IInv
<1>2. \A t \in Calls \ {c} : me.wrote \cap call[t].wrote = {}
  BY DEF IInv, Exclusive
<1>3. AllLate'
  BY DEF IInv, TypeOK, AllLate, At
<1> QED  BY <1>1, <1>2, <1>3, StepKeeps DEF IInv, TypeOK, Inserted

\* The end of a call.
LEMMA EndedSound ==
  ASSUME TypeOK, NEW c \in Calls, NEW pc \in Ended
  PROVE  LET me == [UnusedCall EXCEPT !.op = call[c].op, !.pc = pc] IN
         /\ me \in CallRecord /\ me.wrote = {} /\ me.op = call[c].op /\ me.pc = pc
         /\ \A rows, known, kept : Sound(me, rows, known, kept)
<1> DEFINE me == [UnusedCall EXCEPT !.op = call[c].op, !.pc = pc]
<1>1. /\ me \in CallRecord /\ me.wrote = {} /\ me.ok = {} /\ me.at = 1
      /\ me.op = call[c].op /\ me.pc = pc
      /\ \A n \in Names : me.counts[n] = None
  BY UnusedTyped DEF TypeOK, CallRecord, Pcs
<1>2. me.pc \notin {"write", "update"}
  BY <1>1 DEF Ended
<1> HIDE DEF me
<1>3. \A rows, known, kept : Sound(me, rows, known, kept)
  BY <1>1, <1>2, PlainSound
<1> QED  BY <1>1, <1>3 DEF me

\* A call that ends and has changed nothing by it keeps the invariant.
LEMMA EndsQuietly ==
  ASSUME IInv, NEW c \in Calls, NEW pc \in Ended, Ends(c, pc),
         UNCHANGED <<docs, used, cats, nextId, late>>
  PROVE  IInv'
<1> DEFINE me == [UnusedCall EXCEPT !.op = call[c].op, !.pc = pc]
<1>1. call' = [call EXCEPT ![c] = me]
  BY DEF Ends, Goes
<1>2. /\ me \in CallRecord /\ me.wrote = {} /\ me.pc = pc
      /\ Sound(me, docs, used, cats)
  BY EndedSound DEF IInv
<1> HIDE DEF me
<1>3. me.pc # "erase"
  BY <1>2 DEF Ended
<1> QED  BY <1>1, <1>2, <1>3, QuietStep

-----------------------------------------------------------------------------
\* The first state and the starts of calls.

\* The documents stored at first were inserted, and no call has begun.
LEMMA InitIInv == Init => IInv
<1> SUFFICES ASSUME Init  PROVE IInv
  OBVIOUS
<1>1. \A c \in Calls : call[c] = UnusedCall
  BY DEF Init
<1>2. TypeOK
  <2>1. docs \in [Docs -> Names \cup {None}] /\ used \subseteq Docs
    BY BoundsAssumption DEF Init
  <2>2. \A n \in Names : Cardinality(ListDocuments(n)) \in Nat
    BY CountTyped DEF ListDocuments
  <2>3. cats \in [Names -> Category \cup {None}] /\ nextId \in Nat
    BY <2>2 DEF Init, Category
  <2>4. call \in [Calls -> CallRecord] /\ late \in [Docs -> SUBSET Calls]
    BY UnusedTyped DEF Init
  <2> QED  BY <2>1, <2>3, <2>4 DEF TypeOK
<1>3. \A c \in Calls : Sound(call[c], docs, used, cats)
  <2>1. UnusedCall.op \notin Bulk
    BY DEF UnusedCall, Bulk
  <2> QED  BY <1>1, <2>1, UnusedTyped, PlainSound
<1>4. Exclusive
  BY <1>1, UnusedTyped DEF Exclusive
<1>5. Inserted
  BY DEF Init, Inserted
<1>6. AllLate
  <2>1. UnusedCall.op # "remove"
    BY DEF UnusedCall
  <2> QED  BY <1>1, <2>1 DEF AllLate, At
<1> QED  BY <1>2, <1>3, <1>4, <1>5, <1>6 DEF IInv

\* A bulk call has written, counted and reported nothing when it starts.
LEMMA StartBulkKeeps ==
  ASSUME IInv, NEW c \in Calls, NEW op \in Bulk, NEW s \in Requests,
         NEW n \in Names, NEW command \in BOOLEAN,
         StartBulk(c, op, s, n, command)
  PROVE  IInv'
<1> DEFINE me == [UnusedCall EXCEPT
       !.op = op, !.ids = s, !.name = n, !.command = command,
       !.pc = IF command THEN "validate" ELSE "find",
       !.affected = IF op = "bulkReassign" THEN <<n>> ELSE <<>>,
       !.invalid = command /\ \/ HasDuplicates(s)
                              \/ op = "bulkReassign" /\ cats[n] = None]
<1>1. call' = [call EXCEPT ![c] = me]
      /\ UNCHANGED <<docs, used, cats, nextId, late>>
  BY Zenon DEF StartBulk, Starts, Goes
<1>2. me \in CallRecord
  <2>1. s \in Seq(Docs) /\ op \in AllOperations
    BY BoundsAssumption DEF Bulk, AllOperations
  <2>2. (IF op = "bulkReassign" THEN <<n>> ELSE <<>>) \in Seq(Names)
    OBVIOUS
  <2>3. (IF command THEN "validate" ELSE "find") \in Pcs
    BY DEF Pcs
  <2>4. (command /\ \/ HasDuplicates(s)
                    \/ op = "bulkReassign" /\ cats[n] = None) \in BOOLEAN
    OBVIOUS
  <2> HIDE DEF HasDuplicates
  <2> QED  BY <2>1, <2>2, <2>3, <2>4, UnusedTyped DEF CallRecord
<1>3. /\ me.wrote = {} /\ me.ok = {} /\ me.at = 1 /\ me.op = op
      /\ me.pc \in {"validate", "find"}
      /\ \A k \in Names : me.counts[k] = None
  BY UnusedTyped DEF CallRecord
<1> HIDE DEF me
<1>4. Sound(me, docs, used, cats)
  BY <1>2, <1>3, PlainSound
<1> QED  BY <1>1, <1>2, <1>3, <1>4, QuietStep

\* Nor has any other call, each of which knows the category it is about.
LEMMA StartOthersKeep ==
  ASSUME IInv, NEW c \in Calls,
         \/ \E d \in Docs : StartDelete(c, d)
         \/ StartList(c)
         \/ \E n \in Names : StartCreate(c, n) \/ StartRemove(c, n)
  PROVE  IInv'
<1> DEFINE Begun ==
      \E me \in CallRecord :
        /\ call' = [call EXCEPT ![c] = me]
        /\ me.op \notin Bulk /\ me.at = 1 /\ me.wrote = {} /\ me.ok = {}
        /\ me.pc # "erase"
<1>1. Begun
  <2>1. ASSUME NEW d \in Docs, StartDelete(c, d), docs[d] = None  PROVE Begun
    <3> DEFINE me == [UnusedCall EXCEPT !.op = "delete", !.pc = "rejected"]
    <3>1. call' = [call EXCEPT ![c] = me]
      BY <2>1 DEF StartDelete, Starts, Goes
    <3>2. me \in CallRecord
      BY UnusedTyped DEF CallRecord, AllOperations, Pcs, Ended
    <3> QED  BY <3>1, <3>2, UnusedTyped DEF CallRecord, Bulk
  <2>2. ASSUME NEW d \in Docs, StartDelete(c, d), docs[d] # None  PROVE Begun
    <3> DEFINE me == [UnusedCall EXCEPT !.op = "delete", !.pc = "write",
                                        !.ids = <<d>>, !.name = docs[d]]
    <3>1. call' = [call EXCEPT ![c] = me]
      BY <2>2 DEF StartDelete, Starts, Goes
    <3>2. me \in CallRecord
      <4>1. docs[d] \in Names /\ <<d>> \in Seq(Docs)
        BY <2>2 DEF IInv, TypeOK
      <4> QED  BY <4>1, UnusedTyped DEF CallRecord, AllOperations, Pcs
    <3> QED  BY <3>1, <3>2, UnusedTyped DEF CallRecord, Bulk
  <2>3. ASSUME StartList(c)  PROVE Begun
    <3> DEFINE me == [UnusedCall EXCEPT !.pc = "each", !.seen = cats]
    <3>1. call' = [call EXCEPT ![c] = me]
      BY <2>3 DEF StartList, Starts, Goes
    <3>2. me \in CallRecord
      BY UnusedTyped DEF CallRecord, AllOperations, Pcs, IInv, TypeOK
    <3>3. me.op = "list"
      BY DEF UnusedCall
    <3> QED  BY <3>1, <3>2, <3>3, UnusedTyped DEF CallRecord, Bulk
  <2>4. ASSUME NEW n \in Names, StartCreate(c, n)  PROVE Begun
    <3> DEFINE me == [UnusedCall EXCEPT !.op = "create", !.name = n,
                        !.pc = IF cats[n] = None THEN "insert" ELSE "rejected"]
    <3>1. call' = [call EXCEPT ![c] = me]
      BY <2>4 DEF StartCreate, Starts, Goes
    <3>2. me \in CallRecord
      BY UnusedTyped DEF CallRecord, AllOperations, Pcs, Ended
    <3> QED  BY <3>1, <3>2, UnusedTyped DEF CallRecord, Bulk
  <2>5. ASSUME NEW n \in Names, StartRemove(c, n)  PROVE Begun
    <3> DEFINE me == [UnusedCall EXCEPT !.op = "remove", !.name = n,
                        !.id = cats[n].id, !.pc = "count"]
    <3>1. call' = [call EXCEPT ![c] = me]
      BY <2>5 DEF StartRemove, Starts, Goes
    <3>2. me \in CallRecord
      <4>1. cats[n].id \in Nat
        BY <2>5 DEF StartRemove, IInv, TypeOK, Category
      <4> QED  BY <4>1, UnusedTyped DEF CallRecord, AllOperations, Pcs
    <3> QED  BY <3>1, <3>2, UnusedTyped DEF CallRecord, Bulk
  <2> QED  BY <2>1, <2>2, <2>3, <2>4, <2>5
<1>2. UNCHANGED <<docs, used, cats, nextId, late>>
  BY DEF StartDelete, StartList, StartCreate, StartRemove
<1>3. PICK me \in CallRecord :
        /\ call' = [call EXCEPT ![c] = me]
        /\ me.op \notin Bulk /\ me.at = 1 /\ me.wrote = {} /\ me.ok = {}
        /\ me.pc # "erase"
  BY <1>1
<1>4. Sound(me, docs, used, cats)
  BY <1>3, PlainSound
<1> QED  BY <1>2, <1>3, <1>4, QuietStep

-----------------------------------------------------------------------------
\* Bulk calls.

\* Validation only looks.
LEMMA ValidateKeeps ==
  ASSUME IInv, NEW c \in Calls, Validate(c)
  PROVE  IInv'
<1> DEFINE old     == call[c]
           invalid == old.invalid \/ docs[old.ids[old.at]] = None
<1>1. old \in CallRecord /\ Sound(old, docs, used, cats) /\ old.pc = "validate"
      /\ UNCHANGED <<docs, used, cats, nextId, late>>
  BY DEF IInv, TypeOK, Validate
<1>2. ASSUME old.at < Len(old.ids)  PROVE IInv'
  <2> DEFINE me == [old EXCEPT !.at = @ + 1, !.invalid = invalid]
  <2>1. call' = [call EXCEPT ![c] = me]
    BY <1>2 DEF Validate, Goes
  <2>2. me \in CallRecord
    <3>1. old.at + 1 \in Nat /\ invalid \in BOOLEAN
      BY <1>1 DEF CallRecord
    <3> HIDE DEF invalid
    <3> QED  BY <1>1, <3>1 DEF CallRecord
  <2>3. /\ me.pc = "validate" /\ me.at = old.at + 1 /\ me.op = old.op
        /\ me.wrote = old.wrote /\ me.ok = old.ok /\ me.aborted = old.aborted
        /\ me.command = old.command /\ me.counts = old.counts
    BY <1>1 DEF CallRecord
  <2> HIDE DEF me
  <2>4. Sound(me, docs, used, cats)
    BY <1>1, <2>3 DEF Sound, Located, Holds, Reported, Pending, CallRecord
  <2> QED  BY <1>1, <2>1, <2>2, <2>3, <2>4, QuietStep
<1>3. ASSUME ~(old.at < Len(old.ids)), invalid  PROVE IInv'
  <2>1. Ends(c, "rejected")
    BY <1>3 DEF Validate
  <2> QED  BY <1>1, <2>1, EndsQuietly DEF Ended
<1>4. ASSUME ~(old.at < Len(old.ids)), ~invalid  PROVE IInv'
  <2> DEFINE me == [old EXCEPT !.at = 1, !.pc = "find"]
  <2>1. call' = [call EXCEPT ![c] = me]
    BY <1>4 DEF Validate, Goes
  <2>2. /\ me \in CallRecord
        /\ me.pc = "find" /\ me.at = 1 /\ me.op = old.op
        /\ me.wrote = old.wrote /\ me.ok = old.ok /\ me.aborted = old.aborted
        /\ me.command = old.command /\ me.counts = old.counts
    BY <1>1 DEF CallRecord, Pcs
  <2> HIDE DEF me
  <2>3. Sound(me, docs, used, cats)
    BY <1>1, <2>2 DEF Sound, Located, Holds, Reported, Pending, CallRecord
  <2> QED  BY <1>1, <2>1, <2>2, <2>3, QuietStep
<1> QED  BY <1>2, <1>3, <1>4

\* Added to the categories to count, a category is there.
LEMMA AddedTyped ==
  ASSUME NEW s \in Seq(Names), NEW n \in Names
  PROVE  Added(s, n) \in Seq(Names) /\ Added(s, n) # <<>>
<1>1. CASE \E i \in DOMAIN s : s[i] = n
  BY <1>1 DEF Added
<1>2. CASE ~\E i \in DOMAIN s : s[i] = n
  <2>1. Added(s, n) = Append(s, n)
    BY <1>2 DEF Added
  <2> QED  BY <2>1
<1> QED  BY <1>1, <1>2

\* In its loop, a call is at one of the documents it names.
LEMMA AtADocument ==
  ASSUME TypeOK, NEW c \in Calls, call[c].at >= 1, call[c].at <= Len(call[c].ids)
  PROVE  call[c].ids[call[c].at] \in Docs
BY DEF TypeOK, CallRecord

\* A document a transaction sees was once inserted, and has a category.
LEMMA FoundIsInserted ==
  ASSUME IInv, NEW c \in Calls, NEW d \in Docs, View(c, d) # None
  PROVE  d \in used /\ View(c, d) \in Names
<1>1. call[c].wrote \subseteq used
  BY DEF IInv, Sound, Holds
<1>2. call[c].name \in Names
  BY DEF IInv, TypeOK, CallRecord
<1>3. CASE d \in call[c].wrote
  BY <1>1, <1>2, <1>3 DEF View, Written
<1>4. CASE d \notin call[c].wrote
  BY <1>4 DEF View, IInv, TypeOK, Inserted
<1> QED  BY <1>3, <1>4

\* Finding a document leaves its category to be counted before the document
\* is counted as a success.
LEMMA FindKeeps ==
  ASSUME IInv, NEW c \in Calls, Find(c)
  PROVE  IInv'
<1> DEFINE old   == call[c]
           d     == old.ids[old.at]
           found == View(c, d)
<1>1. /\ old \in CallRecord /\ Sound(old, docs, used, cats)
      /\ old.op \in Bulk /\ old.pc = "find" /\ ~old.aborted
      /\ old.at <= Len(old.ids) /\ old.at >= 1
      /\ UNCHANGED <<docs, used, cats, nextId, late>>
  BY DEF IInv, TypeOK, Find, InLoop, InBulk, Sound, Located
<1>2. d \in Docs
  BY <1>1, AtADocument DEF IInv
<1> HIDE DEF d
<1>3. /\ old.at + 1 \in Nat
      /\ old.failed \cup {d} \in SUBSET Docs /\ old.ok \cup {d} \in SUBSET Docs
  BY <1>1, <1>2 DEF CallRecord
<1>4. ASSUME found = None  PROVE IInv'
  <2> DEFINE me == [old EXCEPT !.failed = @ \cup {d}, !.at = @ + 1]
  <2>1. call' = [call EXCEPT ![c] = me]
    BY <1>4 DEF Find, Goes, d
  <2>2. /\ me \in CallRecord
        /\ me.pc = "find" /\ me.at = old.at + 1 /\ me.op = old.op
        /\ me.wrote = old.wrote /\ me.ok = old.ok /\ me.aborted = old.aborted
        /\ me.command = old.command /\ me.counts = old.counts
        /\ me.affected = old.affected
    BY <1>1, <1>3 DEF CallRecord
  <2> HIDE DEF me
  <2>3. Sound(me, docs, used, cats)
    BY <1>1, <2>2 DEF Sound, Located, Holds, Reported, Pending, CallRecord
  <2>4. me.op # "remove"
    BY <1>1, <2>2 DEF Bulk
  <2> QED  BY <1>1, <2>1, <2>2, <2>3, <2>4, QuietStep
<1>5. ASSUME found # None  PROVE IInv'
  <2> DEFINE hit == Added(old.affected, found)
  <2>1. d \in used /\ hit \in Seq(Names) /\ hit # <<>>
    BY <1>1, <1>2, <1>5, FoundIsInserted, AddedTyped DEF CallRecord
  <2>2. ASSUME old.command, old.op = "bulkReassign", found = old.name
        PROVE  IInv'
    <3> DEFINE me == [old EXCEPT !.affected = hit, !.ok = @ \cup {d}, !.at = @ + 1]
    <3>1. call' = [call EXCEPT ![c] = me]
      BY <1>1, <1>5, <2>2 DEF Find, Goes, CallRecord, d
    <3> HIDE DEF hit
    <3>2. /\ me \in CallRecord
          /\ me.pc = "find" /\ me.at = old.at + 1 /\ me.op = old.op
          /\ me.wrote = old.wrote /\ me.ok = old.ok \cup {d}
          /\ me.aborted = old.aborted /\ me.affected = hit
          /\ me.command = old.command /\ me.counts = old.counts
      BY <1>1, <1>3, <2>1 DEF CallRecord
    <3> HIDE DEF me
    <3>3. Sound(me, docs, used, cats)
      <4>1. Located(me, used) /\ Pending(me)
        BY <1>1, <2>1, <3>2 DEF Sound, Located, Pending, CallRecord
      <4>2. Holds(me, docs, used, cats)
        BY <1>1, <2>1, <3>2 DEF Sound, Holds
      <4>3. Reported(me, docs)
        BY <2>2, <3>2 DEF Reported
      <4> QED  BY <4>1, <4>2, <4>3 DEF Sound
    <3>4. me.op # "remove"
      BY <1>1, <3>2 DEF Bulk
    <3> QED  BY <1>1, <3>1, <3>2, <3>3, <3>4, QuietStep
  <2>3. ASSUME ~(old.command /\ old.op = "bulkReassign" /\ found = old.name)
        PROVE  IInv'
    <3> DEFINE me == [old EXCEPT !.affected = hit, !.pc = "write"]
    <3>1. call' = [call EXCEPT ![c] = me]
      BY <1>1, <1>5, <2>3 DEF Find, Goes, CallRecord, d
    <3> HIDE DEF hit
    <3>2. /\ me \in CallRecord
          /\ me.pc = "write" /\ me.at = old.at /\ me.op = old.op
          /\ me.ids = old.ids /\ me.wrote = old.wrote /\ me.ok = old.ok
          /\ me.aborted = old.aborted /\ me.affected = hit
          /\ me.command = old.command /\ me.counts = old.counts
      BY <1>1, <2>1 DEF CallRecord, Pcs
    <3> HIDE DEF me
    <3>3. Sound(me, docs, used, cats)
      BY <1>1, <2>1, <3>2
         DEF Sound, Located, Holds, Reported, Pending, CallRecord, d
    <3> QED  BY <1>1, <3>1, <3>2, <3>3, QuietStep
  <2> QED  BY <2>2, <2>3
<1> QED  BY <1>4, <1>5

\* A document is written only by a call that then holds it alone.
LEMMA WriteKeeps ==
  ASSUME IInv, NEW c \in Calls, Write(c)
  PROVE  IInv'
<1> DEFINE old == call[c]
           d   == old.ids[old.at]
           new == IF View(c, d) = None THEN old.wrote ELSE old.wrote \cup {d}
           me  == [old EXCEPT !.wrote = new, !.ok = @ \cup {d}, !.at = @ + 1,
                              !.pc = "find"]
<1>1. /\ old \in CallRecord /\ Sound(old, docs, used, cats)
      /\ old.op \in Bulk /\ old.pc = "write" /\ ~old.aborted
      /\ old.affected # <<>> /\ old.at >= 1 /\ old.at <= Len(old.ids)
      /\ d \in used
      /\ UNCHANGED <<docs, used, cats, nextId, late>>
  BY DEF IInv, TypeOK, Write, InBulk, Sound, Located
<1>2. call' = [call EXCEPT ![c] = me]
  BY <1>1 DEF Write, Goes, CallRecord
<1>3. d \in Docs /\ new \subseteq old.wrote \cup {d} /\ old.wrote \subseteq new
  BY <1>1, AtADocument DEF IInv
<1>4. d \in new \/ docs[d] = None
  BY DEF View
<1>5. d \in new => docs[d] # None
  BY <1>1 DEF View, Sound, Holds
<1>6. \A t \in Calls \ {c} : d \notin call[t].wrote
  BY DEF Write, DocFree, LocksDoc
<1> HIDE DEF d, new
<1>7. /\ old.at + 1 \in Nat /\ new \in SUBSET Docs
      /\ old.ok \cup {d} \in SUBSET Docs
  BY <1>1, <1>3 DEF CallRecord
<1>8. /\ me \in CallRecord
      /\ me.pc = "find" /\ me.at = old.at + 1 /\ me.op = old.op
      /\ me.wrote = new /\ me.ok = old.ok \cup {d}
      /\ me.aborted = old.aborted /\ me.affected = old.affected
      /\ me.command = old.command /\ me.counts = old.counts
  BY <1>1, <1>7 DEF CallRecord, Pcs
<1> HIDE DEF me
<1>9. Sound(me, docs, used, cats)
  <2>1. Located(me, used) /\ Pending(me)
    BY <1>1, <1>8 DEF Sound, Located, Pending, CallRecord
  <2>2. Holds(me, docs, used, cats)
    BY <1>1, <1>3, <1>5, <1>8 DEF Sound, Holds
  <2>3. Reported(me, docs)
    BY <1>1, <1>3, <1>4, <1>8 DEF Sound, Reported
  <2> QED  BY <2>1, <2>2, <2>3 DEF Sound
<1>10. \A t \in Calls \ {c} : Sound(call[t], docs', used, cats')
  BY <1>1 DEF IInv
<1>11. \A t \in Calls \ {c} : me.wrote \cap call[t].wrote = {}
  BY <1>3, <1>6, <1>8 DEF IInv, Exclusive
<1>12. AllLate'
  <2>1. me.op # "remove"
    BY <1>1, <1>8 DEF Bulk
  <2> QED  BY <1>1, <1>2, <2>1 DEF IInv, TypeOK, AllLate, At
<1> QED  BY <1>1, <1>2, <1>8, <1>9, <1>10, <1>11, <1>12, StepKeeps
         DEF IInv, TypeOK, Inserted

\* Counting a category only reads.
LEMMA CountKeeps ==
  ASSUME IInv, NEW c \in Calls, Count(c)
  PROVE  IInv'
<1> DEFINE old   == call[c]
           value == CountSeen(c, Head(old.affected))
           me    == [old EXCEPT !.pc = "update", !.value = value]
<1>1. /\ old \in CallRecord /\ Sound(old, docs, used, cats)
      /\ old.op \in Bulk /\ ~old.aborted /\ old.affected # <<>>
      /\ old.at > Len(old.ids)
      /\ UNCHANGED <<docs, used, cats, nextId, late>>
  BY DEF IInv, TypeOK, Count, PastLoop, InBulk
<1>2. call' = [call EXCEPT ![c] = me]
  BY DEF Count, Goes
<1>3. value \in Nat
  BY CountTyped DEF CountSeen
<1> HIDE DEF value
<1>4. /\ me \in CallRecord
      /\ me.pc = "update" /\ me.at = old.at /\ me.op = old.op /\ me.ids = old.ids
      /\ me.wrote = old.wrote /\ me.ok = old.ok
      /\ me.aborted = old.aborted /\ me.affected = old.affected
      /\ me.command = old.command /\ me.counts = old.counts
  BY <1>1, <1>3 DEF CallRecord, Pcs
<1> HIDE DEF me
<1>5. Sound(me, docs, used, cats)
  BY <1>1, <1>4 DEF Sound, Located, Holds, Reported, Pending, CallRecord
<1> QED  BY <1>1, <1>2, <1>4, <1>5, QuietStep

\* The count of a category that is there is written, and the category is then
\* locked.
LEMMA UpdateKeeps ==
  ASSUME IInv, NEW c \in Calls, Update(c)
  PROVE  IInv'
<1> DEFINE old   == call[c]
           n     == Head(old.affected)
           count == IF cats[n] = None THEN None ELSE old.value
           rest  == Tail(old.affected)
           me    == [old EXCEPT !.counts[n] = count, !.affected = rest,
                                !.value = 0, !.pc = "find"]
<1>1. /\ old \in CallRecord /\ Sound(old, docs, used, cats)
      /\ old.op \in Bulk /\ old.pc = "update"
      /\ ~old.aborted /\ old.affected # <<>> /\ old.at > Len(old.ids)
      /\ UNCHANGED <<docs, used, cats, nextId, late>>
  BY DEF IInv, TypeOK, Update, InBulk, Sound, Located
<1>2. call' = [call EXCEPT ![c] = me]
  BY <1>1 DEF Update, Goes, CallRecord
<1>3. n \in Names /\ rest \in Seq(Names) /\ count \in Nat \cup {None}
  BY <1>1 DEF CallRecord
<1>4. count # None => cats[n] # None
  OBVIOUS
<1> HIDE DEF n, count, rest
<1>5. [old.counts EXCEPT ![n] = count] \in [Names -> Nat \cup {None}]
  BY <1>1, <1>3 DEF CallRecord
<1>6. /\ me \in CallRecord
      /\ me.pc = "find" /\ me.at = old.at /\ me.op = old.op /\ me.ids = old.ids
      /\ me.wrote = old.wrote /\ me.ok = old.ok
      /\ me.aborted = old.aborted /\ me.command = old.command
      /\ me.counts = [old.counts EXCEPT ![n] = count]
  BY <1>1, <1>3, <1>5 DEF CallRecord, Pcs
<1> HIDE DEF me
<1>7. Sound(me, docs, used, cats)
  <2>1. Located(me, used) /\ Pending(me) /\ Reported(me, docs)
    BY <1>1, <1>6 DEF Sound, Located, Reported, Pending, CallRecord
  <2>2. \A k \in Names : me.counts[k] # None => cats[k] # None
    BY <1>1, <1>4, <1>6 DEF Sound, Holds, CallRecord
  <2> QED  BY <1>1, <1>6, <2>1, <2>2 DEF Sound, Holds
<1> QED  BY <1>1, <1>2, <1>6, <1>7, QuietStep

\* An error that is caught loses the writes of the transaction, and leaves
\* what has been reported with a category to count.
LEMMA CaughtKeeps ==
  ASSUME IInv, NEW c \in Calls, Caught(c)
  PROVE  IInv'
<1> DEFINE old == call[c]
           d   == old.ids[old.at]
           me  == [old EXCEPT !.aborted = TRUE, !.wrote = {}, !.pc = "find",
                              !.failed = @ \cup {d}, !.at = @ + 1]
<1>1. /\ old \in CallRecord /\ Sound(old, docs, used, cats)
      /\ old.op \in Bulk /\ old.at >= 1 /\ old.at <= Len(old.ids)
      /\ UNCHANGED <<docs, used, cats, nextId, late>>
  BY DEF IInv, TypeOK, Caught, InLoop, InBulk, Sound, Located
<1>2. call' = [call EXCEPT ![c] = me]
  BY <1>1 DEF Caught, Goes, CallRecord
<1>3. d \in Docs
  BY <1>1, AtADocument DEF IInv
<1>4. old.ok # {} => old.affected # <<>>
  BY <1>1 DEF Sound, Pending, CallRecord
<1> HIDE DEF d
<1>5. old.at + 1 \in Nat /\ old.failed \cup {d} \in SUBSET Docs
  BY <1>1, <1>3 DEF CallRecord
<1>6. /\ me \in CallRecord
      /\ me.pc = "find" /\ me.at = old.at + 1 /\ me.op = old.op
      /\ me.wrote = {} /\ me.ok = old.ok /\ me.aborted
      /\ me.affected = old.affected /\ me.counts = old.counts
  BY <1>1, <1>5 DEF CallRecord, Pcs
<1> HIDE DEF me
<1>7. Sound(me, docs, used, cats)
  BY <1>1, <1>4, <1>6 DEF Sound, Located, Holds, Reported, Pending, CallRecord
<1>8. me.op # "remove"
  BY <1>1, <1>6 DEF Bulk
<1> QED  BY <1>1, <1>2, <1>6, <1>7, <1>8, QuietStep

\* An error after the loop ends the call.
LEMMA ThrownKeeps ==
  ASSUME IInv, NEW c \in Calls, Thrown(c)
  PROVE  IInv'
BY EndsQuietly DEF Thrown, Ended

\* The rows a commit makes are those the transaction saw.
LEMMA ApplyRows ==
  ASSUME IInv, NEW c \in Calls, call[c].op \in Bulk, Apply(c)
  PROVE  /\ docs' \in [Docs -> Names \cup {None}]
         /\ cats' \in [Names -> Category \cup {None}]
         /\ late' \in [Docs -> SUBSET Calls]
         /\ \A d \in Docs \ call[c].wrote : docs'[d] = docs[d]
         /\ \A d \in call[c].wrote : docs'[d] = Written(c) /\ docs[d] # None
         /\ \A n \in Names : cats[n] # None => cats'[n] # None
<1>1. call[c] \in CallRecord /\ Sound(call[c], docs, used, cats)
  BY DEF IInv, TypeOK
<1>2. Written(c) \in Names \cup {None}
  BY <1>1 DEF Written, CallRecord
<1>3. /\ docs' \in [Docs -> Names \cup {None}]
      /\ \A d \in Docs \ call[c].wrote : docs'[d] = docs[d]
      /\ \A d \in call[c].wrote : docs'[d] = Written(c) /\ docs[d] # None
  BY <1>1, <1>2 DEF Apply, View, IInv, TypeOK, Sound, Holds, CallRecord
<1>4. ASSUME NEW n \in Names, call[c].counts[n] # None
      PROVE  [cats[n] EXCEPT !.count = call[c].counts[n]] \in Category
  <2>1. cats[n] \in Category
    BY <1>1, <1>4 DEF Sound, Holds, IInv, TypeOK
  <2>2. call[c].counts[n] \in Nat
    BY <1>1, <1>4 DEF CallRecord
  <2> QED  BY <2>1, <2>2 DEF Category
<1>5. /\ cats' \in [Names -> Category \cup {None}]
      /\ \A n \in Names : cats[n] # None => cats'[n] # None
  BY <1>4, NoneIsNothing DEF Apply, IInv, TypeOK
<1>6. late' \in [Docs -> SUBSET Calls]
  BY DEF Apply, Erasing, IInv, TypeOK
<1> QED  BY <1>3, <1>5, <1>6

\* A commit moves or deletes documents that were there and that no other
\* transaction has written; whoever is deleting their new category is noted.
LEMMA CommitKeeps ==
  ASSUME IInv, NEW c \in Calls, Commit(c)
  PROVE  IInv'
<1>1. /\ call[c].op \in Bulk /\ Ends(c, "done") /\ UNCHANGED <<used, nextId>>
      /\ "done" \in Ended
  BY DEF Commit, PastLoop, InBulk, Ended
<1>2. CASE call[c].aborted
  BY <1>1, <1>2, EndsQuietly DEF Commit
<1>3. CASE ~call[c].aborted
  <2> DEFINE me == [UnusedCall EXCEPT !.op = call[c].op, !.pc = "done"]
  <2>1. call' = [call EXCEPT ![c] = me]
    BY <1>1 DEF Ends, Goes
  <2>2. /\ me \in CallRecord /\ me.wrote = {} /\ me.pc = "done"
        /\ Sound(me, docs', used, cats')
    BY <1>1, EndedSound DEF IInv
  <2> HIDE DEF me
  <2>3. Apply(c)
    BY <1>3 DEF Commit
  <2>4. /\ docs' \in [Docs -> Names \cup {None}]
        /\ cats' \in [Names -> Category \cup {None}]
        /\ late' \in [Docs -> SUBSET Calls]
        /\ \A d \in Docs \ call[c].wrote : docs'[d] = docs[d]
        /\ \A d \in call[c].wrote : docs'[d] = Written(c) /\ docs[d] # None
        /\ \A n \in Names : cats[n] # None => cats'[n] # None
    BY <1>1, <2>3, ApplyRows
  <2>5. \A t \in Calls \ {c} : Sound(call[t], docs', used, cats')
    <3> SUFFICES ASSUME NEW t \in Calls \ {c}
                 PROVE  Sound(call[t], docs', used, cats')
      OBVIOUS
    <3>1. call[t] \in CallRecord /\ Sound(call[t], docs, used, cats)
      BY DEF IInv, TypeOK
    <3>2. \A d \in call[t].wrote : docs'[d] # None
      BY <2>4, <3>1 DEF IInv, Exclusive, Sound, Holds, CallRecord
    <3>3. \A d \in used : docs[d] = None => docs'[d] = None
      BY <2>4 DEF IInv, TypeOK
    <3>4. call[t].op \in Bulk =>
            \A n \in Names : call[t].counts[n] # None => cats'[n] # None
      BY <2>4, <3>1 DEF Sound, Holds
    <3> QED  BY <3>1, <3>2, <3>3, <3>4, SoundFrame
  <2>6. \A d \in Docs : docs'[d] # None => d \in used
    BY <2>4 DEF IInv, Inserted
  <2>7. AllLate'
    <3> SUFFICES ASSUME NEW t \in Calls, At(t, "remove", "erase")',
                        NEW d \in Docs, docs'[d] = call'[t].name
                 PROVE  t \in late'[d]
      BY DEF AllLate
    <3>1. t # c /\ call'[t] = call[t] /\ At(t, "remove", "erase")
      BY <2>1, <2>2 DEF At, IInv, TypeOK
    <3>2. docs'[d] \in Names /\ docs'[d] # None
      BY <3>1, NoneIsNothing DEF IInv, TypeOK, CallRecord
    <3>3. CASE d \in call[c].wrote
      <4>1. Written(c) = call[t].name /\ Written(c) # None
        BY <2>4, <3>1, <3>2, <3>3
      <4>2. late'[d] = Erasing(Written(c))
        BY <2>3, <3>3, <4>1 DEF Apply
      <4> QED  BY <3>1, <4>1, <4>2 DEF Erasing
    <3>4. CASE d \notin call[c].wrote
      BY <2>3, <2>4, <3>1, <3>4 DEF Apply, IInv, AllLate
    <3> QED  BY <3>3, <3>4
  <2>8. /\ UNCHANGED used /\ nextId' \in Nat
        /\ \A t \in Calls \ {c} : me.wrote \cap call[t].wrote = {}
    BY <1>1, <2>2 DEF IInv, TypeOK
  <2> QED  BY <2>1, <2>2, <2>4, <2>5, <2>6, <2>7, <2>8, StepKeeps
<1> QED  BY <1>2, <1>3

-----------------------------------------------------------------------------
\* Calls that commit statement by statement.

\* Rows of a category may change as long as none that a transaction has
\* locked goes.
LEMMA CategoriesStep ==
  ASSUME IInv, NEW c \in Calls, NEW me \in CallRecord,
         call' = [call EXCEPT ![c] = me],
         UNCHANGED <<docs, used, late>>, nextId' \in Nat,
         cats' \in [Names -> Category \cup {None}],
         \A n \in Names : cats[n] # None /\ cats'[n] = None => CategoryFree(c, n),
         me.op \notin Bulk, me.wrote = {}, Sound(me, docs, used, cats),
         ~(me.op = "remove" /\ me.pc = "erase")
  PROVE  IInv'
<1>1. Sound(me, docs', used, cats')
  BY SoundFrame DEF Sound, Holds
<1>2. \A t \in Calls \ {c} : Sound(call[t], docs', used, cats')
  <2> SUFFICES ASSUME NEW t \in Calls \ {c}
               PROVE  Sound(call[t], docs', used, cats')
    OBVIOUS
  <2>1. call[t] \in CallRecord /\ Sound(call[t], docs, used, cats)
    BY DEF IInv, TypeOK
  <2>2. call[t].op \in Bulk =>
          \A n \in Names : call[t].counts[n] # None => cats'[n] # None
    BY <2>1 DEF Sound, Holds, CategoryFree, LocksCategory
  <2>3. \A d \in call[t].wrote : docs'[d] # None
    BY <2>1 DEF Sound, Holds
  <2> QED  BY <2>1, <2>2, <2>3, SoundFrame
<1>3. AllLate'
  BY DEF IInv, TypeOK, AllLate, At
<1> QED  BY <1>1, <1>2, <1>3, StepKeeps DEF IInv, TypeOK, Inserted

\* The same when the step is the last of its call.
LEMMA CategoriesEnd ==
  ASSUME IInv, NEW c \in Calls, NEW pc \in Ended, Ends(c, pc),
         call[c].op \notin Bulk,
         UNCHANGED <<docs, used, late>>, nextId' \in Nat,
         cats' \in [Names -> Category \cup {None}],
         \A n \in Names : cats[n] # None /\ cats'[n] = None => CategoryFree(c, n)
  PROVE  IInv'
<1> DEFINE me == [UnusedCall EXCEPT !.op = call[c].op, !.pc = pc]
<1>1. call' = [call EXCEPT ![c] = me]
  BY DEF Ends, Goes
<1>2. /\ me \in CallRecord /\ me.wrote = {} /\ me.pc = pc /\ me.op = call[c].op
      /\ Sound(me, docs, used, cats)
  BY EndedSound DEF IInv
<1> HIDE DEF me
<1>3. me.pc # "erase"
  BY <1>2 DEF Ended
<1> QED  BY <1>1, <1>2, <1>3, CategoriesStep

\* Writing a number as a count keeps the categories what they are.
LEMMA SetCountTypes ==
  ASSUME TypeOK, NEW n \in Names, NEW k \in Nat, SetCount(n, k)
  PROVE  /\ cats' \in [Names -> Category \cup {None}]
         /\ \A m \in Names : cats[m] # None => cats'[m] # None
<1>1. CASE cats[n] = None
  BY <1>1 DEF SetCount, TypeOK
<1>2. CASE cats[n] # None
  <2>1. [cats[n] EXCEPT !.count = k] \in Category
    BY <1>2 DEF TypeOK, Category
  <2>2. cats' = [cats EXCEPT ![n] = [cats[n] EXCEPT !.count = k]]
    BY <1>2 DEF SetCount
  <2> QED  BY <2>1, <2>2, NoneIsNothing DEF TypeOK
<1> QED  BY <1>1, <1>2

\* deleteDocument takes away a row no transaction holds.
LEMMA DeleteRowKeeps ==
  ASSUME IInv, NEW c \in Calls, DeleteRow(c)
  PROVE  IInv'
<1> DEFINE old == call[c]
           d   == old.ids[1]
           me  == [old EXCEPT !.pc = "count"]
<1>1. /\ old \in CallRecord /\ Sound(old, docs, used, cats)
      /\ old.op = "delete" /\ old.op \notin Bulk
      /\ docs' = [docs EXCEPT ![d] = None]
      /\ UNCHANGED <<used, cats, nextId, late>>
  BY DEF IInv, TypeOK, DeleteRow, At, Bulk
<1>2. call' = [call EXCEPT ![c] = me]
  BY DEF DeleteRow, Goes
<1>3. \A t \in Calls \ {c} : d \notin call[t].wrote
  BY DEF DeleteRow, DocFree, LocksDoc
<1> HIDE DEF d
<1>4. /\ docs' \in [Docs -> Names \cup {None}]
      /\ \A e \in Docs : docs'[e] = IF e = d THEN None ELSE docs[e]
  BY <1>1 DEF IInv, TypeOK
<1>5. /\ me \in CallRecord /\ me.pc = "count" /\ me.op = old.op
      /\ me.at = old.at /\ me.wrote = old.wrote /\ me.ok = old.ok
  BY <1>1 DEF CallRecord, Pcs
<1> HIDE DEF me
<1>6. me.wrote = {} /\ Sound(me, docs', used, cats')
  BY <1>1, <1>5 DEF Sound, Located, Holds, Reported, Pending
<1>7. \A t \in Calls \ {c} : Sound(call[t], docs', used, cats')
  <2> SUFFICES ASSUME NEW t \in Calls \ {c}
               PROVE  Sound(call[t], docs', used, cats')
    OBVIOUS
  <2>1. call[t] \in CallRecord /\ Sound(call[t], docs, used, cats)
    BY DEF IInv, TypeOK
  <2>2. \A e \in call[t].wrote : docs'[e] # None
    BY <1>3, <1>4, <2>1 DEF Sound, Holds, CallRecord
  <2>3. \A e \in used : docs[e] = None => docs'[e] = None
    BY <1>4 DEF IInv, TypeOK
  <2>4. call[t].op \in Bulk =>
          \A n \in Names : call[t].counts[n] # None => cats'[n] # None
    BY <1>1, <2>1 DEF Sound, Holds
  <2> QED  BY <1>1, <2>1, <2>2, <2>3, <2>4, SoundFrame
<1>8. \A e \in Docs : docs'[e] # None => e \in used
  BY <1>4 DEF IInv, Inserted
<1>9. AllLate'
  <2> SUFFICES ASSUME NEW t \in Calls, At(t, "remove", "erase")',
                      NEW e \in Docs, docs'[e] = call'[t].name
               PROVE  t \in late'[e]
    BY DEF AllLate
  <2>1. t # c /\ call'[t] = call[t] /\ At(t, "remove", "erase")
    BY <1>1, <1>2, <1>5 DEF At, IInv, TypeOK
  <2>2. docs[e] = call[t].name
    BY <1>4, <2>1, NoneIsNothing DEF IInv, TypeOK, CallRecord
  <2> QED  BY <1>1, <2>1, <2>2 DEF IInv, AllLate
<1>10. cats' \in [Names -> Category \cup {None}] /\ nextId' \in Nat
       /\ late' \in [Docs -> SUBSET Calls] /\ UNCHANGED used
       /\ \A t \in Calls \ {c} : me.wrote \cap call[t].wrote = {}
  BY <1>1, <1>6 DEF IInv, TypeOK
<1> QED  BY <1>2, <1>4, <1>5, <1>6, <1>7, <1>8, <1>9, <1>10, StepKeeps

\* updateCategoryDocumentCount reads a number ...
LEMMA DeleteCountKeeps ==
  ASSUME IInv, NEW c \in Calls, DeleteCount(c)
  PROVE  IInv'
<1> DEFINE old   == call[c]
           value == DocumentsByCategory[old.name]
           me    == [old EXCEPT !.pc = "update", !.value = value]
<1>1. /\ old \in CallRecord /\ Sound(old, docs, used, cats)
      /\ old.op = "delete" /\ old.op \notin Bulk
      /\ UNCHANGED <<docs, used, cats, nextId, late>>
  BY DEF IInv, TypeOK, DeleteCount, At, Bulk
<1>2. call' = [call EXCEPT ![c] = me]
  BY DEF DeleteCount, Goes
<1>3. value \in Nat
  BY <1>1, ByCategoryTyped DEF CallRecord
<1> HIDE DEF value
<1>4. /\ me \in CallRecord /\ me.pc = "update" /\ me.op = old.op
      /\ me.at = old.at /\ me.wrote = old.wrote /\ me.ok = old.ok
  BY <1>1, <1>3 DEF CallRecord, Pcs
<1> HIDE DEF me
<1>5. Sound(me, docs, used, cats)
  BY <1>1, <1>4 DEF Sound, Located, Holds, Reported, Pending
<1> QED  BY <1>1, <1>2, <1>4, <1>5, QuietStep

\* ... and writes it.
LEMMA DeleteUpdateKeeps ==
  ASSUME IInv, NEW c \in Calls, DeleteUpdate(c)
  PROVE  IInv'
<1>1. /\ Ends(c, "done") /\ "done" \in Ended /\ call[c].op \notin Bulk
      /\ UNCHANGED <<docs, used, nextId, late>> /\ nextId' \in Nat
      /\ SetCount(call[c].name, call[c].value)
      /\ call[c].name \in Names /\ call[c].value \in Nat
  BY DEF DeleteUpdate, At, Ended, Bulk, IInv, TypeOK, CallRecord
<1>2. /\ cats' \in [Names -> Category \cup {None}]
      /\ \A m \in Names : cats[m] # None => cats'[m] # None
  BY <1>1, SetCountTypes DEF IInv
<1> QED  BY <1>1, <1>2, CategoriesEnd

\* createCategory adds a row where there is none.
LEMMA CreateKeeps ==
  ASSUME IInv, NEW c \in Calls, Create(c)
  PROVE  IInv'
<1> DEFINE n == call[c].name
<1>1. /\ call[c].op \notin Bulk /\ n \in Names /\ UNCHANGED <<docs, used, late>>
      /\ "done" \in Ended /\ "rejected" \in Ended
  BY DEF Create, At, Ended, Bulk, IInv, TypeOK, CallRecord
<1>2. CASE cats[n] = None
  <2>1. [id |-> nextId, count |-> 0] \in Category /\ nextId + 1 \in Nat
    BY DEF Category, IInv, TypeOK
  <2>2. /\ cats' = [cats EXCEPT ![n] = [id |-> nextId, count |-> 0]]
        /\ nextId' = nextId + 1 /\ Ends(c, "done")
    BY <1>2 DEF Create
  <2>3. /\ cats' \in [Names -> Category \cup {None}] /\ nextId' \in Nat
        /\ \A m \in Names : cats[m] # None => cats'[m] # None
    BY <2>1, <2>2, NoneIsNothing DEF IInv, TypeOK
  <2> QED  BY <1>1, <2>2, <2>3, CategoriesEnd
<1>3. CASE cats[n] # None
  <2>1. Ends(c, "rejected") /\ UNCHANGED <<cats, nextId>>
    BY <1>3 DEF Create
  <2> QED  BY <1>1, <2>1, EndsQuietly
<1> QED  BY <1>2, <1>3

\* listCategories counts a category ...
LEMMA ListCountKeeps ==
  ASSUME IInv, NEW c \in Calls, NEW n \in Names, ListCount(c, n)
  PROVE  IInv'
<1> DEFINE old == call[c]
           k   == DocumentsByCategory[n]
<1>1. /\ old \in CallRecord /\ Sound(old, docs, used, cats)
      /\ old.op = "list" /\ old.op \notin Bulk
      /\ UNCHANGED <<docs, used, cats, nextId, late>>
  BY DEF IInv, TypeOK, ListCount, At, Bulk
<1>2. k \in Nat
  BY ByCategoryTyped
<1>3. PICK me \in CallRecord :
        /\ call' = [call EXCEPT ![c] = me]
        /\ me.pc = old.pc /\ me.op = old.op
        /\ me.at = old.at /\ me.wrote = old.wrote /\ me.ok = old.ok
  <2>1. CASE k = old.seen[n].count
    <3> DEFINE me == [old EXCEPT !.seen[n] = None]
    <3>1. call' = [call EXCEPT ![c] = me]
      BY <2>1 DEF ListCount, Goes
    <3>2. [old.seen EXCEPT ![n] = None] \in [Names -> Category \cup {None}]
      BY <1>1 DEF CallRecord
    <3>3. me \in CallRecord
      BY <1>1, <3>2 DEF CallRecord
    <3> QED  BY <1>1, <3>1, <3>3 DEF CallRecord
  <2>2. CASE k # old.seen[n].count
    <3> DEFINE me == [old EXCEPT !.counts[n] = k]
    <3>1. call' = [call EXCEPT ![c] = me]
      BY <2>2 DEF ListCount, Goes
    <3> HIDE DEF k
    <3>2. [old.counts EXCEPT ![n] = k] \in [Names -> Nat \cup {None}]
      BY <1>1, <1>2 DEF CallRecord
    <3>3. me \in CallRecord
      BY <1>1, <3>2 DEF CallRecord
    <3> QED  BY <1>1, <3>1, <3>3 DEF CallRecord
  <2> QED  BY <2>1, <2>2
<1>4. Sound(me, docs, used, cats)
  BY <1>1, <1>3 DEF Sound, Located, Holds, Reported, Pending
<1>5. me.op # "remove"
  BY <1>1, <1>3
<1> QED  BY <1>1, <1>3, <1>4, <1>5, QuietStep

\* ... and corrects the row it read, if that is still the one of the name.
LEMMA ListWriteKeeps ==
  ASSUME IInv, NEW c \in Calls, NEW n \in Names, ListWrite(c, n)
  PROVE  IInv'
<1> DEFINE old == call[c]
           me  == [old EXCEPT !.seen[n] = None]
<1>1. /\ old \in CallRecord /\ Sound(old, docs, used, cats)
      /\ old.op = "list" /\ old.op \notin Bulk /\ old.counts[n] \in Nat
      /\ UNCHANGED <<docs, used, late>> /\ nextId' \in Nat
  BY DEF IInv, TypeOK, CallRecord, ListWrite, At, Bulk
<1>2. /\ cats' \in [Names -> Category \cup {None}]
      /\ \A m \in Names : cats[m] # None => cats'[m] # None
  <2>1. SetCount(n, old.counts[n]) \/ UNCHANGED cats
    BY DEF ListWrite
  <2> QED  BY <1>1, <2>1, SetCountTypes DEF IInv, TypeOK
<1>3. call' = [call EXCEPT ![c] = me]
  BY DEF ListWrite, Goes
<1>4. [old.seen EXCEPT ![n] = None] \in [Names -> Category \cup {None}]
  BY <1>1 DEF CallRecord
<1>5. /\ me \in CallRecord /\ me.pc = old.pc /\ me.op = old.op
      /\ me.at = old.at /\ me.wrote = old.wrote /\ me.ok = old.ok
  BY <1>1, <1>4 DEF CallRecord
<1> HIDE DEF me
<1>6. me.wrote = {} /\ Sound(me, docs, used, cats) /\ me.op # "remove"
  BY <1>1, <1>5 DEF Sound, Located, Holds, Reported, Pending
<1> QED  BY <1>1, <1>2, <1>3, <1>5, <1>6, CategoriesStep

\* deleteCategory goes on only if nothing is in the category: nothing is late
\* yet because nothing is there.
LEMMA RemoveCountKeeps ==
  ASSUME IInv, NEW c \in Calls, RemoveCount(c)
  PROVE  IInv'
<1> DEFINE old == call[c]
           me  == [old EXCEPT !.pc = "erase"]
<1>1. /\ old \in CallRecord /\ Sound(old, docs, used, cats)
      /\ old.op = "remove" /\ old.op \notin Bulk /\ old.name \in Names
      /\ UNCHANGED <<docs, used, cats, nextId, late>>
  BY DEF IInv, TypeOK, CallRecord, RemoveCount, At, Bulk
<1>2. CASE DocumentsByCategory[old.name] > 0
  BY <1>1, <1>2, EndsQuietly DEF RemoveCount, Ended
<1>3. CASE ~(DocumentsByCategory[old.name] > 0)
  <2>1. call' = [call EXCEPT ![c] = me]
    BY <1>3 DEF RemoveCount, Goes
  <2>2. /\ me \in CallRecord /\ me.op = old.op /\ me.pc = "erase"
        /\ me.name = old.name
        /\ me.at = old.at /\ me.wrote = old.wrote /\ me.ok = old.ok
    BY <1>1 DEF CallRecord, Pcs
  <2> HIDE DEF me
  <2>3. me.wrote = {} /\ Sound(me, docs, used, cats)
    BY <1>1, <2>2 DEF Sound, Located, Holds, Reported, Pending
  <2>4. ListDocuments(old.name) = {}
    <3>1. Cardinality(ListDocuments(old.name)) = 0
      BY <1>1, <1>3, ByCategoryTyped
    <3>2. IsFiniteSet(ListDocuments(old.name))
      BY BoundsAssumption, FS_Subset DEF ListDocuments
    <3> QED  BY <3>1, <3>2, FS_EmptySet
  <2>5. AllLate'
    <3> SUFFICES ASSUME NEW t \in Calls, At(t, "remove", "erase")',
                        NEW d \in Docs, docs'[d] = call'[t].name
                 PROVE  t \in late'[d]
      BY DEF AllLate
    <3>1. CASE t = c
      BY <1>1, <2>1, <2>2, <2>4, <3>1 DEF ListDocuments, IInv, TypeOK
    <3>2. CASE t # c
      BY <1>1, <2>1, <3>2 DEF At, IInv, TypeOK, AllLate
    <3> QED  BY <3>1, <3>2
  <2>6. /\ \A t \in Calls \ {c} : Sound(call[t], docs', used, cats')
        /\ \A t \in Calls \ {c} : me.wrote \cap call[t].wrote = {}
        /\ Sound(me, docs', used, cats')
    BY <1>1, <2>3 DEF IInv
  <2> QED  BY <1>1, <2>1, <2>2, <2>5, <2>6, StepKeeps DEF IInv, TypeOK, Inserted
<1> QED  BY <1>2, <1>3

\* A category row is erased only while no transaction has it locked.
LEMMA EraseKeeps ==
  ASSUME IInv, NEW c \in Calls, Erase(c)
  PROVE  IInv'
<1> DEFINE n     == call[c].name
           there == cats[n] # None /\ cats[n].id = call[c].id
           pc    == IF there THEN "done" ELSE "rejected"
<1>1. /\ Ends(c, pc) /\ pc \in Ended /\ call[c].op \notin Bulk /\ n \in Names
      /\ UNCHANGED <<docs, used, nextId, late>> /\ nextId' \in Nat
      /\ there => CategoryFree(c, n)
      /\ cats' = IF there THEN [cats EXCEPT ![n] = None] ELSE cats
  BY DEF Erase, At, Ended, Bulk, IInv, TypeOK, CallRecord
<1> HIDE DEF pc, there
<1>2. /\ cats' \in [Names -> Category \cup {None}]
      /\ \A m \in Names : cats[m] # None /\ cats'[m] = None => CategoryFree(c, m)
  BY <1>1 DEF IInv, TypeOK
<1> QED  BY <1>1, <1>2, CategoriesEnd

-----------------------------------------------------------------------------
\* Every step.

\* A worker's document is new, so nobody has written or missed it; whoever is
\* deleting its category is noted.
LEMMA IngestKeeps ==
  ASSUME IInv, NEW d \in Docs, NEW n \in Names, Ingest(d, n)
  PROVE  IInv'
<1>1. /\ d \notin used /\ docs' = [docs EXCEPT ![d] = n]
      /\ used' = used \cup {d} /\ late' = [late EXCEPT ![d] = Erasing(n)]
      /\ UNCHANGED <<cats, nextId, call>>
  BY DEF Ingest
<1>2. n # None
  BY NoneIsNothing
<1>3. TypeOK'
  <2>1. Erasing(n) \subseteq Calls
    BY DEF Erasing
  <2> QED  BY <1>1, <2>1 DEF IInv, TypeOK
<1>4. \A c \in Calls : Sound(call[c], docs, used, cats)'
  <2> SUFFICES ASSUME NEW c \in Calls
               PROVE  Sound(call[c], docs', used', cats')
    BY <1>1
  <2>1. call[c] \in CallRecord /\ Sound(call[c], docs, used, cats)
    BY DEF IInv, TypeOK
  <2>2. \A e \in call[c].wrote : docs'[e] # None
    BY <1>1, <1>2, <2>1 DEF IInv, TypeOK, Sound, Holds
  <2>3. \A e \in used : docs[e] = None => docs'[e] = None
    BY <1>1 DEF IInv, TypeOK
  <2>4. call[c].op \in Bulk =>
          \A m \in Names : call[c].counts[m] # None => cats'[m] # None
    BY <1>1, <2>1 DEF Sound, Holds
  <2>5. used \subseteq used'
    BY <1>1
  <2> QED  BY <2>1, <2>2, <2>3, <2>4, <2>5, SoundFrame
<1>5. Exclusive' /\ Inserted'
  BY <1>1 DEF IInv, TypeOK, Exclusive, Inserted
<1>6. AllLate'
  <2> SUFFICES ASSUME NEW c \in Calls, At(c, "remove", "erase"),
                      NEW e \in Docs, docs'[e] = call[c].name
               PROVE  c \in late'[e]
    BY <1>1 DEF AllLate, At
  <2>1. CASE e = d
    BY <1>1, <2>1 DEF Erasing, IInv, TypeOK
  <2>2. CASE e # d
    BY <1>1, <2>2 DEF IInv, TypeOK, AllLate
  <2> QED  BY <2>1, <2>2
<1> QED  BY <1>3, <1>4, <1>5, <1>6 DEF IInv

\* A statement that fails is caught, or ends its call.
LEMMA FailsKeeps ==
  ASSUME IInv, NEW c \in Calls, Fails(c)
  PROVE  IInv'
<1>1. "rejected" \in Ended
  BY DEF Ended
<1>2. CASE Caught(c)
  BY <1>2, CaughtKeeps
<1>3. CASE Thrown(c)
  BY <1>3, ThrownKeeps
<1>4. CASE Ends(c, "rejected") /\ UNCHANGED <<docs, used, cats, nextId, late>>
  BY <1>1, <1>4, EndsQuietly
<1> QED  BY <1>2, <1>3, <1>4 DEF Fails

\* Every step of the knowledge base keeps the inductive invariant.
LEMMA NextIInv == IInv /\ [Next]_vars => IInv'
<1> SUFFICES ASSUME IInv, [Next]_vars  PROVE IInv'
  OBVIOUS
<1>1. ASSUME NEW c \in Calls, Start(c)  PROVE IInv'
  BY <1>1, StartBulkKeeps, StartOthersKeep, Zenon DEF Start
<1>2. ASSUME NEW c \in Calls, BulkStep(c)  PROVE IInv'
  BY <1>2, ValidateKeeps, FindKeeps, WriteKeeps, CountKeeps, UpdateKeeps,
     CommitKeeps, CaughtKeeps, ThrownKeeps DEF BulkStep, Transaction, Refused
<1>3. ASSUME NEW c \in Calls, DeleteStep(c)  PROVE IInv'
  BY <1>3, DeleteRowKeeps, DeleteCountKeeps, DeleteUpdateKeeps DEF DeleteStep
<1>4. ASSUME NEW c \in Calls, CategoryStep(c)  PROVE IInv'
  <2>1. CASE ListDone(c)
    BY <2>1, EndsQuietly DEF ListDone, Ended
  <2>2. ASSUME NEW n \in Names, ListCount(c, n) \/ ListWrite(c, n)  PROVE IInv'
    BY <2>2, ListCountKeeps, ListWriteKeeps
  <2> QED  BY <1>4, <2>1, <2>2, CreateKeeps, RemoveCountKeeps, EraseKeeps
           DEF CategoryStep, ListStep
<1>5. ASSUME NEW c \in Calls, Fails(c)  PROVE IInv'
  BY <1>5, FailsKeeps
<1>6. ASSUME NEW d \in Docs, NEW n \in Names, Ingest(d, n)  PROVE IInv'
  BY <1>6, IngestKeeps
<1>7. CASE UNCHANGED vars
  BY <1>7 DEF vars, IInv, TypeOK, Exclusive, Inserted, AllLate, At
<1> QED  BY <1>1, <1>2, <1>3, <1>4, <1>5, <1>6, <1>7 DEF Next, Step

\* The inductive invariant holds throughout.
THEOREM Invariance == Spec => []IInv
BY InitIInv, NextIInv, PTL DEF Spec

\* Documents, categories and every call's locals are always typed; so a commit
\* never writes the count of a category that is no longer there.
THEOREM TypeCorrect == Spec => []TypeOK
BY Invariance, PTL DEF IInv

-----------------------------------------------------------------------------
\* What bulk calls report.

\* A call goes on by itself: a step of one leaves the others where they are.
LEMMA OthersStay ==
  ASSUME TypeOK, NEW c \in Calls, Start(c) \/ Step(c) \/ Fails(c)
  PROVE  \A t \in Calls \ {c} : call'[t] = call[t]
<1>1. ASSUME NEW me, Goes(c, me)  PROVE \A t \in Calls \ {c} : call'[t] = call[t]
  BY <1>1 DEF Goes, TypeOK
<1>2. ASSUME NEW pc, Ends(c, pc)  PROVE \A t \in Calls \ {c} : call'[t] = call[t]
  BY <1>1, <1>2 DEF Ends
<1>3. CASE Start(c)
  BY <1>1, <1>3, Zenon
     DEF Start, Starts, StartBulk, StartDelete, StartList, StartCreate, StartRemove
<1>4. CASE Caught(c) \/ Thrown(c)
  BY <1>1, <1>2, <1>4, Zenon DEF Caught, Thrown
<1>5. CASE BulkStep(c)
  <2>1. CASE Validate(c)
    BY <1>1, <1>2, <2>1, Zenon DEF Validate
  <2>2. CASE Find(c)
    BY <1>1, <2>2, Zenon DEF Find
  <2>3. CASE Write(c) \/ Count(c) \/ Update(c) \/ Commit(c)
    BY <1>1, <1>2, <2>3, Zenon DEF Write, Count, Update, Commit
  <2> QED  BY <1>4, <1>5, <2>1, <2>2, <2>3 DEF BulkStep, Transaction, Refused
<1>6. CASE DeleteStep(c)
  BY <1>1, <1>2, <1>6, Zenon DEF DeleteStep, DeleteRow, DeleteCount, DeleteUpdate
<1>7. CASE CategoryStep(c)
  <2>1. CASE Create(c) \/ RemoveCount(c) \/ Erase(c) \/ ListDone(c)
    BY <1>1, <1>2, <2>1, Zenon DEF Create, RemoveCount, Erase, ListDone
  <2>2. ASSUME NEW n \in Names, ListCount(c, n) \/ ListWrite(c, n)
        PROVE  \A t \in Calls \ {c} : call'[t] = call[t]
    BY <1>1, <2>2, Zenon DEF ListCount, ListWrite
  <2> QED  BY <1>7, <2>1, <2>2 DEF CategoryStep, ListStep
<1>8. CASE Fails(c)
  BY <1>2, <1>4, <1>8, Zenon DEF Fails
<1> QED  BY <1>3, <1>5, <1>6, <1>7, <1>8 DEF Step

\* Where a call is after a step that goes somewhere, or ends it.
LEMMA WhereNext ==
  ASSUME TypeOK, NEW c \in Calls
  PROVE  /\ \A me : Goes(c, me) => call'[c] = me
         /\ \A pc : Ends(c, pc) => call'[c].pc = pc
<1>1. ASSUME NEW me, Goes(c, me)  PROVE call'[c] = me
  BY <1>1 DEF Goes, TypeOK
<1>2. ASSUME NEW pc, Ends(c, pc)  PROVE call'[c].pc = pc
  <2>1. call'[c] = [UnusedCall EXCEPT !.op = call[c].op, !.pc = pc]
    BY <1>1, <1>2 DEF Ends
  <2>2. [UnusedCall EXCEPT !.op = call[c].op, !.pc = pc].pc = pc
    BY UnusedTyped DEF CallRecord
  <2> QED  BY <2>1, <2>2
<1> QED  BY <1>1, <1>2

\* The start of a call touches no document and answers nothing.
LEMMA StartTouchesNothing ==
  ASSUME TypeOK, NEW c \in Calls, Start(c)
  PROVE  UNCHANGED docs /\ call'[c].pc # "done"
<1>1. UNCHANGED docs
  BY <1>1 DEF Start, StartBulk, StartDelete, StartList, StartCreate, StartRemove
<1>2. call'[c].pc # "done"
  <2>1. ASSUME NEW op \in Bulk, NEW s \in Requests, NEW n \in Names,
               NEW command \in BOOLEAN, StartBulk(c, op, s, n, command)
        PROVE  call'[c].pc # "done"
    <3> DEFINE bad == command /\ \/ HasDuplicates(s)
                                 \/ op = "bulkReassign" /\ cats[n] = None
               me  == [UnusedCall EXCEPT
                 !.op = op, !.ids = s, !.name = n, !.command = command,
                 !.pc = IF command THEN "validate" ELSE "find",
                 !.affected = IF op = "bulkReassign" THEN <<n>> ELSE <<>>,
                 !.invalid = bad]
    <3>1. call'[c] = me
      BY <2>1, WhereNext DEF StartBulk, Starts
    <3> HIDE DEF bad
    <3>2. me.pc \in {"validate", "find"}
      BY UnusedTyped DEF CallRecord
    <3> QED  BY <3>1, <3>2
  <2>2. ASSUME NEW d \in Docs, StartDelete(c, d)  PROVE call'[c].pc # "done"
    BY <2>2, WhereNext, UnusedTyped DEF StartDelete, Starts, CallRecord
  <2>3. ASSUME StartList(c)  PROVE call'[c].pc # "done"
    BY <2>3, WhereNext, UnusedTyped DEF StartList, Starts, CallRecord
  <2>4. ASSUME NEW n \in Names, StartCreate(c, n)  PROVE call'[c].pc # "done"
    BY <2>4, WhereNext, UnusedTyped DEF StartCreate, Starts, CallRecord
  <2>5. ASSUME NEW n \in Names, StartRemove(c, n)  PROVE call'[c].pc # "done"
    BY <2>5, WhereNext, UnusedTyped DEF StartRemove, Starts, CallRecord
  <2> QED  BY <2>1, <2>2, <2>3, <2>4, <2>5 DEF Start
<1> QED  BY <1>1, <1>2

\* A bulk call ends by its COMMIT, or is rejected and touches nothing.
LEMMA BulkEnds ==
  ASSUME IInv, [Next]_vars, NEW c \in Calls, call[c].op \in Bulk,
         call[c].pc # call'[c].pc, call'[c].pc \in Ended
  PROVE  Commit(c) \/ (UNCHANGED docs /\ call'[c].pc # "done")
<1>1. TypeOK /\ call[c] \in CallRecord
  BY DEF IInv, TypeOK
<1>2. CASE UNCHANGED call
  BY <1>2
<1>3. ASSUME NEW t \in Calls, Start(t) \/ Step(t) \/ Fails(t)  PROVE t = c
  BY <1>1, <1>3, OthersStay
<1>4. CASE Start(c)
  BY <1>1, <1>4, StartTouchesNothing
<1>5. CASE Caught(c) \/ Thrown(c)
  <2>1. UNCHANGED docs
    BY <1>5 DEF Caught, Thrown
  <2>2. Caught(c) => call'[c].pc = "find"
    BY <1>1, WhereNext DEF Caught, CallRecord
  <2>3. Thrown(c) => call'[c].pc = "rejected"
    BY <1>1, WhereNext DEF Thrown
  <2> QED  BY <1>5, <2>1, <2>2, <2>3
<1>6. CASE BulkStep(c)
  <2>1. CASE Validate(c)
    <3>1. UNCHANGED docs
      BY <2>1 DEF Validate
    <3> DEFINE old     == call[c]
               invalid == old.invalid \/ docs[old.ids[old.at]] = None
               next    == [old EXCEPT !.at = @ + 1, !.invalid = invalid]
    <3>2. \/ call'[c] = next
          \/ call'[c] = [old EXCEPT !.at = 1, !.pc = "find"]
          \/ call'[c].pc = "rejected"
      BY <1>1, <2>1, WhereNext DEF Validate
    <3> HIDE DEF invalid
    <3>3. next.pc = old.pc /\ [old EXCEPT !.at = 1, !.pc = "find"].pc = "find"
      BY <1>1 DEF CallRecord
    <3> HIDE DEF next
    <3> QED  BY <3>1, <3>2, <3>3 DEF Ended
  <2>2. CASE Find(c)
    <3>1. UNCHANGED docs
      BY <2>2 DEF Find
    <3>2. call'[c].pc \in {"find", "write"}
      BY <1>1, <2>2, WhereNext DEF Find, InLoop, InBulk, CallRecord
    <3> QED  BY <3>1, <3>2
  <2>3. CASE Write(c) \/ Count(c) \/ Update(c)
    <3>1. UNCHANGED docs
      BY <2>3 DEF Write, Count, Update
    <3>2. call'[c].pc \in {"find", "update"}
      BY <1>1, <2>3, WhereNext DEF Write, Count, Update, CallRecord
    <3> QED  BY <3>1, <3>2
  <2> QED  BY <1>5, <1>6, <2>1, <2>2, <2>3 DEF BulkStep, Transaction, Refused
<1>7. ~DeleteStep(c) /\ ~CategoryStep(c)
  BY DEF DeleteStep, DeleteRow, DeleteCount, DeleteUpdate, CategoryStep, Create,
         ListStep, ListDone, ListCount, ListWrite, RemoveCount, Erase, At, Bulk
<1>8. CASE Fails(c)
  <2>1. CASE Ends(c, "rejected") /\ UNCHANGED <<docs, used, cats, nextId, late>>
    BY <1>1, <2>1, WhereNext
  <2> QED  BY <1>5, <1>8, <2>1 DEF Fails
<1>9. ASSUME NEW d \in Docs, NEW n \in Names, Ingest(d, n)  PROVE FALSE
  BY <1>2, <1>9 DEF Ingest
<1>10. CASE UNCHANGED vars
  BY <1>2, <1>10 DEF vars
<1> QED  BY <1>3, <1>4, <1>6, <1>7, <1>8, <1>9, <1>10 DEF Next, Step

\* What a commit leaves behind is what its call reports.
LEMMA CommitReports ==
  ASSUME IInv, NEW c \in Calls, Commit(c)
  PROVE  /\ call'[c].pc = "done"
         /\ \A d \in Docs : docs'[d] # docs[d] => d \in call[c].ok
         /\ ~(call[c].command /\ call[c].op = "bulkReassign") =>
              \A d \in call[c].ok : docs'[d] \in {None, Written(c)}
<1>1. /\ call[c] \in CallRecord /\ Sound(call[c], docs, used, cats)
      /\ call[c].op \in Bulk /\ call[c].affected = <<>>
  BY DEF IInv, TypeOK, Commit, PastLoop, InBulk
<1>2. call'[c].pc = "done"
  BY WhereNext DEF Commit, IInv
<1>3. CASE call[c].aborted
  <2>1. UNCHANGED docs
    BY <1>3 DEF Commit
  <2>2. call[c].ok = {}
    BY <1>1, <1>3 DEF Sound, Pending
  <2> QED  BY <1>2, <2>1, <2>2
<1>4. CASE ~call[c].aborted
  <2>1. /\ \A d \in Docs \ call[c].wrote : docs'[d] = docs[d]
        /\ \A d \in call[c].wrote : docs'[d] = Written(c)
    BY <1>1, <1>4, ApplyRows DEF Commit
  <2>2. call[c].wrote \subseteq call[c].ok
    BY <1>1 DEF Sound, Holds
  <2>3. ASSUME ~(call[c].command /\ call[c].op = "bulkReassign"),
               NEW d \in call[c].ok
        PROVE  docs'[d] \in {None, Written(c)}
    <3>1. d \in Docs /\ (d \in call[c].wrote \/ docs[d] = None)
      BY <1>1, <1>4, <2>3 DEF Sound, Reported, CallRecord
    <3> QED  BY <2>1, <3>1
  <2> QED  BY <1>2, <2>1, <2>2, <2>3
<1> QED  BY <1>3, <1>4

\* A bulk request that is answered has done what it reports, although it goes
\* on after errors that have undone its work; a rejected one has touched
\* nothing.
THEOREM ReportsTrue == Spec => ReportsAreTrue
<1>1. ASSUME IInv, [Next]_vars, NEW c \in Calls, call[c].op \in Bulk,
             call[c].pc # call'[c].pc, call'[c].pc \in Ended
      PROVE  /\ \A d \in Docs : docs'[d] # docs[d] =>
                  call'[c].pc = "done" /\ d \in call[c].ok
             /\ call'[c].pc = "done"
                  /\ ~(call[c].command /\ call[c].op = "bulkReassign")
                  => \A d \in call[c].ok : docs'[d] \in {None, Written(c)}
  <2>1. CASE Commit(c)
    BY <1>1, <2>1, CommitReports
  <2>2. CASE UNCHANGED docs /\ call'[c].pc # "done"
    BY <2>2
  <2> QED  BY <1>1, <2>1, <2>2, BulkEnds
<1>2. IInv /\ [Next]_vars =>
        [\A c \in Calls :
           call[c].op \in Bulk /\ call[c].pc # call'[c].pc /\ call'[c].pc \in Ended =>
             /\ \A d \in Docs : docs'[d] # docs[d] =>
                  call'[c].pc = "done" /\ d \in call[c].ok
             /\ call'[c].pc = "done" /\ ~(call[c].command /\ call[c].op = "bulkReassign")
                  => \A d \in call[c].ok : docs'[d] \in {None, Written(c)}]_vars
  BY <1>1
<1> QED  BY <1>2, Invariance, PTL DEF Spec, ReportsAreTrue

\* A category is deleted under documents only if they came into it after
\* deleteCategory had counted.
THEOREM OnlyLateOnes == Spec => OnlyLateDocumentsAreOrphaned
<1>1. IInv /\ [Next]_vars =>
        [\A n \in Names, c \in Calls :
           At(c, "remove", "erase") /\ call'[c].pc = "done" /\ call[c].name = n =>
             \A d \in ListDocuments(n) : c \in late[d]]_vars
  BY DEF IInv, AllLate, ListDocuments
<1> QED  BY <1>1, Invariance, PTL DEF Spec, OnlyLateDocumentsAreOrphaned
=============================================================================
