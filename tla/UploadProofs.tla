---------------------------- MODULE UploadProofs ----------------------------
(***************************************************************************)
(* Proofs about Chunking and Upload, for any texts, sizes and processes.    *)
(* What the chunker has built covers the paragraphs it has passed: Step     *)
(* keeps that, so a finished text is covered by its result, and the stored  *)
(* chunks are always the result of a finished text.                         *)
(***************************************************************************)
EXTENDS Upload, FiniteSetTheorems, TLAPS

\* The chunker is at a paragraph of its text, and its chunks with the one that is
\* open cover the paragraphs before it.
Progress(c) ==
  /\ c \in Chunker
  /\ c.next \in 1 .. Len(c.text) + 1
  /\ \A i \in 1 .. Len(c.chunks) :
       /\ Fits(c.chunks[i])
       /\ c.chunks[i].first = IF i = 1 THEN 1 ELSE c.chunks[i - 1].last + 1
  /\ c.open = NoChunk => c.next = 1 /\ c.chunks = <<>>
  /\ c.open # NoChunk =>
       /\ Fits(c.open) /\ c.open.last = c.next - 1
       /\ c.open.first = IF c.chunks = <<>> THEN 1 ELSE c.chunks[Len(c.chunks)].last + 1

\* A text begins with nothing covered.
LEMMA BeganProgress ==
  ASSUME NEW text \in Seq(Paragraphs)
  PROVE  Progress(Began(text)) /\ Began(text).text = text
<1>1. Began(text) \in Chunker /\ Began(text).chunks = <<>> /\ Began(text).open = NoChunk
  BY DEF Began, Chunker
<1> QED  BY <1>1 DEF Progress, Began

\* The chunk that the next paragraph begins or lengthens.
LEMMA OpenedFits ==
  ASSUME NEW c, Progress(c), ~AtEnd(c)
  PROVE  /\ Step(c).open \in Chunk
         /\ Fits(Step(c).open)
         /\ Step(c).open.last = c.next
         /\ Step(c).open.first =
              IF c.open = NoChunk \/ Exceeds(c, c.next) THEN c.next ELSE c.open.first
<1> DEFINE p == c.next
<1>1. /\ p \in 1 .. Len(c.text) /\ c.text \in Seq(Nat \ {0})
      /\ c.open \in Chunk \cup {NoChunk}
  BY DEF Progress, AtEnd, Chunker, Paragraphs
<1>2. c.text[p] \in Nat \ {0}
  BY <1>1
<1>3. Step(c).open = IF Exceeds(c, p) THEN Overlapping(c, p)
                     ELSE IF c.open = NoChunk THEN First(c, p) ELSE Longer(c, p)
  BY DEF Step, Progress, Chunker
<1>4. CASE Exceeds(c, p)
  <2>1. c.open \in Chunk
    BY <1>1, <1>4 DEF Exceeds
  <2> DEFINE all == (IF c.open.size <= Overlap THEN c.open.size ELSE Decoded)
                      + Separator + c.text[p]
  <2>2. all \in Nat
    BY <1>2, <2>1, SizesAssumption DEF Chunk
  <2>3. /\ Overlapping(c, p) \in Chunk
        /\ Overlapping(c, p).first = p /\ Overlapping(c, p).last = p
        /\ Overlapping(c, p).tokens = all /\ Overlapping(c, p).size = all
    <3> HIDE DEF all
    <3>1. \E head \in Heads :
            Overlapping(c, p) = [first |-> p, last |-> p, head |-> head,
                                 tokens |-> all, size |-> all]
      BY DEF Overlapping, Heads, all
    <3> QED  BY <1>1, <2>2, <3>1 DEF Chunk
  <2> HIDE DEF all
  <2>4. Separator * (p - p) = 0
    BY <1>1, SizesAssumption
  <2> QED  BY <1>1, <1>3, <1>4, <2>2, <2>3, <2>4 DEF Fits
<1>5. CASE ~Exceeds(c, p) /\ c.open = NoChunk
  <2>1. First(c, p) \in Chunk
    BY <1>1, <1>2 DEF First, Chunk, Heads
  <2>2. Separator * (p - p) = 0
    BY <1>1, SizesAssumption
  <2> QED  BY <1>1, <1>2, <1>3, <1>5, <2>1, <2>2 DEF First, Fits
<1>6. CASE ~Exceeds(c, p) /\ c.open # NoChunk
  <2> DEFINE h == c.open
  <2>1. h \in Chunk /\ Fits(h) /\ h.last = p - 1
    BY <1>1, <1>6 DEF Progress
  <2>2. h.tokens + c.text[p] <= MaxTokens
    BY <1>2, <1>6, <2>1, SizesAssumption DEF Exceeds, Chunk
  <2> DEFINE g == Longer(c, p)
             old == Separator * (h.last - h.first)
             new == Separator * (g.last - g.first)
  <2>3. /\ g \in Chunk /\ g.first = h.first /\ g.last = p
        /\ g.tokens = h.tokens + c.text[p]
        /\ g.size = h.size + Separator + c.text[p]
    <3> DEFINE t == h.tokens + c.text[p]
               z == h.size + Separator + c.text[p]
    <3>1. g = [h EXCEPT !.last = p, !.tokens = @ + c.text[p],
                        !.size = @ + Separator + c.text[p]]
      BY DEF Longer
    <3>2. h \in [first : Nat, last : Nat, head : Heads, tokens : Nat, size : Nat]
      BY <2>1 DEF Chunk
    <3>3. p \in Nat
      BY <1>1
    <3> HIDE DEF g, h
    <3>4. t \in Nat /\ z \in Nat
      BY <1>2, <3>2, SizesAssumption
    <3>5. g.first = h.first /\ g.last = p /\ g.tokens = t /\ g.size = z
      BY <3>1, <3>2
    <3> HIDE DEF t, z
    <3>6. g \in [first : Nat, last : Nat, head : Heads, tokens : Nat, size : Nat]
      BY <3>1, <3>2, <3>3, <3>4, <3>5
    <3> QED  BY <3>5, <3>6 DEF Chunk, t, z
  <2>4. old \in Int /\ new = old + Separator
    <3>1. h.last \in Nat /\ h.first \in Nat /\ p = h.last + 1
      BY <1>1, <2>1 DEF Chunk
    <3>2. ASSUME NEW s \in Nat, NEW x \in Int PROVE s * (x + 1) = s * x + s
      OBVIOUS
    <3>3. p - h.first = (h.last - h.first) + 1 /\ h.last - h.first \in Int
      BY <3>1
    <3>4. old \in Int
      BY <3>3, SizesAssumption
    <3>5. Separator * (p - h.first) = old + Separator
      BY <3>2, <3>3, SizesAssumption
    <3> HIDE DEF g
    <3> QED  BY <2>3, <3>4, <3>5
  <2>5. h.first <= h.last /\ h.tokens <= h.size /\ h.size <= h.tokens + old
    BY <2>1 DEF Fits
  <2>6. /\ h.tokens \in Nat /\ h.size \in Nat /\ h.first \in Nat /\ h.last \in Nat
        /\ MaxTokens \in Nat /\ Separator \in Nat
    BY <2>1, SizesAssumption DEF Chunk
  <2> HIDE DEF g, h, old
  <2>7. g.size <= g.tokens + new
    <3> HIDE DEF new
    <3> QED  BY <1>2, <2>3, <2>4, <2>5, <2>6
  <2>8. g.first <= g.last /\ g.tokens <= MaxTokens /\ g.tokens <= g.size
    <3>1. p \in Nat /\ h.last = p - 1
      BY <1>1, <2>1
    <3> QED  BY <1>2, <2>2, <2>3, <2>5, <2>6, <3>1
  <2>9. Fits(g)
    BY <2>7, <2>8 DEF Fits
  <2> QED  BY <1>3, <1>6, <2>3, <2>9 DEF g, h
<1> QED  BY <1>4, <1>5, <1>6 DEF Exceeds

\* Step passes one paragraph more, and covers it.
LEMMA StepProgress ==
  ASSUME NEW c, Progress(c), ~AtEnd(c)
  PROVE  Progress(Step(c)) /\ Step(c).text = c.text
<1> DEFINE d == Step(c)
           p == c.next
<1> SUFFICES Progress(d) /\ d.text = c.text
  OBVIOUS
<1>1. c \in Chunker /\ p \in 1 .. Len(c.text)
  BY DEF Progress, AtEnd, Chunker
<1>2. /\ d.open \in Chunk /\ Fits(d.open) /\ d.open.last = p
      /\ d.open.first = IF c.open = NoChunk \/ Exceeds(c, p) THEN p ELSE c.open.first
  BY OpenedFits
<1>3. /\ d.text = c.text /\ d.next = p + 1
      /\ d.chunks = IF Exceeds(c, p) THEN Append(c.chunks, c.open) ELSE c.chunks
  BY <1>1 DEF Step, Chunker
<1>4. d.chunks \in Seq(Chunk) => d \in Chunker
  <2>1. \E n, x, o : d = [c EXCEPT !.next = n, !.chunks = x, !.open = o]
    BY DEF Step
  <2>2. PICK n, x, o : d = [c EXCEPT !.next = n, !.chunks = x, !.open = o]
    BY <2>1
  <2> HIDE DEF d
  <2>3. c \in [text : Seq(Paragraphs), next : Nat, chunks : Seq(Chunk),
               open : Chunk \cup {NoChunk}]
    BY <1>1 DEF Chunker
  <2>4. n = d.next /\ x = d.chunks /\ o = d.open
    BY <2>2, <2>3
  <2>5. n \in Nat /\ o \in Chunk
    BY <1>1, <1>2, <1>3, <2>4
  <2>6. x \in Seq(Chunk) => d \in [text : Seq(Paragraphs), next : Nat, chunks : Seq(Chunk),
                                 open : Chunk \cup {NoChunk}]
    BY <2>2, <2>3, <2>5
  <2> QED  BY <2>4, <2>6 DEF Chunker
<1> HIDE DEF d
<1>5. d.open # NoChunk
  BY <1>2, NoChunkAssumption
<1>6. c.chunks \in Seq(Chunk)
  BY <1>1 DEF Chunker
<1>7. CASE Exceeds(c, p)
  <2>1. c.open \in Chunk /\ c.open # NoChunk
    BY <1>1, <1>7 DEF Exceeds, Chunker
  <2>2. /\ d.chunks \in Seq(Chunk) /\ Len(d.chunks) = Len(c.chunks) + 1
        /\ \A i \in 1 .. Len(c.chunks) : d.chunks[i] = c.chunks[i]
        /\ d.chunks[Len(c.chunks) + 1] = c.open
    BY <1>3, <1>6, <1>7, <2>1
  <2>3. d \in Chunker
    BY <1>4, <2>2
  <2>4. Fits(c.open) /\ c.open.last = p - 1
        /\ c.open.first = IF c.chunks = <<>> THEN 1 ELSE c.chunks[Len(c.chunks)].last + 1
    BY <2>1 DEF Progress
  <2>5. ASSUME NEW i \in 1 .. Len(d.chunks)
        PROVE  /\ Fits(d.chunks[i])
               /\ d.chunks[i].first = IF i = 1 THEN 1 ELSE d.chunks[i - 1].last + 1
    <3>1. CASE i \in 1 .. Len(c.chunks)
      <4>1. /\ Fits(c.chunks[i])
            /\ c.chunks[i].first = IF i = 1 THEN 1 ELSE c.chunks[i - 1].last + 1
        BY <3>1 DEF Progress
      <4>2. i # 1 => i - 1 \in 1 .. Len(c.chunks)
        BY <1>6, <3>1
      <4> QED  BY <2>2, <3>1, <4>1, <4>2
    <3>2. CASE i = Len(c.chunks) + 1
      <4>1. CASE c.chunks = <<>>
        <5>1. i = 1
          BY <3>2, <4>1
        <5> QED  BY <2>2, <2>4, <3>2, <4>1, <5>1
      <4>2. CASE c.chunks # <<>>
        <5>1. i # 1 /\ i - 1 = Len(c.chunks) /\ i - 1 \in 1 .. Len(c.chunks)
          BY <1>6, <3>2, <4>2
        <5> QED  BY <2>2, <2>4, <3>2, <4>2, <5>1
      <4> QED  BY <4>1, <4>2
    <3> QED  BY <1>6, <2>2, <3>1, <3>2
  <2>6. d.chunks # <<>> /\ d.chunks[Len(d.chunks)] = c.open
    BY <1>6, <2>2
  <2>7. d.open.first = IF d.chunks = <<>> THEN 1 ELSE d.chunks[Len(d.chunks)].last + 1
    <3>1. d.open.first = p /\ c.open.last = p - 1 /\ p \in Nat
      BY <1>1, <1>2, <1>7, <2>4
    <3>2. d.open.first = c.open.last + 1
      BY <3>1
    <3> QED  BY <2>6, <3>2
  <2> QED  BY <1>1, <1>2, <1>3, <1>5, <2>3, <2>5, <2>7 DEF Progress
<1>8. CASE ~Exceeds(c, p)
  <2>1. d.chunks = c.chunks
    BY <1>3, <1>8
  <2>2. d \in Chunker
    BY <1>4, <1>6, <2>1
  <2>3. d.open.first = IF d.chunks = <<>> THEN 1 ELSE d.chunks[Len(d.chunks)].last + 1
    <3>1. CASE c.open = NoChunk
      <4>1. p = 1 /\ c.chunks = <<>>
        BY <3>1 DEF Progress
      <4> QED  BY <1>2, <2>1, <3>1, <4>1
    <3>2. CASE c.open # NoChunk
      BY <1>2, <1>8, <2>1, <3>2 DEF Progress
    <3> QED  BY <3>1, <3>2
  <2>4. \A i \in 1 .. Len(d.chunks) :
          /\ Fits(d.chunks[i])
          /\ d.chunks[i].first = IF i = 1 THEN 1 ELSE d.chunks[i - 1].last + 1
    BY <2>1 DEF Progress
  <2>5. d.next \in 1 .. Len(d.text) + 1 /\ d.open.last = d.next - 1
    BY <1>1, <1>2, <1>3
  <2> QED  BY <1>2, <1>3, <1>5, <2>2, <2>3, <2>4, <2>5 DEF Progress
<1> QED  BY <1>7, <1>8

\* The result for a finished text covers it.
LEMMA ResultCovers ==
  ASSUME NEW c, Progress(c), AtEnd(c)
  PROVE  Result(c) \in Seq(Chunk) /\ Covers(Result(c), Len(c.text))
<1>1. c \in Chunker /\ c.chunks \in Seq(Chunk) /\ c.next = Len(c.text) + 1
      /\ Len(c.text) \in Nat
  BY DEF Progress, AtEnd, Chunker
<1>2. CASE c.open = NoChunk
  BY <1>1, <1>2 DEF Progress, Result, Covers
<1>3. CASE c.open # NoChunk
  <2> DEFINE h == Result(c)
  <2>1. c.open \in Chunk
    BY <1>1, <1>3 DEF Chunker
  <2>2. /\ h \in Seq(Chunk) /\ Len(h) = Len(c.chunks) + 1 /\ h # <<>>
        /\ \A i \in 1 .. Len(c.chunks) : h[i] = c.chunks[i]
        /\ h[Len(c.chunks) + 1] = c.open
    BY <1>1, <1>3, <2>1 DEF Result
  <2> HIDE DEF h
  <2>3. Fits(c.open) /\ c.open.last = c.next - 1
        /\ c.open.first = IF c.chunks = <<>> THEN 1 ELSE c.chunks[Len(c.chunks)].last + 1
    BY <1>3 DEF Progress
  <2>4. ASSUME NEW i \in 1 .. Len(h)
        PROVE  Fits(h[i]) /\ h[i].first = IF i = 1 THEN 1 ELSE h[i - 1].last + 1
    <3>1. CASE i \in 1 .. Len(c.chunks)
      <4>1. /\ Fits(c.chunks[i])
            /\ c.chunks[i].first = IF i = 1 THEN 1 ELSE c.chunks[i - 1].last + 1
        BY <3>1 DEF Progress
      <4>2. i # 1 => i - 1 \in 1 .. Len(c.chunks)
        BY <1>1, <3>1
      <4> QED  BY <2>2, <3>1, <4>1, <4>2
    <3>2. CASE i = Len(c.chunks) + 1
      <4>1. CASE c.chunks = <<>>
        BY <2>2, <2>3, <3>2, <4>1
      <4>2. CASE c.chunks # <<>>
        <5>1. i # 1 /\ i - 1 = Len(c.chunks) /\ i - 1 \in 1 .. Len(c.chunks)
          BY <1>1, <3>2, <4>2
        <5> QED  BY <2>2, <2>3, <3>2, <4>2, <5>1
      <4> QED  BY <4>1, <4>2
    <3> QED  BY <1>1, <2>2, <3>1, <3>2
  <2>5. h[Len(h)].last = Len(c.text)
    BY <1>1, <2>2, <2>3
  <2>6. Covers(h, Len(c.text))
    BY <2>2, <2>4, <2>5 DEF Covers
  <2> QED  BY <2>2, <2>6 DEF h
<1> QED  BY <1>2, <1>3

-----------------------------------------------------------------------------
\* What an upload has queued, and for whom.

\* Until it has been queued a file has no job; from its start on it has a path,
\* which is made of its time and its name.
Queueing ==
  \A f \in Files :
    /\ upload[f].pc \in {"todo", "write", "queue"} => job[f] = "none"
    /\ upload[f].pc \in {"write", "queue"} => upload[f].path # None
    /\ upload[f].path # None =>
         upload[f].pc # "todo" /\ upload[f].path = <<upload[f].time, document[f].name>>

\* What lies at a path was uploaded to it.
OnDisk ==
  \A r \in Replicas, p \in Paths :
    disk[r][p] # None => upload[disk[r][p]].path = p

Namesakes(f, g) ==
  /\ document[g].name = document[f].name
  /\ upload[g].pc # "todo" /\ upload[g].time = upload[f].time

\* A process is alone at its job, cuts the text it has read, and has read another
\* file's only if that is a namesake of the same millisecond.
Working ==
  /\ \A r, s \in Replicas :
       work[r] # None /\ work[s] # None /\ work[r].file = work[s].file => r = s
  /\ \A r \in Replicas : work[r] # None =>
       /\ Progress(work[r].chunker)
       /\ work[r].chunker.text = document[work[r].from].text
       /\ work[r].from # work[r].file => Namesakes(work[r].file, work[r].from)

Storing ==
  \A f \in Files : stored[f] # None =>
    /\ job[f] # "none"
    /\ Covers(stored[f].chunks, Len(document[stored[f].of].text))
    /\ stored[f].of # f => Namesakes(f, stored[f].of)

Inv == TypeOK /\ Queueing /\ OnDisk /\ Working /\ Storing

\* The invariant holds at the start.
LEMMA InitInv == Init => Inv
<1> SUFFICES ASSUME Init PROVE Inv
  OBVIOUS
<1>1. (CHOOSE r \in Replicas : TRUE) \in Replicas
  BY UploadAssumption
<1>2. call \in CallRecord
  BY <1>1 DEF Init, CallRecord, Modes
<1>3. upload \in [Files -> UploadRecord]
  BY UploadAssumption DEF Init, UploadRecord
<1>4. TypeOK
  BY <1>2, <1>3, UploadAssumption DEF Init, TypeOK
<1> QED  BY <1>4 DEF Init, Inv, Queueing, OnDisk, Working, Storing

\* An upload under way moves on, and keeps its path and time.
LEMMA UploadMoves ==
  ASSUME Inv, NEW f \in Files, NEW pc \in {"queue", "ok", "failed"},
         upload[f].pc \in {"write", "queue"},
         upload' = [upload EXCEPT ![f].pc = pc]
  PROVE  /\ upload' \in [Files -> UploadRecord]
         /\ \A g \in Files :
              /\ upload'[g].path = upload[g].path /\ upload'[g].time = upload[g].time
              /\ upload'[g].pc = IF g = f THEN pc ELSE upload[g].pc
<1> DEFINE new == [upload[f] EXCEPT !.pc = pc]
<1>1. upload \in [Files -> UploadRecord] /\ upload[f] \in UploadRecord
  BY DEF Inv, TypeOK
<1>2. /\ new \in UploadRecord /\ new.pc = pc
      /\ new.path = upload[f].path /\ new.time = upload[f].time
  BY <1>1 DEF UploadRecord
<1>3. upload' = [upload EXCEPT ![f] = new]
  BY <1>1
<1> HIDE DEF new
<1> QED  BY <1>1, <1>2, <1>3

\* Then only what the step does to its job is left to see.
LEMMA MovedInv ==
  ASSUME Inv, NEW f \in Files, NEW pc \in {"queue", "ok", "failed"},
         upload[f].pc \in {"write", "queue"},
         upload' = [upload EXCEPT ![f].pc = pc],
         UNCHANGED <<document, now, work, stored>>,
         call' \in CallRecord,
         \/ job' = job
         \/ pc = "ok" /\ job' = [job EXCEPT ![f] = "wait"],
         \/ disk' = disk
         \/ disk' = [disk EXCEPT ![call.on][upload[f].path] = f]
  PROVE  Inv'
<1>1. /\ upload' \in [Files -> UploadRecord]
      /\ \A g \in Files :
           /\ upload'[g].path = upload[g].path /\ upload'[g].time = upload[g].time
           /\ upload'[g].pc = IF g = f THEN pc ELSE upload[g].pc
  BY UploadMoves
<1>2. /\ upload[f].path \in Paths /\ call.on \in Replicas /\ job[f] = "none"
  BY DEF Inv, TypeOK, Queueing, UploadRecord, CallRecord
<1>3. /\ disk' \in [Replicas -> [Paths -> Files \cup {None}]]
      /\ \A r \in Replicas, p \in Paths :
           disk'[r][p] = disk[r][p] \/ (p = upload[f].path /\ disk'[r][p] = f)
  <2> DEFINE on == call.on
             at == upload[f].path
             row == [disk[on] EXCEPT ![at] = f]
  <2>1. on \in Replicas /\ at \in Paths
    BY <1>2
  <2>2. disk \in [Replicas -> [Paths -> Files \cup {None}]]
    BY DEF Inv, TypeOK
  <2>3. CASE disk' = disk
    BY <2>2, <2>3
  <2>4. CASE disk' = [disk EXCEPT ![on][at] = f]
    <3>1. disk' = [disk EXCEPT ![on] = row]
      BY <2>4
    <3> HIDE DEF on, at
    <3>2. row \in [Paths -> Files \cup {None}] /\ row[at] = f
          /\ \A p \in Paths : p # at => row[p] = disk[on][p]
      BY <2>1, <2>2
    <3> HIDE DEF row
    <3>3. disk' \in [Replicas -> [Paths -> Files \cup {None}]]
      BY <2>1, <2>2, <3>1, <3>2
    <3>4. ASSUME NEW r \in Replicas, NEW p \in Paths
          PROVE  disk'[r][p] = disk[r][p] \/ (p = at /\ disk'[r][p] = f)
      <4>1. CASE r = on
        BY <2>1, <2>2, <3>1, <3>2, <4>1
      <4>2. CASE r # on
        BY <2>1, <2>2, <3>1, <4>2
      <4> QED  BY <4>1, <4>2
    <3> QED  BY <3>3, <3>4 DEF at
  <2> QED  BY <2>3, <2>4
<1>4. /\ job' \in [Files -> {"none", "wait", "active", "failed", "done"}]
      /\ \A g \in Files : g # f => job'[g] = job[g]
      /\ pc # "ok" => job'[f] = "none"
  BY <1>2 DEF Inv, TypeOK
<1>5. TypeOK'
  <2>1. \A g \in Files : job'[g] # "none" => upload'[g].path # None
    BY <1>1, <1>2, <1>4, UploadAssumption DEF Inv, TypeOK
  <2>2. \A r \in Replicas : work[r] # None => work[r].file \in Files /\ job'[work[r].file] = "active"
    BY <1>2, <1>4 DEF Inv, TypeOK, WorkRecord
  <2> QED  BY <1>1, <1>3, <1>4, <2>1, <2>2 DEF Inv, TypeOK
<1>6. Queueing'
  BY <1>1, <1>2, <1>4 DEF Inv, Queueing, TypeOK
<1>7. OnDisk'
  BY <1>1, <1>3 DEF Inv, OnDisk, TypeOK
<1>8. ASSUME NEW a \in Files, NEW b \in Files, Namesakes(a, b)
      PROVE  Namesakes(a, b)'
  BY <1>1, <1>8 DEF Namesakes
<1>9. Working'
  BY <1>8 DEF Inv, Working, TypeOK, WorkRecord
<1>10. Storing'
  BY <1>2, <1>4, <1>8 DEF Inv, Storing, TypeOK, StoredRecord
<1> QED  BY <1>5, <1>6, <1>7, <1>9, <1>10 DEF Inv

\* A call that begins, returns or waits leaves files and jobs alone.
LEMMA CallInv ==
  ASSUME Inv,
         \/ \E mode \in Modes, r \in Replicas : Begin(mode, r)
         \/ Return
         \/ Millisecond
  PROVE  Inv'
<1>1. call \in CallRecord /\ now \in 0 .. MaxTime
  BY DEF Inv, TypeOK
<1>2. /\ call' \in CallRecord /\ now' \in 0 .. MaxTime
      /\ UNCHANGED <<document, disk, upload, job, work, stored>>
  <2>1. CASE \E mode \in Modes, r \in Replicas : Begin(mode, r)
    BY <1>1, <2>1 DEF Begin, CallRecord
  <2>2. CASE Return
    BY <1>1, <2>2 DEF Return, CallRecord
  <2>3. CASE Millisecond
    BY <1>1, <2>3, UploadAssumption DEF Millisecond
  <2> QED  BY <2>1, <2>2, <2>3
<1>3. TypeOK' /\ Queueing' /\ OnDisk'
  BY <1>2 DEF Inv, TypeOK, Queueing, OnDisk
<1>4. Working' /\ Storing'
  BY <1>2 DEF Inv, Working, Storing, Namesakes
<1> QED  BY <1>3, <1>4 DEF Inv

\* So does an upload that fails, writes its file or queues its job.
LEMMA UploadInv ==
  ASSUME Inv, NEW f \in Files, UploadFails(f) \/ Write(f) \/ Queue(f)
  PROVE  Inv'
<1>1. call \in CallRecord
  BY DEF Inv, TypeOK
<1>2. CASE UploadFails(f)
  <2>1. call' \in CallRecord
    BY <1>1, <1>2 DEF UploadFails, CallRecord
  <2> QED  BY <1>2, <2>1, MovedInv DEF UploadFails
<1>3. CASE Write(f)
  BY <1>1, <1>3, MovedInv DEF Write
<1>4. CASE Queue(f)
  <2>1. call' \in CallRecord
    BY <1>1, <1>4 DEF Queue, Succeeds, CallRecord
  <2> QED  BY <1>4, <2>1, MovedInv DEF Queue, Succeeds
<1> QED  BY <1>2, <1>3, <1>4

\* Only files nothing is known of are started, so that those at a path, at work or
\* stored keep their path, name and time.
LEMMA StartInv ==
  ASSUME Inv, StartBatch
  PROVE  Inv'
<1>1. PICK b \in {BatchOf(f) : f \in Files}, k \in Files \cup {Count + 1} :
        LET batch == {f \in Files : BatchOf(f) = b}
            at(f) == IF f < k THEN now ELSE now + 1 IN
        /\ \A f \in batch : upload[f].pc = "todo"
        /\ k \in batch => now < MaxTime
        /\ k \in batch \cup {Count + 1}
        /\ now' = IF k \in batch THEN now + 1 ELSE now
        /\ upload' = [f \in Files |->
             IF f \notin batch THEN upload[f]
             ELSE IF document[f].valid THEN [pc |-> "write", path |-> Path(at(f), f), time |-> at(f)]
             ELSE [pc |-> "failed", path |-> None, time |-> at(f)]]
        /\ call' = [call EXCEPT !.failed = @ + Cardinality({f \in batch : ~document[f].valid})]
  BY DEF StartBatch
<1> DEFINE batch == {f \in Files : BatchOf(f) = b}
           at(f) == IF f < k THEN now ELSE now + 1
           bad == {f \in batch : ~document[f].valid}
<1>2. UNCHANGED <<document, disk, job, work, stored>>
  BY DEF StartBatch
<1>3. /\ now \in 0 .. MaxTime /\ document \in [Files -> Document]
      /\ upload \in [Files -> UploadRecord] /\ call \in CallRecord
  BY DEF Inv, TypeOK
<1>4. ASSUME NEW f \in Files PROVE at(f) \in 0 .. MaxTime
  <2>1. f \in 1 .. Count /\ Count \in Nat /\ MaxTime \in Nat
    BY UploadAssumption DEF Files
  <2>2. CASE k = Count + 1
    BY <1>3, <2>1, <2>2
  <2>3. CASE k \in batch
    <3>1. now < MaxTime
      BY <1>1, <2>3
    <3> QED  BY <1>3, <2>1, <3>1
  <2> QED  BY <1>1, <2>2, <2>3
<1>5. now' \in 0 .. MaxTime
  BY <1>1, <1>3, UploadAssumption
<1>6. call' \in CallRecord
  <2>1. IsFiniteSet(bad)
    <3>1. IsFiniteSet(Files)
      BY FS_Interval, UploadAssumption DEF Files
    <3> QED  BY <3>1, FS_Subset
  <2>2. Cardinality(bad) \in Nat
    BY <2>1, FS_CardinalityType
  <2>3. call' = [call EXCEPT !.failed = @ + Cardinality(bad)]
    BY <1>1
  <2> HIDE DEF bad
  <2> QED  BY <1>3, <2>2, <2>3 DEF CallRecord
<1>7. ASSUME NEW f \in Files
      PROVE  /\ f \notin batch => upload'[f] = upload[f]
             /\ f \in batch =>
                  /\ upload[f].pc = "todo"
                  /\ upload'[f].time = at(f) /\ upload'[f].pc \in {"write", "failed"}
                  /\ upload'[f].pc = "write" => upload'[f].path = Path(at(f), f)
                  /\ upload'[f].pc = "failed" => upload'[f].path = None
  <2> HIDE DEF at
  <2> QED  BY <1>1 DEF at
<1>8. upload' \in [Files -> UploadRecord]
  <2>1. ASSUME NEW f \in Files PROVE Path(at(f), f) \in Paths
    BY <1>3, <1>4 DEF Path, Paths, Document
  <2>2. ASSUME NEW f \in Files
        PROVE  /\ [pc |-> "write", path |-> Path(at(f), f), time |-> at(f)] \in UploadRecord
               /\ [pc |-> "failed", path |-> None, time |-> at(f)] \in UploadRecord
    <3> HIDE DEF at
    <3> QED  BY <1>4, <2>1 DEF UploadRecord
  <2> HIDE DEF at
  <2> QED  BY <1>1, <1>3, <2>2 DEF at
<1> HIDE DEF batch, at
<1>9. ASSUME NEW f \in Files
      PROVE  /\ f \in batch => job[f] = "none" /\ upload[f].path = None
  BY <1>7 DEF Inv, Queueing
<1>10. TypeOK'
  <2>1. \A f \in Files : job'[f] # "none" => upload'[f].path # None
    BY <1>2, <1>7, <1>9 DEF Inv, TypeOK
  <2> QED  BY <1>2, <1>3, <1>5, <1>6, <1>8, <2>1 DEF Inv, TypeOK
<1>11. Queueing'
  <2>1. \A f \in Files : Path(at(f), f) # None
    BY <1>3, <1>4, UploadAssumption DEF Path, Paths, Document
  <2> SUFFICES ASSUME NEW f \in Files
               PROVE  /\ upload'[f].pc \in {"todo", "write", "queue"} => job'[f] = "none"
                      /\ upload'[f].pc \in {"write", "queue"} => upload'[f].path # None
                      /\ upload'[f].path # None =>
                           /\ upload'[f].pc # "todo"
                           /\ upload'[f].path = <<upload'[f].time, document'[f].name>>
    BY DEF Queueing
  <2>2. CASE f \in batch
    BY <1>2, <1>7, <1>9, <2>1, <2>2 DEF Path
  <2>3. CASE f \notin batch
    BY <1>2, <1>7, <2>3 DEF Inv, Queueing
  <2> QED  BY <2>2, <2>3
<1>12. OnDisk'
  <2> SUFFICES ASSUME NEW r \in Replicas, NEW p \in Paths, disk[r][p] # None
               PROVE  upload'[disk[r][p]].path = p
    BY <1>2 DEF OnDisk
  <2>1. disk[r][p] \in Files /\ upload[disk[r][p]].path = p /\ p # None
    BY UploadAssumption DEF Inv, TypeOK, OnDisk
  <2> QED  BY <1>7, <1>9, <2>1
<1>13. ASSUME NEW f \in Files, NEW g \in Files, upload[f].pc # "todo", Namesakes(f, g)
       PROVE  Namesakes(f, g)'
  BY <1>2, <1>7, <1>13 DEF Namesakes
<1>14. Working'
  <2>1. ASSUME NEW r \in Replicas, work[r] # None
        PROVE  work[r].file \in Files /\ work[r].from \in Files /\ upload[work[r].file].pc # "todo"
    BY <2>1 DEF Inv, TypeOK, WorkRecord, Queueing
  <2> QED  BY <1>2, <1>13, <2>1 DEF Inv, Working
<1>15. Storing'
  <2>1. ASSUME NEW f \in Files, stored[f] # None
        PROVE  stored[f].of \in Files /\ upload[f].pc # "todo"
    BY <2>1 DEF Inv, TypeOK, StoredRecord, Storing, Queueing
  <2> QED  BY <1>2, <1>13, <2>1 DEF Inv, Storing
<1> QED  BY <1>10, <1>11, <1>12, <1>14, <1>15 DEF Inv

-----------------------------------------------------------------------------
\* What a process does to its job.

\* A process that takes a job has read the file the path was for, or a namesake's.
LEMMA TakeInv ==
  ASSUME Inv, NEW r \in Replicas, NEW f \in Files, Take(r, f)
  PROVE  Inv'
<1> DEFINE from == disk[r][upload[f].path]
           me == [file |-> f, from |-> from, chunker |-> Began(document[from].text)]
<1>1. /\ job[f] = "wait" /\ work[r] = None
      /\ UNCHANGED <<document, now, disk, call, upload, stored>>
      /\ IF from = None THEN job' = [job EXCEPT ![f] = "failed"] /\ work' = work
         ELSE job' = [job EXCEPT ![f] = "active"] /\ work' = [work EXCEPT ![r] = me]
  BY DEF Take
<1>2. /\ upload[f].path # None /\ upload[f].path \in Paths
      /\ upload[f].path = <<upload[f].time, document[f].name>>
  BY <1>1 DEF Inv, TypeOK, Queueing, UploadRecord
<1>3. from \in Files \cup {None}
  BY <1>2 DEF Inv, TypeOK
<1>4. /\ job \in [Files -> {"none", "wait", "active", "failed", "done"}]
      /\ work \in [Replicas -> WorkRecord \cup {None}]
  BY DEF Inv, TypeOK
<1>5. \A s \in Replicas : work[s] # None => work[s].file \in Files /\ work[s].file # f
  BY <1>1, <1>4 DEF Inv, TypeOK, WorkRecord
<1>6. \A a, b \in Files : Namesakes(a, b) => Namesakes(a, b)'
  BY <1>1 DEF Namesakes
<1>7. \A a \in Files : job'[a] # "none" <=> job[a] # "none"
  BY <1>1, <1>4
<1>8. Queueing' /\ OnDisk'
  BY <1>1, <1>7 DEF Inv, Queueing, OnDisk
<1>9. Storing'
  BY <1>1, <1>6, <1>7 DEF Inv, Storing, TypeOK, StoredRecord
<1>10. CASE from = None
  <2>1. /\ job' = [job EXCEPT ![f] = "failed"] /\ work' = work
    BY <1>1, <1>10
  <2> HIDE DEF from
  <2>2. TypeOK'
    BY <1>1, <1>4, <1>5, <1>7, <2>1 DEF Inv, TypeOK
  <2>3. Working'
    BY <1>1, <1>6, <2>1 DEF Inv, Working, TypeOK, WorkRecord
  <2> QED  BY <1>8, <1>9, <2>2, <2>3 DEF Inv
<1>11. CASE from # None
  <2>1. from \in Files
    BY <1>3, <1>11
  <2>2. document[from].text \in Seq(Paragraphs)
    BY <2>1, UploadAssumption DEF Inv, TypeOK, Document
  <2>3. /\ Progress(Began(document[from].text))
        /\ Began(document[from].text).text = document[from].text
    BY <2>2, BeganProgress
  <2>4. from # f => Namesakes(f, from)
    <3>1. upload[from].path = upload[f].path
      BY <1>2, <1>11 DEF Inv, OnDisk
    <3>2. /\ upload[from].pc # "todo"
          /\ <<upload[from].time, document[from].name>> = <<upload[f].time, document[f].name>>
      BY <1>2, <2>1, <3>1 DEF Inv, Queueing
    <3> QED  BY <3>2 DEF Namesakes
  <2>5. job' = [job EXCEPT ![f] = "active"] /\ work' = [work EXCEPT ![r] = me]
    BY <1>1, <1>11
  <2> HIDE DEF from
  <2>6. /\ me \in WorkRecord /\ me.file = f /\ me.from = from
        /\ me.chunker = Began(document[from].text)
    BY <2>1, <2>3 DEF WorkRecord, Progress
  <2> HIDE DEF me
  <2>7. me # None => work'[r] = me
    BY <1>4, <2>5
  <2>8. \A s \in Replicas : s # r => work'[s] = work[s]
    BY <1>4, <2>5
  <2>9. work' \in [Replicas -> WorkRecord \cup {None}] /\ work'[r] = me
    BY <1>4, <2>5, <2>6
  <2>10. TypeOK'
    <3>1. \A s \in Replicas : work'[s] # None => job'[work'[s].file] = "active"
      <4> TAKE s \in Replicas
      <4>1. CASE s = r
        BY <1>4, <2>5, <2>6, <2>9, <4>1
      <4>2. CASE s # r
        BY <1>4, <1>5, <2>5, <2>8, <4>2 DEF Inv, TypeOK
      <4> QED  BY <4>1, <4>2
    <3> QED  BY <1>1, <1>4, <1>7, <2>5, <2>9, <3>1 DEF Inv, TypeOK
  <2>11. Working'
    <3>1. ASSUME NEW s \in Replicas, NEW t \in Replicas, work'[s] # None, work'[t] # None,
                 work'[s].file = work'[t].file
          PROVE  s = t
      BY <1>5, <2>6, <2>8, <2>9, <3>1 DEF Inv, Working
    <3>2. ASSUME NEW s \in Replicas, work'[s] # None
          PROVE  /\ Progress(work'[s].chunker)
                 /\ work'[s].chunker.text = document[work'[s].from].text
                 /\ work'[s].from # work'[s].file => Namesakes(work'[s].file, work'[s].from)
      <4>1. CASE s = r
        BY <2>3, <2>4, <2>6, <2>9, <4>1
      <4>2. CASE s # r
        BY <2>8, <3>2, <4>2 DEF Inv, Working
      <4> QED  BY <4>1, <4>2
    <3>3. \A a, b : Namesakes(a, b) => Namesakes(a, b)'
      BY <1>1 DEF Namesakes
    <3> QED  BY <1>1, <3>1, <3>2, <3>3 DEF Working
  <2> QED  BY <1>8, <1>9, <2>10, <2>11 DEF Inv
<1> QED  BY <1>10, <1>11

\* A step of the chunker keeps what it has covered.
LEMMA CutInv ==
  ASSUME Inv, NEW r \in Replicas, Cut(r)
  PROVE  Inv'
<1> DEFINE c == work[r].chunker
           d == Step(c)
           me == [work[r] EXCEPT !.chunker = d]
<1>1. /\ work[r] # None /\ ~AtEnd(c) /\ work' = [work EXCEPT ![r].chunker = d]
      /\ UNCHANGED <<document, now, disk, call, upload, job, stored>>
  BY DEF Cut
<1>2. work \in [Replicas -> WorkRecord \cup {None}] /\ work[r] \in WorkRecord
  BY <1>1 DEF Inv, TypeOK
<1>3. Progress(c) /\ c.text = document[work[r].from].text
  BY <1>1 DEF Inv, Working
<1>4. Progress(d) /\ d.text = c.text
  BY <1>1, <1>3, StepProgress
<1>5. work' = [work EXCEPT ![r] = me]
  BY <1>1, <1>2
<1> HIDE DEF c, d
<1>6. /\ me \in WorkRecord /\ me.file = work[r].file /\ me.from = work[r].from
      /\ me.chunker = d
  BY <1>2, <1>4 DEF WorkRecord, Progress
<1> HIDE DEF me
<1>7. /\ work' \in [Replicas -> WorkRecord \cup {None}] /\ work'[r] = me
      /\ \A s \in Replicas : s # r => work'[s] = work[s]
  BY <1>2, <1>5, <1>6
<1>8. \A a, b : Namesakes(a, b) => Namesakes(a, b)'
  BY <1>1 DEF Namesakes
<1>9. \A s \in Replicas : /\ work'[s] # None => work[s] # None
                          /\ work'[s] # None => work'[s].file = work[s].file
  BY <1>1, <1>6, <1>7
<1>10. TypeOK'
  BY <1>1, <1>7, <1>9 DEF Inv, TypeOK
<1>11. Working'
  <2>1. ASSUME NEW s \in Replicas, work'[s] # None
        PROVE  /\ Progress(work'[s].chunker)
               /\ work'[s].chunker.text = document[work'[s].from].text
               /\ work'[s].from # work'[s].file => Namesakes(work'[s].file, work'[s].from)
    <3>1. CASE s = r
      BY <1>1, <1>3, <1>4, <1>6, <1>7, <3>1 DEF Inv, Working
    <3>2. CASE s # r
      BY <1>7, <2>1, <3>2 DEF Inv, Working
    <3> QED  BY <3>1, <3>2
  <2>2. \A s, t \in Replicas :
          work'[s] # None /\ work'[t] # None /\ work'[s].file = work'[t].file => s = t
    BY <1>9 DEF Inv, Working
  <2> QED  BY <1>1, <1>8, <2>1, <2>2 DEF Working
<1>12. Queueing' /\ OnDisk'
  BY <1>1 DEF Inv, Queueing, OnDisk
<1>13. Storing'
  BY <1>1, <1>8 DEF Inv, Storing
<1> QED  BY <1>10, <1>11, <1>12, <1>13 DEF Inv

\* What is stored is the result for the text the process has read.
LEMMA StoreInv ==
  ASSUME Inv, NEW r \in Replicas, Store(r)
  PROVE  Inv'
<1> DEFINE c == work[r].chunker
           f == work[r].file
           from == work[r].from
           new == [of |-> from, chunks |-> Result(c)]
<1>1. /\ work[r] # None /\ AtEnd(c) /\ stored' = [stored EXCEPT ![f] = new]
      /\ job' = [job EXCEPT ![f] = "done"] /\ work' = [work EXCEPT ![r] = None]
      /\ UNCHANGED <<document, now, disk, call, upload>>
  BY DEF Store
<1>2. /\ work \in [Replicas -> WorkRecord \cup {None}]
      /\ job \in [Files -> {"none", "wait", "active", "failed", "done"}]
      /\ stored \in [Files -> StoredRecord \cup {None}]
      /\ f \in Files /\ from \in Files /\ job[f] = "active"
  BY <1>1 DEF Inv, TypeOK, WorkRecord
<1>3. /\ Progress(c) /\ c.text = document[from].text
      /\ from # f => Namesakes(f, from)
  BY <1>1 DEF Inv, Working
<1>4. Result(c) \in Seq(Chunk) /\ Covers(Result(c), Len(document[from].text))
  BY <1>1, <1>3, ResultCovers
<1>5. /\ new \in StoredRecord /\ new.of = from /\ new.chunks = Result(c)
  BY <1>2, <1>4 DEF StoredRecord
<1>6. \A s \in Replicas : work'[s] # None =>
        s # r /\ work[s] # None /\ work'[s] = work[s] /\ work[s].file # f
  BY <1>1, <1>2 DEF Inv, Working
<1> HIDE DEF c, f, from, new
<1>7. \A a, b : Namesakes(a, b) => Namesakes(a, b)'
  BY <1>1 DEF Namesakes
<1>8. \A a \in Files : /\ job'[a] # "none" <=> job[a] # "none"
                       /\ a # f => job'[a] = job[a] /\ stored'[a] = stored[a]
  BY <1>1, <1>2
<1>9. TypeOK'
  <2>1. work' \in [Replicas -> WorkRecord \cup {None}]
    BY <1>1, <1>2
  <2>2. job' \in [Files -> {"none", "wait", "active", "failed", "done"}]
    BY <1>1, <1>2
  <2>3. stored' \in [Files -> StoredRecord \cup {None}]
    BY <1>1, <1>2, <1>5
  <2>4. \A s \in Replicas : work'[s] # None => job'[work'[s].file] = "active"
    BY <1>6, <1>8 DEF Inv, TypeOK, WorkRecord
  <2> QED  BY <1>1, <1>8, <2>1, <2>2, <2>3, <2>4 DEF Inv, TypeOK
<1>10. Queueing' /\ OnDisk'
  BY <1>1, <1>8 DEF Inv, Queueing, OnDisk
<1>11. Working'
  <2>1. ASSUME NEW s \in Replicas, work'[s] # None
        PROVE  /\ Progress(work'[s].chunker)
               /\ work'[s].chunker.text = document[work'[s].from].text
               /\ work'[s].from # work'[s].file => Namesakes(work'[s].file, work'[s].from)
    BY <1>6, <2>1 DEF Inv, Working
  <2>2. \A s, t \in Replicas :
          work'[s] # None /\ work'[t] # None /\ work'[s].file = work'[t].file => s = t
    BY <1>6 DEF Inv, Working
  <2> QED  BY <1>1, <1>7, <2>1, <2>2 DEF Working
<1>12. Storing'
  <2>1. ASSUME NEW a \in Files, stored'[a] # None
        PROVE  /\ job'[a] # "none"
               /\ Covers(stored'[a].chunks, Len(document[stored'[a].of].text))
               /\ stored'[a].of # a => Namesakes(a, stored'[a].of)
    <3>1. CASE a = f
      <4>1. stored'[f] = new
        BY <1>1, <1>2
      <4> QED  BY <1>2, <1>3, <1>4, <1>5, <1>8, <3>1, <4>1
    <3>2. CASE a # f
      BY <1>8, <2>1, <3>2 DEF Inv, Storing
    <3> QED  BY <3>1, <3>2
  <2> QED  BY <1>1, <1>7, <2>1 DEF Storing
<1> QED  BY <1>9, <1>10, <1>11, <1>12 DEF Inv

-----------------------------------------------------------------------------

\* Inv holds in every state of every behaviour.
LEMMA Invariance == Spec => []Inv
<1>1. ASSUME Inv, [Next]_vars PROVE Inv'
  <2>1. CASE \E mode \in Modes, r \in Replicas : Begin(mode, r)
    BY <1>1, <2>1, CallInv
  <2>2. CASE CallStep
    BY <1>1, <2>2, CallInv, StartInv, UploadInv DEF CallStep
  <2>3. CASE Millisecond
    BY <1>1, <2>3, CallInv
  <2>4. CASE \E f \in Files : UploadFails(f) \/ \E r \in Replicas : Take(r, f)
    BY <1>1, <2>4, UploadInv, TakeInv
  <2>5. CASE \E r \in Replicas : Cut(r) \/ Store(r)
    BY <1>1, <2>5, CutInv, StoreInv
  <2>6. CASE UNCHANGED vars
    BY <1>1, <2>6 DEF vars, Inv, TypeOK, Queueing, OnDisk, Working, Storing, Namesakes
  <2> QED  BY <1>1, <2>1, <2>2, <2>3, <2>4, <2>5, <2>6 DEF Next
<1> QED  BY <1>1, InitInv, PTL DEF Spec

\* Every state of an upload is well typed; only an upload with a path has a job, and
\* only an active job is worked at.
THEOREM TypeCorrect == Spec => []TypeOK
<1>1. Inv => TypeOK
  BY DEF Inv
<1> QED  BY <1>1, Invariance, PTL

\* The chunks stored of a document are its paragraphs in order, each once, whatever
\* the sizes of paragraphs, chunks and overlap.
THEOREM StoredChunksCover == Spec => []ChunksCoverText
<1>1. Inv => ChunksCoverText
  BY DEF Inv, Storing, ChunksCoverText
<1> QED  BY <1>1, Invariance, PTL

\* Only a file of the same name and millisecond is ever stored in another's place.
THEOREM FilesAreToldApart == Spec => []OnlyNamesakesMix
<1>1. Inv => OnlyNamesakesMix
  <2> SUFFICES ASSUME Inv, NEW f \in Files, stored[f] # None, stored[f].of # f
               PROVE  \E g \in Files \ {f} :
                        /\ document[g].name = document[f].name
                        /\ upload[g].pc # "todo" /\ upload[g].time = upload[f].time
    BY DEF OnlyNamesakesMix
  <2>1. stored[f].of \in Files \ {f} /\ Namesakes(f, stored[f].of)
    BY DEF Inv, TypeOK, StoredRecord, Storing
  <2> QED  BY <2>1 DEF Namesakes
<1> QED  BY <1>1, Invariance, PTL
-----------------------------------------------------------------------------
\* The counts of the call.

\* The files whose upload is at pc, for a value u of upload.
At(u, pc) == {f \in Files : u[f].pc = pc}

\* A file has a job if and only if its upload has succeeded; the counts are those of
\* the uploads that have ended; and when the call returns all have.
Counted ==
  /\ \A f \in Files : upload[f].pc = "ok" <=> job[f] # "none"
  /\ call.ok = Cardinality(At(upload, "ok"))
  /\ call.failed = Cardinality(At(upload, "failed"))
  /\ call.pc = "done" => \A f \in Files : Settled(f)

\* Any set of files is finite.
LEMMA FilesFinite ==
  ASSUME NEW S \in SUBSET Files
  PROVE  IsFiniteSet(S) /\ Cardinality(S) \in Nat
<1>1. IsFiniteSet(Files)
  BY FS_Interval, UploadAssumption DEF Files
<1> QED  BY <1>1, FS_Subset, FS_CardinalityType

\* Files of two kinds are counted by adding.
LEMMA CountsAdd ==
  ASSUME NEW S \in SUBSET Files, NEW T \in SUBSET Files, S \cap T = {}
  PROVE  Cardinality(S \cup T) = Cardinality(S) + Cardinality(T)
<1>1. /\ IsFiniteSet(S) /\ Cardinality(S) \in Nat
      /\ IsFiniteSet(T) /\ Cardinality(T) \in Nat
  BY FilesFinite
<1>2. Cardinality(S \cup T) = Cardinality(S) + Cardinality(T) - Cardinality(S \cap T)
  BY <1>1, FS_Union
<1>3. Cardinality(S \cap T) = 0
  BY FS_EmptySet
<1> QED  BY <1>1, <1>2, <1>3

\* A step that moves no upload and settles no job keeps the counts, the return of the
\* call included, which waits for all its files.
LEMMA OthersCount ==
  ASSUME Inv, Counted, upload' = upload,
         \A f \in Files : job'[f] # "none" <=> job[f] # "none",
         call'.ok = call.ok /\ call'.failed = call.failed,
         call'.pc = "done" => call.pc = "done" \/ \A f \in Files : Settled(f)
  PROVE  Counted'
BY DEF Counted, Settled

\* An upload that ends is counted once, where it belongs.
LEMMA EndedCount ==
  ASSUME Inv, Counted, NEW f \in Files, NEW pc \in {"queue", "ok", "failed"},
         upload[f].pc \in {"write", "queue"},
         upload' = [upload EXCEPT ![f].pc = pc],
         pc = "ok" => job' = [job EXCEPT ![f] = "wait"],
         pc # "ok" => job' = job,
         call'.ok = IF pc = "ok" THEN call.ok + 1 ELSE call.ok,
         call'.failed = IF pc = "failed" THEN call.failed + 1 ELSE call.failed,
         call'.pc = call.pc
  PROVE  Counted'
<1>1. \A g \in Files : upload'[g].pc = IF g = f THEN pc ELSE upload[g].pc
  BY UploadMoves
<1>2. job[f] = "none" /\ job \in [Files -> {"none", "wait", "active", "failed", "done"}]
  BY DEF Inv, Queueing, TypeOK
<1>3. \A g \in Files : upload'[g].pc = "ok" <=> job'[g] # "none"
  BY <1>1, <1>2 DEF Counted
<1>4. ~Settled(f) /\ call'.pc # "done"
  BY DEF Settled, Counted
<1>5. ASSUME NEW s \in {"ok", "failed"}
      PROVE  Cardinality(At(upload', s)) =
               IF pc = s THEN Cardinality(At(upload, s)) + 1 ELSE Cardinality(At(upload, s))
  <2>1. f \notin At(upload, s) /\ IsFiniteSet(At(upload, s))
    BY FilesFinite DEF At
  <2>2. CASE pc = s
    <3>1. At(upload', s) = At(upload, s) \cup {f}
      BY <1>1, <2>2 DEF At
    <3> QED  BY <2>1, <2>2, <3>1, FS_AddElement
  <2>3. CASE pc # s
    <3>1. At(upload', s) = At(upload, s)
      BY <1>1, <2>1, <2>3 DEF At
    <3> QED  BY <2>3, <3>1
  <2> QED  BY <2>2, <2>3
<1> QED  BY <1>3, <1>4, <1>5 DEF Counted

\* A batch that starts fails its invalid files at once, and counts them.
LEMMA StartCount ==
  ASSUME Inv, Counted, StartBatch
  PROVE  Counted'
<1>0. PICK b \in {BatchOf(f) : f \in Files}, k \in Files \cup {Count + 1} :
        LET batch == {f \in Files : BatchOf(f) = b}
            at(f) == IF f < k THEN now ELSE now + 1 IN
        /\ \A f \in batch : upload[f].pc = "todo"
        /\ upload' = [f \in Files |->
             IF f \notin batch THEN upload[f]
             ELSE IF document[f].valid THEN [pc |-> "write", path |-> Path(at(f), f), time |-> at(f)]
             ELSE [pc |-> "failed", path |-> None, time |-> at(f)]]
        /\ call' = [call EXCEPT !.failed = @ + Cardinality({f \in batch : ~document[f].valid})]
  BY DEF StartBatch
<1> DEFINE batch == {f \in Files : BatchOf(f) = b}
           bad == {f \in batch : ~document[f].valid}
<1>1. /\ \A f \in batch : upload[f].pc = "todo"
      /\ \A f \in Files :
           upload'[f].pc = IF f \notin batch THEN upload[f].pc
                           ELSE IF document[f].valid THEN "write" ELSE "failed"
      /\ call' = [call EXCEPT !.failed = @ + Cardinality(bad)]
  BY <1>0
<1>2. /\ \A f \in batch : upload[f].pc = "todo" /\ job[f] = "none"
      /\ call \in CallRecord /\ job' = job /\ call.pc = "running"
  BY <1>1 DEF StartBatch, Inv, TypeOK, Queueing
<1>3. call'.pc = "running" /\ call'.ok = call.ok /\ call'.failed = call.failed + Cardinality(bad)
  BY <1>1, <1>2 DEF CallRecord
<1>4. At(upload', "ok") = At(upload, "ok")
  BY <1>1, <1>2 DEF At
<1>5. \A f \in Files : upload'[f].pc = "ok" <=> job'[f] # "none"
  BY <1>1, <1>2 DEF Counted
<1>6. At(upload', "failed") = At(upload, "failed") \cup bad /\ At(upload, "failed") \cap bad = {}
  BY <1>1, <1>2 DEF At
<1>7. Cardinality(At(upload', "failed")) = Cardinality(At(upload, "failed")) + Cardinality(bad)
  <2>1. At(upload, "failed") \in SUBSET Files /\ bad \in SUBSET Files
    BY DEF At
  <2> HIDE DEF bad
  <2> QED  BY <1>6, <2>1, CountsAdd
<1> QED  BY <1>3, <1>4, <1>5, <1>7 DEF Counted

\* The counts are right at every step.
LEMMA CountedInvariance == Spec => []Counted
<1>1. Init => Counted
  <2> SUFFICES ASSUME Init PROVE Counted
    OBVIOUS
  <2>1. At(upload, "ok") = {} /\ At(upload, "failed") = {}
    BY DEF Init, At
  <2> QED  BY <2>1, FS_EmptySet DEF Init, Counted
<1>2. ASSUME Inv, Counted, [Next]_vars PROVE Counted'
  <2>0. /\ call \in CallRecord
        /\ job \in [Files -> {"none", "wait", "active", "failed", "done"}]
    BY <1>2 DEF Inv, TypeOK
  <2>1. CASE \E mode \in Modes, r \in Replicas : Begin(mode, r)
    BY <1>2, <2>0, <2>1, OthersCount DEF Begin, CallRecord
  <2>2. CASE Return
    BY <1>2, <2>0, <2>2, OthersCount DEF Return, CallRecord
  <2>3. CASE StartBatch
    BY <1>2, <2>3, StartCount
  <2>4. ASSUME NEW f \in Files, UploadFails(f) PROVE Counted'
    BY <1>2, <2>0, <2>4, EndedCount DEF UploadFails, CallRecord
  <2>5. ASSUME NEW f \in Files, Write(f) PROVE Counted'
    BY <1>2, <2>5, EndedCount DEF Write
  <2>6. ASSUME NEW f \in Files, Queue(f) PROVE Counted'
    BY <1>2, <2>0, <2>6, EndedCount DEF Queue, Succeeds, CallRecord
  <2>7. CASE Millisecond \/ UNCHANGED vars
    BY <1>2, <2>7, OthersCount DEF Millisecond, vars
  <2>8. ASSUME NEW f \in Files, NEW r \in Replicas, Take(r, f) PROVE Counted'
    <3>1. \A g \in Files : job'[g] # "none" <=> job[g] # "none"
      BY <2>0, <2>8 DEF Take
    <3> QED  BY <1>2, <2>8, <3>1, OthersCount DEF Take
  <2>9. ASSUME NEW r \in Replicas, Cut(r) \/ Store(r) PROVE Counted'
    <3>1. CASE Cut(r)
      BY <1>2, <3>1, OthersCount DEF Cut
    <3>2. CASE Store(r)
      <4>1. job[work[r].file] = "active" /\ work[r].file \in Files
        BY <1>2, <3>2 DEF Store, Inv, TypeOK, WorkRecord
      <4>2. \A g \in Files : job'[g] # "none" <=> job[g] # "none"
        BY <2>0, <3>2, <4>1 DEF Store
      <4> QED  BY <1>2, <3>2, <4>2, OthersCount DEF Store
    <3> QED  BY <2>9, <3>1, <3>2
  <2> QED  BY <1>2, <2>1, <2>2, <2>3, <2>4, <2>5, <2>6, <2>7, <2>8, <2>9 DEF Next, CallStep
<1> QED  BY <1>1, <1>2, Invariance, PTL DEF Spec

\* What a call reports is true when it reports it and stays true: every file is
\* counted once, and as many succeeded as have a job, whatever that job has come to.
THEOREM ReportedCountsTrue ==
  Spec => [](call.pc = "done" =>
               /\ call.ok + call.failed = Count
               /\ call.ok = Cardinality({f \in Files : job[f] # "none"}))
<1>1. ASSUME Counted, call.pc = "done"
      PROVE  /\ call.ok + call.failed = Count
             /\ call.ok = Cardinality({f \in Files : job[f] # "none"})
  <2>1. At(upload, "ok") = {f \in Files : job[f] # "none"}
    BY <1>1 DEF Counted, At
  <2>2. /\ At(upload, "ok") \cup At(upload, "failed") = Files
        /\ At(upload, "ok") \cap At(upload, "failed") = {}
    BY <1>1 DEF Counted, Settled, At
  <2>3. At(upload, "ok") \in SUBSET Files /\ At(upload, "failed") \in SUBSET Files
    BY DEF At
  <2>4. Cardinality(Files) = Count
    BY FS_Interval, UploadAssumption DEF Files
  <2>5. Cardinality(Files) = Cardinality(At(upload, "ok")) + Cardinality(At(upload, "failed"))
    BY <2>2, <2>3, CountsAdd
  <2> QED  BY <1>1, <2>1, <2>4, <2>5 DEF Counted
<1> QED  BY <1>1, CountedInvariance, PTL
=============================================================================
