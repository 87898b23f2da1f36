------------------------------ MODULE Chunking ------------------------------
(***************************************************************************)
(* PDFParserService.chunkText(), one paragraph at a time.                  *)
(*                                                                         *)
(* A text is the sequence of its paragraphs' sizes in tokens; a chunk is   *)
(* the paragraphs it adds to those before it, what it begins with, the     *)
(* tokenCount it is stored with and the size it has.  The size of a text   *)
(* put together is taken to be the sum of its parts'.                      *)
(***************************************************************************)
EXTENDS Integers, Sequences

CONSTANTS
  NoChunk,     \* currentChunk = ''
  MaxTokens,   \* maxTokens
  Overlap,     \* overlap
  Separator,   \* the size of the blank line between paragraphs
  Decoded      \* the size of what getOverlapText() makes of a long chunk

ASSUME SizesAssumption ==
  /\ MaxTokens \in Nat \ {0} /\ Overlap \in Nat \ {0}
  /\ Separator \in Nat /\ Decoded \in Nat

Paragraphs == Nat \ {0}

\* getOverlapText() repeats a short chunk whole; of a long one it decodes the last
\* token numbers as if they were bytes, which is not the end of the chunk.
Heads == {"nothing", "whole", "decoded"}

Chunk == [first : Nat, last : Nat, head : Heads, tokens : Nat, size : Nat]

ASSUME NoChunkAssumption == NoChunk \notin Chunk

\* text: what is left out of account is what next points past; open: currentChunk.
Chunker == [text : Seq(Paragraphs), next : Nat, chunks : Seq(Chunk), open : Chunk \cup {NoChunk}]

Began(text) == [text |-> text, next |-> 1, chunks |-> <<>>, open |-> NoChunk]

Exceeds_OffByOne(c, p) == c.open # NoChunk /\ c.open.tokens + c.text[p] > MaxTokens + 1
Exceeds(c, p) == c.open # NoChunk /\ c.open.tokens + c.text[p] > MaxTokens

First(c, p) ==
  [first |-> p, last |-> p, head |-> "nothing", tokens |-> c.text[p], size |-> c.text[p]]

\* A new chunk, which repeats something of the one before.
Overlapping(c, p) ==
  LET whole == c.open.size <= Overlap
      all   == (IF whole THEN c.open.size ELSE Decoded) + Separator + c.text[p] IN
  [first |-> p, last |-> p, head |-> IF whole THEN "whole" ELSE "decoded",
   tokens |-> all, size |-> all]

\* One more paragraph in the chunk: the blank line is not counted.
Longer(c, p) ==
  [c.open EXCEPT !.last = p, !.tokens = @ + c.text[p], !.size = @ + Separator + c.text[p]]

\* The body of the loop.
Step(c) ==
  LET p == c.next IN
  [c EXCEPT
    !.next   = p + 1,
    !.chunks = IF Exceeds(c, p) THEN Append(@, c.open) ELSE @,
    !.open   = IF Exceeds(c, p) THEN Overlapping(c, p)
               ELSE IF @ = NoChunk THEN First(c, p) ELSE Longer(c, p)]

AtEnd(c) == c.next > Len(c.text)

Result(c) == IF c.open = NoChunk THEN c.chunks ELSE Append(c.chunks, c.open)

-----------------------------------------------------------------------------

\* A chunk is within MaxTokens by its own count unless it adds one paragraph only,
\* and the count leaves out no more than its blank lines.
Fits(h) ==
  /\ h.first <= h.last
  /\ h.tokens <= MaxTokens \/ h.first = h.last
  /\ h.tokens <= h.size /\ h.size <= h.tokens + Separator * (h.last - h.first)

\* The chunks add the paragraphs up to last in order, each once.
Covers(chunks, last) ==
  /\ \A i \in 1 .. Len(chunks) :
       /\ Fits(chunks[i])
       /\ chunks[i].first = IF i = 1 THEN 1 ELSE chunks[i - 1].last + 1
  /\ last = IF chunks = <<>> THEN 0 ELSE chunks[Len(chunks)].last
=============================================================================
