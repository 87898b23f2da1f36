------------------------- MODULE EmbeddingServices -------------------------
(***************************************************************************)
(* The embedding providers that EmbeddingRouterService registers, as far   *)
(* as they differ: how many texts one HTTP call carries and how many       *)
(* numbers a vector has.  knowledge_chunks.embedding takes 768.            *)
(*                                                                         *)
(* One execution of generateBatchEmbeddings() asks for its texts slice by  *)
(* slice; a rejected slice ends the execution, and the Retry decorator     *)
(* starts again with the first.                                            *)
(***************************************************************************)
EXTENDS Integers

OllamaEmbeddingService ==
  [name |-> "ollama", dimensions |-> 768, batchSize |-> 1, maxAttempts |-> 3]

OpenAIEmbeddingService ==
  [name |-> "openai", dimensions |-> 1536, batchSize |-> 100, maxAttempts |-> 3]

Services == {OllamaEmbeddingService, OpenAIEmbeddingService}

\* Of n texts: where the slices start, counting from 0, and the texts of each,
\* counting from 1.
Starts(s, n) == {i \in 0 .. n - 1 : i % s.batchSize = 0}

Slice(s, n, i) == i + 1 .. (IF i + s.batchSize < n THEN i + s.batchSize ELSE n)
=============================================================================
