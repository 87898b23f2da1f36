------------------------- MODULE MCEmbeddingRouter -------------------------
(* The default order ollama, openai after a name nobody registered.         *)
EXTENDS EmbeddingRouter, EmbeddingServices

CONSTANTS r1, r2, r3

MCRegistered == {s.name : s \in Services}

WithUnknown == <<"google", "ollama", "openai">>
=============================================================================
