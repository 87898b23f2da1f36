-------------------------- MODULE MCKnowledgeBase --------------------------
(* Two calls on two documents, one of them still to be ingested, and two names. *)
EXTENDS KnowledgeBase

CONSTANTS d1, d2, g

MCRequests == {<<d1, d2>>, <<d2, d1, d1>>}

OneStored  == [d \in Docs |-> IF d = d1 THEN g ELSE None]
=============================================================================
