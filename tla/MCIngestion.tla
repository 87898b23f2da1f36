---------------------------- MODULE MCIngestion ----------------------------
(* Ingestion with model values for processes, admins and jobs.              *)
EXTENDS Ingestion, TLC

CONSTANTS w1, w2, a1, j1, j2, c1, c2

Symmetry == Permutations(Workers) \cup Permutations(Jobs)
=============================================================================
