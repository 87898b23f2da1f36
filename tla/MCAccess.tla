------------------------------ MODULE MCAccess ------------------------------
(* One administrator, whose name is nobody's after the administrator has been *)
(* removed.                                                                   *)
EXTENDS Access

CONSTANTS u1, k1

OneUser == [k \in {k1} |-> u1]
=============================================================================
