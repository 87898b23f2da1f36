------------------------------- MODULE MCChat -------------------------------
(* Chat.cfg: a turn from HTTP and one from MCP beside one operation on the one *)
(* persona.  Personas.cfg: two operations on two replicas, and no chats.       *)
EXTENDS Chat

CONSTANTS t1, t2

OneEach == [t \in Turns |-> IF t = t1 THEN {"chat", "test"} ELSE {"ask", "search", "rpc"}]
NoRoutes == [t \in Turns |-> {}]
=============================================================================
