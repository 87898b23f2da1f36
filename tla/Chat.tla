-------------------------------- MODULE Chat --------------------------------
(***************************************************************************)
(* ChatService, the sessions and messages it keeps in PostgreSQL and the   *)
(* cleanup of expired sessions, composed with Personas: a turn starts from *)
(* the cache of the process that serves it, and the admin's deletion of a  *)
(* persona counts the sessions that use it.                                *)
(*                                                                         *)
(* A turn is split at its awaits.  It comes by POST /chat, by the ask_agent*)
(* tool of the MCP server, or is a persona test of the administration or a *)
(* search_knowledge call, which have no session; another request to the    *)
(* MCP server is answered at once.  What is said is left out; a message is *)
(* the turn it belongs to and its role.                                    *)
(***************************************************************************)
EXTENDS Personas, Sequences

CONSTANTS
  Turns,      \* slots for turns, each used once
  Routes      \* per slot: the ways its turn may come

AllRoutes == {"chat", "test", "ask", "search", "rpc"}
Tools     == {"ask", "search"}

ASSUME RoutesAssumption == Routes \in [Turns -> SUBSET AllRoutes]

ASSUME NoneIsNoSession == None \notin SessionIds

VARIABLES
  session,    \* per id: its chat_sessions row, or None
  created,    \* ids of sessions ever created (history)
  messages,   \* per id: its chat_messages
  turn        \* per slot: the turn and where it is

chatVars == <<session, created, messages, turn>>
vars     == <<personaVars, chatVars>>

SessionRow == [agent : Ids, expired : BOOLEAN]
Message    == [turn : Turns, role : {"user", "assistant"}]
TurnPcs    == {"unused", "open", "ask", "retrieve", "generate", "check",
               "answer", "touch", "over"}

\* How a call ends for its caller; a JSON-RPC error is of the protocol.
Replies == {"ok", "404", "500", "result", "isError", "rpcError"}

ASSUME NoneIsNoValue == None \notin Replies /\ None \notin SessionRow

\* context: the search has found chunks, which the model is given.
TurnRecord == [pc : TurnPcs, via : AllRoutes, agent : Ids, context : BOOLEAN,
               sid : SessionIds \cup {None}, reply : Replies \cup {None}]

TypeOK ==
  /\ PersonasTypeOK
  /\ session \in [SessionIds -> SessionRow \cup {None}]
  /\ created \subseteq SessionIds
  /\ messages \in [SessionIds -> Seq(Message)]
  /\ turn \in [Turns -> TurnRecord]
  /\ \A t \in Turns :
       /\ turn[t].pc \in {"ask", "answer", "touch"} => turn[t].sid # None
       /\ turn[t].pc = "over" <=> turn[t].reply # None

ChatInit ==
  /\ session = [s \in SessionIds |-> None] /\ created = {}
  /\ messages = [s \in SessionIds |-> <<>>]
  /\ turn = [t \in Turns |->
       [pc |-> "unused", via |-> "chat", agent |-> IdleOp.id, context |-> FALSE,
        sid |-> None, reply |-> None]]

Init == PersonasInit /\ ChatInit

-----------------------------------------------------------------------------

TurnGoes(t, pc) == turn' = [turn EXCEPT ![t].pc = pc]

\* A thrown HttpException keeps its status; every other error is a 500.
HttpStatus(outcome) ==
  CASE outcome = "done" -> "ok" [] outcome = "missing" -> "404" [] OTHER -> "500"

\* A tool never rejects: what it catches is a result too.
ToolReply(outcome) == IF outcome = "done" THEN "result" ELSE "isError"

TurnEnds(t, outcome) ==
  turn' = [turn EXCEPT ![t].pc = "over", ![t].context = FALSE, ![t].reply =
    IF turn[t].via \in Tools THEN ToolReply(outcome) ELSE HttpStatus(outcome)]

Arrives(t, r, via) == turn[t].pc = "unused" /\ Serving(r) /\ via \in Routes[t]

Stored == <<session, created, messages>>

\* The persona comes from the cache of the process; without one the turn ends at
\* once.  A request may name a session, also one that does not exist any more.
BeginTurn(t, r, via, a, s) ==
  /\ Arrives(t, r, via) /\ via \in {"chat", "ask", "test"}
  /\ via = "test" => s = None
  /\ s \in created \cup {None}
  /\ turn' = [turn EXCEPT ![t] =
       IF cache[r][a] = None
       THEN [@ EXCEPT !.via = via, !.agent = a, !.sid = s, !.pc = "over", !.reply =
               IF via \in Tools THEN ToolReply("missing") ELSE HttpStatus("missing")]
       ELSE [@ EXCEPT !.via = via, !.agent = a, !.sid = s,
                      !.pc = IF via = "test" THEN "retrieve" ELSE "open"]]
  /\ UNCHANGED <<personaVars, Stored>>

\* search_knowledge needs neither.
BeginSearch(t, r) ==
  /\ Arrives(t, r, "search")
  /\ turn' = [turn EXCEPT ![t].via = "search", ![t].pc = "retrieve"]
  /\ UNCHANGED <<personaVars, Stored>>

\* initialize and tools/list; an unknown method or tool; a call of a tool that
\* leaves out what the tool needs.
AnswerRpc(t, r) ==
  /\ Arrives(t, r, "rpc")
  /\ \E reply \in {"result", "rpcError", "isError"} :
       turn' = [turn EXCEPT ![t].via = "rpc", ![t].pc = "over", ![t].reply = reply]
  /\ UNCHANGED <<personaVars, Stored>>

Active(s) == session[s] # None /\ ~session[s].expired

Open_ForgetsNewSession(t) ==
  LET me == turn[t] IN
  /\ me.pc = "open"
  /\ IF me.sid # None
     THEN /\ IF Active(me.sid) THEN TurnGoes(t, "ask") ELSE TurnEnds(t, "missing")
          /\ UNCHANGED <<session, created>>
     ELSE \E s \in SessionIds \ created :
            /\ session' = [session EXCEPT ![s] = [agent |-> me.agent, expired |-> FALSE]]
            /\ created' = created \cup {s}
            /\ TurnGoes(t, "ask")
  /\ UNCHANGED <<personaVars, messages>>

\* findById, which finds unexpired sessions, of whatever persona; or create.
Open(t) ==
  LET me == turn[t] IN
  /\ me.pc = "open"
  /\ IF me.sid # None
     THEN /\ IF Active(me.sid) THEN TurnGoes(t, "ask") ELSE TurnEnds(t, "missing")
          /\ UNCHANGED <<session, created>>
     ELSE \E s \in SessionIds \ created :
            /\ session' = [session EXCEPT ![s] = [agent |-> me.agent, expired |-> FALSE]]
            /\ created' = created \cup {s}
            /\ turn' = [turn EXCEPT ![t].pc = "ask", ![t].sid = s]
  /\ UNCHANGED <<personaVars, messages>>

\* The INSERT of addMessage: chat_messages.session_id is a foreign key.
AddMessage(t, role, pc) ==
  LET s == turn[t].sid IN
  /\ IF session[s] = None
     THEN TurnEnds(t, "thrown") /\ UNCHANGED messages
     ELSE /\ messages' = [messages EXCEPT ![s] = Append(@, [turn |-> t, role |-> role])]
          /\ TurnGoes(t, pc)
  /\ UNCHANGED <<personaVars, session, created>>

Ask(t) == turn[t].pc = "ask" /\ AddMessage(t, "user", "retrieve")

\* Scores in bands: under 0.5, from there to 0.7, and from 0.7.
Scores         == 0 .. 2
MinScore(via)  == IF via = "search" THEN 1 ELSE 2

\* The search in pgvector, for the best score in the category.
Finds(best, min) == best >= min

\* updated_at of the session, and RAGService.search.
Retrieve(t) ==
  LET me == turn[t] IN
  /\ me.pc = "retrieve"
  /\ IF me.via = "search" THEN TurnEnds(t, "done")
     ELSE \E best \in Scores :
            turn' = [turn EXCEPT ![t].pc = "generate",
                                 ![t].context = Finds(best, MinScore(me.via))]
  /\ UNCHANGED <<personaVars, Stored>>

\* The prompt and the model router; the answer to a chat that had a context may be
\* checked.
Generate(t) ==
  /\ turn[t].pc = "generate" /\ turn[t].via # "test"
  /\ \E pc \in {"answer"} \cup IF turn[t].context THEN {"check"} ELSE {} :
       turn' = [turn EXCEPT ![t].pc = pc, ![t].context = FALSE]
  /\ UNCHANGED <<personaVars, Stored>>

\* A test stores nothing.
TestPersona(t) ==
  /\ turn[t].pc = "generate" /\ turn[t].via = "test"
  /\ TurnEnds(t, "done")
  /\ UNCHANGED <<personaVars, Stored>>

\* performSelfCheck may replace the answer and never fails.
SelfCheck(t) ==
  /\ turn[t].pc = "check"
  /\ TurnGoes(t, "answer")
  /\ UNCHANGED <<personaVars, Stored>>

Answer_BeforeItIsStored(t) ==
  /\ turn[t].pc = "answer"
  /\ TurnEnds(t, "done")
  /\ UNCHANGED <<personaVars, Stored>>

Answer(t) == turn[t].pc = "answer" /\ AddMessage(t, "assistant", "touch")

Touch_WaitsForASession(t) ==
  /\ turn[t].pc = "touch" /\ session[turn[t].sid] # None
  /\ TurnEnds(t, "done")
  /\ UNCHANGED <<personaVars, Stored>>

\* The UPDATE of updated_at, which may find no row.
Touch(t) ==
  /\ turn[t].pc = "touch"
  /\ TurnEnds(t, "done")
  /\ UNCHANGED <<personaVars, Stored>>

\* An awaited call rejects.
TurnFails(t) ==
  /\ turn[t].pc \notin {"unused", "check", "over"}
  /\ TurnEnds(t, "thrown")
  /\ UNCHANGED <<personaVars, Stored>>

-----------------------------------------------------------------------------

\* expires_at is 24 hours after the creation, and nothing extends it.
Expire(s) ==
  /\ Active(s)
  /\ session' = [session EXCEPT ![s].expired = TRUE]
  /\ UNCHANGED <<personaVars, created, messages, turn>>

Expired == {s \in SessionIds : session[s] # None /\ session[s].expired}

Cleanup_WithoutCascade ==
  /\ Expired # {} /\ \A s \in Expired : messages[s] = <<>>
  /\ session' = [s \in SessionIds |-> IF s \in Expired THEN None ELSE session[s]]
  /\ UNCHANGED <<personaVars, created, messages, turn>>

\* The hourly job of any replica; the messages go with ON DELETE CASCADE.
Cleanup ==
  /\ Expired # {}
  /\ session'  = [s \in SessionIds |-> IF s \in Expired THEN None ELSE session[s]]
  /\ messages' = [s \in SessionIds |-> IF s \in Expired THEN <<>> ELSE messages[s]]
  /\ UNCHANGED <<personaVars, created, turn>>

CheckPersonaInUse_Expired(o) ==
  /\ InUse(o, {s \in Expired : session[s].agent = op[o].id}, created)
  /\ UNCHANGED chatVars

CheckPersonaInUse(o) ==
  /\ InUse(o, {s \in SessionIds : Active(s) /\ session[s].agent = op[o].id}, created)
  /\ UNCHANGED chatVars

TurnStep(t) ==
  \/ Open(t) \/ Ask(t) \/ Retrieve(t) \/ Generate(t) \/ TestPersona(t)
  \/ SelfCheck(t) \/ Answer(t) \/ Touch(t)

Next ==
  \/ PersonasNext /\ UNCHANGED chatVars
  \/ \E o \in Ops : CheckPersonaInUse(o)
  \/ \E t \in Turns :
       \/ \E r \in Replicas :
            \/ \E via \in AllRoutes, a \in Ids, s \in SessionIds \cup {None} :
                 BeginTurn(t, r, via, a, s)
            \/ BeginSearch(t, r) \/ AnswerRpc(t, r)
       \/ TurnStep(t) \/ TurnFails(t)
  \/ \E s \in SessionIds : Expire(s)
  \/ Cleanup

Spec == Init /\ [][Next]_vars

\* Awaited calls return (the model router's do, see ModelRouter), and the
\* cleanup of some replica runs every hour.
FairSpec == Spec /\ WF_vars(Cleanup) /\ \A t \in Turns : WF_vars(TurnStep(t))

-----------------------------------------------------------------------------

Said(t, s, role) == \E i \in DOMAIN messages[s] : messages[s][i] = [turn |-> t, role |-> role]

\* The transcript of a session that exists says what happened in it, although it
\* may be cleaned away at any point of a turn, and callers are told the truth
\* about it: the question of every turn that got past storing it, the answer of
\* every one that was answered, each once and in this order; a question without
\* an answer is of a turn still running or told to have failed; and a turn told
\* that its persona or its session is not there has left nothing.  Nothing is
\* said in a session that is gone, nor by a test or a search.
TranscriptsAgree ==
  \A s \in SessionIds :
    /\ session[s] = None => messages[s] = <<>>
    /\ \A i, j \in DOMAIN messages[s] : messages[s][i].turn = messages[s][j].turn /\ i < j
         => messages[s][i].role = "user" /\ messages[s][j].role = "assistant"
    /\ \A t \in Turns : session[s] # None /\ turn[t].sid = s =>
         /\ turn[t].pc = "touch" \/ turn[t].reply \in {"ok", "result"}
              => Said(t, s, "assistant")
         /\ turn[t].pc \in {"open", "ask"} \/ turn[t].reply = "404"
              => ~Said(t, s, "user")
         /\ Said(t, s, "assistant") => Said(t, s, "user")
    /\ \A i \in DOMAIN messages[s] : turn[messages[s][i].turn].via \in {"chat", "ask"}

\* The admin deletes a persona under an active chat session only if the session
\* was created after checkPersonaInUse had counted.
OnlyLateSessionsLosePersona ==
  [][\A o \in Ops :
       op[o].pc = "put" /\ op[o].kind = "delete" /\ op[o].admin /\ op'[o].pc = "set" =>
         \A s \in SessionIds : Active(s) /\ session[s].agent = op[o].id =>
           s \notin op[o].counted]_vars

\* Every caller gets a reply.
TurnsEnd == \A t \in Turns : turn[t].pc # "unused" ~> turn[t].reply # None

\* Every expired session is removed, with its messages.
ExpiredAreRemoved == \A s \in SessionIds : s \in Expired ~> session[s] = None
=============================================================================
