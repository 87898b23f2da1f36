------------------------------ MODULE Personas ------------------------------
(***************************************************************************)
(* The personas table and the cache of it that every API process keeps     *)
(* (PersonaService), under the operations of PersonaController, of the     *)
(* admin controller and of POST reload-personas, each split at its awaits, *)
(* and under restarts of a process.                                        *)
(*                                                                         *)
(* Chats read the cache only, without an await, so a process answers with  *)
(* the personas it has cached.  Nothing tells a process what another one   *)
(* wrote.                                                                  *)
(***************************************************************************)
EXTENDS Naturals, FiniteSets

CONSTANTS
  None,
  Replicas,    \* API processes
  Ids,         \* persona ids
  Texts,       \* values of the fields every persona has
  Extras,      \* values of the fields a request may leave out
  Ops,         \* operations under way at a time
  SessionIds   \* ids of chat sessions (see Chat)

Configs == [text : Texts, extra : Extras \cup {None}]

ASSUME NoneAssumption == None \notin Configs \cup Extras

ASSUME SomeAssumption == Replicas # {} /\ Ids # {} /\ Texts # {}

VARIABLES
  table,       \* per id: the row of personas, or None
  cache,       \* per process: its personaCache
  op,          \* per slot: the operation and where it is
  disturbed    \* processes whose cache operations on other processes, at the
               \* same time, cut short or writing over a persona may have left
               \* behind (history)

personaVars == <<table, cache, op, disturbed>>

Kinds == {"create", "update", "delete", "reload", "boot"}
Pcs   == {"idle", "exists", "validate", "count", "look", "put", "set", "read", "fill"}
Rows  == [Ids -> Configs \cup {None}]

\* found: the row save() has seen; rows: what find() has returned; counted: the
\* sessions there were when checkPersonaInUse counted them (history); clean: no
\* other operation has been under way since this one started (history).
OpRecord ==
  [kind : Kinds, pc : Pcs, admin : BOOLEAN, on : Replicas, id : Ids,
   config : Configs, found : Configs \cup {None}, rows : Rows,
   counted : SUBSET SessionIds, clean : BOOLEAN]

PersonasTypeOK ==
  /\ table \in Rows
  /\ cache \in [Replicas -> Rows]
  /\ op \in [Ops -> OpRecord]
  /\ disturbed \subseteq Replicas

NoRows == [i \in Ids |-> None]

IdleOp ==
  [kind |-> "reload", pc |-> "idle", admin |-> FALSE,
   on |-> CHOOSE r \in Replicas : TRUE, id |-> CHOOSE i \in Ids : TRUE,
   config |-> CHOOSE v \in Configs : TRUE, found |-> None, rows |-> NoRows,
   counted |-> {}, clean |-> FALSE]

\* Every process has loaded the same table.
PersonasInit ==
  /\ table \in Rows
  /\ cache = [r \in Replicas |-> table]
  /\ op = [o \in Ops |-> IdleOp]
  /\ disturbed = {}

-----------------------------------------------------------------------------

InFlight   == {o \in Ops : op[o].pc # "idle"}
Serving(r) == ~\E o \in InFlight : op[o].kind = "boot" /\ op[o].on = r

Goes(o, pc) == op' = [op EXCEPT ![o].pc = pc]

\* The operation is answered, well or badly.
Ends(o) == op' = [op EXCEPT ![o] = IdleOp]

\* The operations dead are lost when o begins; the rest are under way with it.
Begins(o, new, dead) ==
  LET others == InFlight \ dead IN
  /\ op' = [p \in Ops |->
       IF p = o THEN [new EXCEPT !.clean = others = {}]
       ELSE IF p \in dead THEN IdleOp
       ELSE IF p \in others THEN [op[p] EXCEPT !.clean = FALSE] ELSE op[p]]
  /\ disturbed' =
       IF others # {} THEN Replicas
       ELSE disturbed \cup
         (IF new.kind \in {"reload", "boot"} THEN {} ELSE Replicas \ {new.on})

\* The admin controller starts with checks of its own.
FirstPc(kind, admin) ==
  CASE kind = "create" -> IF admin THEN "validate" ELSE "look"
    [] kind = "update" -> IF admin THEN "exists" ELSE "look"
    [] kind = "delete" -> IF admin THEN "exists" ELSE "put"
    [] OTHER           -> "read"

Start(o, kind, admin, r, i, v) ==
  /\ op[o].pc = "idle" /\ Serving(r)
  /\ kind # "boot" /\ (kind = "reload" => ~admin)
  /\ kind \in {"reload", "delete"} => v = IdleOp.config
  /\ Begins(o, [IdleOp EXCEPT !.kind = kind, !.pc = FirstPc(kind, admin),
                 !.admin = admin, !.on = r, !.id = i, !.config = v], {})
  /\ UNCHANGED <<table, cache>>

\* A process ends, and onModuleInit fills the cache of the one after it.
Restart(o, r) ==
  /\ op[o].pc = "idle"
  /\ Begins(o, [IdleOp EXCEPT !.kind = "boot", !.pc = "read", !.on = r],
            {p \in InFlight : op[p].on = r})
  /\ cache' = [cache EXCEPT ![r] = NoRows]
  /\ UNCHANGED table

\* validatePersonaConfig, which may find the configuration wanting.
Validate(o) ==
  /\ op[o].pc = "validate"
  /\ \/ Goes(o, IF op[o].kind = "create" THEN "exists" ELSE "look")
     \/ Ends(o)
  /\ UNCHANGED <<table, cache, disturbed>>

\* getPersonaById: no such row is an error, or what a creation wants.
Exists(o) ==
  LET me == op[o] IN
  /\ me.pc = "exists"
  /\ IF (table[me.id] = None) = (me.kind = "create")
     THEN Goes(o, CASE me.kind = "create" -> "look"
                    [] me.kind = "update" -> "validate"
                    [] me.kind = "delete" -> "count")
     ELSE Ends(o)
  /\ UNCHANGED <<table, cache, disturbed>>

\* checkPersonaInUse, with the sessions that are active and those there are.
InUse(o, active, known) ==
  /\ op[o].pc = "count"
  /\ IF active # {} THEN Ends(o)
     ELSE op' = [op EXCEPT ![o].pc = "put", ![o].counted = known]
  /\ UNCHANGED <<table, cache, disturbed>>

\* findOne() of updatePersona, or the SELECT with which save() starts.
Look(o) ==
  LET me == op[o] IN
  /\ me.pc = "look"
  /\ IF me.kind = "update" /\ table[me.id] = None THEN Ends(o)
     ELSE op' = [op EXCEPT ![o].pc = "put",
            ![o].found = IF me.kind = "create" THEN table[me.id] ELSE None]
  /\ UNCHANGED <<table, cache, disturbed>>

\* An UPDATE leaves out the columns that the request does not give.
Overwritten(i, v) ==
  IF table[i] = None THEN table
  ELSE [table EXCEPT ![i] =
          [v EXCEPT !.extra = IF @ = None THEN table[i].extra ELSE @]]

\* The INSERT, UPDATE or DELETE.  The key is unique.  A creation that has seen the
\* persona is an UPDATE, and caches what was asked for and not what was stored.
Put(o) ==
  LET me == op[o] IN
  /\ me.pc = "put"
  /\ CASE me.kind = "create" ->
            IF me.found # None
            THEN table' = Overwritten(me.id, me.config) /\ Goes(o, "set")
            ELSE IF table[me.id] = None
            THEN table' = [table EXCEPT ![me.id] = me.config] /\ Goes(o, "set")
            ELSE Ends(o) /\ UNCHANGED table
       [] me.kind = "update" ->
            table' = Overwritten(me.id, me.config) /\ Goes(o, "read")
       [] me.kind = "delete" ->
            table' = [table EXCEPT ![me.id] = None] /\ Goes(o, "set")
  /\ disturbed' = IF me.found = None THEN disturbed ELSE disturbed \cup {me.on}
  /\ UNCHANGED cache

\* personaCache.set or delete, when the write has come back.
Set(o) ==
  LET me == op[o] IN
  /\ me.pc = "set"
  /\ cache' = [cache EXCEPT ![me.on][me.id] =
       IF me.kind = "create" THEN me.config ELSE None]
  /\ Ends(o)
  /\ UNCHANGED <<table, disturbed>>

\* loadPersonas: find() ...
Read(o) ==
  /\ op[o].pc = "read"
  /\ op' = [op EXCEPT ![o].pc = "fill", ![o].rows = table]
  /\ UNCHANGED <<table, cache, disturbed>>

Fill_KeepsOldEntries(o) ==
  LET me == op[o] IN
  /\ me.pc = "fill"
  /\ cache' = [cache EXCEPT ![me.on] =
       [i \in Ids |-> IF me.rows[i] = None THEN @[i] ELSE me.rows[i]]]
  /\ disturbed' = IF me.clean THEN disturbed \ {me.on} ELSE disturbed
  /\ Ends(o)
  /\ UNCHANGED table

\* ... and, when it has come back, clear() and refill.
Fill(o) ==
  LET me == op[o] IN
  /\ me.pc = "fill"
  /\ cache' = [cache EXCEPT ![me.on] = me.rows]
  /\ disturbed' = IF me.clean THEN disturbed \ {me.on} ELSE disturbed
  /\ Ends(o)
  /\ UNCHANGED table

\* The database fails a statement.  An update whose reload fails has been
\* written, but its cache has not.
Fails(o) ==
  /\ op[o].pc \notin {"idle", "set", "fill"} /\ op[o].kind # "boot"
  /\ disturbed' = IF op[o].pc = "read" /\ op[o].kind = "update"
                  THEN disturbed \cup {op[o].on} ELSE disturbed
  /\ Ends(o)
  /\ UNCHANGED <<table, cache>>

OpStep(o) ==
  Validate(o) \/ Exists(o) \/ Look(o) \/ Put(o) \/ Set(o) \/ Read(o) \/ Fill(o)

PersonasNext ==
  \E o \in Ops :
    \/ \E kind \in Kinds, admin \in BOOLEAN, r \in Replicas, i \in Ids, v \in Configs :
         Start(o, kind, admin, r, i, v)
    \/ \E r \in Replicas : Restart(o, r)
    \/ OpStep(o) \/ Fails(o)

-----------------------------------------------------------------------------

\* A cache differs from the table only for a reason: when nothing is under way,
\* a process agrees with the table unless, since it last loaded it undisturbed,
\* another process has written, operations have overlapped, one was cut short or a
\* creation has written over a persona.
CoherentUnlessDisturbed ==
  InFlight = {} => \A r \in Replicas \ disturbed : cache[r] = table
=============================================================================
