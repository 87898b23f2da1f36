----------------------------- MODULE ChatProofs -----------------------------
(***************************************************************************)
(* Proofs about Personas and Chat, for any number of processes, personas,  *)
(* operations, sessions and turns.  The personas come first: what an       *)
(* operation may be at its point, and how far the cache of a process that  *)
(* nothing has disturbed may be from the table.  Then the sessions: what   *)
(* the transcript of a turn's session holds at each point of the turn.     *)
(***************************************************************************)
EXTENDS Chat, TLAPS

Writers == {"create", "update", "delete"}

\* The operations that reach each point.
Operating ==
  \A o \in Ops :
    LET me == op[o] IN
    /\ me.pc \in {"exists", "put"} => me.kind \in Writers
    /\ me.pc \in {"validate", "look"} => me.kind \in {"create", "update"}
    /\ me.pc = "count" => me.kind = "delete"
    /\ me.pc = "set" => me.kind \in {"create", "delete"}
    /\ me.pc \in {"read", "fill"} => me.kind \in {"update", "reload", "boot"}

\* An operation nothing has overlapped is alone, and has read the table there is.
Clean ==
  \A o \in InFlight : op[o].clean =>
    /\ InFlight = {o}
    /\ op[o].pc = "fill" => op[o].rows = table

Wanted(me) == IF me.kind = "create" THEN me.config ELSE None

\* How an undisturbed process r stands to the operation o under way.
Behind(r, o) ==
  LET me == op[o] IN
  /\ me.clean
  /\ me.kind \in Writers => r = me.on
  /\ me.pc = "set" => table = [cache[r] EXCEPT ![me.id] = Wanted(me)]
  /\ \/ me.pc = "set"
     \/ me.kind = "boot" /\ r = me.on
     \/ me.kind = "update" /\ me.pc \in {"read", "fill"}
     \/ cache[r] = table

Coherent ==
  \A r \in Replicas \ disturbed :
    /\ InFlight = {} => cache[r] = table
    /\ \A o \in InFlight : Behind(r, o)

PInv == PersonasTypeOK /\ Operating /\ Clean /\ Coherent

\* The idle operation is one.
LEMMA IdleOpType == IdleOp \in OpRecord /\ IdleOp.pc = "idle"
<1>1. (CHOOSE r \in Replicas : TRUE) \in Replicas /\ (CHOOSE i \in Ids : TRUE) \in Ids
  BY SomeAssumption
<1>2. (CHOOSE v \in Configs : TRUE) \in Configs
  <2>1. PICK text \in Texts : TRUE
    BY SomeAssumption
  <2>2. [text |-> text, extra |-> None] \in Configs
    BY <2>1 DEF Configs
  <2> QED  BY <2>2
<1>3. NoRows \in Rows
  BY DEF NoRows, Rows
<1> QED  BY <1>1, <1>2, <1>3 DEF IdleOp, OpRecord, Kinds, Pcs

\* Goes changes the point of one operation only.
LEMMA GoesOp ==
  ASSUME op \in [Ops -> OpRecord], NEW o \in Ops, NEW pc \in Pcs, Goes(o, pc)
  PROVE  /\ op' \in [Ops -> OpRecord]
         /\ \A p \in Ops : p # o => op'[p] = op[p]
         /\ op'[o].pc = pc
         /\ op'[o].kind = op[o].kind /\ op'[o].admin = op[o].admin
         /\ op'[o].on = op[o].on /\ op'[o].id = op[o].id
         /\ op'[o].config = op[o].config /\ op'[o].found = op[o].found
         /\ op'[o].rows = op[o].rows /\ op'[o].counted = op[o].counted
         /\ op'[o].clean = op[o].clean
<1> DEFINE new == [op[o] EXCEPT !.pc = pc]
<1>1. op' = [op EXCEPT ![o] = new]
  BY DEF Goes
<1>2. /\ new \in OpRecord /\ new.pc = pc
      /\ new.kind = op[o].kind /\ new.admin = op[o].admin
      /\ new.on = op[o].on /\ new.id = op[o].id
      /\ new.config = op[o].config /\ new.found = op[o].found
      /\ new.rows = op[o].rows /\ new.counted = op[o].counted
      /\ new.clean = op[o].clean
  BY DEF OpRecord
<1> HIDE DEF new
<1> QED  BY <1>1, <1>2

\* An operation that ends leaves the others.
LEMMA EndsOp ==
  ASSUME op \in [Ops -> OpRecord], NEW o \in Ops, Ends(o)
  PROVE  /\ op' \in [Ops -> OpRecord]
         /\ \A p \in Ops : p # o => op'[p] = op[p]
         /\ op'[o].pc = "idle"
         /\ InFlight' = InFlight \ {o}
<1>1. op' = [op EXCEPT ![o] = IdleOp]
  BY DEF Ends
<1> QED  BY <1>1, IdleOpType DEF InFlight

\* It may end at any point at which its process agrees with the table or is counted
\* as disturbed.
LEMMA EndsPInv ==
  ASSUME PInv, NEW o \in InFlight, Ends(o), UNCHANGED <<table, cache>>,
         disturbed' \in SUBSET Replicas, disturbed \subseteq disturbed',
         \A r \in Replicas \ disturbed' : cache[r] = table
  PROVE  PInv'
<1>1. o \in Ops /\ op \in [Ops -> OpRecord]
  BY DEF PInv, PersonasTypeOK, InFlight
<1>2. /\ op' \in [Ops -> OpRecord] /\ op'[o].pc = "idle" /\ InFlight' = InFlight \ {o}
      /\ \A p \in Ops : p # o => op'[p] = op[p]
  BY <1>1, EndsOp
<1>3. PersonasTypeOK' /\ Operating'
  BY <1>2 DEF PInv, PersonasTypeOK, Operating
<1>4. Clean'
  BY <1>2 DEF PInv, Clean, InFlight
<1>5. Coherent'
  <2> SUFFICES ASSUME NEW r \in Replicas \ disturbed', NEW p \in InFlight'
               PROVE  Behind(r, p)'
    BY DEF Coherent
  <2>1. p \in InFlight /\ p # o
    BY <1>2
  <2>2. op[p].clean
    BY <2>1 DEF PInv, Coherent, Behind
  <2> QED  BY <2>1, <2>2 DEF PInv, Clean
<1> QED  BY <1>3, <1>4, <1>5 DEF PInv

\* An operation that goes on without writing.
LEMMA GoesPInv ==
  ASSUME PInv, NEW o \in InFlight, NEW pc \in Pcs \ {"idle", "set", "read", "fill"},
         op[o].pc \notin {"set", "read", "fill"},
         op' \in [Ops -> OpRecord], \A p \in Ops : p # o => op'[p] = op[p],
         op'[o].pc = pc, op'[o].kind = op[o].kind, op'[o].on = op[o].on,
         op'[o].clean = op[o].clean, UNCHANGED <<table, cache, disturbed>>,
         pc \in {"exists", "put"} => op[o].kind \in Writers,
         pc \in {"validate", "look"} => op[o].kind \in {"create", "update"},
         pc = "count" => op[o].kind = "delete"
  PROVE  PInv'
<1>1. PersonasTypeOK' /\ Operating'
  BY DEF PInv, PersonasTypeOK, Operating
<1>2. InFlight' = InFlight /\ o \in Ops
  BY DEF InFlight
<1>3. Clean'
  BY <1>2 DEF PInv, Clean, InFlight
<1>4. Coherent'
  <2> SUFFICES ASSUME NEW r \in Replicas \ disturbed, NEW p \in InFlight
               PROVE  Behind(r, p)'
    BY <1>2 DEF Coherent
  <2>1. Behind(r, p) /\ Behind(r, o)
    BY DEF PInv, Coherent
  <2>2. p = o
    BY <2>1 DEF PInv, Clean, Behind
  <2> QED  BY <2>1, <2>2 DEF Behind
<1> QED  BY <1>1, <1>3, <1>4 DEF PInv

\* The operation that begins is alone, or nothing is undisturbed.
LEMMA BeginsOp ==
  ASSUME op \in [Ops -> OpRecord], NEW o \in Ops, op[o].pc = "idle",
         NEW new \in OpRecord, new.pc # "idle", NEW dead \in SUBSET InFlight,
         Begins(o, new, dead)
  PROVE  /\ op' \in [Ops -> OpRecord]
         /\ op'[o].kind = new.kind /\ op'[o].pc = new.pc /\ op'[o].on = new.on
         /\ op'[o].id = new.id /\ op'[o].counted = new.counted /\ op'[o].admin = new.admin
         /\ op'[o].clean <=> InFlight \ dead = {}
         /\ \A p \in Ops \ {o} :
              /\ op'[p].pc = op[p].pc \/ op'[p].pc = "idle"
              /\ op'[p].pc = "idle" <=> p \notin InFlight \ dead
              /\ op'[p].pc # "idle" => /\ op'[p].kind = op[p].kind /\ op'[p].id = op[p].id
                                       /\ op'[p].counted = op[p].counted
                                       /\ op'[p].admin = op[p].admin
                                       /\ ~op'[p].clean
         /\ InFlight' = (InFlight \ dead) \cup {o}
<1> DEFINE others == InFlight \ dead
           mine == [new EXCEPT !.clean = others = {}]
           theirs(p) == [op[p] EXCEPT !.clean = FALSE]
<1>1. op' = [p \in Ops |-> IF p = o THEN mine
                           ELSE IF p \in dead THEN IdleOp
                           ELSE IF p \in others THEN theirs(p) ELSE op[p]]
  BY DEF Begins
<1>2. /\ mine \in OpRecord /\ mine.kind = new.kind /\ mine.pc = new.pc /\ mine.on = new.on
      /\ mine.id = new.id /\ mine.counted = new.counted /\ mine.admin = new.admin
      /\ mine.clean <=> others = {}
  <2> HIDE DEF others
  <2>1. (others = {}) \in BOOLEAN
    OBVIOUS
  <2> QED  BY <2>1 DEF OpRecord
<1>3. \A p \in Ops :
        /\ theirs(p) \in OpRecord /\ ~theirs(p).clean
        /\ theirs(p).pc = op[p].pc /\ theirs(p).kind = op[p].kind /\ theirs(p).id = op[p].id
        /\ theirs(p).counted = op[p].counted /\ theirs(p).admin = op[p].admin
  BY DEF OpRecord
<1>4. \A p \in others : p \in Ops /\ p # o /\ p \notin dead /\ op[p].pc # "idle"
  BY DEF InFlight
<1>5. \A p \in Ops \ {o} : op'[p] = IF p \in dead THEN IdleOp
                                    ELSE IF p \in others THEN theirs(p) ELSE op[p]
  BY <1>1
<1> HIDE DEF mine, theirs
<1>6. op' \in [Ops -> OpRecord] /\ op'[o] = mine
  BY <1>1, <1>2, <1>3, IdleOpType
<1>7. ASSUME NEW p \in Ops \ {o}
      PROVE  /\ op'[p].pc = op[p].pc \/ op'[p].pc = "idle"
             /\ op'[p].pc = "idle" <=> p \notin others
             /\ op'[p].pc # "idle" => op'[p] = theirs(p)
  <2>1. CASE p \in dead
    BY <1>5, <2>1, IdleOpType
  <2>2. CASE p \in others
    BY <1>3, <1>4, <1>5, <2>2
  <2>3. CASE p \notin dead /\ p \notin others
    BY <1>5, <2>3 DEF InFlight
  <2> QED  BY <2>1, <2>2, <2>3
<1>8. InFlight' = others \cup {o}
  BY <1>2, <1>4, <1>6, <1>7 DEF InFlight
<1> QED  BY <1>2, <1>3, <1>6, <1>7, <1>8

\* A request begins where the controller does.
LEMMA StartPInv ==
  ASSUME PInv, NEW o \in Ops, NEW kind \in Kinds, NEW admin \in BOOLEAN,
         NEW r \in Replicas, NEW i \in Ids, NEW v \in Configs, Start(o, kind, admin, r, i, v)
  PROVE  /\ PInv'
         /\ \A p \in Ops \ {o} : op'[p].pc # "idle" =>
              /\ op'[p].pc = op[p].pc /\ op'[p].kind = op[p].kind /\ op'[p].id = op[p].id
              /\ op'[p].counted = op[p].counted /\ op'[p].admin = op[p].admin
         /\ op'[o].pc = "put" => ~op'[o].admin
<1> DEFINE first == FirstPc(kind, admin)
           new == [IdleOp EXCEPT !.kind = kind, !.pc = first, !.admin = admin,
                                 !.on = r, !.id = i, !.config = v]
<1>1. /\ op[o].pc = "idle" /\ kind # "boot" /\ Begins(o, new, {}) /\ UNCHANGED <<table, cache>>
  BY DEF Start
<1>2. /\ first \in Pcs \ {"idle", "set", "fill", "count"}
      /\ first = "put" => kind = "delete" /\ ~admin
      /\ first = "exists" => kind \in Writers
      /\ first \in {"validate", "look"} => kind \in {"create", "update"}
      /\ first = "read" => kind = "reload"
  BY <1>1 DEF FirstPc, Kinds, Pcs, Writers
<1> HIDE DEF first
<1>3. /\ new \in OpRecord /\ new.kind = kind /\ new.pc = first /\ new.admin = admin
      /\ new.on = r /\ new.id = i /\ new.clean = IdleOp.clean
  BY <1>2, IdleOpType DEF OpRecord
<1>4. disturbed' = IF InFlight # {} THEN Replicas
                   ELSE disturbed \cup
                     (IF kind \in {"reload", "boot"} THEN {} ELSE Replicas \ {r})
  BY <1>1, <1>3 DEF Begins
<1> HIDE DEF new
<1>5. op \in [Ops -> OpRecord] /\ {} \in SUBSET InFlight /\ InFlight \ {} = InFlight
  BY DEF PInv, PersonasTypeOK
<1>6. /\ op' \in [Ops -> OpRecord]
      /\ op'[o].kind = kind /\ op'[o].pc = first /\ op'[o].on = r /\ op'[o].admin = admin
      /\ op'[o].clean <=> InFlight = {}
      /\ \A p \in Ops \ {o} :
           /\ op'[p].pc = op[p].pc \/ op'[p].pc = "idle"
           /\ op'[p].pc = "idle" <=> p \notin InFlight
           /\ op'[p].pc # "idle" => /\ op'[p].kind = op[p].kind /\ op'[p].id = op[p].id
                                    /\ op'[p].counted = op[p].counted
                                    /\ op'[p].admin = op[p].admin
                                    /\ ~op'[p].clean
      /\ InFlight' = InFlight \cup {o}
  BY <1>1, <1>2, <1>3, <1>5, BeginsOp
<1>7. PersonasTypeOK'
  BY <1>1, <1>4, <1>6 DEF PInv, PersonasTypeOK
<1>8. Operating'
  <2>1. ASSUME NEW p \in Ops \ {o}, op'[p].pc # "idle"
        PROVE  op'[p].pc = op[p].pc /\ op'[p].kind = op[p].kind
    BY <1>6, <2>1
  <2> SUFFICES ASSUME NEW p \in Ops, op'[p].pc # "idle"
               PROVE  LET me == op'[p] IN
                      /\ me.pc \in {"exists", "put"} => me.kind \in Writers
                      /\ me.pc \in {"validate", "look"} => me.kind \in {"create", "update"}
                      /\ me.pc = "count" => me.kind = "delete"
                      /\ me.pc = "set" => me.kind \in {"create", "delete"}
                      /\ me.pc \in {"read", "fill"} => me.kind \in {"update", "reload", "boot"}
    BY DEF Operating
  <2>2. CASE p = o
    BY <1>2, <1>6, <2>2 DEF Writers
  <2>3. CASE p # o
    BY <2>1, <2>3 DEF PInv, Operating
  <2> QED  BY <2>2, <2>3
<1>9. Clean'
  BY <1>2, <1>6 DEF Clean, InFlight
<1>10. Coherent'
  <2> SUFFICES ASSUME NEW s \in Replicas \ disturbed', NEW p \in InFlight'
               PROVE  Behind(s, p)'
    BY <1>6 DEF Coherent
  <2>1. InFlight = {} /\ s \notin disturbed /\ (kind \in Writers => s = r) /\ p = o
    BY <1>4, <1>6 DEF Kinds, Writers
  <2>2. cache[s] = table
    BY <2>1 DEF PInv, Coherent
  <2> QED  BY <1>1, <1>2, <1>6, <2>1, <2>2 DEF Behind
<1> QED  BY <1>2, <1>6, <1>7, <1>8, <1>9, <1>10 DEF PInv

\* A process that starts again takes its operations with it.
LEMMA RestartPInv ==
  ASSUME PInv, NEW o \in Ops, NEW r \in Replicas, Restart(o, r)
  PROVE  /\ PInv'
         /\ \A p \in Ops \ {o} : op'[p].pc # "idle" =>
              /\ op'[p].pc = op[p].pc /\ op'[p].kind = op[p].kind /\ op'[p].id = op[p].id
              /\ op'[p].counted = op[p].counted /\ op'[p].admin = op[p].admin
         /\ op'[o].pc = "read"
<1> DEFINE new == [IdleOp EXCEPT !.kind = "boot", !.pc = "read", !.on = r]
           dead == {p \in InFlight : op[p].on = r}
<1>1. /\ op[o].pc = "idle" /\ Begins(o, new, dead)
      /\ table' = table /\ cache' = [cache EXCEPT ![r] = NoRows]
  BY DEF Restart
<1>2. /\ new \in OpRecord /\ new.kind = "boot" /\ new.pc = "read" /\ new.on = r
  BY IdleOpType DEF OpRecord, Kinds, Pcs
<1>3. disturbed' = IF InFlight \ dead # {} THEN Replicas ELSE disturbed
  BY <1>1, <1>2 DEF Begins
<1> HIDE DEF new
<1>4. op \in [Ops -> OpRecord] /\ dead \in SUBSET InFlight
  BY DEF PInv, PersonasTypeOK
<1> HIDE DEF dead
<1>5. /\ op' \in [Ops -> OpRecord]
      /\ op'[o].kind = "boot" /\ op'[o].pc = "read" /\ op'[o].on = r
      /\ op'[o].clean <=> InFlight \ dead = {}
      /\ \A p \in Ops \ {o} :
           /\ op'[p].pc = op[p].pc \/ op'[p].pc = "idle"
           /\ op'[p].pc # "idle" => /\ op'[p].kind = op[p].kind /\ op'[p].id = op[p].id
                                    /\ op'[p].counted = op[p].counted
                                    /\ op'[p].admin = op[p].admin
                                    /\ ~op'[p].clean
      /\ InFlight' = (InFlight \ dead) \cup {o}
  BY <1>1, <1>2, <1>4, BeginsOp
<1>6. NoRows \in Rows
  BY DEF NoRows, Rows
<1>7. PersonasTypeOK'
  BY <1>1, <1>3, <1>5, <1>6 DEF PInv, PersonasTypeOK
<1>8. Operating'
  <2>1. ASSUME NEW p \in Ops \ {o}, op'[p].pc # "idle"
        PROVE  op'[p].pc = op[p].pc /\ op'[p].kind = op[p].kind
    BY <1>5, <2>1
  <2> QED  BY <1>5, <2>1 DEF PInv, Operating
<1>9. Clean'
  BY <1>5 DEF Clean, InFlight
<1>10. Coherent'
  <2> SUFFICES ASSUME NEW s \in Replicas \ disturbed', NEW p \in InFlight'
               PROVE  Behind(s, p)'
    BY <1>5 DEF Coherent
  <2>1. InFlight \ dead = {} /\ s \in Replicas \ disturbed /\ p = o
    BY <1>3, <1>5
  <2>2. s # r => cache'[s] = table
    <3> SUFFICES ASSUME s # r PROVE cache[s] = table
      BY <1>1 DEF PInv, PersonasTypeOK
    <3>1. CASE InFlight = {}
      BY <2>1, <3>1 DEF PInv, Coherent
    <3>2. CASE InFlight # {}
      <4>1. PICK q \in InFlight : op[q].on = r
        BY <2>1, <3>2 DEF dead
      <4>2. Behind(s, q)
        BY <2>1 DEF PInv, Coherent
      <4>3. op[q].kind \notin Writers /\ op[q].pc # "set"
        BY <4>1, <4>2 DEF Behind, PInv, Operating, InFlight, Writers
      <4> QED  BY <4>1, <4>2, <4>3 DEF Behind, Writers
    <3> QED  BY <3>1, <3>2
  <2> QED  BY <1>1, <1>5, <2>1, <2>2 DEF Behind, Writers
<1> QED  BY <1>5, <1>7, <1>8, <1>9, <1>10 DEF PInv

\* What a step of an operation leaves of its process, when the process is undisturbed.
LEMMA Undisturbed ==
  ASSUME PInv, NEW o \in InFlight, NEW r \in Replicas \ disturbed
  PROVE  InFlight = {o} /\ Behind(r, o)
BY DEF PInv, Clean, Coherent, Behind

\* Before it writes, an operation other than a boot leaves caches as they are.
LEMMA NotYet ==
  ASSUME PInv, NEW o \in InFlight, op[o].pc \in {"validate", "exists", "count", "look", "put"},
         NEW r \in Replicas \ disturbed
  PROVE  cache[r] = table
<1>1. Behind(r, o)
  BY Undisturbed
<1>2. op[o].kind # "boot"
  BY DEF PInv, Operating, InFlight, Writers
<1> QED  BY <1>1, <1>2 DEF Behind

\* The steps in front of the write.
LEMMA CheckPInv ==
  ASSUME PInv, NEW o \in Ops,
         \/ Validate(o) \/ Exists(o) \/ Look(o)
         \/ \E active, known : known \subseteq SessionIds /\ InUse(o, active, known)
  PROVE  PInv'
<1> DEFINE Same == /\ op'[o].kind = op[o].kind /\ op'[o].on = op[o].on
                   /\ op'[o].clean = op[o].clean /\ op' \in [Ops -> OpRecord]
                   /\ \A p \in Ops : p # o => op'[p] = op[p]
<1>1. op[o].pc \in {"validate", "exists", "count", "look"}
  BY DEF Validate, Exists, Look, InUse
<1>2. o \in InFlight /\ op \in [Ops -> OpRecord] /\ UNCHANGED <<table, cache, disturbed>>
  BY <1>1 DEF InFlight, PInv, PersonasTypeOK, Validate, Exists, Look, InUse
<1>3. CASE Ends(o)
  <2>1. \A r \in Replicas \ disturbed' : cache[r] = table
    BY <1>1, <1>2, NotYet
  <2> QED  BY <1>2, <1>3, <2>1, EndsPInv DEF PInv, PersonasTypeOK
<1>4. CASE Validate(o) /\ ~Ends(o)
  <2> DEFINE pc == IF op[o].kind = "create" THEN "exists" ELSE "look"
  <2>1. op[o].pc = "validate" /\ op[o].kind \in {"create", "update"} /\ Goes(o, pc)
    BY <1>4 DEF Validate, PInv, Operating
  <2>2. /\ pc \in Pcs \ {"idle", "set", "read", "fill"} /\ pc \in {"exists", "look"}
        /\ pc = "exists" => op[o].kind \in Writers
    BY <2>1 DEF Pcs, Writers
  <2> HIDE DEF pc
  <2>3. Same /\ op'[o].pc = pc
    BY <1>2, <2>1, <2>2, GoesOp
  <2> QED  BY <1>2, <2>1, <2>2, <2>3, GoesPInv
<1>5. CASE Exists(o) /\ ~Ends(o)
  <2> DEFINE pc == CASE op[o].kind = "create" -> "look" [] op[o].kind = "update" -> "validate"
                     [] op[o].kind = "delete" -> "count"
  <2>1. op[o].pc = "exists" /\ op[o].kind \in Writers /\ Goes(o, pc)
    BY <1>5 DEF Exists, PInv, Operating
  <2>2. /\ pc \in Pcs \ {"idle", "set", "read", "fill"} /\ pc \in {"look", "validate", "count"}
        /\ pc \in {"look", "validate"} => op[o].kind \in {"create", "update"}
        /\ pc = "count" => op[o].kind = "delete"
    BY <2>1 DEF Pcs, Writers
  <2> HIDE DEF pc
  <2>3. Same /\ op'[o].pc = pc
    BY <1>2, <2>1, <2>2, GoesOp
  <2> QED  BY <1>2, <2>1, <2>2, <2>3, GoesPInv
<1>6. CASE Look(o) /\ ~Ends(o)
  <2> DEFINE found == IF op[o].kind = "create" THEN table[op[o].id] ELSE None
             new == [op[o] EXCEPT !.pc = "put", !.found = found]
  <2>1. /\ op[o].pc = "look" /\ op[o].kind \in {"create", "update"}
        /\ op' = [op EXCEPT ![o].pc = "put", ![o].found = found]
    BY <1>6 DEF Look, PInv, Operating
  <2>2. op[o] \in OpRecord /\ found \in Configs \cup {None}
    BY <1>2 DEF PInv, PersonasTypeOK, OpRecord, Rows
  <2> HIDE DEF found
  <2>3. /\ new \in OpRecord /\ new.pc = "put" /\ new.kind = op[o].kind
        /\ new.on = op[o].on /\ new.clean = op[o].clean
    BY <2>2 DEF OpRecord, Pcs
  <2>4. op' = [op EXCEPT ![o] = new]
    BY <1>2, <2>1
  <2> HIDE DEF new
  <2>5. Same /\ op'[o].pc = "put"
    BY <1>2, <2>3, <2>4
  <2> QED  BY <1>2, <2>1, <2>5, GoesPInv DEF Pcs, Writers
<1>7. CASE ~Ends(o) /\ \E active, known : known \subseteq SessionIds /\ InUse(o, active, known)
  <2>1. PICK active, known : known \subseteq SessionIds /\ InUse(o, active, known)
    BY <1>7
  <2> DEFINE new == [op[o] EXCEPT !.pc = "put", !.counted = known]
  <2>2. /\ op[o].pc = "count" /\ op[o].kind = "delete"
        /\ op' = [op EXCEPT ![o].pc = "put", ![o].counted = known]
    BY <1>7, <2>1 DEF InUse, PInv, Operating
  <2>3. op[o] \in OpRecord
    BY <1>2
  <2>4. /\ new \in OpRecord /\ new.pc = "put" /\ new.kind = op[o].kind
        /\ new.on = op[o].on /\ new.clean = op[o].clean
    BY <2>1, <2>3 DEF OpRecord, Pcs
  <2>5. op' = [op EXCEPT ![o] = new]
    BY <1>2, <2>2
  <2> HIDE DEF new
  <2>6. Same /\ op'[o].pc = "put"
    BY <1>2, <2>4, <2>5
  <2> QED  BY <1>2, <2>2, <2>6, GoesPInv DEF Pcs, Writers
<1> QED  BY <1>3, <1>4, <1>5, <1>6, <1>7

\* The write puts the process behind by one persona, or by a reload.
LEMMA PutPInv ==
  ASSUME PInv, NEW o \in Ops, Put(o)
  PROVE  PInv'
<1> DEFINE me == op[o]
<1>1. /\ me.pc = "put" /\ me.kind \in Writers /\ o \in InFlight
      /\ op \in [Ops -> OpRecord] /\ me \in OpRecord /\ cache' = cache
      /\ table \in Rows /\ me.id \in Ids /\ me.config \in Configs
  BY DEF Put, PInv, Operating, InFlight, PersonasTypeOK, OpRecord
<1>2. /\ disturbed' \in SUBSET Replicas /\ disturbed \subseteq disturbed'
      /\ me.found # None => me.on \in disturbed'
  BY <1>1 DEF Put, PInv, PersonasTypeOK, OpRecord
<1>3. \A r \in Replicas \ disturbed' :
        InFlight = {o} /\ cache[r] = table /\ me.clean /\ r = me.on
  <2> TAKE r \in Replicas \ disturbed'
  <2>1. r \in Replicas \ disturbed
    BY <1>2
  <2>2. InFlight = {o} /\ Behind(r, o)
    BY <1>1, <2>1, Undisturbed
  <2> QED  BY <1>1, <2>1, <2>2, NotYet DEF Behind
<1>4. CASE Ends(o)
  <2>1. table' = table
    <3>1. Goes(o, "set") \/ Goes(o, "read") \/ table' = table
      BY <1>1 DEF Put, Writers
    <3>2. op'[o].pc = "idle"
      BY <1>1, <1>4, EndsOp
    <3>3. ~Goes(o, "set") /\ ~Goes(o, "read")
      BY <1>1, <3>2 DEF Goes, OpRecord
    <3> QED  BY <3>1, <3>3
  <2> QED  BY <1>1, <1>2, <1>3, <1>4, <2>1, EndsPInv
<1>5. CASE ~Ends(o)
  <2> DEFINE pc == IF me.kind = "update" THEN "read" ELSE "set"
  <2>1. Goes(o, pc)
    BY <1>1, <1>5 DEF Put, Writers
  <2>2. /\ me.kind = "create" /\ me.found = None =>
             table' = [table EXCEPT ![me.id] = me.config]
        /\ me.kind = "delete" => table' = [table EXCEPT ![me.id] = None]
        /\ me.kind = "update" \/ (me.found # None /\ me.kind = "create") =>
             table' = Overwritten(me.id, me.config)
    BY <1>1, <1>5 DEF Put, Writers
  <2>3. table' \in Rows
    <3>1. Overwritten(me.id, me.config) \in Rows
      <4>1. CASE table[me.id] = None
        BY <1>1, <4>1 DEF Overwritten
      <4>2. CASE table[me.id] # None
        <5> DEFINE extra == IF me.config.extra = None THEN table[me.id].extra
                            ELSE me.config.extra
                   row == [me.config EXCEPT !.extra = extra]
        <5>1. table[me.id] \in Configs
          BY <1>1, <4>2 DEF Rows
        <5>2. extra \in Extras \cup {None}
          BY <1>1, <5>1 DEF Configs
        <5>3. Overwritten(me.id, me.config) = [table EXCEPT ![me.id] = row]
          BY <1>1, <4>2 DEF Overwritten, Configs
        <5> HIDE DEF extra
        <5>4. row \in Configs
          BY <1>1, <5>2 DEF Configs
        <5> QED  BY <1>1, <5>3, <5>4 DEF Rows
      <4> QED  BY <4>1, <4>2
    <3>2. [table EXCEPT ![me.id] = me.config] \in Rows
          /\ [table EXCEPT ![me.id] = None] \in Rows
      BY <1>1 DEF Rows
    <3>3. \/ table' = Overwritten(me.id, me.config)
          \/ table' = [table EXCEPT ![me.id] = me.config]
          \/ table' = [table EXCEPT ![me.id] = None]
      <4>1. me.kind = "create" \/ me.kind = "update" \/ me.kind = "delete"
        BY <1>1 DEF Writers
      <4>2. CASE me.kind = "create" /\ me.found = None
        BY <2>2, <4>2
      <4>3. CASE me.kind = "update" \/ (me.kind = "create" /\ me.found # None)
        BY <2>2, <4>3
      <4>4. CASE me.kind = "delete"
        BY <2>2, <4>4
      <4> QED  BY <4>1, <4>2, <4>3, <4>4
    <3> QED  BY <3>1, <3>2, <3>3
  <2>4. pc \in Pcs /\ pc \in {"read", "set"}
    BY DEF Pcs
  <2>5. /\ op' \in [Ops -> OpRecord] /\ \A p \in Ops : p # o => op'[p] = op[p]
        /\ op'[o].pc = pc /\ op'[o].kind = me.kind /\ op'[o].on = me.on
        /\ op'[o].id = me.id /\ op'[o].config = me.config /\ op'[o].clean = me.clean
    <3> HIDE DEF pc
    <3> QED  BY <1>1, <2>1, <2>4, GoesOp
  <2>6. InFlight' = InFlight
    BY <1>1, <2>4, <2>5 DEF InFlight
  <2>7. PersonasTypeOK'
    BY <1>1, <1>2, <2>3, <2>5 DEF PInv, PersonasTypeOK
  <2>8. Operating'
    BY <1>1, <2>5 DEF PInv, Operating, Writers
  <2>9. Clean'
    <3> SUFFICES ASSUME NEW p \in InFlight, op'[p].clean
                 PROVE  InFlight = {p} /\ (op'[p].pc = "fill" => op'[p].rows = table')
      BY <2>6 DEF Clean
    <3>1. op[p].clean
      BY <2>5 DEF InFlight
    <3>2. InFlight = {p} /\ p = o
      BY <1>1, <3>1 DEF PInv, Clean
    <3> QED  BY <2>4, <2>5, <3>2
  <2>10. Coherent'
    <3> SUFFICES ASSUME NEW r \in Replicas \ disturbed'
                 PROVE  Behind(r, o)'
      BY <1>1, <1>3, <2>6 DEF Coherent
    <3>1. cache[r] = table /\ me.clean /\ r = me.on /\ me.found = None
      BY <1>2, <1>3
    <3>2. me.kind # "update" => table' = [cache[r] EXCEPT ![me.id] = Wanted(me)]
      BY <1>1, <2>2, <3>1 DEF Wanted, Writers
    <3>3. Wanted(op'[o]) = Wanted(me)
      BY <2>5 DEF Wanted
    <3> HIDE DEF me
    <3>4. op'[o].pc = "set" => table' = [cache'[r] EXCEPT ![op'[o].id] = Wanted(op'[o])]
      BY <1>1, <2>5, <3>2, <3>3
    <3> QED  BY <1>1, <2>5, <3>1, <3>4 DEF Behind
  <2> QED  BY <2>7, <2>8, <2>9, <2>10 DEF PInv
<1> QED  BY <1>4, <1>5

\* The cache catches up with the write.
LEMMA SetPInv ==
  ASSUME PInv, NEW o \in Ops, Set(o)
  PROVE  PInv'
<1> DEFINE me == op[o]
<1>1. /\ me.pc = "set" /\ me.kind \in {"create", "delete"} /\ o \in InFlight
      /\ op \in [Ops -> OpRecord] /\ me \in OpRecord /\ cache \in [Replicas -> Rows]
      /\ me.id \in Ids /\ me.config \in Configs /\ me.on \in Replicas
      /\ Ends(o) /\ UNCHANGED <<table, disturbed>>
  BY DEF Set, PInv, Operating, InFlight, PersonasTypeOK, OpRecord
<1>2. cache' = [cache EXCEPT ![me.on][me.id] = Wanted(me)]
  BY DEF Set, Wanted
<1> DEFINE new == [cache[me.on] EXCEPT ![me.id] = Wanted(me)]
<1>3. cache' = [cache EXCEPT ![me.on] = new]
  BY <1>1, <1>2
<1>4. new \in Rows
  BY <1>1 DEF Rows, Wanted
<1>5. /\ op' \in [Ops -> OpRecord] /\ \A p \in Ops : p # o => op'[p] = op[p]
      /\ op'[o].pc = "idle" /\ InFlight' = InFlight \ {o}
  BY <1>1, EndsOp
<1>6. \A r \in Replicas \ disturbed : InFlight' = {} /\ cache'[r] = table
  <2> TAKE r \in Replicas \ disturbed
  <2>1. InFlight = {o} /\ Behind(r, o)
    BY <1>1, Undisturbed
  <2>2. r = me.on /\ new = table
    BY <1>1, <2>1 DEF Behind, Writers
  <2> HIDE DEF new
  <2> QED  BY <1>1, <1>3, <1>5, <2>1, <2>2
<1> HIDE DEF new
<1>7. PersonasTypeOK' /\ Operating'
  BY <1>1, <1>3, <1>4, <1>5 DEF PInv, PersonasTypeOK, Operating
<1>8. Clean'
  BY <1>1, <1>5 DEF PInv, Clean, InFlight
<1>9. Coherent'
  BY <1>1, <1>6 DEF Coherent
<1> QED  BY <1>7, <1>8, <1>9 DEF PInv

\* A reload reads the table ...
LEMMA ReadPInv ==
  ASSUME PInv, NEW o \in Ops, Read(o)
  PROVE  PInv'
<1> DEFINE new == [op[o] EXCEPT !.pc = "fill", !.rows = table]
<1>1. /\ op[o].pc = "read" /\ o \in InFlight /\ op[o] \in OpRecord
      /\ op \in [Ops -> OpRecord] /\ table \in Rows /\ UNCHANGED <<table, cache, disturbed>>
      /\ op' = [op EXCEPT ![o].pc = "fill", ![o].rows = table]
  BY DEF Read, InFlight, PInv, PersonasTypeOK
<1>2. op' = [op EXCEPT ![o] = new]
  BY <1>1
<1>3. /\ new \in OpRecord /\ new.pc = "fill" /\ new.rows = table /\ new.kind = op[o].kind
      /\ new.on = op[o].on /\ new.clean = op[o].clean
  BY <1>1 DEF OpRecord, Pcs
<1> HIDE DEF new
<1>4. /\ op' \in [Ops -> OpRecord] /\ \A p \in Ops : p # o => op'[p] = op[p]
      /\ op'[o] = new /\ InFlight' = InFlight
  BY <1>1, <1>2, <1>3 DEF InFlight
<1>5. PersonasTypeOK' /\ Operating'
  BY <1>1, <1>3, <1>4 DEF PInv, PersonasTypeOK, Operating
<1>6. Clean'
  BY <1>1, <1>3, <1>4 DEF PInv, Clean, InFlight
<1>7. Coherent'
  <2> SUFFICES ASSUME NEW r \in Replicas \ disturbed
               PROVE  Behind(r, o)' /\ InFlight = {o}
    BY <1>1, <1>4 DEF Coherent
  <2>1. InFlight = {o} /\ Behind(r, o)
    BY <1>1, Undisturbed
  <2> QED  BY <1>1, <1>3, <1>4, <2>1 DEF Behind
<1> QED  BY <1>5, <1>6, <1>7 DEF PInv

\* ... and replaces the cache by what it has read.
LEMMA FillPInv ==
  ASSUME PInv, NEW o \in Ops, Fill(o)
  PROVE  PInv'
<1> DEFINE me == op[o]
<1>1. /\ me.pc = "fill" /\ me.kind \in {"update", "reload", "boot"} /\ o \in InFlight
      /\ op \in [Ops -> OpRecord] /\ me.rows \in Rows /\ me.on \in Replicas
      /\ cache \in [Replicas -> Rows] /\ cache' = [cache EXCEPT ![me.on] = me.rows]
      /\ disturbed' = IF me.clean THEN disturbed \ {me.on} ELSE disturbed
      /\ Ends(o) /\ table' = table
  BY DEF Fill, InFlight, PInv, PersonasTypeOK, Operating, OpRecord
<1>2. /\ op' \in [Ops -> OpRecord] /\ \A p \in Ops : p # o => op'[p] = op[p]
      /\ op'[o].pc = "idle" /\ InFlight' = InFlight \ {o}
  BY <1>1, EndsOp
<1>3. \A r \in Replicas \ disturbed' : InFlight' = {} /\ cache'[r] = table
  <2> TAKE r \in Replicas \ disturbed'
  <2>1. me.clean
    <3>1. r \in Replicas \ disturbed => me.clean
      BY <1>1, Undisturbed DEF Behind
    <3> QED  BY <1>1, <3>1
  <2>2. InFlight = {o} /\ me.rows = table
    BY <1>1, <2>1 DEF PInv, Clean
  <2>3. CASE r = me.on
    BY <1>1, <1>2, <2>2, <2>3
  <2>4. CASE r # me.on
    <3>1. Behind(r, o)
      BY <1>1, <2>4, Undisturbed
    <3> QED  BY <1>1, <1>2, <2>2, <2>4, <3>1 DEF Behind, Writers
  <2> QED  BY <2>3, <2>4
<1>4. PersonasTypeOK' /\ Operating'
  BY <1>1, <1>2 DEF PInv, PersonasTypeOK, Operating
<1>5. Clean'
  BY <1>1, <1>2 DEF PInv, Clean, InFlight
<1>6. Coherent'
  BY <1>1, <1>3 DEF Coherent
<1> QED  BY <1>4, <1>5, <1>6 DEF PInv

\* A failing statement.
LEMMA FailsPInv ==
  ASSUME PInv, NEW o \in Ops, Fails(o)
  PROVE  PInv'
<1>1. /\ op[o].pc \notin {"idle", "set", "fill"} /\ op[o].kind # "boot"
      /\ o \in InFlight /\ op[o] \in OpRecord /\ Ends(o) /\ UNCHANGED <<table, cache>>
      /\ disturbed' = IF op[o].pc = "read" /\ op[o].kind = "update"
                      THEN disturbed \cup {op[o].on} ELSE disturbed
  BY DEF Fails, InFlight, PInv, PersonasTypeOK
<1>2. disturbed' \in SUBSET Replicas /\ disturbed \subseteq disturbed'
  BY <1>1 DEF PInv, PersonasTypeOK, OpRecord
<1>3. \A r \in Replicas \ disturbed' : cache[r] = table
  <2> TAKE r \in Replicas \ disturbed'
  <2>1. Behind(r, o)
    BY <1>1, <1>2, Undisturbed
  <2> QED  BY <1>1, <2>1 DEF Behind, Writers
<1> QED  BY <1>1, <1>2, <1>3, EndsPInv

\* So every step of Personas keeps PInv.
LEMMA PersonasPInv ==
  ASSUME PInv, PersonasNext
  PROVE  PInv'
BY StartPInv, RestartPInv, CheckPInv, PutPInv, SetPInv, ReadPInv, FillPInv, FailsPInv
   DEF PersonasNext, OpStep

\* Nothing is under way at the start.
LEMMA InitPInv == PersonasInit => PInv
<1> SUFFICES ASSUME PersonasInit PROVE PInv
  OBVIOUS
<1>1. op = [o \in Ops |-> IdleOp] /\ InFlight = {}
  BY IdleOpType DEF PersonasInit, InFlight
<1>2. PersonasTypeOK /\ Operating
  BY <1>1, IdleOpType DEF PersonasInit, PersonasTypeOK, Operating
<1>3. Clean /\ Coherent
  BY <1>1 DEF PersonasInit, Clean, Coherent
<1> QED  BY <1>2, <1>3 DEF PInv

-----------------------------------------------------------------------------
\* Sessions and transcripts.

\* No session counted by a deletion that is about to write uses its persona.
Counting ==
  \A o \in Ops : op[o].pc = "put" /\ op[o].kind = "delete" /\ op[o].admin =>
    \A s \in op[o].counted :
      s \in created /\ ~(Active(s) /\ session[s].agent = op[o].id)

ChatTypeOK ==
  /\ session \in [SessionIds -> SessionRow \cup {None}]
  /\ created \subseteq SessionIds
  /\ messages \in [SessionIds -> Seq(Message)]
  /\ turn \in [Turns -> TurnRecord]
  /\ \A t \in Turns :
       /\ turn[t].pc \in {"ask", "answer", "touch"} => turn[t].sid # None
       /\ turn[t].pc = "over" <=> turn[t].reply # None

WithSession == {"chat", "ask"}

\* What comes by which way, and what its session's transcript says of it: nothing
\* before the question is stored, then the question, at last question and answer.
Turned(t) ==
  LET me == turn[t]  s == turn[t].sid IN
  /\ me.pc = "unused" => s = None
  /\ s # None => s \in created /\ me.via \in WithSession
  /\ me.pc \in {"open", "ask", "check", "answer", "touch"} => me.via \in WithSession
  /\ me.pc = "retrieve" => me.via \in WithSession \cup {"test", "search"}
  /\ me.pc = "generate" => me.via \in WithSession \cup {"test"}
  /\ me.pc \notin {"unused", "open", "over"} /\ me.via \in WithSession => s # None
  /\ s # None /\ session[s] # None =>
       /\ me.pc \in {"open", "ask"} \/ me.reply = "404" =>
            ~Said(t, s, "user") /\ ~Said(t, s, "assistant")
       /\ me.pc \in {"retrieve", "generate", "check", "answer"} =>
            Said(t, s, "user") /\ ~Said(t, s, "assistant")
       /\ me.pc = "touch" \/ me.reply \in {"ok", "result"} => Said(t, s, "assistant")
       /\ Said(t, s, "assistant") => Said(t, s, "user")

Kept(s) ==
  /\ session[s] # None => s \in created
  /\ session[s] = None => messages[s] = <<>>
  /\ \A i \in DOMAIN messages[s] : turn[messages[s][i].turn].sid = s
  /\ \A i, j \in DOMAIN messages[s] : messages[s][i].turn = messages[s][j].turn /\ i < j
       => messages[s][i].role = "user" /\ messages[s][j].role = "assistant"

Inv ==
  /\ PInv /\ Counting /\ ChatTypeOK
  /\ \A t \in Turns : Turned(t)
  /\ \A s \in SessionIds : Kept(s)

\* No turn has begun at the start.
LEMMA InitInv == Init => Inv
<1> SUFFICES ASSUME Init PROVE Inv
  OBVIOUS
<1>1. PInv /\ op = [o \in Ops |-> IdleOp]
  BY InitPInv DEF Init, PersonasInit
<1>2. Counting
  BY <1>1, IdleOpType DEF Counting
<1>3. IdleOp.id \in Ids
  BY IdleOpType DEF OpRecord
<1>4. ChatTypeOK
  BY <1>3 DEF Init, ChatInit, ChatTypeOK, TurnRecord, TurnPcs, AllRoutes
<1>5. ASSUME NEW t \in Turns PROVE Turned(t)
  BY DEF Init, ChatInit, Turned
<1>6. ASSUME NEW s \in SessionIds PROVE Kept(s)
  BY DEF Init, ChatInit, Kept
<1> QED  BY <1>1, <1>2, <1>4, <1>5, <1>6 DEF Inv

\* An operation that is not a deletion about to write changes nothing of Counting.
LEMMA StepCounting ==
  ASSUME Counting, NEW o \in Ops, UNCHANGED <<session, created>>,
         \A p \in Ops : p # o => op'[p] = op[p],
         op'[o].pc = "put" => op'[o].kind # "delete"
  PROVE  Counting'
BY DEF Counting, Active

\* The steps of Personas leave the chats alone.
LEMMA PersonasInv ==
  ASSUME Inv, PersonasNext, UNCHANGED chatVars
  PROVE  Inv'
<1>1. PInv'
  BY PersonasPInv DEF Inv
<1>2. op \in [Ops -> OpRecord] /\ PInv /\ Counting /\ UNCHANGED <<session, created>>
  BY DEF Inv, PInv, PersonasTypeOK, chatVars
<1>3. Counting'
  <2>1. ASSUME NEW o \in Ops, Ends(o) PROVE Counting'
    BY <1>2, <2>1, EndsOp, StepCounting
  <2>2. ASSUME NEW o \in Ops, NEW pc \in Pcs \ {"put"}, Goes(o, pc) PROVE Counting'
    BY <1>2, <2>2, GoesOp, StepCounting
  <2>3. CASE \E o \in Ops, kind \in Kinds, admin \in BOOLEAN, r \in Replicas, i \in Ids,
                v \in Configs : Start(o, kind, admin, r, i, v)
    <3>1. PICK o \in Ops, kind \in Kinds, admin \in BOOLEAN, r \in Replicas, i \in Ids,
               v \in Configs : Start(o, kind, admin, r, i, v)
      BY <2>3
    <3>2. /\ \A p \in Ops \ {o} : op'[p].pc # "idle" =>
               /\ op'[p].pc = op[p].pc /\ op'[p].kind = op[p].kind /\ op'[p].id = op[p].id
               /\ op'[p].counted = op[p].counted /\ op'[p].admin = op[p].admin
          /\ op'[o].pc = "put" => ~op'[o].admin
      BY <1>2, <3>1, StartPInv
    <3> QED  BY <1>2, <3>2 DEF Counting, Active
  <2>4. CASE \E o \in Ops, r \in Replicas : Restart(o, r)
    <3>1. PICK o \in Ops, r \in Replicas : Restart(o, r)
      BY <2>4
    <3>2. /\ \A p \in Ops \ {o} : op'[p].pc # "idle" =>
               /\ op'[p].pc = op[p].pc /\ op'[p].kind = op[p].kind /\ op'[p].id = op[p].id
               /\ op'[p].counted = op[p].counted /\ op'[p].admin = op[p].admin
          /\ op'[o].pc = "read"
      BY <1>2, <3>1, RestartPInv
    <3> QED  BY <1>2, <3>2 DEF Counting, Active
  <2>5. ASSUME NEW o \in Ops, Validate(o) PROVE Counting'
    BY <2>1, <2>2, <2>5 DEF Validate, Pcs
  <2>6. ASSUME NEW o \in Ops, Exists(o) PROVE Counting'
    <3>1. op[o].kind \in Writers
      BY <1>2, <2>6 DEF Exists, PInv, Operating
    <3>2. Ends(o) \/ Goes(o, "look") \/ Goes(o, "validate") \/ Goes(o, "count")
      BY <2>6, <3>1 DEF Exists, Writers
    <3> QED  BY <2>1, <2>2, <3>2 DEF Pcs
  <2>7. ASSUME NEW o \in Ops, Look(o) PROVE Counting'
    <3>1. op[o].kind \in {"create", "update"} /\ op[o] \in OpRecord
      BY <1>2, <2>7 DEF Look, PInv, Operating
    <3>2. CASE Ends(o)
      BY <2>1, <3>2
    <3>3. CASE ~Ends(o)
      <4> DEFINE found == IF op[o].kind = "create" THEN table[op[o].id] ELSE None
                 new == [op[o] EXCEPT !.pc = "put", !.found = found]
      <4>1. op' = [op EXCEPT ![o].pc = "put", ![o].found = found]
        BY <2>7, <3>3 DEF Look
      <4>2. op' = [op EXCEPT ![o] = new]
        BY <1>2, <4>1
      <4>3. new.kind = op[o].kind
        <5> HIDE DEF found
        <5> QED  BY <3>1 DEF OpRecord
      <4> HIDE DEF new
      <4>4. op'[o].kind = op[o].kind /\ \A p \in Ops : p # o => op'[p] = op[p]
        BY <1>2, <4>2, <4>3
      <4> QED  BY <1>2, <3>1, <4>4, StepCounting
    <3> QED  BY <3>2, <3>3
  <2>8. ASSUME NEW o \in Ops, Put(o) PROVE Counting'
    <3>1. op[o].kind \in Writers
      BY <1>2, <2>8 DEF Put, PInv, Operating
    <3>2. Ends(o) \/ Goes(o, "set") \/ Goes(o, "read")
      BY <2>8, <3>1 DEF Put, Writers
    <3> QED  BY <2>1, <2>2, <3>2 DEF Pcs
  <2>9. ASSUME NEW o \in Ops, Set(o) \/ Fill(o) \/ Fails(o) PROVE Counting'
    BY <2>1, <2>9 DEF Set, Fill, Fails
  <2>10. ASSUME NEW o \in Ops, Read(o) PROVE Counting'
    <3> DEFINE new == [op[o] EXCEPT !.pc = "fill", !.rows = table]
    <3>1. op' = [op EXCEPT ![o] = new] /\ op[o] \in OpRecord
      BY <1>2, <2>10 DEF Read
    <3>2. new.pc = "fill"
      BY <3>1 DEF OpRecord
    <3> HIDE DEF new
    <3>3. op'[o].pc = "fill" /\ \A p \in Ops : p # o => op'[p] = op[p]
      BY <1>2, <3>1, <3>2
    <3> QED  BY <1>2, <3>3, StepCounting
  <2> QED  BY <2>3, <2>4, <2>5, <2>6, <2>7, <2>8, <2>9, <2>10 DEF PersonasNext, OpStep
<1>4. ChatTypeOK'
  BY DEF Inv, ChatTypeOK, chatVars
<1>5. ASSUME NEW t \in Turns PROVE Turned(t)'
  BY DEF Inv, Turned, Said, chatVars
<1>6. ASSUME NEW s \in SessionIds PROVE Kept(s)'
  BY DEF Inv, Kept, chatVars
<1> QED  BY <1>1, <1>3, <1>4, <1>5, <1>6 DEF Inv

\* What checkPersonaInUse lets pass is what Counting says.
LEMMA CheckInUseInv ==
  ASSUME Inv, NEW o \in Ops, CheckPersonaInUse(o)
  PROVE  Inv'
<1> DEFINE active == {s \in SessionIds : Active(s) /\ session[s].agent = op[o].id}
<1>1. InUse(o, active, created) /\ UNCHANGED chatVars
  BY DEF CheckPersonaInUse
<1>2. op \in [Ops -> OpRecord] /\ created \subseteq SessionIds /\ PInv /\ Counting
  BY DEF Inv, PInv, PersonasTypeOK, ChatTypeOK
<1>3. PInv'
  BY <1>1, <1>2, CheckPInv
<1>4. Counting'
  <2>1. CASE Ends(o)
    BY <1>1, <1>2, <2>1, EndsOp, StepCounting DEF chatVars
  <2>2. CASE ~Ends(o)
    <3> DEFINE new == [op[o] EXCEPT !.pc = "put", !.counted = created]
    <3>1. active = {} /\ op' = [op EXCEPT ![o].pc = "put", ![o].counted = created]
      BY <1>1, <2>2 DEF InUse
    <3>2. op' = [op EXCEPT ![o] = new] /\ op[o] \in OpRecord
      BY <1>2, <3>1
    <3>3. new.id = op[o].id /\ new.counted = created
      BY <3>2 DEF OpRecord
    <3> HIDE DEF new
    <3>4. /\ op'[o].id = op[o].id /\ op'[o].counted = created
          /\ \A p \in Ops : p # o => op'[p] = op[p]
      BY <1>2, <3>2, <3>3
    <3>5. \A s \in created : ~(Active(s) /\ session[s].agent = op[o].id)
      BY <1>2, <3>1
    <3> QED  BY <1>1, <1>2, <3>4, <3>5 DEF Counting, Active, chatVars
  <2> QED  BY <2>1, <2>2
<1>5. ChatTypeOK'
  BY <1>1 DEF Inv, ChatTypeOK, chatVars
<1>6. ASSUME NEW t \in Turns PROVE Turned(t)'
  BY <1>1 DEF Inv, Turned, Said, chatVars
<1>7. ASSUME NEW s \in SessionIds PROVE Kept(s)'
  BY <1>1 DEF Inv, Kept, chatVars
<1> QED  BY <1>3, <1>4, <1>5, <1>6, <1>7 DEF Inv

\* A turn that goes on.
LEMMA TurnGoesOn ==
  ASSUME Inv, NEW t \in Turns, NEW pc \in TurnPcs, TurnGoes(t, pc)
  PROVE  /\ turn' \in [Turns -> TurnRecord]
         /\ \A u \in Turns : u # t => turn'[u] = turn[u]
         /\ turn'[t].pc = pc /\ turn'[t].via = turn[t].via
         /\ turn'[t].sid = turn[t].sid /\ turn'[t].reply = turn[t].reply
<1> DEFINE new == [turn[t] EXCEPT !.pc = pc]
<1>1. turn \in [Turns -> TurnRecord] /\ turn' = [turn EXCEPT ![t] = new]
  BY DEF Inv, ChatTypeOK, TurnGoes
<1>2. /\ new \in TurnRecord /\ new.pc = pc /\ new.via = turn[t].via
      /\ new.sid = turn[t].sid /\ new.reply = turn[t].reply
  BY <1>1 DEF TurnRecord
<1> HIDE DEF new
<1> QED  BY <1>1, <1>2

\* A turn that is answered.
LEMMA TurnIsOver ==
  ASSUME Inv, NEW t \in Turns, NEW outcome \in {"done", "missing", "thrown"},
         TurnEnds(t, outcome)
  PROVE  /\ turn' \in [Turns -> TurnRecord]
         /\ \A u \in Turns : u # t => turn'[u] = turn[u]
         /\ turn'[t].pc = "over" /\ turn'[t].via = turn[t].via
         /\ turn'[t].sid = turn[t].sid /\ turn'[t].reply \in Replies
         /\ outcome = "missing" => turn'[t].reply \in {"404", "isError"}
         /\ outcome = "thrown" => turn'[t].reply \in {"500", "isError"}
         /\ outcome = "done" => turn'[t].reply \in {"ok", "result"}
<1> DEFINE reply == IF turn[t].via \in Tools THEN ToolReply(outcome) ELSE HttpStatus(outcome)
           new == [turn[t] EXCEPT !.pc = "over", !.context = FALSE, !.reply = reply]
<1>1. /\ turn \in [Turns -> TurnRecord] /\ turn[t] \in TurnRecord
      /\ turn' = [turn EXCEPT ![t].pc = "over", ![t].context = FALSE, ![t].reply = reply]
  BY DEF Inv, ChatTypeOK, TurnEnds
<1>2. turn' = [turn EXCEPT ![t] = new]
  BY <1>1
<1>3. /\ reply \in Replies
      /\ outcome = "missing" => reply \in {"404", "isError"}
      /\ outcome = "thrown" => reply \in {"500", "isError"}
      /\ outcome = "done" => reply \in {"ok", "result"}
  BY DEF Replies, ToolReply, HttpStatus
<1> HIDE DEF reply
<1>4. /\ new \in TurnRecord /\ new.pc = "over" /\ new.via = turn[t].via
      /\ new.sid = turn[t].sid /\ new.reply = reply
  BY <1>1, <1>3 DEF TurnRecord, TurnPcs
<1> HIDE DEF new
<1> QED  BY <1>1, <1>2, <1>3, <1>4

\* A message is some turn's.
LEMMA MessageTurns ==
  ASSUME ChatTypeOK, NEW s \in SessionIds, NEW i \in DOMAIN messages[s]
  PROVE  messages[s][i] \in Message /\ messages[s][i].turn \in Turns
<1>1. messages[s] \in Seq(Message)
  BY DEF ChatTypeOK
<1>2. messages[s][i] \in Message
  BY <1>1
<1> QED  BY <1>2 DEF Message

\* A step that changes one turn only is right when it is for that turn.
LEMMA OneTurnInv ==
  ASSUME Inv, NEW t \in Turns, UNCHANGED <<personaVars, Stored>>,
         turn' \in [Turns -> TurnRecord], \A u \in Turns : u # t => turn'[u] = turn[u],
         turn[t].sid # None => turn'[t].sid = turn[t].sid,
         turn'[t].pc \in {"ask", "answer", "touch"} => turn'[t].sid # None,
         turn'[t].pc = "over" <=> turn'[t].reply # None,
         Turned(t)'
  PROVE  Inv'
<1>1. PInv' /\ Counting'
  BY DEF Inv, PInv, PersonasTypeOK, Operating, Clean, Coherent, Behind, InFlight, Counting,
         Active, personaVars, Stored
<1>2. ChatTypeOK'
  BY DEF Inv, ChatTypeOK, Stored
<1>3. ASSUME NEW u \in Turns PROVE Turned(u)'
  <2>1. CASE u = t
    BY <2>1
  <2>2. CASE u # t
    <3>1. turn'[u] = turn[u] /\ Turned(u)
      BY <2>2 DEF Inv
    <3> QED  BY <3>1 DEF Turned, Said, Stored
  <2> QED  BY <2>1, <2>2
<1>4. ASSUME NEW s \in SessionIds PROVE Kept(s)'
  <2>1. \A i \in DOMAIN messages[s] : messages[s][i].turn \in Turns
    BY MessageTurns DEF Inv
  <2>2. \A u \in Turns : turn[u].sid = s => turn'[u].sid = s
    BY NoneIsNoSession
  <2> QED  BY <2>1, <2>2 DEF Inv, Kept, Stored
<1> QED  BY <1>1, <1>2, <1>3, <1>4 DEF Inv

\* Any turn that is under way may be told that it has failed.
LEMMA ThrownInv ==
  ASSUME Inv, NEW t \in Turns, turn[t].pc \notin {"unused", "over"}, TurnEnds(t, "thrown"),
         UNCHANGED <<personaVars, Stored>>
  PROVE  Inv'
<1>1. /\ turn' \in [Turns -> TurnRecord]
      /\ \A u \in Turns : u # t => turn'[u] = turn[u]
      /\ turn'[t].pc = "over" /\ turn'[t].via = turn[t].via
      /\ turn'[t].sid = turn[t].sid /\ turn'[t].reply \in Replies
      /\ turn'[t].reply \in {"500", "isError"}
  BY TurnIsOver
<1>2. turn'[t].reply # None
  BY <1>1, NoneIsNoValue
<1>3. Turned(t)'
  <2>1. turn[t].sid # None => turn[t].via \in WithSession /\ turn[t].sid \in created
    BY DEF Inv, Turned
  <2>2. turn[t].sid # None /\ session[turn[t].sid] # None =>
          (Said(t, turn[t].sid, "assistant") => Said(t, turn[t].sid, "user"))
    BY DEF Inv, Turned
  <2> QED  BY <1>1, <2>1, <2>2 DEF Turned, Said, Stored
<1> QED  BY <1>1, <1>2, <1>3, OneTurnInv

\* A turn begins with nothing said.
LEMMA BeginInv ==
  ASSUME Inv, NEW t \in Turns, NEW r \in Replicas,
         \/ \E via \in AllRoutes, a \in Ids, s \in SessionIds \cup {None} :
              BeginTurn(t, r, via, a, s)
         \/ BeginSearch(t, r) \/ AnswerRpc(t, r)
  PROVE  Inv'
<1>1. /\ turn[t].pc = "unused" /\ turn[t].sid = None /\ turn[t].reply = None
      /\ turn[t] \in TurnRecord /\ turn \in [Turns -> TurnRecord]
      /\ created \subseteq SessionIds /\ UNCHANGED <<personaVars, Stored>>
  BY DEF BeginTurn, BeginSearch, AnswerRpc, Arrives, Inv, Turned, ChatTypeOK
<1>2. \A s \in created : ~Said(t, s, "user") /\ ~Said(t, s, "assistant")
  <2> SUFFICES ASSUME NEW s \in created, NEW i \in DOMAIN messages[s], messages[s][i].turn = t
               PROVE  FALSE
    BY DEF Said
  <2>1. turn[t].sid = s
    BY <1>1 DEF Inv, Kept
  <2> QED  BY <1>1, <2>1, NoneIsNoSession
<1>3. ASSUME NEW new \in TurnRecord, turn' = [turn EXCEPT ![t] = new],
             new.pc \in {"over", "open", "retrieve"},
             new.pc = "over" => new.reply \in {"404", "isError", "result", "rpcError"},
             new.pc # "over" => new.reply = None,
             new.reply \in {"404", "isError"} \/ new.sid = None \/ new.reply = None,
             new.sid # None => new.sid \in created /\ new.via \in WithSession,
             new.pc = "open" => new.via \in WithSession,
             new.pc = "retrieve" => new.via \in {"test", "search"}
      PROVE  Inv'
  <2>1. /\ turn' \in [Turns -> TurnRecord] /\ turn'[t] = new
        /\ \A u \in Turns : u # t => turn'[u] = turn[u]
    BY <1>1, <1>3
  <2>2. new.pc = "over" <=> new.reply # None
    BY <1>3, NoneIsNoValue DEF Replies
  <2>3. new.sid # None => ~Said(t, new.sid, "user") /\ ~Said(t, new.sid, "assistant")
    BY <1>2, <1>3
  <2>4. new.reply \notin {"ok"} /\ (new.sid # None => new.reply \notin {"ok", "result"})
    BY <1>3, NoneIsNoValue DEF Replies
  <2>5. Turned(t)'
    BY <1>1, <1>3, <2>1, <2>3, <2>4 DEF Turned, Said, Stored, WithSession
  <2> QED  BY <1>1, <1>3, <2>1, <2>2, <2>5, OneTurnInv
<1>4. CASE \E via \in AllRoutes, a \in Ids, s \in SessionIds \cup {None} : BeginTurn(t, r, via, a, s)
  <2>1. PICK via \in AllRoutes, a \in Ids, s \in SessionIds \cup {None} : BeginTurn(t, r, via, a, s)
    BY <1>4
  <2> DEFINE reply == IF via \in Tools THEN ToolReply("missing") ELSE HttpStatus("missing")
             pc == IF via = "test" THEN "retrieve" ELSE "open"
             gone == [turn[t] EXCEPT !.via = via, !.agent = a, !.sid = s, !.pc = "over",
                                     !.reply = reply]
             begun == [turn[t] EXCEPT !.via = via, !.agent = a, !.sid = s, !.pc = pc]
  <2>2. /\ via \in WithSession \cup {"test"} /\ (via = "test" => s = None)
        /\ s \in created \cup {None}
        /\ turn' = [turn EXCEPT ![t] = IF cache[r][a] = None THEN gone ELSE begun]
    BY <1>1, <2>1 DEF BeginTurn, WithSession
  <2>3. reply \in {"404", "isError"} /\ pc \in {"retrieve", "open"}
    BY DEF ToolReply, HttpStatus
  <2> HIDE DEF reply
  <2>4. /\ gone \in TurnRecord /\ gone.via = via /\ gone.sid = s /\ gone.pc = "over"
        /\ gone.reply = reply
    BY <1>1, <2>1, <2>3 DEF TurnRecord, TurnPcs, Replies
  <2>5. /\ begun \in TurnRecord /\ begun.via = via /\ begun.sid = s
        /\ begun.pc = IF via = "test" THEN "retrieve" ELSE "open"
        /\ begun.reply = turn[t].reply
    BY <1>1, <2>1, <2>3 DEF TurnRecord, TurnPcs
  <2> HIDE DEF gone, begun, pc
  <2>6. CASE turn' = [turn EXCEPT ![t] = gone]
    BY <1>3, <2>2, <2>3, <2>4, <2>6 DEF WithSession
  <2>7. CASE turn' = [turn EXCEPT ![t] = begun]
    BY <1>1, <1>3, <2>2, <2>5, <2>7 DEF WithSession
  <2> QED  BY <2>2, <2>6, <2>7
<1>5. CASE BeginSearch(t, r)
  <2> DEFINE new == [turn[t] EXCEPT !.via = "search", !.pc = "retrieve"]
  <2>1. turn' = [turn EXCEPT ![t] = new]
    BY <1>1, <1>5 DEF BeginSearch
  <2>2. /\ new \in TurnRecord /\ new.via = "search" /\ new.pc = "retrieve"
        /\ new.sid = None /\ new.reply = None
    BY <1>1 DEF TurnRecord, TurnPcs, AllRoutes
  <2> HIDE DEF new
  <2> QED  BY <1>3, <2>1, <2>2
<1>6. CASE AnswerRpc(t, r)
  <2>1. PICK reply \in {"result", "rpcError", "isError"} :
          turn' = [turn EXCEPT ![t].via = "rpc", ![t].pc = "over", ![t].reply = reply]
    BY <1>6 DEF AnswerRpc
  <2> DEFINE new == [turn[t] EXCEPT !.via = "rpc", !.pc = "over", !.reply = reply]
  <2>2. turn' = [turn EXCEPT ![t] = new]
    BY <1>1, <2>1
  <2>3. /\ new \in TurnRecord /\ new.pc = "over" /\ new.sid = None /\ new.reply = reply
    BY <1>1 DEF TurnRecord, TurnPcs, AllRoutes, Replies
  <2> HIDE DEF new
  <2> QED  BY <1>3, <2>2, <2>3
<1> QED  BY <1>4, <1>5, <1>6

\* The steps of a turn that store nothing.
LEMMA QuietInv ==
  ASSUME Inv, NEW t \in Turns,
         Retrieve(t) \/ Generate(t) \/ TestPersona(t) \/ SelfCheck(t) \/ Touch(t)
  PROVE  Inv'
<1>1. /\ turn[t] \in TurnRecord /\ turn \in [Turns -> TurnRecord] /\ Turned(t)
      /\ UNCHANGED <<personaVars, Stored>>
      /\ turn[t].pc = "over" <=> turn[t].reply # None
  BY DEF Inv, ChatTypeOK, Retrieve, Generate, TestPersona, SelfCheck, Touch
<1>2. ASSUME TurnEnds(t, "done"), turn[t].pc = "touch" \/ turn[t].via \notin WithSession,
             turn[t].pc \notin {"unused", "over"}
      PROVE  Inv'
  <2>1. /\ turn' \in [Turns -> TurnRecord]
        /\ \A u \in Turns : u # t => turn'[u] = turn[u]
        /\ turn'[t].pc = "over" /\ turn'[t].via = turn[t].via
        /\ turn'[t].sid = turn[t].sid /\ turn'[t].reply \in {"ok", "result"}
    BY <1>2, TurnIsOver
  <2>2. turn'[t].reply # None
    BY <2>1, NoneIsNoValue DEF Replies
  <2>3. Turned(t)'
    BY <1>1, <1>2, <2>1 DEF Turned, Said, Stored
  <2> QED  BY <1>1, <2>1, <2>2, <2>3, OneTurnInv
<1>3. ASSUME NEW pc \in {"generate", "check", "answer"}, NEW context \in BOOLEAN,
             turn' = [turn EXCEPT ![t].pc = pc, ![t].context = context],
             turn[t].pc \in {"retrieve", "generate", "check"},
             pc = "generate" => turn[t].via \in WithSession \cup {"test"},
             pc # "generate" => turn[t].via \in WithSession
      PROVE  Inv'
  <2> DEFINE new == [turn[t] EXCEPT !.pc = pc, !.context = context]
  <2>1. turn' = [turn EXCEPT ![t] = new]
    BY <1>1, <1>3
  <2>2. /\ new \in TurnRecord /\ new.pc = pc /\ new.via = turn[t].via
        /\ new.sid = turn[t].sid /\ new.reply = turn[t].reply
    BY <1>1 DEF TurnRecord, TurnPcs
  <2> HIDE DEF new
  <2>3. /\ turn' \in [Turns -> TurnRecord] /\ turn'[t] = new
        /\ \A u \in Turns : u # t => turn'[u] = turn[u]
    BY <1>1, <2>1, <2>2
  <2>4. Turned(t)' /\ (pc = "answer" => new.sid # None)
    BY <1>1, <1>3, <2>2, <2>3 DEF Turned, Said, Stored
  <2> QED  BY <1>1, <1>3, <2>2, <2>3, <2>4, OneTurnInv
<1>4. CASE Retrieve(t)
  <2>1. turn[t].pc = "retrieve" /\ turn[t].via \in WithSession \cup {"test", "search"}
    BY <1>1, <1>4 DEF Retrieve, Turned
  <2>2. CASE turn[t].via = "search"
    BY <1>2, <1>4, <2>1, <2>2 DEF Retrieve, WithSession
  <2>3. CASE turn[t].via # "search"
    <3>1. PICK best \in Scores :
            turn' = [turn EXCEPT ![t].pc = "generate",
                                 ![t].context = Finds(best, MinScore(turn[t].via))]
      BY <1>4, <2>3 DEF Retrieve
    <3>2. Finds(best, MinScore(turn[t].via)) \in BOOLEAN
      BY DEF Finds
    <3> QED  BY <1>3, <2>1, <2>3, <3>1, <3>2
  <2> QED  BY <2>2, <2>3
<1>5. CASE Generate(t)
  <2>1. turn[t].pc = "generate" /\ turn[t].via \in WithSession
    BY <1>1, <1>5 DEF Generate, Turned, WithSession
  <2>2. PICK pc \in {"answer", "check"} :
          turn' = [turn EXCEPT ![t].pc = pc, ![t].context = FALSE]
    BY <1>5 DEF Generate
  <2> QED  BY <1>3, <2>1, <2>2
<1>6. CASE TestPersona(t)
  BY <1>2, <1>6 DEF TestPersona, WithSession
<1>7. CASE SelfCheck(t)
  <2>1. turn[t].pc = "check" /\ turn[t].via \in WithSession /\ TurnGoes(t, "answer")
    BY <1>1, <1>7 DEF SelfCheck, Turned
  <2>2. /\ turn' \in [Turns -> TurnRecord]
        /\ \A u \in Turns : u # t => turn'[u] = turn[u]
        /\ turn'[t].pc = "answer" /\ turn'[t].via = turn[t].via
        /\ turn'[t].sid = turn[t].sid /\ turn'[t].reply = turn[t].reply
    BY <2>1, TurnGoesOn DEF TurnPcs
  <2>3. Turned(t)' /\ turn'[t].sid # None
    BY <1>1, <2>1, <2>2 DEF Turned, Said, Stored
  <2> QED  BY <1>1, <2>1, <2>2, <2>3, OneTurnInv
<1>8. CASE Touch(t)
  BY <1>2, <1>8 DEF Touch
<1> QED  BY <1>4, <1>5, <1>6, <1>7, <1>8

\* When sessions change and messages or the table do not, what was counted stays
\* counted as long as no session becomes active or changes hands.
LEMMA SessionsCounting ==
  ASSUME Counting, UNCHANGED op, created \subseteq created',
         \A s \in created : Active(s)' => Active(s) /\ session'[s].agent = session[s].agent
  PROVE  Counting'
<1> SUFFICES ASSUME NEW o \in Ops, op[o].pc = "put" /\ op[o].kind = "delete" /\ op[o].admin,
                    NEW s \in op[o].counted
             PROVE  s \in created' /\ ~(Active(s)' /\ session'[s].agent = op[o].id)
  BY DEF Counting
<1>1. s \in created /\ ~(Active(s) /\ session[s].agent = op[o].id)
  BY DEF Counting
<1> QED  BY <1>1

\* A turn finds its session, or opens one that nobody has spoken in.
LEMMA OpenInv ==
  ASSUME Inv, NEW t \in Turns, Open(t)
  PROVE  Inv'
<1> DEFINE me == turn[t]
<1>1. /\ me.pc = "open" /\ me \in TurnRecord /\ turn \in [Turns -> TurnRecord]
      /\ me.via \in WithSession /\ Turned(t) /\ me.reply = None
      /\ UNCHANGED <<personaVars, messages>>
  BY DEF Open, Inv, ChatTypeOK, Turned
<1>2. CASE me.sid # None
  <2>1. /\ UNCHANGED <<personaVars, Stored>>
        /\ TurnGoes(t, "ask") \/ TurnEnds(t, "missing")
    BY <1>1, <1>2 DEF Open, Stored
  <2>2. CASE TurnGoes(t, "ask")
    <3>1. /\ turn' \in [Turns -> TurnRecord]
          /\ \A u \in Turns : u # t => turn'[u] = turn[u]
          /\ turn'[t].pc = "ask" /\ turn'[t].via = me.via
          /\ turn'[t].sid = me.sid /\ turn'[t].reply = me.reply
      BY <2>2, TurnGoesOn DEF TurnPcs
    <3>2. Turned(t)'
      BY <1>1, <1>2, <2>1, <3>1, NoneIsNoValue DEF Turned, Said, Stored
    <3> QED  BY <1>1, <1>2, <2>1, <3>1, <3>2, OneTurnInv
  <2>3. CASE TurnEnds(t, "missing")
    <3>1. /\ turn' \in [Turns -> TurnRecord]
          /\ \A u \in Turns : u # t => turn'[u] = turn[u]
          /\ turn'[t].pc = "over" /\ turn'[t].via = me.via
          /\ turn'[t].sid = me.sid /\ turn'[t].reply \in Replies
          /\ turn'[t].reply \in {"404", "isError"}
      BY <2>3, TurnIsOver
    <3>2. turn'[t].reply # None
      BY <3>1, NoneIsNoValue
    <3>3. Turned(t)'
      BY <1>1, <1>2, <2>1, <3>1 DEF Turned, Said, Stored
    <3> QED  BY <1>1, <2>1, <3>1, <3>2, <3>3, OneTurnInv
  <2> QED  BY <2>1, <2>2, <2>3
<1>3. CASE me.sid = None
  <2>1. PICK s \in SessionIds \ created :
          /\ session' = [session EXCEPT ![s] = [agent |-> me.agent, expired |-> FALSE]]
          /\ created' = created \cup {s}
          /\ turn' = [turn EXCEPT ![t].pc = "ask", ![t].sid = s]
    BY <1>3 DEF Open
  <2> DEFINE new == [me EXCEPT !.pc = "ask", !.sid = s]
             row == [agent |-> me.agent, expired |-> FALSE]
  <2>2. turn' = [turn EXCEPT ![t] = new]
    BY <1>1, <2>1
  <2>3. /\ new \in TurnRecord /\ new.pc = "ask" /\ new.via = me.via /\ new.sid = s
        /\ new.reply = None
    BY <1>1 DEF TurnRecord, TurnPcs
  <2>4. row \in SessionRow
    BY <1>1 DEF TurnRecord, SessionRow
  <2> HIDE DEF new, row
  <2>5. /\ turn' \in [Turns -> TurnRecord] /\ turn'[t] = new
        /\ \A u \in Turns : u # t => turn'[u] = turn[u]
    BY <1>1, <2>2, <2>3
  <2>6. /\ session' \in [SessionIds -> SessionRow \cup {None}]
        /\ \A x \in SessionIds : x # s => session'[x] = session[x]
    BY <2>1, <2>4 DEF Inv, ChatTypeOK, row
  <2>7. PInv'
    BY <1>1 DEF Inv, PInv, PersonasTypeOK, Operating, Clean, Coherent, Behind, InFlight, personaVars
  <2>8. Counting'
    <3>1. UNCHANGED op /\ created \subseteq created' /\ Counting
      BY <1>1, <2>1 DEF Inv, personaVars
    <3>2. \A x \in created : session'[x] = session[x]
      BY <2>6 DEF Inv, ChatTypeOK
    <3> QED  BY <3>1, <3>2, SessionsCounting DEF Active
  <2>9. ChatTypeOK'
    <3>1. \A u \in Turns : /\ turn'[u].pc \in {"ask", "answer", "touch"} => turn'[u].sid # None
                           /\ turn'[u].pc = "over" <=> turn'[u].reply # None
      <4> TAKE u \in Turns
      <4>1. CASE u = t
        BY <2>3, <2>5, <4>1, NoneIsNoSession
      <4>2. CASE u # t
        BY <2>5, <4>2 DEF Inv, ChatTypeOK
      <4> QED  BY <4>1, <4>2
    <3> QED  BY <1>1, <2>1, <2>5, <2>6, <3>1 DEF Inv, ChatTypeOK
  <2>10. messages[s] = <<>> /\ session[s] = None
    BY <2>1 DEF Inv, Kept
  <2>11. ASSUME NEW u \in Turns PROVE Turned(u)'
    <3>1. CASE u = t
      <4>1. ~Said(t, s, "user") /\ ~Said(t, s, "assistant")
        BY <2>10 DEF Said
      <4>2. ~Said(t, s, "user")' /\ ~Said(t, s, "assistant")'
        BY <1>1, <4>1 DEF Said
      <4>3. /\ turn'[t].pc = "ask" /\ turn'[t].via \in WithSession /\ turn'[t].sid = s
            /\ turn'[t].reply \notin Replies /\ s \in created'
        BY <1>1, <2>1, <2>3, <2>5, NoneIsNoValue
      <4>4. turn'[t].reply \notin {"404", "ok", "result"}
        BY <4>3 DEF Replies
      <4>5. s # None
        BY NoneIsNoSession
      <4>6. Turned(t)'
        BY <4>2, <4>3, <4>4, <4>5 DEF Turned
      <4> QED  BY <3>1, <4>6
    <3>2. CASE u # t
      <4>1. turn'[u] = turn[u] /\ Turned(u)
        BY <2>5, <3>2 DEF Inv
      <4>2. turn[u].sid # None => turn[u].sid # s /\ turn[u].sid \in created /\ turn[u].sid \in SessionIds
        BY <2>1, <4>1 DEF Turned, Inv, ChatTypeOK
      <4>3. turn[u].sid # None => session'[turn[u].sid] = session[turn[u].sid]
        BY <2>6, <4>2
      <4>4. messages' = messages /\ created \subseteq created'
        BY <1>1, <2>1
      <4>5. CASE turn[u].sid = None
        BY <4>1, <4>5 DEF Turned
      <4>6. CASE turn[u].sid # None
        BY <4>1, <4>2, <4>3, <4>4, <4>6 DEF Turned, Said
      <4> QED  BY <4>5, <4>6
    <3> QED  BY <3>1, <3>2
  <2>12. ASSUME NEW x \in SessionIds PROVE Kept(x)'
    <3>1. CASE x = s
      BY <1>1, <2>1, <2>6, <2>10, <3>1 DEF Kept
    <3>2. CASE x # s
      <4>1. session'[x] = session[x] /\ messages'[x] = messages[x]
        BY <1>1, <2>6, <3>2
      <4>2. ASSUME NEW i \in DOMAIN messages[x] PROVE turn'[messages[x][i].turn].sid = x
        <5>1. messages[x][i].turn \in Turns /\ turn[messages[x][i].turn].sid = x
          BY MessageTurns DEF Inv, Kept
        <5> QED  BY <1>3, <2>5, <5>1, NoneIsNoSession
      <4>3. Kept(x) /\ created \subseteq created'
        BY <2>1 DEF Inv
      <4> QED  BY <4>1, <4>2, <4>3 DEF Kept
    <3> QED  BY <3>1, <3>2
  <2> QED  BY <2>7, <2>8, <2>9, <2>11, <2>12 DEF Inv
<1> QED  BY <1>2, <1>3

\* A message is stored in the session of its turn, the answer after the question.
LEMMA StoredInv ==
  ASSUME Inv, NEW t \in Turns, NEW role \in {"user", "assistant"}, NEW pc \in TurnPcs,
         turn[t].pc = (IF role = "user" THEN "ask" ELSE "answer"),
         pc = (IF role = "user" THEN "retrieve" ELSE "touch"),
         session[turn[t].sid] # None, TurnGoes(t, pc),
         messages' = [messages EXCEPT ![turn[t].sid] = Append(@, [turn |-> t, role |-> role])],
         UNCHANGED <<personaVars, session, created>>
  PROVE  Inv'
<1> SUFFICES ASSUME NEW s, s = turn[t].sid PROVE Inv'
  OBVIOUS
<1> DEFINE m == [turn |-> t, role |-> role]
           old == messages[s]
           new == Append(old, m)
<1>1. /\ turn[t] \in TurnRecord /\ turn \in [Turns -> TurnRecord] /\ s # None
      /\ turn[t].via \in WithSession /\ turn[t].reply = None /\ Turned(t)
  BY DEF Inv, ChatTypeOK, Turned
<1>2. s \in SessionIds /\ messages \in [SessionIds -> Seq(Message)] /\ m \in Message
  BY <1>1 DEF Inv, ChatTypeOK, TurnRecord, Message
<1>3. /\ turn' \in [Turns -> TurnRecord]
      /\ \A u \in Turns : u # t => turn'[u] = turn[u]
      /\ turn'[t].pc = pc /\ turn'[t].via = turn[t].via
      /\ turn'[t].sid = s /\ turn'[t].reply = turn[t].reply
  BY TurnGoesOn
<1>4. /\ new \in Seq(Message) /\ DOMAIN new = DOMAIN old \cup {Len(old) + 1}
      /\ \A i \in DOMAIN old : new[i] = old[i] /\ i < Len(old) + 1
      /\ new[Len(old) + 1] = m /\ Len(old) + 1 \notin DOMAIN old
      /\ DOMAIN old \subseteq Nat
  <2>1. old \in Seq(Message)
    BY <1>2
  <2> HIDE DEF old, m
  <2> QED  BY <1>2, <2>1
<1>5. /\ messages' \in [SessionIds -> Seq(Message)] /\ messages'[s] = new
      /\ \A x \in SessionIds : x # s => messages'[x] = messages[x]
  <2>1. messages' = [messages EXCEPT ![s] = new]
    BY <1>2
  <2> HIDE DEF new
  <2> QED  BY <1>2, <1>4, <2>1
<1>6. PInv' /\ Counting'
  BY DEF Inv, PInv, PersonasTypeOK, Operating, Clean, Coherent, Behind, InFlight, Counting,
         Active, personaVars
<1>7. ChatTypeOK'
  <2>1. \A u \in Turns : /\ turn'[u].pc \in {"ask", "answer", "touch"} => turn'[u].sid # None
                         /\ turn'[u].pc = "over" <=> turn'[u].reply # None
    <3> TAKE u \in Turns
    <3>1. CASE u = t
      BY <1>1, <1>3, <3>1
    <3>2. CASE u # t
      BY <1>3, <3>2 DEF Inv, ChatTypeOK
    <3> QED  BY <3>1, <3>2
  <2> QED  BY <1>3, <1>5, <2>1 DEF Inv, ChatTypeOK
<1> HIDE DEF new
<1>8. ASSUME NEW u \in Turns, NEW x \in SessionIds, NEW by \in {"user", "assistant"}
      PROVE  Said(u, x, by)' <=> Said(u, x, by) \/ (u = t /\ x = s /\ by = role)
  <2>1. CASE x # s
    BY <1>5, <2>1 DEF Said
  <2>2. CASE x = s
    <3>1. [turn |-> u, role |-> by] = m <=> u = t /\ by = role
      OBVIOUS
    <3> HIDE DEF m
    <3> QED  BY <1>4, <1>5, <2>2, <3>1 DEF Said
  <2> QED  BY <2>1, <2>2
<1>9. /\ ~Said(t, s, "assistant")
      /\ role = "user" => ~Said(t, s, "user")
      /\ role = "assistant" => Said(t, s, "user")
  BY <1>1 DEF Turned
<1>10. ASSUME NEW u \in Turns PROVE Turned(u)'
  <2>1. CASE u = t
    <3>1. /\ Said(t, s, "user")'
          /\ Said(t, s, "assistant")' <=> role = "assistant"
      BY <1>2, <1>8, <1>9
    <3>2. turn'[t].reply \notin {"404", "ok", "result"}
      BY <1>1, <1>3, NoneIsNoValue DEF Replies
    <3>3. s \in created' /\ turn'[t].via \in WithSession
      BY <1>1, <1>3 DEF Turned
    <3>4. Turned(t)'
      BY <1>1, <1>3, <3>1, <3>2, <3>3 DEF Turned, WithSession
    <3> QED  BY <2>1, <3>4
  <2>2. CASE u # t
    <3>1. turn'[u] = turn[u] /\ Turned(u) /\ session' = session /\ created' = created
      BY <1>3, <2>2 DEF Inv
    <3>2. CASE turn[u].sid = None
      BY <3>1, <3>2 DEF Turned
    <3>3. CASE turn[u].sid # None
      <4> SUFFICES ASSUME NEW x, x = turn[u].sid PROVE Turned(u)'
        OBVIOUS
      <4>1. x \in SessionIds
        BY <3>1, <3>3 DEF Turned, Inv, ChatTypeOK
      <4>2. /\ Said(u, x, "user")' <=> Said(u, x, "user")
            /\ Said(u, x, "assistant")' <=> Said(u, x, "assistant")
        BY <1>8, <2>2, <4>1
      <4>3. turn'[u].sid = x
        BY <3>1
      <4> QED  BY <3>1, <4>2, <4>3 DEF Turned
    <3> QED  BY <3>2, <3>3
  <2> QED  BY <2>1, <2>2
<1>11. ASSUME NEW x \in SessionIds PROVE Kept(x)'
  <2>1. Kept(x)
    BY DEF Inv
  <2>2. ASSUME NEW i \in DOMAIN messages[x]
        PROVE  turn'[messages[x][i].turn].sid = x
    <3>1. messages[x][i].turn \in Turns /\ turn[messages[x][i].turn].sid = x
      BY <2>1, MessageTurns DEF Inv, Kept
    <3> QED  BY <1>3, <3>1
  <2>3. CASE x # s
    <3>1. messages'[x] = messages[x] /\ session'[x] = session[x] /\ created' = created
      BY <1>5, <2>3
    <3>2. \A i \in DOMAIN messages'[x] : turn'[messages'[x][i].turn].sid = x
      BY <2>2, <3>1
    <3>3. \A i, j \in DOMAIN messages'[x] :
            messages'[x][i].turn = messages'[x][j].turn /\ i < j
              => messages'[x][i].role = "user" /\ messages'[x][j].role = "assistant"
      <4> SUFFICES ASSUME NEW i \in DOMAIN messages'[x], NEW j \in DOMAIN messages'[x],
                          messages'[x][i].turn = messages'[x][j].turn, i < j
                   PROVE  messages'[x][i].role = "user" /\ messages'[x][j].role = "assistant"
        OBVIOUS
      <4>1. i \in DOMAIN messages[x] /\ j \in DOMAIN messages[x]
        BY <3>1
      <4>2. messages[x][i].turn = messages[x][j].turn
        BY <3>1
      <4>3. messages[x][i].role = "user" /\ messages[x][j].role = "assistant"
        BY <2>1, <4>1, <4>2 DEF Kept
      <4> QED  BY <3>1, <4>3
    <3>4. /\ session'[x] # None => x \in created'
          /\ session'[x] = None => messages'[x] = <<>>
      BY <2>1, <3>1 DEF Kept
    <3> QED  BY <3>2, <3>3, <3>4, Zenon DEF Kept
  <2>4. CASE x = s
    <3>1. session'[s] # None /\ s \in created' /\ messages'[s] = new
      BY <1>1, <1>5 DEF Turned
    <3>2. ASSUME NEW i \in DOMAIN new PROVE turn'[new[i].turn].sid = s
      <4>1. CASE i \in DOMAIN old
        BY <1>4, <2>2, <2>4, <4>1
      <4>2. CASE i = Len(old) + 1
        BY <1>3, <1>4, <4>2
      <4> QED  BY <1>4, <4>1, <4>2
    <3>3. ASSUME NEW i \in DOMAIN new, NEW j \in DOMAIN new, new[i].turn = new[j].turn, i < j
          PROVE  new[i].role = "user" /\ new[j].role = "assistant"
      <4>1. CASE j \in DOMAIN old
        <5>1. i \in DOMAIN old
          BY <1>4, <3>3, <4>1
        <5> QED  BY <1>4, <2>1, <2>4, <3>3, <4>1, <5>1 DEF Kept
      <4>2. CASE j = Len(old) + 1
        <5>1. i \in DOMAIN old /\ new[i] = old[i] /\ new[j] = m
          BY <1>4, <3>3, <4>2
        <5>2. old[i] \in Message /\ old[i].turn = t
          BY <1>2, <3>3, <5>1, MessageTurns DEF Inv
        <5>3. old[i] = [turn |-> t, role |-> old[i].role] /\ old[i].role \in {"user", "assistant"}
          BY <5>2 DEF Message
        <5>4. Said(t, s, old[i].role)
          BY <5>1, <5>3 DEF Said
        <5> QED  BY <1>9, <5>1, <5>3, <5>4
      <4> QED  BY <1>4, <4>1, <4>2
    <3>4. Kept(s)'
      BY <3>1, <3>2, <3>3 DEF Kept
    <3> QED  BY <2>4, <3>4
  <2> QED  BY <2>3, <2>4
<1> QED  BY <1>6, <1>7, <1>10, <1>11 DEF Inv

\* Storing fails when the session is gone.
LEMMA AddMessageInv ==
  ASSUME Inv, NEW t \in Turns, Ask(t) \/ Answer(t)
  PROVE  Inv'
<1>1. CASE session[turn[t].sid] = None
  <2>1. /\ turn[t].pc \in {"ask", "answer"} /\ TurnEnds(t, "thrown")
        /\ UNCHANGED <<personaVars, Stored>>
    BY <1>1 DEF Ask, Answer, AddMessage, Stored
  <2> QED  BY <2>1, ThrownInv
<1>2. CASE session[turn[t].sid] # None
  BY <1>2, StoredInv DEF Ask, Answer, AddMessage, TurnPcs
<1> QED  BY <1>1, <1>2

\* An expired session is not active any more.
LEMMA ExpireInv ==
  ASSUME Inv, NEW s \in SessionIds, Expire(s)
  PROVE  Inv'
<1> DEFINE row == [session[s] EXCEPT !.expired = TRUE]
<1>1. /\ session[s] # None /\ session[s] \in SessionRow
      /\ UNCHANGED <<personaVars, created, messages, turn>>
      /\ session' = [session EXCEPT ![s] = row]
      /\ session \in [SessionIds -> SessionRow \cup {None}]
  BY DEF Expire, Active, Inv, ChatTypeOK
<1>2. row \in SessionRow /\ row.expired = TRUE
  BY <1>1 DEF SessionRow
<1> HIDE DEF row
<1>3. /\ session' \in [SessionIds -> SessionRow \cup {None}] /\ session'[s] = row
      /\ \A x \in SessionIds : x # s => session'[x] = session[x]
  BY <1>1, <1>2
<1>4. \A x \in SessionIds : session[x] = None => session'[x] = None
  BY <1>1, <1>3
<1>5. PInv'
  BY <1>1 DEF Inv, PInv, PersonasTypeOK, Operating, Clean, Coherent, Behind, InFlight, personaVars
<1>6. Counting'
  <2>1. UNCHANGED op /\ created \subseteq created' /\ Counting
    BY <1>1 DEF Inv, personaVars
  <2>2. \A x \in created : Active(x)' => Active(x) /\ session'[x].agent = session[x].agent
    BY <1>2, <1>3 DEF Inv, ChatTypeOK, Active
  <2> QED  BY <2>1, <2>2, SessionsCounting
<1>7. ChatTypeOK'
  BY <1>1, <1>3 DEF Inv, ChatTypeOK
<1>8. ASSUME NEW t \in Turns PROVE Turned(t)'
  <2>1. Turned(t) /\ (turn[t].sid # None => turn[t].sid \in SessionIds)
    BY DEF Inv, ChatTypeOK, Turned
  <2> QED  BY <1>1, <1>4, <2>1 DEF Turned, Said
<1>9. ASSUME NEW x \in SessionIds PROVE Kept(x)'
  <2>1. Kept(x) /\ (session'[x] = None <=> session[x] = None)
    <3>1. row # None
      BY <1>2, NoneIsNoValue
    <3> QED  BY <1>1, <1>3, <1>4, <3>1 DEF Inv
  <2> QED  BY <1>1, <2>1 DEF Kept
<1> QED  BY <1>5, <1>6, <1>7, <1>8, <1>9 DEF Inv

\* A session that is cleaned away takes its messages with it.
LEMMA CleanupInv ==
  ASSUME Inv, Cleanup
  PROVE  Inv'
<1>1. /\ UNCHANGED <<personaVars, created, turn>>
      /\ session'  = [s \in SessionIds |-> IF s \in Expired THEN None ELSE session[s]]
      /\ messages' = [s \in SessionIds |-> IF s \in Expired THEN <<>> ELSE messages[s]]
  BY DEF Cleanup
<1>2. PInv'
  BY <1>1 DEF Inv, PInv, PersonasTypeOK, Operating, Clean, Coherent, Behind, InFlight, personaVars
<1>3. Counting'
  <2>1. UNCHANGED op /\ created \subseteq created' /\ Counting
    BY <1>1 DEF Inv, personaVars
  <2>2. \A x \in created : Active(x)' => Active(x) /\ session'[x].agent = session[x].agent
    BY <1>1 DEF Inv, ChatTypeOK, Active
  <2> QED  BY <2>1, <2>2, SessionsCounting
<1>4. ChatTypeOK'
  BY <1>1 DEF Inv, ChatTypeOK
<1>5. ASSUME NEW t \in Turns PROVE Turned(t)'
  <2>1. Turned(t) /\ (turn[t].sid # None => turn[t].sid \in SessionIds)
    BY DEF Inv, ChatTypeOK, Turned
  <2>2. turn[t].sid # None /\ session'[turn[t].sid] # None =>
          /\ session[turn[t].sid] # None
          /\ messages'[turn[t].sid] = messages[turn[t].sid]
    BY <1>1, <2>1
  <2> QED  BY <1>1, <2>1, <2>2 DEF Turned, Said
<1>6. ASSUME NEW x \in SessionIds PROVE Kept(x)'
  <2>1. Kept(x)
    BY DEF Inv
  <2>2. CASE x \in Expired
    <3>1. messages'[x] = <<>> /\ session'[x] = None
      BY <1>1, <2>2
    <3> QED  BY <3>1 DEF Kept
  <2>3. CASE x \notin Expired
    <3>1. messages'[x] = messages[x] /\ session'[x] = session[x] /\ UNCHANGED <<created, turn>>
      BY <1>1, <2>3
    <3> QED  BY <2>1, <3>1 DEF Kept
  <2> QED  BY <2>2, <2>3
<1> QED  BY <1>2, <1>3, <1>4, <1>5, <1>6 DEF Inv

-----------------------------------------------------------------------------

\* Inv holds in every state of every behaviour.
LEMMA Invariance == Spec => []Inv
<1>1. ASSUME Inv, [Next]_vars PROVE Inv'
  <2>1. CASE PersonasNext /\ UNCHANGED chatVars
    BY <1>1, <2>1, PersonasInv
  <2>2. CASE \E o \in Ops : CheckPersonaInUse(o)
    BY <1>1, <2>2, CheckInUseInv
  <2>3. ASSUME NEW t \in Turns, NEW r \in Replicas,
               \/ \E via \in AllRoutes, a \in Ids, s \in SessionIds \cup {None} :
                    BeginTurn(t, r, via, a, s)
               \/ BeginSearch(t, r) \/ AnswerRpc(t, r)
        PROVE  Inv'
    BY <1>1, <2>3, BeginInv
  <2>4. ASSUME NEW t \in Turns, TurnStep(t) PROVE Inv'
    BY <1>1, <2>4, OpenInv, AddMessageInv, QuietInv DEF TurnStep
  <2>5. ASSUME NEW t \in Turns, TurnFails(t) PROVE Inv'
    BY <1>1, <2>5, ThrownInv DEF TurnFails
  <2>6. CASE \E s \in SessionIds : Expire(s)
    BY <1>1, <2>6, ExpireInv
  <2>7. CASE Cleanup
    BY <1>1, <2>7, CleanupInv
  <2>8. CASE UNCHANGED vars
    <3>1. PInv' /\ Counting'
      BY <1>1, <2>8 DEF vars, Inv, PInv, PersonasTypeOK, Operating, Clean, Coherent, Behind,
         InFlight, Counting, Active, personaVars, chatVars
    <3>2. ChatTypeOK'
      BY <1>1, <2>8 DEF vars, Inv, ChatTypeOK, chatVars
    <3>3. ASSUME NEW t \in Turns PROVE Turned(t)'
      BY <1>1, <2>8 DEF vars, Inv, Turned, Said, chatVars
    <3>4. ASSUME NEW s \in SessionIds PROVE Kept(s)'
      BY <1>1, <2>8 DEF vars, Inv, Kept, chatVars
    <3> QED  BY <3>1, <3>2, <3>3, <3>4 DEF Inv
  <2> QED  BY <1>1, <2>1, <2>2, <2>3, <2>4, <2>5, <2>6, <2>7, <2>8 DEF Next
<1> QED  BY <1>1, InitInv, PTL DEF Spec

\* Personas, operations, sessions, messages and turns are well typed in every state.
THEOREM TypeCorrect == Spec => []TypeOK
<1>1. Inv => TypeOK
  BY DEF Inv, PInv, ChatTypeOK, TypeOK
<1> QED  BY <1>1, Invariance, PTL

\* A process's cache agrees with the table when nothing is under way, unless one of
\* the reasons that disturbed stands for has come between them.
THEOREM CachesCohere == Spec => []CoherentUnlessDisturbed
<1>1. Inv => CoherentUnlessDisturbed
  BY DEF Inv, PInv, Coherent, CoherentUnlessDisturbed
<1> QED  BY <1>1, Invariance, PTL

\* The transcript of a session agrees with its turns and with what their callers are
\* told, wherever a cleanup or a failing statement comes between.
THEOREM TranscriptsTold == Spec => []TranscriptsAgree
<1>1. Inv => TranscriptsAgree
  <2> SUFFICES ASSUME Inv, NEW s \in SessionIds
               PROVE  /\ session[s] = None => messages[s] = <<>>
                      /\ \A i, j \in DOMAIN messages[s] :
                           messages[s][i].turn = messages[s][j].turn /\ i < j
                           => messages[s][i].role = "user" /\ messages[s][j].role = "assistant"
                      /\ \A t \in Turns : session[s] # None /\ turn[t].sid = s =>
                           /\ turn[t].pc = "touch" \/ turn[t].reply \in {"ok", "result"}
                                => Said(t, s, "assistant")
                           /\ turn[t].pc \in {"open", "ask"} \/ turn[t].reply = "404"
                                => ~Said(t, s, "user")
                           /\ Said(t, s, "assistant") => Said(t, s, "user")
                      /\ \A i \in DOMAIN messages[s] :
                           turn[messages[s][i].turn].via \in {"chat", "ask"}
    BY DEF TranscriptsAgree
  <2>1. /\ session[s] = None => messages[s] = <<>>
        /\ \A i, j \in DOMAIN messages[s] :
             messages[s][i].turn = messages[s][j].turn /\ i < j
             => messages[s][i].role = "user" /\ messages[s][j].role = "assistant"
    BY DEF Inv, Kept
  <2>2. ASSUME NEW t \in Turns, session[s] # None, turn[t].sid = s
        PROVE  /\ turn[t].pc = "touch" \/ turn[t].reply \in {"ok", "result"}
                    => Said(t, s, "assistant")
               /\ turn[t].pc \in {"open", "ask"} \/ turn[t].reply = "404"
                    => ~Said(t, s, "user")
               /\ Said(t, s, "assistant") => Said(t, s, "user")
    BY <2>2, NoneIsNoSession DEF Inv, Turned
  <2>3. ASSUME NEW i \in DOMAIN messages[s]
        PROVE  turn[messages[s][i].turn].via \in {"chat", "ask"}
    <3>1. messages[s][i].turn \in Turns /\ turn[messages[s][i].turn].sid = s
      BY MessageTurns DEF Inv, Kept
    <3> QED  BY <3>1, NoneIsNoSession DEF Inv, Turned, WithSession
  <2> QED  BY <2>1, <2>2, <2>3
<1> QED  BY <1>1, Invariance, PTL

\* The admin deletes a persona under an active session only if the session was opened
\* after the count.
THEOREM OnlyLateOnes == Spec => OnlyLateSessionsLosePersona
<1>1. Inv /\ [Next]_vars =>
        [\A o \in Ops :
           op[o].pc = "put" /\ op[o].kind = "delete" /\ op[o].admin /\ op'[o].pc = "set" =>
             \A s \in SessionIds : Active(s) /\ session[s].agent = op[o].id =>
               s \notin op[o].counted]_vars
  BY DEF Inv, Counting
<1> QED  BY <1>1, Invariance, PTL DEF Spec, OnlyLateSessionsLosePersona
=============================================================================
