---------------------------- MODULE AccessProofs ----------------------------
(***************************************************************************)
(* Proofs about Access, for any processes, keys, administrators and logins  *)
(* at a time.  Typing needs that only a login under the name of an          *)
(* administrator gets as far as bcrypt; FailuresBounded is inductive with   *)
(* it, because a login counts once: while it is under way or as the failure *)
(* it becomes.                                                              *)
(***************************************************************************)
EXTENDS Access, FiniteSetTheorems, TLAPS

\* Only the login of an administrator is compared.
ComparesUsers ==
  \A l \in Logins : login[l].pc = "compare" => UserOf[login[l].key] \in Users

Typed == TypeOK /\ ComparesUsers

\* An entry is not None, so the two are told apart.
LEMMA EntryIsNotNone == \A e \in Entry : e # None
BY NoneAssumption, NumbersAssumption DEF Entry

\* The program starts well typed.
LEMMA InitTyped == Init => Typed
<1> SUFFICES ASSUME Init PROVE Typed
  OBVIOUS
<1>1. /\ (CHOOSE r \in Replicas : TRUE) \in Replicas
      /\ (CHOOSE k \in Keys : TRUE) \in Keys
      /\ (CHOOSE u \in Users : TRUE) \in Users
  BY SomeAssumption
<1>2. attempts \in [Replicas -> [Keys -> Entry \cup {None}]]
  BY DEF Init
<1>3. \A r \in Replicas, k \in Keys : attempts[r][k] = None
  BY DEF Init
<1>4. login \in [Logins -> LoginRecord] /\ \A l \in Logins : login[l].pc = "idle"
  BY <1>1 DEF Init, LoginRecord
<1>5. request \in [Requests -> RequestRecord]
  BY <1>1 DEF Init, RequestRecord
<1> QED  BY <1>2, <1>3, <1>4, <1>5 DEF Init, Typed, TypeOK, ComparesUsers

\* Entries after one of them has been replaced by another, or deleted.
LEMMA EntryReplaced ==
  ASSUME TypeOK, NEW r \in Replicas, NEW k \in Keys, NEW e \in Entry \cup {None},
         e # None => e.count > 0,
         attempts' = [attempts EXCEPT ![r][k] = e]
  PROVE  /\ attempts' \in [Replicas -> [Keys -> Entry \cup {None}]]
         /\ \A s \in Replicas, j \in Keys :
              attempts'[s][j] = IF s = r /\ j = k THEN e ELSE attempts[s][j]
         /\ \A s \in Replicas, j \in Keys :
              attempts'[s][j] # None => attempts'[s][j].count > 0
<1>1. attempts \in [Replicas -> [Keys -> Entry \cup {None}]]
  BY DEF TypeOK
<1>2. attempts' \in [Replicas -> [Keys -> Entry \cup {None}]]
  BY <1>1
<1>3. \A s \in Replicas, j \in Keys :
        attempts'[s][j] = IF s = r /\ j = k THEN e ELSE attempts[s][j]
  BY <1>1
<1> QED  BY <1>2, <1>3 DEF TypeOK

\* A failed attempt of a login that is under way.
LEMMA FailedEffect ==
  ASSUME TypeOK, NEW l \in Logins, LoginFailed(l)
  PROVE  /\ attempts' \in [Replicas -> [Keys -> Entry \cup {None}]]
         /\ \A s \in Replicas, j \in Keys :
              attempts'[s][j] =
                IF s = login[l].on /\ j = login[l].key
                THEN RecordFailedAttempt(attempts[s][j]) ELSE attempts[s][j]
         /\ \A s \in Replicas, j \in Keys :
              attempts'[s][j] # None => attempts'[s][j].count > 0
         /\ login' = [login EXCEPT ![l].pc = "log"]
<1> DEFINE r == login[l].on
           k == login[l].key
           e == RecordFailedAttempt(attempts[r][k])
<1>1. r \in Replicas /\ k \in Keys
  BY DEF TypeOK, LoginRecord
<1>2. attempts[r][k] \in Entry \cup {None}
  BY <1>1 DEF TypeOK
<1>3. e \in Entry /\ e.count > 0
  BY <1>2, NumbersAssumption DEF RecordFailedAttempt, Entry
<1>4. attempts' = [attempts EXCEPT ![r][k] = e]
  BY <1>1 DEF LoginFailed, TypeOK
<1>5. login' = [login EXCEPT ![l].pc = "log"]
  BY DEF LoginFailed
<1> HIDE DEF e
<1> QED
  <2>1. /\ attempts' \in [Replicas -> [Keys -> Entry \cup {None}]]
        /\ \A s \in Replicas, j \in Keys :
             attempts'[s][j] = IF s = r /\ j = k THEN e ELSE attempts[s][j]
        /\ \A s \in Replicas, j \in Keys :
             attempts'[s][j] # None => attempts'[s][j].count > 0
    BY <1>1, <1>3, <1>4, EntryReplaced
  <2> QED  BY <1>5, <2>1 DEF e

-----------------------------------------------------------------------------
\* A login moves on to another place, under the same name.
LEMMA LoginMoved ==
  ASSUME Typed, NEW l \in Logins, NEW pc \in {"idle", "find", "compare", "log"},
         pc = "compare" => UserOf[login[l].key] \in Users,
         login' = [login EXCEPT ![l].pc = pc]
  PROVE  login' \in [Logins -> LoginRecord] /\ ComparesUsers'
<1> DEFINE new == [login[l] EXCEPT !.pc = pc]
<1>1. login[l] \in LoginRecord
  BY DEF Typed, TypeOK
<1>2. new \in LoginRecord /\ new.pc = pc /\ new.key = login[l].key
  BY <1>1 DEF LoginRecord
<1>3. login' = [login EXCEPT ![l] = new]
  BY DEF Typed, TypeOK
<1> HIDE DEF new
<1>4. login' \in [Logins -> LoginRecord]
  BY <1>2, <1>3 DEF Typed, TypeOK
<1>5. \A m \in Logins : login'[m] = IF m = l THEN new ELSE login[m]
  BY <1>3 DEF Typed, TypeOK
<1> QED  BY <1>2, <1>4, <1>5 DEF Typed, ComparesUsers

\* Typing survives the steps of a login.
LEMMA LoginTyped ==
  ASSUME Typed, NEW l \in Logins,
         \/ \E r \in Replicas, k \in Keys, right \in BOOLEAN : StartLogin(l, r, k, right)
         \/ LoginStep(l) \/ LoginThrows(l)
  PROVE  Typed'
<1>1. ASSUME NEW r \in Replicas, NEW k \in Keys, NEW right \in BOOLEAN,
             StartLogin(l, r, k, right)
      PROVE  Typed'
  <2> DEFINE new == [pc |-> "find", on |-> r, key |-> k, right |-> right,
                     event |-> "LOGIN_FAILED"]
  <2>1. new \in LoginRecord /\ new.pc = "find"
    BY DEF LoginRecord
  <2>2. login' = [login EXCEPT ![l] = new]
    BY <1>1 DEF StartLogin
  <2> HIDE DEF new
  <2>3. login' \in [Logins -> LoginRecord] /\ ComparesUsers'
    BY <2>1, <2>2 DEF Typed, TypeOK, ComparesUsers
  <2>4. /\ attempts' \in [Replicas -> [Keys -> Entry \cup {None}]]
        /\ \A s \in Replicas, j \in Keys :
             attempts'[s][j] # None => attempts'[s][j].count > 0
    <3>1. CASE attempts' = [attempts EXCEPT ![r][k] = None]
      BY <3>1, EntryReplaced DEF Typed
    <3>2. CASE attempts' = attempts
      BY <3>2 DEF Typed, TypeOK
    <3> QED  BY <1>1, <3>1, <3>2 DEF StartLogin
  <2> QED  BY <1>1, <2>3, <2>4 DEF StartLogin, Typed, TypeOK
<1>2. CASE Find(l)
  <2>1. CASE UserOf[login[l].key] \in users
    <3>1. login' = [login EXCEPT ![l].pc = "compare"] /\ attempts' = attempts
      BY <1>2, <2>1 DEF Find
    <3>2. UserOf[login[l].key] \in Users
      BY <2>1 DEF Typed, TypeOK
    <3>3. login' \in [Logins -> LoginRecord] /\ ComparesUsers'
      BY <3>1, <3>2, LoginMoved
    <3> QED  BY <1>2, <3>1, <3>3 DEF Find, Typed, TypeOK
  <2>2. CASE UserOf[login[l].key] \notin users
    <3>1. LoginFailed(l)
      BY <1>2, <2>2 DEF Find
    <3>2. login' \in [Logins -> LoginRecord] /\ ComparesUsers'
      BY <3>1, LoginMoved, FailedEffect DEF Typed
    <3> QED  BY <1>2, <3>1, <3>2, FailedEffect DEF Find, Typed, TypeOK
  <2> QED  BY <2>1, <2>2
<1>3. CASE Compare(l)
  <2>1. CASE login[l].right
    <3> DEFINE new == [login[l] EXCEPT !.pc = "log", !.event = "LOGIN_SUCCESS"]
               r == login[l].on
               k == login[l].key
    <3>1. login[l] \in LoginRecord /\ r \in Replicas /\ k \in Keys
      BY DEF Typed, TypeOK, LoginRecord
    <3>2. new \in LoginRecord /\ new.pc = "log"
      BY <3>1 DEF LoginRecord
    <3>3. login' = [login EXCEPT ![l] = new]
      BY <1>3, <2>1 DEF Compare, Typed, TypeOK
    <3>4. attempts' = [attempts EXCEPT ![r][k] = None]
      BY <1>3, <2>1 DEF Compare, ClearFailedAttempts
    <3>5. tokens' = tokens \cup {UserOf[k]} /\ UserOf[k] \in Users
      BY <1>3, <2>1 DEF Compare, Typed, ComparesUsers
    <3> HIDE DEF new
    <3>6. login' \in [Logins -> LoginRecord] /\ ComparesUsers'
      BY <3>2, <3>3 DEF Typed, TypeOK, ComparesUsers
    <3>7. /\ attempts' \in [Replicas -> [Keys -> Entry \cup {None}]]
          /\ \A s \in Replicas, j \in Keys :
               attempts'[s][j] # None => attempts'[s][j].count > 0
      BY <3>1, <3>4, EntryReplaced DEF Typed
    <3> QED  BY <1>3, <3>5, <3>6, <3>7 DEF Compare, Typed, TypeOK
  <2>2. CASE ~login[l].right
    <3>1. LoginFailed(l) /\ tokens' = tokens
      BY <1>3, <2>2 DEF Compare
    <3>2. login' \in [Logins -> LoginRecord] /\ ComparesUsers'
      BY <3>1, LoginMoved, FailedEffect DEF Typed
    <3> QED  BY <1>3, <3>1, <3>2, FailedEffect DEF Compare, Typed, TypeOK
  <2> QED  BY <2>1, <2>2
<1>4. CASE LogAuthEvent(l)
  <2>1. login' \in [Logins -> LoginRecord] /\ ComparesUsers'
    BY <1>4, LoginMoved DEF LogAuthEvent
  <2>2. auditLog' \subseteq Row
    <3> DEFINE row == [user |-> UserOf[login[l].key], event |-> login[l].event]
    <3>1. auditLog' \in Inserted(row) /\ login[l].event \in {"LOGIN_SUCCESS", "LOGIN_FAILED"}
      BY <1>4 DEF LogAuthEvent, Typed, TypeOK, LoginRecord
    <3>2. row.user \in users => row \in Row
      BY <3>1 DEF Typed, TypeOK, Row
    <3> HIDE DEF row
    <3> QED  BY <3>1, <3>2 DEF Inserted, Typed, TypeOK
  <2> QED  BY <1>4, <2>1, <2>2 DEF LogAuthEvent, Typed, TypeOK
<1>5. CASE LoginThrows(l)
  <2>1. login' \in [Logins -> LoginRecord] /\ ComparesUsers'
    BY <1>5, LoginMoved DEF LoginThrows
  <2> QED  BY <1>5, <2>1 DEF LoginThrows, Typed, TypeOK
<1> QED  BY <1>1, <1>2, <1>3, <1>4, <1>5 DEF LoginStep

\* Typing survives the steps of a request.
LEMMA RequestTyped ==
  ASSUME Typed, NEW q \in Requests,
         \/ \E u \in Users, logged \in BOOLEAN : BeginRequest(q, u, logged)
         \/ RequestStep(q)
  PROVE  Typed'
<1>1. request[q] \in RequestRecord
  BY DEF Typed, TypeOK
<1>2. request' \in [Requests -> RequestRecord]
  <2>1. ASSUME NEW u \in Users, NEW logged \in BOOLEAN, BeginRequest(q, u, logged)
        PROVE  request' \in [Requests -> RequestRecord]
    <3> DEFINE new == [pc |-> "guard", token |-> u, logged |-> logged, user |-> None,
                       adminUser |-> None, audited |-> FALSE]
    <3>1. new \in RequestRecord
      BY DEF RequestRecord
    <3>2. request' = [request EXCEPT ![q] = new]
      BY <2>1 DEF BeginRequest
    <3> HIDE DEF new
    <3> QED  BY <3>1, <3>2 DEF Typed, TypeOK
  <2>2. CASE Guard(q)
    <3> DEFINE through == [request[q] EXCEPT !.pc = "handle", !.adminUser = request[q].token]
               refused == [request[q] EXCEPT !.pc = "refused"]
    <3>1. through \in RequestRecord /\ refused \in RequestRecord
      BY <1>1 DEF RequestRecord
    <3>2. \/ request' = [request EXCEPT ![q] = through]
          \/ request' = [request EXCEPT ![q] = refused]
      BY <2>2 DEF Guard, Typed, TypeOK
    <3> HIDE DEF through, refused
    <3> QED  BY <3>1, <3>2 DEF Typed, TypeOK
  <2>3. CASE Handle(q)
    <3> DEFINE audited == request[q].logged /\ request[q].user # None
               new == [request[q] EXCEPT !.pc = "done", !.audited = audited]
    <3>1. audited \in BOOLEAN
      BY <1>1 DEF RequestRecord
    <3>2. request' = [request EXCEPT ![q] = new]
      BY <2>3 DEF Handle, Typed, TypeOK
    <3> HIDE DEF audited
    <3>3. new \in RequestRecord
      BY <1>1, <3>1 DEF RequestRecord
    <3> HIDE DEF new
    <3> QED  BY <3>2, <3>3 DEF Typed, TypeOK
  <2> QED  BY <2>1, <2>2, <2>3 DEF RequestStep
<1>3. UNCHANGED <<users, attempts, login, tokens, auditLog>>
  BY DEF RequestStep, BeginRequest, Guard, Handle
<1> QED  BY <1>2, <1>3 DEF Typed, TypeOK, ComparesUsers

\* Typing survives what the environment does.
LEMMA EnvironmentTyped ==
  ASSUME Typed,
         \/ Tick
         \/ \E u \in Users : TokenExpires(u) \/ RemoveUser(u)
         \/ \E r \in Replicas : Restart(r)
  PROVE  Typed'
<1>1. CASE Tick
  <2>1. ASSUME NEW r \in Replicas, NEW k \in Keys
        PROVE  /\ attempts'[r][k] \in Entry \cup {None}
               /\ attempts'[r][k] # None => attempts'[r][k].count > 0
    <3>1. attempts[r][k] \in Entry \cup {None} /\ (attempts[r][k] # None => attempts[r][k].count > 0)
      BY DEF Typed, TypeOK
    <3>2. attempts'[r][k] =
            IF attempts[r][k] = None \/ Passed(attempts[r][k]) THEN attempts[r][k]
            ELSE [attempts[r][k] EXCEPT !.age = @ + 1]
      BY <1>1 DEF Tick
    <3>3. CASE attempts[r][k] = None \/ Passed(attempts[r][k])
      BY <3>1, <3>2, <3>3
    <3>4. CASE ~(attempts[r][k] = None \/ Passed(attempts[r][k]))
      <4> DEFINE e == attempts[r][k]
      <4>1. e \in Entry /\ e.age + 1 \in 0 .. Window + 1 /\ e.count > 0
        BY <3>1, <3>4, NumbersAssumption DEF Passed, Entry
      <4>2. [e EXCEPT !.age = @ + 1] \in Entry /\ [e EXCEPT !.age = @ + 1].count = e.count
        BY <4>1 DEF Entry
      <4> QED  BY <3>2, <3>4, <4>1, <4>2
    <3> QED  BY <3>3, <3>4
  <2>2. attempts' \in [Replicas -> [Keys -> Entry \cup {None}]]
    BY <1>1, <2>1 DEF Tick
  <2> QED  BY <1>1, <2>1, <2>2 DEF Tick, Typed, TypeOK, ComparesUsers
<1>2. ASSUME NEW u \in Users, TokenExpires(u)
      PROVE  Typed'
  BY <1>2 DEF TokenExpires, Typed, TypeOK, ComparesUsers
<1>3. ASSUME NEW u \in Users, RemoveUser(u)
      PROVE  Typed'
  BY <1>3 DEF RemoveUser, Typed, TypeOK, ComparesUsers
<1>4. ASSUME NEW r \in Replicas, Restart(r)
      PROVE  Typed'
  <2>1. /\ attempts' \in [Replicas -> [Keys -> Entry \cup {None}]]
        /\ \A s \in Replicas, j \in Keys :
             attempts'[s][j] = IF s = r THEN None ELSE attempts[s][j]
    BY <1>4 DEF Restart, Typed, TypeOK
  <2>2. ASSUME NEW l \in Logins
        PROVE  /\ login'[l] \in LoginRecord
               /\ login'[l].pc = "compare" => login'[l] = login[l]
    <3>1. login[l] \in LoginRecord
      BY DEF Typed, TypeOK
    <3>2. /\ [login[l] EXCEPT !.pc = "idle"] \in LoginRecord
          /\ [login[l] EXCEPT !.pc = "idle"].pc = "idle"
      BY <3>1 DEF LoginRecord
    <3>3. login'[l] = IF login[l].on = r THEN [login[l] EXCEPT !.pc = "idle"] ELSE login[l]
      BY <1>4 DEF Restart
    <3> QED  BY <3>1, <3>2, <3>3
  <2>3. login' \in [Logins -> LoginRecord]
    BY <1>4, <2>2 DEF Restart
  <2> QED  BY <1>4, <2>1, <2>2, <2>3 DEF Restart, Typed, TypeOK, ComparesUsers
<1> QED  BY <1>1, <1>2, <1>3, <1>4

\* Typing survives every step.
LEMMA StepTyped == Typed /\ [Next]_vars => Typed'
<1> SUFFICES ASSUME Typed, [Next]_vars PROVE Typed'
  OBVIOUS
<1>1. CASE UNCHANGED vars
  BY <1>1 DEF vars, Typed, TypeOK, ComparesUsers
<1>2. ASSUME NEW r \in Replicas, NEW k \in Keys, RefuseLogin(r, k)
      PROVE  Typed'
  BY <1>2 DEF RefuseLogin, vars, Typed, TypeOK, ComparesUsers
<1> QED  BY <1>1, <1>2, LoginTyped, RequestTyped, EnvironmentTyped DEF Next

\* All variables are typed in every reachable state.
THEOREM TypeCorrect == Spec => []TypeOK
<1>1. Spec => []Typed
  BY InitTyped, StepTyped, PTL DEF Spec
<1> QED  BY <1>1, PTL DEF Typed

-----------------------------------------------------------------------------

Bound(r, k) == Count(r, k) + Cardinality(Trying(r, k)) <= MaxAttempts - 1 + Cardinality(Logins)

\* Logins under way are no more than there are slots, and counts are numbers.
LEMMA TryingFinite ==
  ASSUME TypeOK, NEW r \in Replicas, NEW k \in Keys
  PROVE  /\ IsFiniteSet(Trying(r, k)) /\ Count(r, k) \in Nat
         /\ Cardinality(Trying(r, k)) \in Nat /\ Cardinality(Logins) \in Nat
         /\ Cardinality(Trying(r, k)) <= Cardinality(Logins)
<1>1. Trying(r, k) \subseteq Logins
  BY DEF Trying
<1>2. Count(r, k) \in Nat
  BY DEF TypeOK, Count, Entry
<1> QED  BY <1>1, <1>2, LoginsAssumption, FS_Subset, FS_CardinalityType

\* The bound is safe where neither the count nor the logins under way grow ...
LEMMA NothingAdded ==
  ASSUME TypeOK, TypeOK', NEW r \in Replicas, NEW k \in Keys, Bound(r, k),
         Count(r, k)' <= Count(r, k), Trying(r, k)' \subseteq Trying(r, k)
  PROVE  Bound(r, k)'
<1>1. Cardinality(Trying(r, k)') <= Cardinality(Trying(r, k))
  BY TryingFinite, FS_Subset
<1>2. Count(r, k) \in Nat /\ Cardinality(Trying(r, k)) \in Nat /\ Cardinality(Logins) \in Nat
  BY TryingFinite
<1>3. Count(r, k)' \in Nat
  BY DEF TypeOK, Count, Entry
<1>4. Cardinality(Trying(r, k)') \in Nat
  BY TryingFinite, FS_Subset, FS_CardinalityType
<1> QED  BY <1>1, <1>2, <1>3, <1>4, NumbersAssumption DEF Bound

\* ... where the count is below the limit, because then only the logins under way
\* can be too many ...
LEMMA BelowLimit ==
  ASSUME TypeOK', NEW r \in Replicas, NEW k \in Keys, Count(r, k)' < MaxAttempts
  PROVE  Bound(r, k)'
<1>1. Trying(r, k)' \subseteq Logins
  BY DEF Trying
<1>2. /\ Cardinality(Logins) \in Nat /\ Cardinality(Trying(r, k)') \in Nat
      /\ Cardinality(Trying(r, k)') <= Cardinality(Logins)
  BY <1>1, LoginsAssumption, FS_Subset, FS_CardinalityType
<1>3. Count(r, k)' \in Nat
  BY DEF TypeOK, Count, Entry
<1> QED  BY <1>2, <1>3, NumbersAssumption DEF Bound

\* ... and where a login under way becomes a failure.
LEMMA OneBecomesFailure ==
  ASSUME TypeOK, TypeOK', NEW r \in Replicas, NEW k \in Keys, Bound(r, k),
         NEW l \in Trying(r, k),
         Count(r, k)' = Count(r, k) + 1, Trying(r, k)' = Trying(r, k) \ {l}
  PROVE  Bound(r, k)'
<1>1. Cardinality(Trying(r, k)') = Cardinality(Trying(r, k)) - 1
  BY TryingFinite, FS_RemoveElement
<1>2. Count(r, k) \in Nat /\ Cardinality(Trying(r, k)) \in Nat /\ Cardinality(Logins) \in Nat
  BY TryingFinite
<1> QED  BY <1>1, <1>2, NumbersAssumption DEF Bound

\* A login that fails keeps the bound of every key.
LEMMA FailureBounded ==
  ASSUME Typed, TypeOK', NEW l \in Logins, login[l].pc \in {"find", "compare"},
         LoginFailed(l), NEW r \in Replicas, NEW k \in Keys, Bound(r, k)
  PROVE  Bound(r, k)'
<1>1. /\ attempts'[r][k] = IF r = login[l].on /\ k = login[l].key
                           THEN RecordFailedAttempt(attempts[r][k]) ELSE attempts[r][k]
      /\ login' = [login EXCEPT ![l].pc = "log"]
  BY FailedEffect DEF Typed
<1>2. \A m \in Logins :
        /\ m # l => login'[m] = login[m]
        /\ login'[l].pc = "log"
  BY <1>1 DEF Typed, TypeOK, LoginRecord
<1>3. Trying(r, k)' = Trying(r, k) \ {l}
  BY <1>2 DEF Trying
<1>4. CASE r = login[l].on /\ k = login[l].key
  <2>1. l \in Trying(r, k)
    BY <1>4 DEF Trying
  <2>2. attempts[r][k] \in Entry \cup {None} /\ attempts'[r][k] = RecordFailedAttempt(attempts[r][k])
    BY <1>1, <1>4 DEF Typed, TypeOK
  <2>3. RecordFailedAttempt(attempts[r][k]) \in Entry
    BY <2>2, NumbersAssumption DEF RecordFailedAttempt, Entry
  <2>4. Count(r, k)' = Count(r, k) + 1
    BY <2>2, <2>3, EntryIsNotNone DEF Count, RecordFailedAttempt, Entry
  <2> QED  BY <1>3, <2>1, <2>4, OneBecomesFailure DEF Typed
<1>5. CASE ~(r = login[l].on /\ k = login[l].key)
  <2>1. Count(r, k)' = Count(r, k)
    BY <1>1, <1>5 DEF Count
  <2>2. Count(r, k) \in Nat
    BY TryingFinite DEF Typed
  <2> QED  BY <1>3, <2>1, <2>2, NothingAdded DEF Typed
<1> QED  BY <1>4, <1>5

\* Logins under way only end, and counts stay or go.
LEMMA QuietBounded ==
  ASSUME Typed, TypeOK', NEW r \in Replicas, NEW k \in Keys, Bound(r, k),
         attempts'[r][k] = attempts[r][k] \/ Count(r, k)' = Count(r, k) \/ attempts'[r][k] = None,
         \A m \in Logins : login'[m].pc \in {"find", "compare"} =>
           /\ login[m].pc \in {"find", "compare"}
           /\ login'[m].on = login[m].on /\ login'[m].key = login[m].key
  PROVE  Bound(r, k)'
<1>1. Trying(r, k)' \subseteq Trying(r, k)
  BY DEF Trying
<1>2. Count(r, k) \in Nat
  BY TryingFinite DEF Typed
<1>3. Count(r, k)' <= Count(r, k)
  BY <1>2 DEF Count
<1> QED  BY <1>1, <1>3, NothingAdded DEF Typed

\* A login that begins finds its key below the limit.
LEMMA StartBounded ==
  ASSUME Typed, TypeOK', NEW l \in Logins, NEW s \in Replicas, NEW j \in Keys,
         NEW right \in BOOLEAN, StartLogin(l, s, j, right),
         NEW r \in Replicas, NEW k \in Keys, Bound(r, k)
  PROVE  Bound(r, k)'
<1> DEFINE new == [pc |-> "find", on |-> s, key |-> j, right |-> right,
                   event |-> "LOGIN_FAILED"]
<1>1. \A m \in Logins : login'[m] = IF m = l THEN new ELSE login[m]
  BY DEF StartLogin, Typed, TypeOK
<1>2. \/ attempts' = attempts
      \/ attempts' = [attempts EXCEPT ![s][j] = None]
  BY DEF StartLogin
<1>3. \A a \in Replicas, b \in Keys :
        attempts'[a][b] = attempts[a][b] \/ (a = s /\ b = j /\ attempts'[a][b] = None)
  BY <1>2, EntryReplaced DEF Typed
<1>4. CASE r = s /\ k = j
  <2>1. Count(r, k)' < MaxAttempts
    <3>1. CASE attempts'[r][k] = None
      BY <3>1, NumbersAssumption DEF Count
    <3>2. CASE attempts'[r][k] # None
      <4>1. attempts' = attempts
        BY <1>2, <1>4, <3>2, EntryReplaced DEF Typed
      <4>2. attempts[r][k] # None /\ ~Passed(attempts[r][k])
        BY <1>4, <3>2, <4>1, EntryReplaced DEF StartLogin, Typed
      <4>3. ~Full(attempts[r][k]) /\ attempts[r][k] \in Entry
        BY <1>4, <4>2 DEF StartLogin, Locked, Typed, TypeOK
      <4> QED  BY <4>1, <4>2, <4>3, NumbersAssumption DEF Full, Entry, Count
    <3> QED  BY <3>1, <3>2
  <2> QED  BY <2>1, BelowLimit
<1>5. CASE ~(r = s /\ k = j)
  <2>1. Trying(r, k)' \subseteq Trying(r, k)
    BY <1>1, <1>5 DEF Trying
  <2>2. attempts'[r][k] = attempts[r][k]
    BY <1>3, <1>5
  <2>3. Count(r, k)' <= Count(r, k)
    BY <2>2, TryingFinite DEF Count, Typed
  <2> QED  BY <2>1, <2>3, NothingAdded DEF Typed
<1> QED  BY <1>4, <1>5

\* Every other step of a login keeps the bound.
LEMMA LoginBounded ==
  ASSUME Typed, TypeOK', NEW l \in Logins, LoginStep(l) \/ LoginThrows(l),
         NEW r \in Replicas, NEW k \in Keys, Bound(r, k)
  PROVE  Bound(r, k)'
<1>1. CASE Find(l)
  <2>1. CASE LoginFailed(l)
    BY <1>1, <2>1, FailureBounded DEF Find
  <2>2. CASE ~LoginFailed(l)
    <3>1. attempts' = attempts /\ login' = [login EXCEPT ![l].pc = "compare"]
          /\ login[l].pc = "find"
      BY <1>1, <2>2 DEF Find
    <3>2. \A m \in Logins : /\ m # l => login'[m] = login[m]
                            /\ login'[l].on = login[l].on /\ login'[l].key = login[l].key
      BY <3>1 DEF Typed, TypeOK, LoginRecord
    <3> QED  BY <3>1, <3>2, QuietBounded
  <2> QED  BY <2>1, <2>2
<1>2. CASE Compare(l)
  <2>1. CASE LoginFailed(l)
    BY <1>2, <2>1, FailureBounded DEF Compare
  <2>2. CASE ~LoginFailed(l)
    <3>1. /\ attempts' = [attempts EXCEPT ![login[l].on][login[l].key] = None]
          /\ login' = [login EXCEPT ![l].pc = "log", ![l].event = "LOGIN_SUCCESS"]
      BY <1>2, <2>2 DEF Compare, ClearFailedAttempts
    <3>2. login[l].on \in Replicas /\ login[l].key \in Keys
      BY DEF Typed, TypeOK, LoginRecord
    <3>3. attempts'[r][k] = attempts[r][k] \/ attempts'[r][k] = None
      BY <3>1, <3>2, EntryReplaced DEF Typed
    <3>4. \A m \in Logins : /\ m # l => login'[m] = login[m]
                            /\ login'[l].pc = "log"
      BY <3>1 DEF Typed, TypeOK, LoginRecord
    <3> QED  BY <3>3, <3>4, QuietBounded
  <2> QED  BY <2>1, <2>2
<1>3. CASE LogAuthEvent(l) \/ LoginThrows(l)
  <2>1. attempts' = attempts /\ login' = [login EXCEPT ![l].pc = "idle"]
    BY <1>3 DEF LogAuthEvent, LoginThrows
  <2>2. \A m \in Logins : /\ m # l => login'[m] = login[m]
                          /\ login'[l].pc = "idle"
    BY <2>1 DEF Typed, TypeOK, LoginRecord
  <2> QED  BY <2>1, <2>2, QuietBounded
<1> QED  BY <1>1, <1>2, <1>3 DEF LoginStep

\* Time and restarts keep the bound.
LEMMA TimeBounded ==
  ASSUME Typed, TypeOK', Tick \/ \E s \in Replicas : Restart(s),
         NEW r \in Replicas, NEW k \in Keys, Bound(r, k)
  PROVE  Bound(r, k)'
<1>1. CASE Tick
  <2> DEFINE e == attempts[r][k]
             older == [e EXCEPT !.age = @ + 1]
  <2>1. attempts'[r][k] = IF e = None \/ Passed(e) THEN e ELSE older
    BY <1>1 DEF Tick
  <2>2. Count(r, k)' = Count(r, k)
    <3>1. CASE e = None \/ Passed(e)
      BY <2>1, <3>1 DEF Count
    <3>2. CASE ~(e = None \/ Passed(e))
      <4>1. e \in Entry /\ e # None
        BY <3>2 DEF Typed, TypeOK
      <4>2. older.count = e.count /\ older \in [count : Nat, age : Nat]
        BY <4>1, NumbersAssumption DEF Entry
      <4>3. attempts'[r][k] = older /\ older # None
        BY <2>1, <3>2, <4>2, NoneAssumption
      <4> QED  BY <4>1, <4>2, <4>3 DEF Count
    <3> QED  BY <3>1, <3>2
  <2>3. login' = login
    BY <1>1 DEF Tick
  <2> QED  BY <2>2, <2>3, QuietBounded
<1>2. ASSUME NEW s \in Replicas, Restart(s)
      PROVE  Bound(r, k)'
  <2>1. attempts'[r][k] = attempts[r][k] \/ attempts'[r][k] = None
    BY <1>2 DEF Restart, Typed, TypeOK
  <2>2. \A m \in Logins : login'[m] = login[m] \/ login'[m].pc = "idle"
    BY <1>2 DEF Restart, Typed, TypeOK, LoginRecord
  <2> QED  BY <2>1, <2>2, QuietBounded
<1> QED  BY <1>1, <1>2

\* The bound of a key survives every step.
LEMMA StepBounded ==
  ASSUME Typed, TypeOK', [Next]_vars, NEW r \in Replicas, NEW k \in Keys, Bound(r, k)
  PROVE  Bound(r, k)'
<1>1. CASE UNCHANGED <<attempts, login>>
  BY <1>1, QuietBounded
<1>2. CASE ~UNCHANGED <<attempts, login>>
  <2>1. \/ \E l \in Logins :
             \/ \E s \in Replicas, j \in Keys, right \in BOOLEAN : StartLogin(l, s, j, right)
             \/ LoginStep(l) \/ LoginThrows(l)
        \/ Tick \/ \E s \in Replicas : Restart(s)
    BY <1>2 DEF Next, vars, RefuseLogin, BeginRequest, RequestStep, Guard, Handle,
       TokenExpires, RemoveUser
  <2> QED  BY <2>1, StartBounded, LoginBounded, TimeBounded
<1> QED  BY <1>1, <1>2

\* A process lets a key fail at most MaxAttempts times and once more for every
\* further login at the same time, in every reachable state.
THEOREM LimitOvershoot == Spec => []FailuresBounded
<1> DEFINE IInv == Typed /\ FailuresBounded
<1>1. Init => IInv
  <2> SUFFICES ASSUME Init, NEW r \in Replicas, NEW k \in Keys PROVE Bound(r, k)
    BY InitTyped DEF FailuresBounded, Bound
  <2>1. Count(r, k) = 0 /\ Trying(r, k) = {}
    BY DEF Init, Count, Trying
  <2>2. TypeOK
    BY InitTyped DEF Typed
  <2>3. Cardinality(Trying(r, k)) = 0 /\ Cardinality(Logins) \in Nat
    BY <2>1, <2>2, TryingFinite, FS_EmptySet
  <2> QED  BY <2>1, <2>3, NumbersAssumption DEF Bound
<1>2. IInv /\ [Next]_vars => IInv'
  BY StepTyped, StepBounded DEF FailuresBounded, Bound, Typed
<1>3. IInv => FailuresBounded
  OBVIOUS
<1> HIDE DEF IInv
<1> QED  BY <1>1, <1>2, <1>3, PTL DEF Spec
=============================================================================
