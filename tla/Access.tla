------------------------------- MODULE Access -------------------------------
(***************************************************************************)
(* Administrators: the login and its rate limit (AdminAuthService), the    *)
(* guard of the admin routes (AdminAuthGuard) and the audit log            *)
(* (AuditLogInterceptor, AuditLogService).                                 *)
(*                                                                         *)
(* Each API process counts the failed attempts of each key, a username and *)
(* an address, in a map of its own.  login() checks the count, and records *)
(* a failure only after it has awaited the database and bcrypt.            *)
(***************************************************************************)
EXTENDS Naturals, FiniteSets

CONSTANTS
  None,
  Replicas,      \* API processes
  Users,         \* administrators
  Keys,          \* rate limit keys
  UserOf,        \* per key: the administrator of that name, or None
  Logins,        \* slots for calls of login()
  Requests,      \* slots for requests to the admin routes
  MaxAttempts,   \* MAX_ATTEMPTS: 5
  Window         \* RATE_LIMIT_WINDOW_MS, in ticks

ASSUME UserOfAssumption == UserOf \in [Keys -> Users \cup {None}]

ASSUME NumbersAssumption == MaxAttempts \in Nat \ {0} /\ Window \in Nat

ASSUME NoneAssumption == None \notin Users /\ None \notin [count : Nat, age : Nat]

ASSUME SomeAssumption == Replicas # {} /\ Users # {} /\ Keys # {}

ASSUME LoginsAssumption == IsFiniteSet(Logins)

VARIABLES
  users,       \* the rows of admin_users
  attempts,    \* per process and key: its entry of loginAttempts, or None
  login,       \* per slot: the call of login() and where it is
  tokens,      \* administrators for whom an unexpired token exists
  request,     \* per slot: the request and where it is
  auditLog     \* rows of audit_logs: whose they are, and of what event

vars == <<users, attempts, login, tokens, request, auditLog>>

\* How long ago lastAttempt was; an entry older than the window stays as old.
Entry == [count : Nat, age : 0 .. Window + 1]

LoginRecord ==
  [pc : {"idle", "find", "compare", "log"}, on : Replicas, key : Keys,
   right : BOOLEAN, event : {"LOGIN_SUCCESS", "LOGIN_FAILED"}]

\* user and adminUser are the fields of the Express request; logged: whether the
\* handler has @AuditLog; audited: whether a row has been sent for it.
RequestRecord ==
  [pc : {"unused", "guard", "handle", "done", "refused"}, token : Users,
   logged : BOOLEAN, user : Users \cup {None}, adminUser : Users \cup {None},
   audited : BOOLEAN]

Row == [user : Users, event : {"LOGIN_SUCCESS", "LOGIN_FAILED"}]

TypeOK ==
  /\ users \subseteq Users /\ tokens \subseteq Users
  /\ attempts \in [Replicas -> [Keys -> Entry \cup {None}]]
  /\ \A r \in Replicas, k \in Keys : attempts[r][k] # None => attempts[r][k].count > 0
  /\ login \in [Logins -> LoginRecord]
  /\ request \in [Requests -> RequestRecord]
  /\ auditLog \subseteq Row

Init ==
  /\ users = Users /\ tokens = {} /\ auditLog = {}
  /\ attempts = [r \in Replicas |-> [k \in Keys |-> None]]
  /\ login = [l \in Logins |->
       [pc |-> "idle", on |-> CHOOSE r \in Replicas : TRUE,
        key |-> CHOOSE k \in Keys : TRUE, right |-> FALSE, event |-> "LOGIN_FAILED"]]
  /\ request = [q \in Requests |->
       [pc |-> "unused", token |-> CHOOSE u \in Users : TRUE, logged |-> FALSE,
        user |-> None, adminUser |-> None, audited |-> FALSE]]

-----------------------------------------------------------------------------
\* checkRateLimit.

Passed(e) == e.age > Window

Full_OffByOne(e) == e.count > MaxAttempts
Full(e) == e.count >= MaxAttempts

Locked(r, k) ==
  attempts[r][k] # None /\ ~Passed(attempts[r][k]) /\ Full(attempts[r][k])

\* login() up to its first await: an entry that has passed is deleted.
StartLogin(l, r, k, right) ==
  /\ login[l].pc = "idle" /\ ~Locked(r, k)
  /\ attempts' = IF attempts[r][k] # None /\ Passed(attempts[r][k])
                 THEN [attempts EXCEPT ![r][k] = None] ELSE attempts
  /\ login' = [login EXCEPT ![l] =
       [pc |-> "find", on |-> r, key |-> k, right |-> right, event |-> "LOGIN_FAILED"]]
  /\ UNCHANGED <<users, tokens, request, auditLog>>

RefuseLogin_Refreshes(r, k) ==
  /\ Locked(r, k)
  /\ attempts' = [attempts EXCEPT ![r][k].age = 0]
  /\ UNCHANGED <<users, login, tokens, request, auditLog>>

\* Too many login attempts: nothing is recorded.
RefuseLogin(r, k) == Locked(r, k) /\ UNCHANGED vars

RecordFailedAttempt(e) ==
  [count |-> IF e = None THEN 1 ELSE e.count + 1, age |-> 0]

LoginFailed(l) ==
  LET me == login[l] IN
  /\ attempts' = [attempts EXCEPT ![me.on][me.key] = RecordFailedAttempt(@)]
  /\ login' = [login EXCEPT ![l].pc = "log"]

\* findOne has come back.
Find(l) ==
  LET me == login[l] IN
  /\ me.pc = "find"
  /\ IF UserOf[me.key] \in users
     THEN login' = [login EXCEPT ![l].pc = "compare"] /\ UNCHANGED attempts
     ELSE LoginFailed(l)
  /\ UNCHANGED <<users, tokens, request, auditLog>>

ClearFailedAttempts_KeepsEntry(e) == [count |-> 0, age |-> 0]
ClearFailedAttempts(e) == None

\* bcrypt.compare has come back; a token is signed if the password is right.
Compare(l) ==
  LET me == login[l] IN
  /\ me.pc = "compare"
  /\ IF me.right
     THEN /\ attempts' = [attempts EXCEPT ![me.on][me.key] = ClearFailedAttempts(@)]
          /\ login' = [login EXCEPT ![l].pc = "log", ![l].event = "LOGIN_SUCCESS"]
          /\ tokens' = tokens \cup {UserOf[me.key]}
     ELSE LoginFailed(l) /\ UNCHANGED tokens
  /\ UNCHANGED <<users, request, auditLog>>

\* What the table may be after an INSERT: admin_user_id refers to admin_users, so
\* the row of a name that is nobody's, or of somebody removed meanwhile, is turned
\* away; any other may be.
Inserted(row) ==
  {auditLog} \cup (IF row.user \in users THEN {auditLog \cup {row}} ELSE {})

\* login() does not mind.
LogAuthEvent(l) ==
  LET me == login[l] IN
  /\ me.pc = "log"
  /\ login' = [login EXCEPT ![l].pc = "idle"]
  /\ auditLog' \in Inserted([user |-> UserOf[me.key], event |-> me.event])
  /\ UNCHANGED <<users, attempts, tokens, request>>

\* The database rejects findOne.
LoginThrows(l) ==
  /\ login[l].pc = "find"
  /\ login' = [login EXCEPT ![l].pc = "idle"]
  /\ UNCHANGED <<users, attempts, tokens, request, auditLog>>

-----------------------------------------------------------------------------
\* The admin routes.

BeginRequest(q, u, logged) ==
  /\ request[q].pc \in {"unused", "done", "refused"}
  /\ u \in tokens
  /\ request' = [request EXCEPT ![q] =
       [pc |-> "guard", token |-> u, logged |-> logged, user |-> None,
        adminUser |-> None, audited |-> FALSE]]
  /\ UNCHANGED <<users, attempts, login, tokens, auditLog>>

Guard_TokenOnly(q) ==
  LET me == request[q] IN
  /\ me.pc = "guard"
  /\ request' = [request EXCEPT ![q].pc = "handle", ![q].adminUser = me.token]
  /\ UNCHANGED <<users, attempts, login, tokens, auditLog>>

\* validateToken has come back: the administrator must still be there.
Guard(q) ==
  LET me == request[q] IN
  /\ me.pc = "guard"
  /\ request' =
       IF me.token \in users
       THEN [request EXCEPT ![q].pc = "handle", ![q].adminUser = me.token]
       ELSE [request EXCEPT ![q].pc = "refused"]
  /\ UNCHANGED <<users, attempts, login, tokens, auditLog>>

\* The handler returns or throws, and the interceptor sends a row for either if it
\* has found a user in the request.
Handle(q) ==
  LET me == request[q] IN
  /\ me.pc = "handle"
  /\ request' = [request EXCEPT ![q].pc = "done",
       ![q].audited = me.logged /\ me.user # None]
  /\ UNCHANGED <<users, attempts, login, tokens, auditLog>>

-----------------------------------------------------------------------------
\* The environment.

\* Time passes, and stops for an entry that the window has left behind.
Tick ==
  /\ attempts' = [r \in Replicas |-> [k \in Keys |->
       LET e == attempts[r][k] IN
       IF e = None \/ Passed(e) THEN e ELSE [e EXCEPT !.age = @ + 1]]]
  /\ UNCHANGED <<users, login, tokens, request, auditLog>>

TokenExpires(u) ==
  /\ u \in tokens
  /\ tokens' = tokens \ {u}
  /\ UNCHANGED <<users, attempts, login, request, auditLog>>

\* By hand, in the database; the rows go with ON DELETE CASCADE.
RemoveUser(u) ==
  /\ u \in users
  /\ users' = users \ {u}
  /\ auditLog' = {row \in auditLog : row.user # u}
  /\ UNCHANGED <<attempts, login, tokens, request>>

\* A process ends with its logins and its counts, and another takes its place.
Restart(r) ==
  /\ attempts' = [attempts EXCEPT ![r] = [k \in Keys |-> None]]
  /\ login' = [l \in Logins |->
       IF login[l].on = r THEN [login[l] EXCEPT !.pc = "idle"] ELSE login[l]]
  /\ UNCHANGED <<users, tokens, request, auditLog>>

LoginStep(l)   == Find(l) \/ Compare(l) \/ LogAuthEvent(l)
RequestStep(q) == Guard(q) \/ Handle(q)

Next ==
  \/ \E l \in Logins :
       \/ \E r \in Replicas, k \in Keys, right \in BOOLEAN : StartLogin(l, r, k, right)
       \/ LoginStep(l) \/ LoginThrows(l)
  \/ \E r \in Replicas, k \in Keys : RefuseLogin(r, k)
  \/ \E q \in Requests :
       \/ \E u \in Users, logged \in BOOLEAN : BeginRequest(q, u, logged)
       \/ RequestStep(q)
  \/ Tick
  \/ \E u \in Users : TokenExpires(u) \/ RemoveUser(u)
  \/ \E r \in Replicas : Restart(r)

Spec == Init /\ [][Next]_vars

\* Time passes; awaited calls come back.
FairSpec ==
  Spec /\ WF_vars(Tick) /\ (\A l \in Logins : WF_vars(LoginStep(l)))
       /\ (\A q \in Requests : WF_vars(RequestStep(q)))

-----------------------------------------------------------------------------

Trying(r, k) ==
  {l \in Logins : login[l].pc \in {"find", "compare"} /\ login[l].on = r /\ login[l].key = k}

Count(r, k) == IF attempts[r][k] = None THEN 0 ELSE attempts[r][k].count

\* The check comes before the awaits and the count after them: a process lets a
\* key fail more than MaxAttempts times, but by less than the number of logins at
\* a time.
FailuresBounded ==
  \A r \in Replicas, k \in Keys :
    Count(r, k) + Cardinality(Trying(r, k)) <= MaxAttempts - 1 + Cardinality(Logins)

\* A lockout ends, however often the locked name is tried meanwhile.
LockoutsEnd == \A r \in Replicas, k \in Keys : Locked(r, k) ~> ~Locked(r, k)

\* After an administrator has been removed there comes a point from which nothing
\* is done in their name, although their tokens stay valid and logins under way
\* sign new ones.
RemovalIsEffective ==
  \A u \in Users : u \notin users ~>
    [](\A q \in Requests : request[q].pc = "handle" => request[q].adminUser # u)

\* For every action that is to be logged a row has been sent when it is answered.
ActionsAreLogged ==
  \A q \in Requests : request[q].pc = "done" /\ request[q].logged => request[q].audited
=============================================================================
