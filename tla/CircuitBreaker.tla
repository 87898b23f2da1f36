--------------------------- MODULE CircuitBreaker ---------------------------
(***************************************************************************)
(* One circuit breaker under concurrent calls of execute().                 *)
(*                                                                          *)
(* execute() runs synchronously up to its await and again when the race     *)
(* between the operation and the timeout is decided, so a call is two       *)
(* steps: Execute, then one of Succeed, Fail and TimeOut.  Any number of    *)
(* other calls start and settle in between.  A call refused because the     *)
(* breaker is open changes nothing and is therefore no step here.           *)
(*                                                                          *)
(* The clock is discrete.  Tick is held back while a call has reached its   *)
(* timeout: the event loop runs a due timer before it lets another tick     *)
(* pass.                                                                    *)
(***************************************************************************)
EXTENDS Breaker

CONSTANT Calls       \* slots for concurrent execute() calls

VARIABLES
  breaker,           \* the object's four fields
  pending,           \* calls whose operation has not been raced to an end
  waited             \* ticks since a pending call started (0 if not pending)

vars == <<breaker, pending, waited>>

TypeOK ==
  /\ breaker \in Breakers
  /\ pending \subseteq Calls
  /\ waited \in [Calls -> 0 .. Timeout]

Init ==
  /\ breaker = NewBreaker
  /\ pending = {}
  /\ waited  = [c \in Calls |-> 0]

Execute_IgnoresOpen(c) ==
  /\ c \notin pending
  /\ breaker' = breaker
  /\ pending' = pending \cup {c}
  /\ UNCHANGED waited

Execute(c) ==
  /\ c \notin pending
  /\ Admits(breaker)
  /\ breaker' = Admitted(breaker)
  /\ pending' = pending \cup {c}
  /\ UNCHANGED waited

\* The race is decided: the call leaves, its late result is ignored.
Settle(c) ==
  /\ c \in pending
  /\ pending' = pending \ {c}
  /\ waited'  = [waited EXCEPT ![c] = 0]

Succeed(c) == Settle(c) /\ breaker' = OnSuccess(breaker)

Fail(c) == Settle(c) /\ breaker' = OnFailure(breaker)

TimeOut_OnlyWhenClosed(c) ==
  /\ waited[c] = Timeout
  /\ breaker.state = "CLOSED"
  /\ Settle(c)
  /\ breaker' = OnFailure(breaker)

TimeOut(c) ==
  /\ waited[c] = Timeout
  /\ Settle(c)
  /\ breaker' = OnFailure(breaker)

Tick ==
  /\ \A c \in pending : waited[c] < Timeout
  /\ breaker' = Aged(breaker)
  /\ waited'  = [c \in Calls |->
                   IF c \in pending THEN waited[c] + 1 ELSE waited[c]]
  /\ UNCHANGED pending

Next ==
  \/ Tick
  \/ \E c \in Calls : Execute(c) \/ Succeed(c) \/ Fail(c) \/ TimeOut(c)

Spec == Init /\ [][Next]_vars

\* Time passes and a due timer fires.  Nothing is assumed of the operation: it
\* may never settle.
Fairness == WF_vars(Tick) /\ \A c \in Calls : WF_vars(TimeOut(c))

\* Callers that keep coming: an assumption on the environment, used only for
\* the recovery property.
BusyCallers == WF_vars(\E c \in Calls : Execute(c))

FairSpec == Spec /\ Fairness

BusySpec == Spec /\ Fairness /\ BusyCallers

-----------------------------------------------------------------------------

\* The counters agree with the state: a CLOSED breaker is below its failure
\* threshold, an OPEN one knows when it last failed, and recovery progress
\* exists only in HALF_OPEN and with no failure since.
CountersMatchState ==
  /\ breaker.state = "CLOSED" => breaker.failureCount < FailureThreshold
  /\ breaker.state # "CLOSED" => breaker.sinceFailure # Never
  /\ breaker.successCount > 0 =>
       breaker.state = "HALF_OPEN" /\ breaker.failureCount = 0

\* While the breaker is OPEN the provider is left alone: every call still in
\* flight was started no later than the failure last recorded.
NoCallSinceLastFailure ==
  breaker.state = "OPEN" =>
    \A c \in pending : waited[c] >= breaker.sinceFailure

\* The first probe of a recovery starts alone: no call from before the outage
\* is left whose late outcome could be counted as the outcome of a probe.
ProbeStartsAlone ==
  [][breaker.state = "OPEN" /\ breaker'.state = "HALF_OPEN" =>
       pending = {}]_vars

\* Nothing but the passing of resetTimeout since the last failure ends an
\* outage: late successes of calls admitted earlier do not close the breaker.
OutageEndsByWaiting ==
  [][breaker.state = "OPEN" /\ breaker'.state # "OPEN" =>
       /\ breaker'.state = "HALF_OPEN"
       /\ breaker.sinceFailure = ResetTimeout]_vars

\* Every admitted call comes back, whatever its operation does.
CallsSettle == \A c \in Calls : c \in pending ~> c \notin pending

\* Once operations stop failing, and as long as callers keep calling, the
\* breaker closes and stays closed.
Recovers ==
  <>[][\A c \in Calls : ~Fail(c) /\ ~TimeOut(c)]_vars
    => <>[](breaker.state = "CLOSED")
=============================================================================
