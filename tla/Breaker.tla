------------------------------ MODULE Breaker ------------------------------
(***************************************************************************)
(* The bookkeeping of one CircuitBreaker object (common/circuit-breaker.ts) *)
(* as functions on its four private fields.  CircuitBreaker runs one such   *)
(* object under concurrent calls; ModelRouter keeps one per LLM provider.   *)
(*                                                                          *)
(* Two representation choices.  lastFailureTime is kept as the time elapsed *)
(* since it, because the code only ever compares that age with resetTimeout *)
(* (so it stops growing there); Never stands for null.  failureCount stops  *)
(* at FailureThreshold, the only value it is compared with: counting on     *)
(* would distinguish states the program cannot tell apart.                  *)
(***************************************************************************)
EXTENDS Integers

CONSTANTS
  FailureThreshold,  \* config.failureThreshold (5 in ModelRouterService)
  SuccessThreshold,  \* config.successThreshold (2)
  Timeout,           \* config.timeout          (30 s), in clock ticks
  ResetTimeout       \* config.resetTimeout     (60 s), in clock ticks

ASSUME ThresholdAssumption ==
  /\ FailureThreshold \in Nat \ {0}
  /\ SuccessThreshold \in Nat \ {0}

\* The one configuration the program builds has timeout < resetTimeout.
ASSUME TimingAssumption ==
  /\ Timeout \in Nat \ {0}
  /\ ResetTimeout \in Nat
  /\ Timeout < ResetTimeout

CircuitStates == {"CLOSED", "OPEN", "HALF_OPEN"}

Never == -1
Ages  == Never .. ResetTimeout

Breakers == [state         : CircuitStates,
             failureCount  : 0 .. FailureThreshold,
             successCount  : 0 .. SuccessThreshold - 1,
             sinceFailure  : Ages]

NewBreaker ==
  [state |-> "CLOSED", failureCount |-> 0, successCount |-> 0,
   sinceFailure |-> Never]

\* shouldAttemptReset(): false as long as nothing ever failed (Never < 0).
ShouldAttemptReset(b) == b.sinceFailure >= ResetTimeout

\* The guard of execute(): otherwise it throws CircuitBreakerOpenError, and
\* that rejection is outside the try block: it counts neither way.
Admits(b) == b.state = "OPEN" => ShouldAttemptReset(b)

\* The state in which execute() starts the operation it admits.
Admitted(b) ==
  IF b.state = "OPEN" THEN [b EXCEPT !.state = "HALF_OPEN"] ELSE b

Closes(b) == b.state = "HALF_OPEN" /\ b.successCount + 1 >= SuccessThreshold

OnSuccess_ClosesFromAnyState(b) ==
  [b EXCEPT !.state = "CLOSED", !.failureCount = 0, !.successCount = 0]

OnSuccess_ForgetsToCount(b) == [b EXCEPT !.failureCount = 0]

OnSuccess_KeepsCount(b) ==
  LET counted == [b EXCEPT !.failureCount = 0, !.successCount = @ + 1]
  IN  IF Closes(b) THEN [counted EXCEPT !.state = "CLOSED"] ELSE counted

\* onSuccess(): in OPEN it only forgets the failures, it does not close.
OnSuccess(b) ==
  [state        |-> IF Closes(b) THEN "CLOSED" ELSE b.state,
   failureCount |-> 0,
   successCount |-> IF Closes(b) THEN 0
                    ELSE IF b.state = "HALF_OPEN" THEN b.successCount + 1
                    ELSE b.successCount,
   sinceFailure |-> b.sinceFailure]

Trips(b) == b.failureCount + 1 >= FailureThreshold

OneMoreFailure(b) == IF Trips(b) THEN FailureThreshold ELSE b.failureCount + 1

OnFailure_KeepsSuccesses(b) ==
  [b EXCEPT !.state        = IF Trips(b) THEN "OPEN" ELSE @,
            !.failureCount = OneMoreFailure(b),
            !.sinceFailure = 0]

OnFailure_KeepsFirstFailureTime(b) ==
  [state        |-> IF Trips(b) THEN "OPEN" ELSE b.state,
   failureCount |-> OneMoreFailure(b),
   successCount |-> 0,
   sinceFailure |-> IF b.sinceFailure = Never THEN 0 ELSE b.sinceFailure]

\* onFailure(): a rejection or a timeout, in whatever state it arrives.
OnFailure(b) ==
  [state        |-> IF Trips(b) THEN "OPEN" ELSE b.state,
   failureCount |-> OneMoreFailure(b),
   successCount |-> 0,
   sinceFailure |-> 0]

\* One tick of Date.now() as seen by lastFailureTime.
Aged(b) ==
  [b EXCEPT !.sinceFailure =
     IF @ = Never \/ @ = ResetTimeout THEN @ ELSE @ + 1]
=============================================================================
