------------------------ MODULE CircuitBreakerProofs ------------------------
(***************************************************************************)
(* Proofs about CircuitBreaker, for every number of calls, all thresholds   *)
(* and every Timeout < ResetTimeout.                                        *)
(*                                                                          *)
(* The inductive invariant is the conjunction of the three invariants the   *)
(* runs check.  NoCallSinceLastFailure carries the weight: together with    *)
(* Timeout < ResetTimeout it says that an outage that has lasted            *)
(* ResetTimeout has outlived every call started before it.                  *)
(***************************************************************************)
EXTENDS CircuitBreaker, TLAPS

\* The helpers on the breaker's fields stay within its types and keep its
\* counters consistent with its state (onSuccess, onFailure, execute's guard).
Consistent(b) ==
  /\ b \in Breakers
  /\ b.state = "CLOSED" => b.failureCount < FailureThreshold
  /\ b.state # "CLOSED" => b.sinceFailure # Never
  /\ b.successCount > 0 => b.state = "HALF_OPEN" /\ b.failureCount = 0

\* A fresh breaker is consistent.
LEMMA NewBreakerConsistent == Consistent(NewBreaker)
BY ThresholdAssumption, TimingAssumption
   DEF Consistent, NewBreaker, Breakers, CircuitStates, Ages, Never

\* execute() letting an operation start keeps the fields consistent.
LEMMA AdmittedConsistent ==
  ASSUME NEW b, Consistent(b), Admits(b)
  PROVE  Consistent(Admitted(b))
BY ThresholdAssumption, TimingAssumption
   DEF Consistent, Admitted, Admits, Breakers, CircuitStates, Ages, Never

\* onSuccess() keeps the fields consistent in every state.
LEMMA OnSuccessConsistent ==
  ASSUME NEW b, Consistent(b)
  PROVE  Consistent(OnSuccess(b))
BY ThresholdAssumption, TimingAssumption
   DEF Consistent, OnSuccess, Closes, Breakers, CircuitStates, Ages, Never

\* onFailure() keeps the fields consistent in every state.
LEMMA OnFailureConsistent ==
  ASSUME NEW b, Consistent(b)
  PROVE  Consistent(OnFailure(b))
BY ThresholdAssumption, TimingAssumption
   DEF Consistent, OnFailure, OneMoreFailure, Trips, Breakers, CircuitStates,
       Ages, Never

\* The passing of time keeps the fields consistent.
LEMMA AgedConsistent ==
  ASSUME NEW b, Consistent(b)
  PROVE  Consistent(Aged(b))
BY ThresholdAssumption, TimingAssumption
   DEF Consistent, Aged, Breakers, CircuitStates, Ages, Never

-----------------------------------------------------------------------------

IInv == TypeOK /\ CountersMatchState /\ NoCallSinceLastFailure

\* The three invariants, with the part about the fields named once.
LEMMA IInvSplit ==
  IInv <=> /\ Consistent(breaker)
           /\ pending \subseteq Calls
           /\ waited \in [Calls -> 0 .. Timeout]
           /\ NoCallSinceLastFailure
BY DEF IInv, TypeOK, CountersMatchState, Consistent

\* The same for the next state, where the steps below use it.
LEMMA IInvSplitPrime ==
  IInv' <=> /\ Consistent(breaker')
            /\ pending' \subseteq Calls
            /\ waited' \in [Calls -> 0 .. Timeout]
            /\ NoCallSinceLastFailure'
BY DEF IInv, TypeOK, CountersMatchState, Consistent

\* The new breaker, with nobody calling, satisfies the invariant.
LEMMA InitIInv == Init => IInv
BY NewBreakerConsistent, TimingAssumption, IInvSplit
   DEF Init, NoCallSinceLastFailure, NewBreaker

\* An outcome that reaches the breaker keeps the invariant: a late success
\* only forgets failures, a failure restarts the outage for all in flight.
LEMMA SettleKeepsIInv ==
  ASSUME IInv, NEW c \in Calls, Settle(c),
         breaker' = OnSuccess(breaker) \/ breaker' = OnFailure(breaker)
  PROVE  IInv'
<1>1. Consistent(breaker')
  BY OnSuccessConsistent, OnFailureConsistent, IInvSplit
<1>2. pending' \subseteq Calls /\ waited' \in [Calls -> 0 .. Timeout]
  BY TimingAssumption DEF IInv, TypeOK, Settle
<1>3. NoCallSinceLastFailure'
  <2> SUFFICES ASSUME breaker'.state = "OPEN", NEW d \in pending'
               PROVE  waited'[d] >= breaker'.sinceFailure
    BY DEF NoCallSinceLastFailure
  <2>1. d \in pending /\ d \in Calls /\ waited'[d] = waited[d]
    BY DEF IInv, TypeOK, Settle
  <2>2. CASE breaker' = OnFailure(breaker)
    <3>1. breaker'.sinceFailure = 0
      BY <2>2 DEF OnFailure, IInv, TypeOK, Breakers
    <3> QED  BY <2>1, <3>1 DEF IInv, TypeOK
  <2>3. CASE breaker' = OnSuccess(breaker)
    <3>1. breaker.state = "OPEN" /\ breaker'.sinceFailure = breaker.sinceFailure
      BY <2>3 DEF OnSuccess, Closes, IInv, TypeOK, Breakers
    <3> QED  BY <2>1, <3>1 DEF IInv, NoCallSinceLastFailure
  <2> QED  BY <2>2, <2>3
<1> QED  BY <1>1, <1>2, <1>3, IInvSplitPrime

\* Every step of the breaker keeps the invariant.
LEMMA NextIInv == IInv /\ [Next]_vars => IInv'
<1> SUFFICES ASSUME IInv, [Next]_vars  PROVE IInv'
  OBVIOUS
<1>1. CASE Tick
  <2>1. Consistent(breaker')
    BY <1>1, AgedConsistent, IInvSplit DEF Tick
  <2>2. pending' \subseteq Calls /\ waited' \in [Calls -> 0 .. Timeout]
    BY <1>1, TimingAssumption DEF IInv, TypeOK, Tick
  <2>3. NoCallSinceLastFailure'
    BY <1>1, TimingAssumption
       DEF IInv, TypeOK, Tick, NoCallSinceLastFailure, CountersMatchState,
           Aged, Breakers, Ages, Never
  <2> QED  BY <2>1, <2>2, <2>3, IInvSplitPrime
<1>2. ASSUME NEW c \in Calls, Execute(c)  PROVE IInv'
  <2>1. Consistent(breaker') /\ breaker'.state # "OPEN"
    BY <1>2, AdmittedConsistent, IInvSplit
       DEF Execute, Admitted, Consistent, Breakers
  <2>2. pending' \subseteq Calls /\ waited' \in [Calls -> 0 .. Timeout]
    BY <1>2 DEF IInv, TypeOK, Execute
  <2> QED  BY <2>1, <2>2, IInvSplitPrime DEF NoCallSinceLastFailure
<1>3. ASSUME NEW c \in Calls, Succeed(c)  PROVE IInv'
  BY <1>3, SettleKeepsIInv DEF Succeed
<1>4. ASSUME NEW c \in Calls, Fail(c)  PROVE IInv'
  BY <1>4, SettleKeepsIInv DEF Fail
<1>5. ASSUME NEW c \in Calls, TimeOut(c)  PROVE IInv'
  BY <1>5, SettleKeepsIInv DEF TimeOut
<1>6. CASE UNCHANGED vars
  BY <1>6 DEF IInv, TypeOK, CountersMatchState, NoCallSinceLastFailure, vars
<1> QED  BY <1>1, <1>2, <1>3, <1>4, <1>5, <1>6 DEF Next

\* The inductive invariant holds throughout.
THEOREM Invariance == Spec => []IInv
BY InitIInv, NextIInv, PTL DEF Spec

\* The breaker's fields and the bookkeeping of its calls are always typed.
THEOREM TypeCorrect == Spec => []TypeOK
BY Invariance, PTL DEF IInv

\* The counters always agree with the state they justify.
THEOREM CountersCorrect == Spec => []CountersMatchState
BY Invariance, PTL DEF IInv

\* While the breaker is OPEN nothing is sent to the provider.
THEOREM OpenLeavesAlone == Spec => []NoCallSinceLastFailure
BY Invariance, PTL DEF IInv

\* Only Execute leads out of OPEN, and then nobody else is in flight.
LEMMA LeavingOpen ==
  ASSUME IInv, [Next]_vars, breaker.state = "OPEN", breaker'.state # "OPEN"
  PROVE  /\ breaker'.state = "HALF_OPEN"
         /\ breaker.sinceFailure = ResetTimeout
         /\ pending = {}
<1>1. PICK c \in Calls : Execute(c)
  <2>1. ~Tick
    BY DEF Tick, Aged, IInv, TypeOK, Breakers
  <2>2. \A c \in Calls : ~Succeed(c) /\ ~Fail(c) /\ ~TimeOut(c)
    BY DEF Succeed, Fail, TimeOut, OnSuccess, OnFailure, Closes,
           IInv, TypeOK, Breakers
  <2> QED  BY <2>1, <2>2 DEF Next, vars
<1>2. breaker'.state = "HALF_OPEN" /\ breaker.sinceFailure = ResetTimeout
  BY <1>1, TimingAssumption
     DEF Execute, Admits, Admitted, ShouldAttemptReset, IInv, TypeOK,
         Breakers, Ages, Never
<1>3. pending = {}
  <2>1. \A d \in pending : waited[d] >= ResetTimeout /\ waited[d] \in 0 .. Timeout
    BY <1>2 DEF IInv, TypeOK, NoCallSinceLastFailure
  <2> QED  BY <2>1, TimingAssumption
<1> QED  BY <1>2, <1>3

\* A recovery begins with a single probe: the operations of before the outage
\* have all timed out, because timeout < resetTimeout.
THEOREM ProbeAlone == Spec => ProbeStartsAlone
<1>1. IInv /\ [Next]_vars =>
        [breaker.state = "OPEN" /\ breaker'.state = "HALF_OPEN" =>
           pending = {}]_vars
  BY LeavingOpen
<1> QED  BY <1>1, Invariance, PTL DEF Spec, ProbeStartsAlone

\* An outage is ended by the passing of resetTimeout and by nothing else.
THEOREM OutageEnds == Spec => OutageEndsByWaiting
<1>1. IInv /\ [Next]_vars =>
        [breaker.state = "OPEN" /\ breaker'.state # "OPEN" =>
           /\ breaker'.state = "HALF_OPEN"
           /\ breaker.sinceFailure = ResetTimeout]_vars
  BY LeavingOpen
<1> QED  BY <1>1, Invariance, PTL DEF Spec, OutageEndsByWaiting
=============================================================================
