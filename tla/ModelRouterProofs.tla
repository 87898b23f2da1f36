------------------------- MODULE ModelRouterProofs -------------------------
(***************************************************************************)
(* Proofs about ModelRouter, for any number of requests and providers and   *)
(* any limits.  The inductive invariant is typing together with UsageBound, *)
(* which counts the requests in flight along with what has been charged:    *)
(* letting a request in raises that sum, but only from below the limit;     *)
(* charging one moves a unit from the first summand to the other.           *)
(*                                                                          *)
(* The two refinements need one more fact, that only a calling request has  *)
(* waited: then every step of the router is, for each provider, a step of   *)
(* its breaker or none, and, for each request, a step of Failover or none.  *)
(***************************************************************************)
EXTENDS ModelRouter, FiniteSetTheorems, TLAPS

\* The helpers on a breaker's fields stay within its types, whoever calls them.
LEMMA BreakerTypes ==
  /\ NewBreaker \in Breakers
  /\ \A b \in Breakers : /\ Admitted(b) \in Breakers
                          /\ OnSuccess(b) \in Breakers
                          /\ OnFailure(b) \in Breakers
                          /\ Aged(b) \in Breakers
<1>1. NewBreaker \in Breakers
  BY ThresholdAssumption, TimingAssumption
     DEF NewBreaker, Breakers, CircuitStates, Ages, Never
<1>2. ASSUME NEW b \in Breakers  PROVE Admitted(b) \in Breakers
  BY <1>2 DEF Admitted, Breakers, CircuitStates
<1>3. ASSUME NEW b \in Breakers  PROVE OnSuccess(b) \in Breakers
  BY <1>3, ThresholdAssumption
     DEF OnSuccess, Closes, Breakers, CircuitStates, Ages, Never
<1>4. ASSUME NEW b \in Breakers  PROVE OnFailure(b) \in Breakers
  BY <1>4, ThresholdAssumption, TimingAssumption
     DEF OnFailure, OneMoreFailure, Trips, Breakers, CircuitStates, Ages, Never
<1>5. ASSUME NEW b \in Breakers  PROVE Aged(b) \in Breakers
  BY <1>5, TimingAssumption DEF Aged, Breakers, Ages, Never
<1> QED  BY <1>1, <1>2, <1>3, <1>4, <1>5

\* The provider a request is at is one of the factory's.
LEMMA ProviderAt ==
  ASSUME TypeOK, NEW r \in Requests
  PROVE  Order[at[r]] \in Providers
BY OrderAssumption DEF TypeOK

\* InFlight is a finite set no larger than the set of requests.
LEMMA InFlightFinite ==
  /\ IsFiniteSet(InFlight)
  /\ N \in Nat
  /\ Cardinality(InFlight) \in 0 .. N
<1>1. InFlight \subseteq Requests
  BY DEF InFlight
<1> QED  BY <1>1, RequestsAssumption, FS_Subset, FS_CardinalityType DEF N

\* The same of the next state.
LEMMA InFlightFinitePrime ==
  /\ IsFiniteSet(InFlight')
  /\ Cardinality(InFlight') \in 0 .. N
<1>1. InFlight' \subseteq Requests
  BY DEF InFlight
<1> QED  BY <1>1, RequestsAssumption, FS_Subset, FS_CardinalityType DEF N

\* K requests in flight, each worth M tokens, against N: the arithmetic of
\* the third conjunct of UsageBound.
LEMMA TokenArithmetic ==
  ASSUME NEW K \in Nat, NEW L \in Nat, NEW M \in Nat, K <= L
  PROVE  K * M <= L * M /\ K * M \in Nat /\ L * M \in Nat
<1>1. (L - K) * M >= 0
  OBVIOUS
<1>2. (L - K) * M = L * M - K * M
  OBVIOUS
<1> QED  BY <1>1, <1>2

\* One request less in flight pays for one request's tokens.
LEMMA TokenStep ==
  ASSUME NEW K \in Nat, K > 0, NEW M \in Nat
  PROVE  (K - 1) * M + M = K * M
OBVIOUS

\* A counter x below the limit L, with at most N requests (worth C) let in.
LEMMA BelowLimit ==
  ASSUME NEW L \in Nat \ {0}, NEW x \in Nat, x < L,
         NEW A \in Nat, NEW C \in Nat, A <= C
  PROVE  x + A <= L - 1 + C
OBVIOUS

\* Neither the counter nor the number of requests in flight grows.
LEMMA NothingGrows ==
  ASSUME NEW L \in Nat, NEW x \in Nat, NEW y \in Nat, y <= x,
         NEW A \in Nat, NEW B \in Nat, NEW C \in Nat, A <= B,
         x + B <= L - 1 + C
  PROVE  y + A <= L - 1 + C
OBVIOUS

\* Without usage tracking nothing is ever charged.
UntrackedIsZero ==
  ~Enabled => rpmCounter = 0 /\ requestCount = 0 /\ tokenCount = 0

\* A request has waited only while it is calling.
OnlyCallersWait == \A r \in Requests : phase[r] # "calling" => waited[r] = 0

IInv == TypeOK /\ OnlyCallersWait /\ UsageBound /\ UntrackedIsZero

\* There is at least one provider to ask.
LEMMA SomeProvider == Len(Order) \in Nat /\ 1 \in 1 .. Len(Order)
BY OrderAssumption

\* A new process has charged nothing and has nothing in flight.
LEMMA InitIInv == Init => IInv
<1> SUFFICES ASSUME Init  PROVE IInv
  OBVIOUS
<1>1. TypeOK
  <2>1. breaker \in [Providers -> Breakers]
    BY BreakerTypes DEF Init
  <2>2. /\ phase \in [Requests -> Phases]
        /\ at \in [Requests -> 1 .. Len(Order)]
        /\ waited \in [Requests -> 0 .. Timeout]
    BY SomeProvider, TimingAssumption DEF Init, Phases
  <2> QED  BY <2>1, <2>2 DEF Init, TypeOK
<1>2. InFlight = {}
  BY DEF Init, InFlight, Busy
<1>3. Cardinality(InFlight) = 0
  BY <1>2, FS_EmptySet
<1>4. /\ N \in Nat
      /\ N * MaxTokens \in Nat
      /\ 0 * MaxTokens = 0
  BY LimitsAssumption, InFlightFinite, TokenArithmetic
<1>5. UsageBound
  BY <1>3, <1>4, LimitsAssumption DEF UsageBound, Init
<1> QED  BY <1>1, <1>5 DEF IInv, Init, UntrackedIsZero, OnlyCallersWait

\* A step that lets nobody in and charges nobody keeps the bound.
LEMMA UsageBoundKept ==
  ASSUME TypeOK, UsageBound, InFlight' \subseteq InFlight,
         rpmCounter' \in Nat, rpmCounter' <= rpmCounter,
         requestCount' = requestCount, tokenCount' = tokenCount
  PROVE  UsageBound'
<1> DEFINE K == Cardinality(InFlight)
           KP == Cardinality(InFlight')
<1>1. KP <= K /\ KP \in Nat /\ K \in Nat /\ N \in Nat
  BY InFlightFinite, InFlightFinitePrime, FS_Subset
<1>2. KP * MaxTokens <= K * MaxTokens /\ KP * MaxTokens \in Nat
      /\ K * MaxTokens \in Nat /\ N * MaxTokens \in Nat
  BY <1>1, LimitsAssumption, TokenArithmetic
<1> HIDE DEF K, KP
<1>3. /\ rpmCounter + K <= RpmLimit - 1 + N
      /\ requestCount + K <= DailyRequestLimit - 1 + N
      /\ tokenCount + K * MaxTokens <= DailyTokenLimit - 1 + N * MaxTokens
  BY DEF UsageBound, K
<1>4. /\ rpmCounter' + KP <= RpmLimit - 1 + N
      /\ requestCount' + KP <= DailyRequestLimit - 1 + N
      /\ tokenCount' + KP * MaxTokens <= DailyTokenLimit - 1 + N * MaxTokens
  <2>1. rpmCounter' + KP <= RpmLimit - 1 + N
    BY <1>1, <1>3, LimitsAssumption, NothingGrows DEF TypeOK
  <2>2. requestCount' + KP <= DailyRequestLimit - 1 + N
    BY <1>1, <1>3, LimitsAssumption, NothingGrows DEF TypeOK
  <2>3. tokenCount' + KP * MaxTokens <= DailyTokenLimit - 1 + N * MaxTokens
    BY <1>2, <1>3, LimitsAssumption, NothingGrows DEF TypeOK
  <2> QED  BY <2>1, <2>2, <2>3
<1> QED  BY <1>4 DEF UsageBound, K, KP, N

\* Letting a request in keeps the bound: the check has just seen every counter
\* below its limit, and no more than N requests can be in flight.
LEMMA UsageBoundAdmission ==
  ASSUME TypeOK, UntrackedIsZero, CanMakeRequest, ApplyDailyReset
  PROVE  UsageBound'
<1> DEFINE KP == Cardinality(InFlight')
<1>1. KP <= N /\ KP \in Nat /\ N \in Nat
  BY InFlightFinite, InFlightFinitePrime
<1>2. KP * MaxTokens <= N * MaxTokens /\ KP * MaxTokens \in Nat
      /\ N * MaxTokens \in Nat
  BY <1>1, LimitsAssumption, TokenArithmetic
<1> HIDE DEF KP
<1>3. /\ rpmCounter' \in Nat /\ rpmCounter' < RpmLimit
      /\ requestCount' \in Nat /\ requestCount' < DailyRequestLimit
      /\ tokenCount' \in Nat /\ tokenCount' < DailyTokenLimit
  BY LimitsAssumption
     DEF TypeOK, UntrackedIsZero, CanMakeRequest, ApplyDailyReset, RpmAllows,
         CheckedRequests, CheckedTokens, ResetsDaily
<1>4. /\ rpmCounter' + KP <= RpmLimit - 1 + N
      /\ requestCount' + KP <= DailyRequestLimit - 1 + N
      /\ tokenCount' + KP * MaxTokens <= DailyTokenLimit - 1 + N * MaxTokens
  BY <1>1, <1>2, <1>3, LimitsAssumption, BelowLimit
<1> QED  BY <1>4 DEF UsageBound, KP, N

\* Charging an answer takes the request out of flight.
LEMMA UsageBoundCharged ==
  ASSUME TypeOK, UsageBound,
         NEW r \in InFlight, InFlight' = InFlight \ {r},
         NEW tokens \in 0 .. MaxTokens,
         rpmCounter' = rpmCounter + 1, requestCount' = requestCount + 1,
         tokenCount' = tokenCount + tokens
  PROVE  UsageBound'
<1> DEFINE K == Cardinality(InFlight)
           KP == Cardinality(InFlight')
<1>1. KP = K - 1 /\ K > 0 /\ KP \in Nat /\ K \in Nat /\ N \in Nat
  BY InFlightFinite, InFlightFinitePrime, FS_RemoveElement
<1>2. KP * MaxTokens + MaxTokens = K * MaxTokens
  BY <1>1, LimitsAssumption, TokenStep
<1>3. KP * MaxTokens \in Nat /\ K * MaxTokens \in Nat /\ N * MaxTokens \in Nat
  BY <1>1, LimitsAssumption, TokenArithmetic
<1> HIDE DEF K, KP
<1>4. /\ rpmCounter + K <= RpmLimit - 1 + N
      /\ requestCount + K <= DailyRequestLimit - 1 + N
      /\ tokenCount + K * MaxTokens <= DailyTokenLimit - 1 + N * MaxTokens
  BY DEF UsageBound, K
<1>5. /\ rpmCounter' + KP <= RpmLimit - 1 + N
      /\ requestCount' + KP <= DailyRequestLimit - 1 + N
  BY <1>1, <1>4, LimitsAssumption DEF TypeOK
<1>6. tokenCount' + KP * MaxTokens <= DailyTokenLimit - 1 + N * MaxTokens
  <2> DEFINE A == KP * MaxTokens
             B == K * MaxTokens
             C == N * MaxTokens
  <2>1. A + MaxTokens = B /\ A \in Nat /\ B \in Nat /\ C \in Nat
    BY <1>2, <1>3
  <2>2. tokenCount + B <= DailyTokenLimit - 1 + C
    BY <1>4
  <2> HIDE DEF A, B, C
  <2>3. tokenCount' + A <= DailyTokenLimit - 1 + C
    BY <2>1, <2>2, LimitsAssumption DEF TypeOK
  <2> QED  BY <2>3 DEF A, C
<1> QED  BY <1>5, <1>6 DEF UsageBound, K, KP, N

\* Starting an attempt puts the request in flight and, if the breaker lets it,
\* moves that breaker alone.
LEMMA AttemptTypes ==
  ASSUME TypeOK, OnlyCallersWait, NEW r \in Requests, phase[r] # "calling",
         NEW i \in 1 .. Len(Order), Attempt(r, i), UNCHANGED waited
  PROVE  /\ breaker' \in [Providers -> Breakers]
         /\ OnlyCallersWait'
         /\ at' \in [Requests -> 1 .. Len(Order)]
         /\ phase' \in [Requests -> Phases]
         /\ \A q \in Requests \ {r} : phase'[q] = phase[q]
<1> DEFINE p == Order[i]
<1>0. p \in Providers
  BY OrderAssumption
<1>1. /\ at' \in [Requests -> 1 .. Len(Order)]
      /\ phase' \in [Requests -> Phases]
      /\ \A q \in Requests \ {r} : phase'[q] = phase[q]
  BY DEF Attempt, TypeOK, Phases, Busy
<1>2. OnlyCallersWait'
  BY <1>1 DEF OnlyCallersWait
<1>3. CASE Admits(breaker[p])
  <2>1. breaker' = [breaker EXCEPT ![p] = Admitted(breaker[p])]
    BY <1>3 DEF Attempt
  <2> QED  BY <1>0, <1>1, <1>2, <2>1, BreakerTypes DEF TypeOK
<1>4. CASE ~Admits(breaker[p])
  <2>1. breaker' = breaker
    BY <1>4 DEF Attempt
  <2> QED  BY <1>1, <1>2, <2>1 DEF TypeOK
<1> QED  BY <1>3, <1>4

\* The outcome of an attempt is counted by the breaker of its provider alone.
LEMMA DecidedTypes ==
  ASSUME TypeOK, OnlyCallersWait, NEW r \in Requests,
         NEW b, Decided(r, b),
         b = OnSuccess(breaker[Order[at[r]]]) \/ b = OnFailure(breaker[Order[at[r]]]),
         NEW new, phase' = [phase EXCEPT ![r] = new]
  PROVE  /\ breaker' \in [Providers -> Breakers]
         /\ OnlyCallersWait'
         /\ waited' \in [Requests -> 0 .. Timeout]
         /\ UNCHANGED <<at, events>>
<1> DEFINE p == Order[at[r]]
<1>1. p \in Providers
  BY ProviderAt
<1>2. b \in Breakers
  BY <1>1, BreakerTypes DEF TypeOK
<1>3. breaker' = [breaker EXCEPT ![p] = b]
  BY DEF Decided
<1>4. waited' = [waited EXCEPT ![r] = 0] /\ UNCHANGED <<at, events>>
  BY DEF Decided
<1>5. OnlyCallersWait' /\ waited' \in [Requests -> 0 .. Timeout]
  BY <1>4, TimingAssumption DEF TypeOK, OnlyCallersWait
<1> QED  BY <1>1, <1>2, <1>3, <1>4, <1>5 DEF TypeOK

\* Recording a failover keeps the rows typed, whether or not the save works.
LEMMA RecordTypes ==
  ASSUME TypeOK, NEW r \in Requests, RecordFailover(r)
  PROVE  events' \in [Requests -> SUBSET [failed : 1 .. Len(Order),
                                         successful : 2 .. Len(Order) + 1]]
<1>1. FailoverEvent(r) \in [failed : 1 .. Len(Order),
                            successful : 2 .. Len(Order) + 1]
  BY SomeProvider DEF TypeOK, FailoverEvent
<1>2. PICK saved \in BOOLEAN :
        events' = [events EXCEPT ![r] =
                     @ \cup IF saved THEN {FailoverEvent(r)} ELSE {}]
  BY DEF RecordFailover
<1> QED  BY <1>1, <1>2 DEF TypeOK

\* Every step of the router keeps the inductive invariant.
LEMMA NextIInv == IInv /\ [Next]_vars => IInv'
<1> SUFFICES ASSUME IInv, [Next]_vars  PROVE IInv'
  OBVIOUS
<1> USE DEF IInv
<1>1. ASSUME NEW r \in Requests, Generate(r)  PROVE IInv'
  <2>1. Attempt(r, 1) /\ CanMakeRequest /\ ApplyDailyReset /\ UNCHANGED waited
        /\ events' = [events EXCEPT ![r] = {}] /\ phase[r] # "calling"
    BY <1>1 DEF Generate, Busy
  <2>2. /\ requestCount' \in Nat /\ tokenCount' \in Nat /\ rpmCounter' \in Nat
        /\ newDay' \in BOOLEAN /\ UntrackedIsZero'
    BY <2>1 DEF ApplyDailyReset, CheckedRequests, CheckedTokens, ResetsDaily,
                UntrackedIsZero, TypeOK
  <2>3. TypeOK' /\ OnlyCallersWait'
    BY <2>1, <2>2, AttemptTypes, SomeProvider DEF TypeOK
  <2>4. UsageBound'
    BY <2>1, UsageBoundAdmission
  <2> QED  BY <2>2, <2>3, <2>4
<1>2. ASSUME NEW r \in Requests, GenerateRefused(r)  PROVE IInv'
  <2>1. /\ requestCount' \in Nat /\ tokenCount' \in Nat /\ rpmCounter' \in Nat
        /\ newDay' \in BOOLEAN /\ UntrackedIsZero'
    BY <1>2 DEF GenerateRefused, ApplyDailyReset, CheckedRequests,
                CheckedTokens, ResetsDaily, UntrackedIsZero, TypeOK
  <2>2. TypeOK' /\ OnlyCallersWait'
    BY <1>2, <2>1, SomeProvider
       DEF GenerateRefused, TypeOK, OnlyCallersWait, Phases
  <2>3. InFlight' \subseteq InFlight
    BY <1>2 DEF GenerateRefused, InFlight, Busy, TypeOK
  <2>4. UsageBound'
    <3>1. ~ResetsDaily
      BY <1>2, LimitsAssumption
         DEF GenerateRefused, CanMakeRequest, CheckedRequests, CheckedTokens,
             ResetsDaily
    <3>2. UNCHANGED <<requestCount, tokenCount, rpmCounter>>
      BY <1>2, <3>1 DEF GenerateRefused, ApplyDailyReset, CheckedRequests,
                        CheckedTokens
    <3> QED  BY <2>1, <2>3, <3>2, UsageBoundKept DEF TypeOK
  <2> QED  BY <2>1, <2>2, <2>4
<1>3. ASSUME NEW r \in Requests, Answer(r)  PROVE IInv'
  <2>1. Decided(r, OnSuccess(breaker[Order[at[r]]]))
        /\ phase' = [phase EXCEPT ![r] = "answered"]
    BY <1>3 DEF Answer
  <2>2. r \in InFlight /\ InFlight' = InFlight \ {r}
    BY <2>1 DEF Decided, InFlight, Busy, TypeOK
  <2>3. ASSUME UNCHANGED usage  PROVE IInv'
    <3>1. TypeOK' /\ OnlyCallersWait' /\ UntrackedIsZero'
      BY <2>1, <2>3, DecidedTypes DEF TypeOK, Phases, usage, UntrackedIsZero
    <3>2. UsageBound'
      BY <2>2, <2>3, UsageBoundKept DEF usage, TypeOK
    <3> QED  BY <3>1, <3>2
  <2>4. ASSUME NEW tokens \in 0 .. MaxTokens, Enabled, TrackUsage(tokens)
        PROVE  IInv'
    <3>1. /\ rpmCounter' = rpmCounter + 1 /\ requestCount' = requestCount + 1
          /\ tokenCount' = tokenCount + tokens /\ newDay' = newDay
      BY <2>4 DEF TrackUsage
    <3>2. TypeOK' /\ OnlyCallersWait' /\ UntrackedIsZero'
      <4>1. /\ breaker' \in [Providers -> Breakers] /\ OnlyCallersWait'
            /\ waited' \in [Requests -> 0 .. Timeout] /\ UNCHANGED <<at, events>>
        BY <2>1, DecidedTypes
      <4>2. phase' \in [Requests -> Phases]
        BY <2>1 DEF TypeOK, Phases
      <4>3. rpmCounter' \in Nat /\ requestCount' \in Nat /\ tokenCount' \in Nat
        BY <3>1, LimitsAssumption DEF TypeOK
      <4> QED  BY <2>4, <3>1, <4>1, <4>2, <4>3 DEF TypeOK, UntrackedIsZero
    <3>3. UsageBound'
      BY <2>2, <3>1, UsageBoundCharged
    <3> QED  BY <3>2, <3>3
  <2> QED  BY <1>3, <2>3, <2>4, TokensAssumption DEF Answer, TrackUsage
<1>4. ASSUME NEW r \in Requests, AttemptFails(r)  PROVE IInv'
  <2>1. Decided(r, OnFailure(breaker[Order[at[r]]])) /\ UNCHANGED usage
        /\ phase' = [phase EXCEPT ![r] = "logging"]
    BY <1>4 DEF AttemptFails
  <2>2. TypeOK' /\ OnlyCallersWait' /\ UntrackedIsZero'
    BY <2>1, DecidedTypes DEF TypeOK, Phases, Busy, usage, UntrackedIsZero
  <2>3. InFlight' \subseteq InFlight
    BY <2>1 DEF Decided, InFlight, Busy, TypeOK
  <2>4. UsageBound'
    BY <2>1, <2>3, UsageBoundKept DEF usage, TypeOK
  <2> QED  BY <2>2, <2>4
<1>5. ASSUME NEW r \in Requests, AttemptTimesOut(r)  PROVE IInv'
  BY <1>4, <1>5 DEF AttemptTimesOut
<1>6. ASSUME NEW r \in Requests, TryNext(r)  PROVE IInv'
  <2>1. RecordFailover(r) /\ Attempt(r, at[r] + 1) /\ UNCHANGED <<waited, usage>>
        /\ at[r] + 1 \in 1 .. Len(Order)
    BY <1>6, SomeProvider DEF TryNext, TypeOK
  <2>2. phase[r] = "logging"
    BY <2>1 DEF RecordFailover
  <2>3. TypeOK' /\ OnlyCallersWait' /\ UntrackedIsZero'
    BY <2>1, <2>2, AttemptTypes, RecordTypes DEF TypeOK, usage, UntrackedIsZero
  <2>4. InFlight' \subseteq InFlight
    BY <2>1, <2>2, AttemptTypes DEF InFlight, Busy
  <2>5. UsageBound'
    BY <2>1, <2>4, UsageBoundKept DEF usage, TypeOK
  <2> QED  BY <2>3, <2>5
<1>7. ASSUME NEW r \in Requests, AllFailed(r)  PROVE IInv'
  <2>1. RecordFailover(r) /\ UNCHANGED <<breaker, at, waited, usage>>
        /\ phase' = [phase EXCEPT ![r] = "failed"]
    BY <1>7 DEF AllFailed
  <2>2. TypeOK' /\ OnlyCallersWait' /\ UntrackedIsZero'
    BY <1>7, <2>1, RecordTypes
       DEF RecordFailover, TypeOK, Phases, OnlyCallersWait, usage,
           UntrackedIsZero
  <2>3. InFlight' \subseteq InFlight
    BY <2>1 DEF InFlight, Busy, TypeOK
  <2>4. UsageBound'
    BY <2>1, <2>3, UsageBoundKept DEF usage, TypeOK
  <2> QED  BY <2>2, <2>4
<1>8. CASE RpmReset
  <2>1. TypeOK' /\ OnlyCallersWait' /\ UntrackedIsZero'
    BY <1>8 DEF RpmReset, TypeOK, OnlyCallersWait, UntrackedIsZero
  <2>2. UsageBound'
    BY <1>8, <2>1, UsageBoundKept DEF RpmReset, InFlight, TypeOK
  <2> QED  BY <2>1, <2>2
<1>9. CASE Midnight
  BY <1>9 DEF Midnight, TypeOK, OnlyCallersWait, UntrackedIsZero,
              UsageBound, InFlight
<1>10. CASE Tick
  <2>1. \A p \in Providers : Aged(breaker[p]) \in Breakers
    BY BreakerTypes DEF TypeOK
  <2>2. TypeOK' /\ OnlyCallersWait' /\ UntrackedIsZero'
    BY <1>10, <2>1, TimingAssumption
       DEF Tick, TypeOK, OnlyCallersWait, usage, UntrackedIsZero
  <2>3. UsageBound'
    BY <1>10 DEF Tick, UsageBound, InFlight, usage
  <2> QED  BY <2>2, <2>3
<1>11. CASE UNCHANGED vars
  BY <1>11 DEF vars, usage, TypeOK, OnlyCallersWait, UntrackedIsZero,
               UsageBound, InFlight
<1> QED  BY <1>1, <1>2, <1>3, <1>4, <1>5, <1>6, <1>7, <1>8, <1>9, <1>10, <1>11
         DEF Next

\* The inductive invariant holds throughout.
THEOREM Invariance == Spec => []IInv
BY InitIInv, NextIInv, PTL DEF Spec

\* Every variable of the router is always typed.
THEOREM TypeCorrect == Spec => []TypeOK
BY Invariance, PTL DEF IInv

\* Gemini's counters exceed a limit by less than the number of concurrent
\* requests (times the size of a response, for tokens), however they interleave.
THEOREM UsageBounded == Spec => []UsageBound
BY Invariance, PTL DEF IInv

-----------------------------------------------------------------------------
\* Each provider's breaker is a circuit breaker as specified on its own.

\* What the calls at provider p have waited, as its breaker sees it.
WaitedAt(p) == [r \in Requests |-> IF r \in Calling(p) THEN waited[r] ELSE 0]

\* The breaker of a provider is kept by the same operations as any other.
LEMMA SameBreaker ==
  ASSUME NEW p, NEW b
  PROVE  /\ BreakerOf(p)!NewBreaker = NewBreaker
         /\ BreakerOf(p)!Admits(b) <=> Admits(b)
         /\ BreakerOf(p)!Admitted(b) = Admitted(b)
         /\ BreakerOf(p)!OnSuccess(b) = OnSuccess(b)
         /\ BreakerOf(p)!OnFailure(b) = OnFailure(b)
         /\ BreakerOf(p)!Aged(b) = Aged(b)
<1>1. BreakerOf(p)!NewBreaker = NewBreaker
  BY DEF BreakerOf!NewBreaker, NewBreaker, BreakerOf!Never, Never
<1>2. /\ BreakerOf(p)!Admits(b) <=> Admits(b)
      /\ BreakerOf(p)!Admitted(b) = Admitted(b)
  BY DEF BreakerOf!Admits, Admits, BreakerOf!Admitted, Admitted,
         BreakerOf!ShouldAttemptReset, ShouldAttemptReset
<1>3. BreakerOf(p)!OnSuccess(b) = OnSuccess(b)
  BY DEF BreakerOf!OnSuccess, OnSuccess, BreakerOf!Closes, Closes
<1>4. BreakerOf(p)!OnFailure(b) = OnFailure(b)
  BY DEF BreakerOf!OnFailure, OnFailure, BreakerOf!Trips, Trips,
         BreakerOf!OneMoreFailure, OneMoreFailure
<1>5. BreakerOf(p)!Aged(b) = Aged(b)
  BY DEF BreakerOf!Aged, Aged, BreakerOf!Never, Never
<1> QED  BY <1>1, <1>2, <1>3, <1>4, <1>5

\* A step that leaves p's breaker and its callers alone is no step of p's.
LEMMA BreakerStutters ==
  ASSUME NEW p \in Providers, breaker'[p] = breaker[p],
         Calling(p)' = Calling(p), WaitedAt(p)' = WaitedAt(p)
  PROVE  UNCHANGED BreakerOf(p)!vars
BY DEF BreakerOf!vars, WaitedAt

\* A request that p's breaker admits executes.
LEMMA BreakerExecutes ==
  ASSUME NEW p \in Providers, NEW r \in Requests, r \notin Calling(p),
         Admits(breaker[p]), breaker'[p] = Admitted(breaker[p]),
         Calling(p)' = Calling(p) \cup {r}, WaitedAt(p)' = WaitedAt(p)
  PROVE  BreakerOf(p)!Next
<1>1. BreakerOf(p)!Execute(r)
  BY SameBreaker DEF BreakerOf!Execute, WaitedAt
<1> QED  BY <1>1 DEF BreakerOf!Next

\* A request whose race is decided succeeds or fails.
LEMMA BreakerSettles ==
  ASSUME NEW p \in Providers, NEW r \in Requests, r \in Calling(p),
         breaker'[p] = OnSuccess(breaker[p]) \/ breaker'[p] = OnFailure(breaker[p]),
         Calling(p)' = Calling(p) \ {r},
         WaitedAt(p)' = [WaitedAt(p) EXCEPT ![r] = 0]
  PROVE  BreakerOf(p)!Next
<1>1. BreakerOf(p)!Settle(r)
  BY DEF BreakerOf!Settle, WaitedAt
<1>2. BreakerOf(p)!Succeed(r) \/ BreakerOf(p)!Fail(r)
  BY <1>1, SameBreaker DEF BreakerOf!Succeed, BreakerOf!Fail
<1> QED  BY <1>2 DEF BreakerOf!Next

\* Time passes for every breaker and every call alike.
LEMMA BreakerTicks ==
  ASSUME TypeOK, NEW p \in Providers, Tick
  PROVE  BreakerOf(p)!Next
<1>1. Calling(p)' = Calling(p)
  BY DEF Tick, Calling
<1>2. \A r \in Calling(p) : r \in Requests /\ phase[r] = "calling"
  BY DEF Calling
<1>3. \A r \in Calling(p) : WaitedAt(p)[r] < Timeout
  BY <1>2 DEF Tick, WaitedAt
<1>4. WaitedAt(p)' = [r \in Requests |->
        IF r \in Calling(p) THEN WaitedAt(p)[r] + 1 ELSE WaitedAt(p)[r]]
  BY <1>1, <1>2 DEF Tick, WaitedAt
<1>5. breaker'[p] = Aged(breaker[p])
  BY DEF Tick
<1>6. BreakerOf(p)!Tick
  BY <1>1, <1>3, <1>4, <1>5, SameBreaker DEF BreakerOf!Tick, WaitedAt
<1> QED  BY <1>6 DEF BreakerOf!Next

\* An attempt is a step of the breaker of the provider it goes to, if that
\* admits it, and of no other.
LEMMA AttemptOfBreaker ==
  ASSUME TypeOK, OnlyCallersWait, NEW p \in Providers, NEW r \in Requests,
         phase[r] # "calling", NEW i \in 1 .. Len(Order), Attempt(r, i),
         UNCHANGED waited
  PROVE  [BreakerOf(p)!Next]_(BreakerOf(p)!vars)
<1>1. /\ at' = [at EXCEPT ![r] = i]
      /\ waited' = waited /\ waited[r] = 0
      /\ r \notin Calling(p)
  BY DEF Attempt, OnlyCallersWait, Calling
<1>2. \A q \in Requests \ {r} : q \in Calling(p)' <=> q \in Calling(p)
  BY AttemptTypes, <1>1 DEF Calling, TypeOK
<1>3. CASE p = Order[i] /\ Admits(breaker[p])
  <2>1. breaker'[p] = Admitted(breaker[p]) /\ r \in Calling(p)'
    BY <1>1, <1>3 DEF Attempt, TypeOK, Calling
  <2>2. Calling(p)' = Calling(p) \cup {r}
    BY <1>2, <2>1 DEF Calling
  <2>3. WaitedAt(p)' = WaitedAt(p)
    BY <1>1, <2>2 DEF WaitedAt
  <2> QED  BY <1>1, <1>3, <2>1, <2>2, <2>3, BreakerExecutes
<1>4. CASE ~(p = Order[i] /\ Admits(breaker[p]))
  <2>1. breaker'[p] = breaker[p] /\ r \notin Calling(p)'
    BY <1>1, <1>4 DEF Attempt, TypeOK, Calling
  <2>2. Calling(p)' = Calling(p)
    BY <1>1, <1>2, <2>1 DEF Calling
  <2>3. WaitedAt(p)' = WaitedAt(p)
    BY <1>1, <2>2 DEF WaitedAt
  <2> QED  BY <2>1, <2>2, <2>3, BreakerStutters
<1> QED  BY <1>3, <1>4

\* The end of an attempt is a step of the breaker of its provider alone.
LEMMA DecidedOfBreaker ==
  ASSUME TypeOK, NEW p \in Providers, NEW r \in Requests, NEW b, Decided(r, b),
         b = OnSuccess(breaker[Order[at[r]]]) \/ b = OnFailure(breaker[Order[at[r]]]),
         NEW new \in Phases \ {"calling"}, phase' = [phase EXCEPT ![r] = new]
  PROVE  [BreakerOf(p)!Next]_(BreakerOf(p)!vars)
<1>1. /\ phase[r] = "calling" /\ at' = at
      /\ waited' = [waited EXCEPT ![r] = 0]
      /\ breaker' = [breaker EXCEPT ![Order[at[r]]] = b]
      /\ r \notin Calling(p)'
  BY DEF Decided, Calling, TypeOK
<1>2. Calling(p)' = Calling(p) \ {r}
  BY <1>1 DEF Calling, TypeOK
<1>3. CASE p = Order[at[r]]
  <2>1. breaker'[p] = b /\ r \in Calling(p)
    BY <1>1, <1>3 DEF TypeOK, Calling
  <2>2. WaitedAt(p)' = [WaitedAt(p) EXCEPT ![r] = 0]
    BY <1>1, <1>2 DEF WaitedAt, TypeOK
  <2> QED  BY <1>2, <1>3, <2>1, <2>2, BreakerSettles
<1>4. CASE p # Order[at[r]]
  <2>1. breaker'[p] = breaker[p] /\ r \notin Calling(p)
    BY <1>1, <1>4 DEF TypeOK, Calling
  <2>2. WaitedAt(p)' = WaitedAt(p)
    BY <1>1, <1>2, <2>1 DEF WaitedAt, TypeOK
  <2> QED  BY <1>2, <2>1, <2>2, BreakerStutters
<1> QED  BY <1>3, <1>4

\* A request that comes to rest elsewhere is nothing to the breakers.
LEMMA ElsewhereOfBreaker ==
  ASSUME TypeOK, NEW p \in Providers, UNCHANGED <<breaker, waited>>,
         \A r \in Requests : \/ phase'[r] = phase[r] /\ at'[r] = at[r]
                             \/ phase[r] # "calling" /\ phase'[r] # "calling"
  PROVE  UNCHANGED BreakerOf(p)!vars
<1>1. Calling(p)' = Calling(p)
  BY DEF Calling
<1>2. WaitedAt(p)' = WaitedAt(p)
  BY <1>1 DEF WaitedAt
<1> QED  BY <1>1, <1>2, BreakerStutters

\* Every step of the router is a step of p's breaker, or none.
LEMMA NextOfBreaker ==
  ASSUME IInv, [Next]_vars, NEW p \in Providers
  PROVE  [BreakerOf(p)!Next]_(BreakerOf(p)!vars)
<1> USE DEF IInv
<1>1. ASSUME NEW r \in Requests, Generate(r)
      PROVE  [BreakerOf(p)!Next]_(BreakerOf(p)!vars)
  BY <1>1, SomeProvider, AttemptOfBreaker DEF Generate, Busy
<1>2. ASSUME NEW r \in Requests, GenerateRefused(r)
      PROVE  [BreakerOf(p)!Next]_(BreakerOf(p)!vars)
  <2>1. \A q \in Requests : \/ phase'[q] = phase[q] /\ at'[q] = at[q]
                            \/ phase[q] # "calling" /\ phase'[q] # "calling"
    BY <1>2 DEF GenerateRefused, Busy, TypeOK
  <2> QED  BY <1>2, <2>1, ElsewhereOfBreaker DEF GenerateRefused
<1>3. ASSUME NEW r \in Requests, Answer(r)
      PROVE  [BreakerOf(p)!Next]_(BreakerOf(p)!vars)
  BY <1>3, DecidedOfBreaker DEF Answer, Phases
<1>4. ASSUME NEW r \in Requests, AttemptFails(r)
      PROVE  [BreakerOf(p)!Next]_(BreakerOf(p)!vars)
  BY <1>4, DecidedOfBreaker DEF AttemptFails, Phases, Busy
<1>5. ASSUME NEW r \in Requests, AttemptTimesOut(r)
      PROVE  [BreakerOf(p)!Next]_(BreakerOf(p)!vars)
  BY <1>4, <1>5 DEF AttemptTimesOut
<1>6. ASSUME NEW r \in Requests, TryNext(r)
      PROVE  [BreakerOf(p)!Next]_(BreakerOf(p)!vars)
  <2>1. phase[r] = "logging" /\ at[r] + 1 \in 1 .. Len(Order)
    BY <1>6, SomeProvider DEF TryNext, RecordFailover, TypeOK
  <2> QED  BY <1>6, <2>1, AttemptOfBreaker DEF TryNext
<1>7. ASSUME NEW r \in Requests, AllFailed(r)
      PROVE  [BreakerOf(p)!Next]_(BreakerOf(p)!vars)
  <2>1. \A q \in Requests : \/ phase'[q] = phase[q] /\ at'[q] = at[q]
                            \/ phase[q] # "calling" /\ phase'[q] # "calling"
    BY <1>7 DEF AllFailed, RecordFailover, TypeOK
  <2> QED  BY <1>7, <2>1, ElsewhereOfBreaker DEF AllFailed
<1>8. CASE RpmReset \/ Midnight \/ UNCHANGED vars
  BY <1>8, ElsewhereOfBreaker DEF RpmReset, Midnight, vars
<1>9. CASE Tick
  BY <1>9, BreakerTicks
<1> QED  BY <1>1, <1>2, <1>3, <1>4, <1>5, <1>6, <1>7, <1>8, <1>9 DEF Next

\* A new process has a new breaker for every provider.
LEMMA InitOfBreaker ==
  ASSUME Init, NEW p \in Providers
  PROVE  BreakerOf(p)!Init
<1>1. breaker[p] = NewBreaker /\ Calling(p) = {}
  BY DEF Init, Calling
<1> QED  BY <1>1, SameBreaker DEF BreakerOf!Init

\* No path through the provider loop, and no interleaving of requests, starts
\* or ends an attempt behind its breaker's back: each is a CircuitBreaker.
THEOREM BreakersRefined == Spec => RefinesBreakers
<1>1. Init => \A p \in Providers : BreakerOf(p)!Init
  BY InitOfBreaker
<1>2. IInv /\ [Next]_vars =>
        [\A p \in Providers : [BreakerOf(p)!Next]_(BreakerOf(p)!vars)]_vars
  BY NextOfBreaker
<1> QED  BY <1>1, <1>2, Invariance, PTL DEF Spec, RefinesBreakers

-----------------------------------------------------------------------------
\* What is proved of one breaker, for every breaker of the router.

\* While p's breaker is OPEN p is left alone: whoever is still asking it was asking
\* no later than its last failure.
LeftAlone(p) ==
  breaker[p].state = "OPEN" =>
    \A r \in Calling(p) : waited[r] >= breaker[p].sinceFailure

\* An outage of p ends when resetTimeout has passed, with nobody asking p.
EndsAlone(p) ==
  breaker[p].state = "OPEN" /\ breaker'[p].state # "OPEN" =>
    /\ breaker'[p].state = "HALF_OPEN"
    /\ breaker[p].sinceFailure = ResetTimeout
    /\ Calling(p) = {}

\* It is the property CircuitBreaker states of its own breaker.
LEMMA LeftAloneIsTheirs ==
  ASSUME NEW p \in Providers
  PROVE  LeftAlone(p) <=> BreakerOf(p)!NoCallSinceLastFailure
<1>1. \A r \in Calling(p) : WaitedAt(p)[r] = waited[r]
  BY DEF WaitedAt, Calling
<1> QED  BY <1>1 DEF LeftAlone, WaitedAt, BreakerOf!NoCallSinceLastFailure

\* The fields of p's breaker and the waiting of its callers are typed.
LEMMA BreakerTyped ==
  ASSUME TypeOK, NEW p \in Providers
  PROVE  /\ breaker[p] \in Breakers
         /\ breaker[p].sinceFailure \in Ages
         /\ Calling(p) \subseteq Requests
         /\ \A r \in Calling(p) : WaitedAt(p)[r] = waited[r] /\ waited[r] \in 0 .. Timeout
BY DEF TypeOK, Breakers, Calling, WaitedAt

\* The same in the next state.
LEMMA BreakerTypedPrime ==
  ASSUME TypeOK', NEW p \in Providers
  PROVE  /\ breaker'[p] \in Breakers
         /\ breaker'[p].sinceFailure \in Ages
         /\ Calling(p)' \subseteq Requests
         /\ \A r \in Calling(p)' : WaitedAt(p)'[r] = waited'[r] /\ waited'[r] \in 0 .. Timeout
BY DEF TypeOK, Breakers, Calling, WaitedAt

\* A step of p's breaker keeps p left alone, and ends its outage by waiting only.
LEMMA StepOfBreaker ==
  ASSUME TypeOK, TypeOK', NEW p \in Providers, LeftAlone(p),
         [BreakerOf(p)!Next]_(BreakerOf(p)!vars)
  PROVE  LeftAlone(p)' /\ EndsAlone(p)
<1> DEFINE b == breaker[p]
<1>0. /\ b \in Breakers /\ b.sinceFailure \in Ages /\ ResetTimeout \in Nat
      /\ Timeout \in Nat /\ Timeout < ResetTimeout /\ Never = -1
  BY BreakerTyped, TimingAssumption DEF Never
<1>1. ASSUME NEW r \in Requests, BreakerOf(p)!Execute(r)
      PROVE  LeftAlone(p)' /\ EndsAlone(p)
  <2>1. breaker'[p] = Admitted(b) /\ Admits(b)
    BY <1>1, SameBreaker DEF BreakerOf!Execute
  <2>2. breaker'[p].state # "OPEN" /\ (b.state = "OPEN" => breaker'[p].state = "HALF_OPEN")
    BY <1>0, <2>1 DEF Admitted, Breakers
  <2>3. b.state = "OPEN" => b.sinceFailure = ResetTimeout
    BY <1>0, <2>1 DEF Admits, ShouldAttemptReset, Ages
  <2>4. b.state = "OPEN" => Calling(p) = {}
    <3>1. \A q \in Calling(p) : b.state = "OPEN" =>
            waited[q] >= ResetTimeout /\ waited[q] \in 0 .. Timeout
      BY <2>3, BreakerTyped DEF LeftAlone
    <3> QED  BY <1>0, <3>1
  <2> QED  BY <2>2, <2>3, <2>4 DEF LeftAlone, EndsAlone
<1>2. ASSUME NEW r \in Requests, BreakerOf(p)!Settle(r),
             breaker'[p] = OnSuccess(b) \/ breaker'[p] = OnFailure(b)
      PROVE  LeftAlone(p)' /\ EndsAlone(p)
  <2>1. /\ Calling(p)' = Calling(p) \ {r}
        /\ WaitedAt(p)' = [WaitedAt(p) EXCEPT ![r] = 0]
    BY <1>2 DEF BreakerOf!Settle, WaitedAt
  <2>2. ASSUME NEW q \in Calling(p)'
        PROVE  q \in Calling(p) /\ waited'[q] = waited[q] /\ waited[q] >= 0
    <3>1. q \in Calling(p) /\ q # r /\ q \in Requests
      BY <2>1, BreakerTyped
    <3>2. WaitedAt(p)'[q] = WaitedAt(p)[q]
      BY <2>1, <3>1 DEF WaitedAt
    <3>3. waited'[q] = WaitedAt(p)'[q] /\ waited[q] = WaitedAt(p)[q] /\ waited[q] \in 0 .. Timeout
      BY <3>1, BreakerTyped, BreakerTypedPrime
    <3> QED  BY <1>0, <3>1, <3>2, <3>3
  <2>3. CASE breaker'[p] = OnSuccess(b)
    <3>1. /\ breaker'[p].state = "OPEN" <=> b.state = "OPEN"
          /\ breaker'[p].sinceFailure = b.sinceFailure
      BY <1>0, <2>3 DEF OnSuccess, Closes, Breakers
    <3> QED  BY <2>2, <3>1 DEF LeftAlone, EndsAlone
  <2>4. CASE breaker'[p] = OnFailure(b)
    <3>1. /\ b.state = "OPEN" => breaker'[p].state = "OPEN"
          /\ breaker'[p].sinceFailure = 0
      BY <1>0, <2>4 DEF OnFailure, Breakers
    <3> QED  BY <2>2, <3>1 DEF LeftAlone, EndsAlone
  <2> QED  BY <1>2, <2>3, <2>4
<1>3. CASE BreakerOf(p)!Tick
  <2>1. /\ breaker'[p] = Aged(b) /\ Calling(p)' = Calling(p)
        /\ WaitedAt(p)' = [q \in Requests |->
             IF q \in Calling(p) THEN WaitedAt(p)[q] + 1 ELSE WaitedAt(p)[q]]
    BY <1>3, SameBreaker DEF BreakerOf!Tick, WaitedAt
  <2>2. \A q \in Calling(p)' : q \in Calling(p) /\ waited'[q] = waited[q] + 1 /\ waited[q] \in Nat
    BY <1>0, <2>1, BreakerTyped, BreakerTypedPrime
  <2>3. /\ breaker'[p].state = b.state
        /\ breaker'[p].sinceFailure <= b.sinceFailure + 1
    BY <1>0, <2>1 DEF Aged, Breakers, Ages
  <2>4. breaker'[p].sinceFailure \in Int /\ b.sinceFailure \in Int
    BY <1>0, BreakerTypedPrime DEF Ages
  <2> QED  BY <2>2, <2>3, <2>4 DEF LeftAlone, EndsAlone
<1>4. CASE UNCHANGED BreakerOf(p)!vars
  <2>1. breaker'[p] = b /\ Calling(p)' = Calling(p) /\ WaitedAt(p)' = WaitedAt(p)
    BY <1>4 DEF BreakerOf!vars, WaitedAt
  <2>2. \A q \in Calling(p)' : q \in Calling(p) /\ waited'[q] = waited[q]
    BY <2>1, BreakerTyped, BreakerTypedPrime
  <2> QED  BY <2>1, <2>2 DEF LeftAlone, EndsAlone
<1> HIDE DEF b
<1>5. ASSUME NEW r \in Requests,
             BreakerOf(p)!Succeed(r) \/ BreakerOf(p)!Fail(r) \/ BreakerOf(p)!TimeOut(r)
      PROVE  LeftAlone(p)' /\ EndsAlone(p)
  BY <1>2, <1>5, SameBreaker
     DEF BreakerOf!Succeed, BreakerOf!Fail, BreakerOf!TimeOut, b
<1> QED  BY <1>1, <1>3, <1>4, <1>5 DEF BreakerOf!Next

\* Every provider is always left alone while its circuit is open.
LEMMA AllLeftAlone == Spec => [](\A p \in Providers : LeftAlone(p))
<1>1. Init => \A p \in Providers : LeftAlone(p)
  BY DEF Init, LeftAlone, NewBreaker
<1>2. /\ IInv /\ IInv' /\ [Next]_vars
      /\ \A p \in Providers : LeftAlone(p)
      => (\A p \in Providers : LeftAlone(p))'
  BY NextOfBreaker, StepOfBreaker DEF IInv
<1> QED  BY <1>1, <1>2, Invariance, PTL DEF Spec

\* While the breaker of a provider is OPEN the router sends that provider nothing, on
\* behalf of whichever request, whatever the other providers do.
THEOREM OpenProvidersLeftAlone ==
  Spec => [](\A p \in Providers : BreakerOf(p)!NoCallSinceLastFailure)
<1>1. (\A p \in Providers : LeftAlone(p)) =>
        \A p \in Providers : BreakerOf(p)!NoCallSinceLastFailure
  BY LeftAloneIsTheirs
<1> QED  BY <1>1, AllLeftAlone, PTL

\* The outage of a provider is ended by resetTimeout alone, and its recovery is begun
\* by a single probe: no request that asked it before is still waiting for it.
THEOREM OutagesEndWithOneProbe ==
  Spec => [][\A p \in Providers : EndsAlone(p)]_vars
<1>1. /\ IInv /\ IInv' /\ [Next]_vars
      /\ \A p \in Providers : LeftAlone(p)
      => [\A p \in Providers : EndsAlone(p)]_vars
  BY NextOfBreaker, StepOfBreaker DEF IInv
<1> QED  BY <1>1, AllLeftAlone, Invariance, PTL DEF Spec

-----------------------------------------------------------------------------
\* The router takes the providers as Failover promises.

\* What Failover sees of the requests.
Status == [r \in Requests |->
             IF phase[r] \in Busy THEN "running" ELSE phase[r]]

RuledOut == [r \in Requests |->
               IF phase[r] \in {"logging", "failed"} THEN at[r] ELSE at[r] - 1]

\* A step of one request changes what Failover sees of that one alone.
LEMMA AbstractChange ==
  ASSUME TypeOK, NEW r \in Requests, NEW new, NEW i,
         phase' = [phase EXCEPT ![r] = new], at' = [at EXCEPT ![r] = i]
  PROVE  /\ new \in Busy => Status' = [Status EXCEPT ![r] = "running"]
         /\ new \notin Busy => Status' = [Status EXCEPT ![r] = new]
         /\ new \in {"logging", "failed"} => RuledOut' = [RuledOut EXCEPT ![r] = i]
         /\ new \notin {"logging", "failed"} =>
              \A n : n = i - 1 => RuledOut' = [RuledOut EXCEPT ![r] = n]
BY DEF Status, RuledOut, TypeOK

\* A request that is not busy is not running to Failover either.
LEMMA RestingSeen ==
  ASSUME TypeOK, NEW r \in Requests, phase[r] \notin Busy
  PROVE  Status[r] # "running"
<1>1. phase[r] \in {"idle", "answered", "failed", "refused"}
  BY DEF TypeOK, Phases
<1> QED  BY <1>1 DEF Status

\* A request that starts finds its first provider out, or asks it.
LEMMA GenerateStarts ==
  ASSUME TypeOK, NEW r \in Requests, Generate(r)
  PROVE  Abstract!Next
<1>1. PICK new \in {"calling", "logging"} :
        phase' = [phase EXCEPT ![r] = new] /\ at' = [at EXCEPT ![r] = 1]
  BY DEF Generate, Attempt
<1>2. /\ Status' = [Status EXCEPT ![r] = "running"]
      /\ \E n \in {0, 1} : RuledOut' = [RuledOut EXCEPT ![r] = n]
  <2>1. Status' = [Status EXCEPT ![r] = "running"]
    BY <1>1 DEF Status, Busy, TypeOK
  <2>2. new = "logging" => RuledOut' = [RuledOut EXCEPT ![r] = 1]
    BY <1>1 DEF RuledOut, TypeOK
  <2>3. ASSUME new = "calling"  PROVE RuledOut' = [RuledOut EXCEPT ![r] = 0]
    <3>1. at'[r] - 1 = 0
      BY <1>1 DEF TypeOK
    <3>2. RuledOut'[r] = 0
      BY <1>1, <2>3, <3>1 DEF RuledOut, TypeOK
    <3>3. \A q \in Requests \ {r} : RuledOut'[q] = RuledOut[q]
      BY <1>1 DEF RuledOut, TypeOK
    <3> QED  BY <3>2, <3>3 DEF RuledOut
  <2> QED  BY <1>1, <2>1, <2>2, <2>3
<1>3. Status[r] # "running"
  BY RestingSeen DEF Generate
<1>4. Abstract!Start(r)
  BY <1>2, <1>3 DEF Abstract!Start, Status, RuledOut
<1> QED  BY <1>4 DEF Abstract!Next

\* A request over a limit is refused before any provider is asked.
LEMMA RefusedRefuses ==
  ASSUME TypeOK, NEW r \in Requests, GenerateRefused(r)
  PROVE  Abstract!Next
<1>1. /\ Status' = [Status EXCEPT ![r] = "refused"]
      /\ RuledOut' = [RuledOut EXCEPT ![r] = 0]
  <2>1. /\ phase' = [phase EXCEPT ![r] = "refused"]
        /\ at' = [at EXCEPT ![r] = 1]
    BY DEF GenerateRefused
  <2>2. Status' = [Status EXCEPT ![r] = "refused"]
    BY <2>1 DEF Status, Busy, TypeOK
  <2>3. at'[r] - 1 = 0
    BY <2>1 DEF TypeOK
  <2>4. RuledOut'[r] = 0
    BY <2>1, <2>3 DEF RuledOut, TypeOK
  <2>5. \A q \in Requests \ {r} : RuledOut'[q] = RuledOut[q]
    BY <2>1 DEF RuledOut, TypeOK
  <2> QED  BY <2>2, <2>4, <2>5 DEF RuledOut
<1>2. Status[r] # "running"
  BY RestingSeen DEF GenerateRefused
<1>3. Abstract!Refuse(r)
  BY <1>1, <1>2 DEF Abstract!Refuse, Status, RuledOut
<1> QED  BY <1>3 DEF Abstract!Next

\* What Failover sees of a request that is asking a provider.
LEMMA CallingSeen ==
  ASSUME TypeOK, NEW r \in Requests, phase[r] = "calling"
  PROVE  /\ Status[r] = "running"
         /\ RuledOut[r] = at[r] - 1
         /\ RuledOut[r] < Len(Order)
BY SomeProvider DEF Status, RuledOut, Busy, TypeOK

\* What Failover sees of a request whose provider has failed it.
LEMMA LoggingSeen ==
  ASSUME TypeOK, NEW r \in Requests, phase[r] = "logging"
  PROVE  Status[r] = "running" /\ RuledOut[r] = at[r]
BY DEF Status, RuledOut, Busy

\* The answer comes from the provider after those ruled out.
LEMMA AnswerAnswers ==
  ASSUME TypeOK, NEW r \in Requests, Answer(r)
  PROVE  Abstract!Next
<1>1. /\ phase[r] = "calling" /\ at' = [at EXCEPT ![r] = at[r]]
      /\ phase' = [phase EXCEPT ![r] = "answered"]
  BY DEF Answer, Decided, TypeOK
<1>2. /\ Status' = [Status EXCEPT ![r] = "answered"]
      /\ RuledOut' = [RuledOut EXCEPT ![r] = at[r] - 1]
  <2>1. "answered" \notin Busy /\ "answered" \notin {"logging", "failed"}
    BY DEF Busy
  <2> QED  BY <1>1, <2>1, AbstractChange
<1>3. RuledOut' = RuledOut
  BY <1>1, <1>2, CallingSeen DEF RuledOut
<1>4. Abstract!Answer(r)
  BY <1>1, <1>2, <1>3, CallingSeen DEF Abstract!Answer, Status, RuledOut
<1> QED  BY <1>4 DEF Abstract!Next, Abstract!Progress

\* A failure rules one more provider out.
LEMMA FailureRulesOut ==
  ASSUME TypeOK, NEW r \in Requests, AttemptFails(r)
  PROVE  Abstract!Next
<1>1. /\ phase[r] = "calling" /\ at' = [at EXCEPT ![r] = at[r]]
      /\ phase' = [phase EXCEPT ![r] = "logging"]
  BY DEF AttemptFails, Decided, TypeOK
<1>2. /\ Status' = [Status EXCEPT ![r] = "running"]
      /\ RuledOut' = [RuledOut EXCEPT ![r] = at[r]]
  BY <1>1, AbstractChange DEF Busy
<1>3. at[r] = RuledOut[r] + 1 /\ Status' = Status
  BY <1>1, <1>2, CallingSeen, SomeProvider DEF Status, TypeOK
<1>4. Abstract!RuleOut(r)
  BY <1>1, <1>2, <1>3, CallingSeen DEF Abstract!RuleOut, Status, RuledOut
<1> QED  BY <1>4 DEF Abstract!Next, Abstract!Progress

\* The next provider is asked, or is ruled out because its breaker is open.
LEMMA TryNextGoesOn ==
  ASSUME TypeOK, NEW r \in Requests, TryNext(r)
  PROVE  [Abstract!Next]_(Abstract!vars)
<1>1. phase[r] = "logging" /\ at[r] < Len(Order) /\ at[r] \in Int
  BY SomeProvider DEF TryNext, RecordFailover, TypeOK
<1>2. PICK new \in {"calling", "logging"} :
        phase' = [phase EXCEPT ![r] = new] /\ at' = [at EXCEPT ![r] = at[r] + 1]
  BY DEF TryNext, Attempt
<1>3. Status' = [Status EXCEPT ![r] = "running"]
  BY <1>2, AbstractChange DEF Busy
<1>4. Status' = Status
  BY <1>1, <1>3, LoggingSeen DEF Status
<1>5. CASE new = "calling"
  <2>1. RuledOut' = [RuledOut EXCEPT ![r] = at[r]]
    <3>1. at'[r] - 1 = at[r]
      BY <1>1, <1>2 DEF TypeOK
    <3>2. RuledOut'[r] = at[r]
      BY <1>2, <1>5, <3>1 DEF RuledOut, TypeOK
    <3>3. \A q \in Requests \ {r} : RuledOut'[q] = RuledOut[q]
      BY <1>2 DEF RuledOut, TypeOK
    <3> QED  BY <3>2, <3>3 DEF RuledOut
  <2>2. RuledOut' = RuledOut
    BY <1>1, <2>1, LoggingSeen DEF RuledOut
  <2> QED  BY <1>4, <2>2 DEF Abstract!vars, Status, RuledOut
<1>6. CASE new = "logging"
  <2>1. RuledOut' = [RuledOut EXCEPT ![r] = RuledOut[r] + 1]
    BY <1>1, <1>2, <1>6, LoggingSeen DEF RuledOut, TypeOK
  <2>2. Abstract!RuleOut(r)
    BY <1>1, <1>4, <2>1, LoggingSeen DEF Abstract!RuleOut, Status, RuledOut
  <2> QED  BY <2>2 DEF Abstract!Next, Abstract!Progress
<1> QED  BY <1>5, <1>6

\* A request fails when every provider has been ruled out.
LEMMA AllFailedGivesUp ==
  ASSUME TypeOK, NEW r \in Requests, AllFailed(r)
  PROVE  Abstract!Next
<1>1. /\ phase[r] = "logging" /\ at[r] = Len(Order)
      /\ at' = [at EXCEPT ![r] = at[r]]
      /\ phase' = [phase EXCEPT ![r] = "failed"]
  BY DEF AllFailed, RecordFailover, TypeOK
<1>2. /\ Status' = [Status EXCEPT ![r] = "failed"]
      /\ RuledOut' = [RuledOut EXCEPT ![r] = at[r]]
  <2>1. "failed" \notin Busy /\ "failed" \in {"logging", "failed"}
    BY DEF Busy
  <2> QED  BY <1>1, <2>1, AbstractChange
<1>3. RuledOut' = RuledOut
  BY <1>1, <1>2, LoggingSeen DEF RuledOut
<1>4. Abstract!GiveUp(r)
  BY <1>1, <1>2, <1>3, LoggingSeen DEF Abstract!GiveUp, Status, RuledOut
<1> QED  BY <1>4 DEF Abstract!Next, Abstract!Progress

\* Every step of the router is a step of Failover, or none.
LEMMA NextOfFailover ==
  ASSUME TypeOK, [Next]_vars
  PROVE  [Abstract!Next]_(Abstract!vars)
<1>1. CASE UNCHANGED <<phase, at>>
  BY <1>1 DEF Abstract!vars
<1>2. ASSUME NEW r \in Requests,
             \/ Generate(r) \/ GenerateRefused(r)
             \/ Answer(r) \/ AttemptFails(r) \/ AttemptTimesOut(r)
             \/ TryNext(r) \/ AllFailed(r)
      PROVE  [Abstract!Next]_(Abstract!vars)
  BY <1>2, GenerateStarts, RefusedRefuses, AnswerAnswers, FailureRulesOut,
     TryNextGoesOn, AllFailedGivesUp DEF AttemptTimesOut
<1>3. CASE RpmReset \/ Midnight \/ Tick \/ UNCHANGED vars
  BY <1>1, <1>3 DEF RpmReset, Midnight, Tick, vars
<1> QED  BY <1>2, <1>3 DEF Next

\* What Failover promises, but for the fairness of its Spec: the providers are
\* taken strictly in order, none is passed over that was not asked or whose
\* breaker was not open, and only the last one's failure fails the request.
THEOREM FailoverSafety ==
  Spec => Abstract!Init /\ [][Abstract!Next]_(Abstract!vars)
<1>1. Init => Abstract!Init
  BY DEF Init, Abstract!Init, Busy
<1>2. TypeOK /\ [Next]_vars => [Abstract!Next]_(Abstract!vars)
  BY NextOfFailover
<1> QED  BY <1>1, <1>2, TypeCorrect, PTL DEF Spec

=============================================================================
