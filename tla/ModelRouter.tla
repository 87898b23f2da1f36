---------------------------- MODULE ModelRouter ----------------------------
(***************************************************************************)
(* ModelRouterService.generate() under concurrent requests, with the circuit*)
(* breaker of every provider (CircuitBreaker's operators) and the           *)
(* UsageTrackerService counters it consults.                                *)
(*                                                                          *)
(* generate() is split at its awaits: the usage check and the start of the  *)
(* first attempt are one step; the outcome of an attempt is the next; the   *)
(* write of the failover event is awaited, and the attempt at the next      *)
(* provider starts in the step that write completes.  An attempt at a       *)
(* provider whose breaker is open fails on the spot and goes straight to    *)
(* the event write.  Everything below is the state of one API process.      *)
(***************************************************************************)
EXTENDS Breaker, FiniteSets, Sequences

CONSTANTS
  Requests,          \* slots for concurrent generate() calls
  AllProviders,      \* the factory's list of providers
  Tier,              \* provider -> "primary", "fallback" or "local"
  Answering,         \* providers with a valid API key, or that need none
  TokensUsed,        \* provider -> the token counts its responses may report
  Gemini,            \* the one provider whose usage is limited
  Enabled,           \* USAGE_TRACKING_ENABLED
  RpmLimit, DailyRequestLimit, DailyTokenLimit,
  MaxTokens          \* the most tokens one Gemini response reports

\* getProvidersInOrder(): by tier, the factory's order within a tier.
Order ==
  LET OfTier(t) == SelectSeq(AllProviders, LAMBDA p : Tier[p] = t)
  IN  OfTier("primary") \o OfTier("fallback") \o OfTier("local")

Providers == {AllProviders[i] : i \in 1 .. Len(AllProviders)}

ASSUME RequestsAssumption == IsFiniteSet(Requests)

ASSUME LimitsAssumption ==
  /\ Enabled \in BOOLEAN
  /\ RpmLimit \in Nat \ {0}
  /\ DailyRequestLimit \in Nat \ {0}
  /\ DailyTokenLimit \in Nat \ {0}
  /\ MaxTokens \in Nat

ASSUME TokensAssumption == TokensUsed[Gemini] \subseteq 0 .. MaxTokens

\* Every provider of the factory has one of the three tiers.
ASSUME OrderAssumption ==
  /\ Order \in Seq(Providers)
  /\ Order # <<>>

VARIABLES
  breaker,           \* circuitBreakers: provider -> breaker
  phase,             \* what a request is doing, or how its last run ended
  at,                \* index in Order of the provider a request is at
  waited,            \* ticks a "calling" request has waited (0 otherwise)
  rpmCounter, requestCount, tokenCount,
  newDay,            \* shouldResetDaily(stats.lastReset)
  events             \* failover_events rows of a request's current run

usage == <<rpmCounter, requestCount, tokenCount, newDay>>
vars  == <<breaker, phase, at, waited, usage, events>>

Busy     == {"calling", "logging"}
Phases   == Busy \cup {"idle", "answered", "failed", "refused"}
InFlight == {r \in Requests : phase[r] \in Busy}
Calling(p) == {r \in Requests : phase[r] = "calling" /\ Order[at[r]] = p}

TypeOK ==
  /\ breaker \in [Providers -> Breakers]
  /\ phase \in [Requests -> Phases]
  /\ at \in [Requests -> 1 .. Len(Order)]
  /\ waited \in [Requests -> 0 .. Timeout]
  /\ rpmCounter \in Nat /\ requestCount \in Nat /\ tokenCount \in Nat
  /\ newDay \in BOOLEAN
  /\ events \in [Requests -> SUBSET [failed : 1 .. Len(Order),
                                     successful : 2 .. Len(Order) + 1]]

Init ==
  /\ breaker = [p \in Providers |-> NewBreaker]
  /\ phase   = [r \in Requests |-> "idle"]
  /\ at      = [r \in Requests |-> 1]
  /\ waited  = [r \in Requests |-> 0]
  /\ rpmCounter = 0 /\ requestCount = 0 /\ tokenCount = 0
  /\ newDay = FALSE
  /\ events = [r \in Requests |-> {}]

-----------------------------------------------------------------------------
\* UsageTrackerService.canMakeRequest('gemini-pro'): the daily counters are
\* reset here and nowhere else, and only when the minute's quota is not used up.

RpmAllows == Enabled => rpmCounter < RpmLimit

ResetsDaily == Enabled /\ RpmAllows /\ newDay

CheckedRequests == IF ResetsDaily THEN 0 ELSE requestCount
CheckedTokens   == IF ResetsDaily THEN 0 ELSE tokenCount

CanMakeRequest_ForgetsRequests ==
  Enabled => RpmAllows /\ CheckedTokens < DailyTokenLimit

CanMakeRequest ==
  Enabled => /\ RpmAllows
             /\ CheckedRequests < DailyRequestLimit
             /\ CheckedTokens < DailyTokenLimit

ApplyDailyReset ==
  /\ requestCount' = CheckedRequests
  /\ tokenCount'   = CheckedTokens
  /\ newDay'       = (newDay /\ ~ResetsDaily)
  /\ UNCHANGED rpmCounter

\* trackUsage('gemini-pro', tokens)
TrackUsage(tokens) ==
  IF Enabled
  THEN /\ rpmCounter'   = rpmCounter + 1
       /\ requestCount' = requestCount + 1
       /\ tokenCount'   = tokenCount + tokens
       /\ UNCHANGED newDay
  ELSE UNCHANGED usage

-----------------------------------------------------------------------------
\* The body of the provider loop up to its await, for the provider at i.

Attempt_IgnoresOpen(r, i) ==
  /\ at'      = [at EXCEPT ![r] = i]
  /\ phase'   = [phase EXCEPT ![r] = "calling"]
  /\ UNCHANGED breaker

Attempt(r, i) ==
  LET p == Order[i] IN
  /\ at' = [at EXCEPT ![r] = i]
  /\ IF Admits(breaker[p])
     THEN /\ breaker' = [breaker EXCEPT ![p] = Admitted(@)]
          /\ phase'   = [phase EXCEPT ![r] = "calling"]
     ELSE /\ phase'   = [phase EXCEPT ![r] = "logging"]
          /\ UNCHANGED breaker

Generate(r) ==
  /\ phase[r] \notin Busy
  /\ CanMakeRequest
  /\ ApplyDailyReset
  /\ Attempt(r, 1)
  /\ events' = [events EXCEPT ![r] = {}]
  /\ UNCHANGED waited

\* Over a limit generate() throws before it looks at any provider.
GenerateRefused(r) ==
  /\ phase[r] \notin Busy
  /\ ~CanMakeRequest
  /\ ApplyDailyReset
  /\ phase'  = [phase EXCEPT ![r] = "refused"]
  /\ at'     = [at EXCEPT ![r] = 1]
  /\ events' = [events EXCEPT ![r] = {}]
  /\ UNCHANGED <<breaker, waited>>

\* The race of an attempt is decided, with outcome for its breaker.
Decided(r, outcome) ==
  /\ phase[r] = "calling"
  /\ waited'  = [waited EXCEPT ![r] = 0]
  /\ breaker' = [breaker EXCEPT ![Order[at[r]]] = outcome]
  /\ UNCHANGED <<at, events>>

\* A provider without its API key is asked all the same, and always fails.
Answer(r) ==
  /\ Order[at[r]] \in Answering
  /\ Decided(r, OnSuccess(breaker[Order[at[r]]]))
  /\ phase' = [phase EXCEPT ![r] = "answered"]
  /\ IF Order[at[r]] = Gemini
     THEN \E tokens \in TokensUsed[Gemini] : TrackUsage(tokens)
     ELSE UNCHANGED usage

AttemptFails(r) ==
  /\ Decided(r, OnFailure(breaker[Order[at[r]]]))
  /\ phase' = [phase EXCEPT ![r] = "logging"]
  /\ UNCHANGED usage

AttemptTimesOut(r) == waited[r] = Timeout /\ AttemptFails(r)

\* logFailoverEvent(): successful is the index of the next provider, or
\* Len(Order) + 1 for 'none'.  A failing save is logged and swallowed.
FailoverEvent(r) == [failed |-> at[r], successful |-> at[r] + 1]

RecordFailover(r) ==
  /\ phase[r] = "logging"
  /\ \E saved \in BOOLEAN :
       events' = [events EXCEPT ![r] =
                    @ \cup IF saved THEN {FailoverEvent(r)} ELSE {}]

TryNext_SkipsOne(r) ==
  /\ RecordFailover(r)
  /\ at[r] < Len(Order)
  /\ Attempt(r, IF at[r] + 2 <= Len(Order) THEN at[r] + 2 ELSE at[r] + 1)
  /\ UNCHANGED <<waited, usage>>

TryNext(r) ==
  /\ RecordFailover(r)
  /\ at[r] < Len(Order)
  /\ Attempt(r, at[r] + 1)
  /\ UNCHANGED <<waited, usage>>

AllFailed(r) ==
  /\ RecordFailover(r)
  /\ at[r] = Len(Order)
  /\ phase' = [phase EXCEPT ![r] = "failed"]
  /\ UNCHANGED <<breaker, at, waited, usage>>

-----------------------------------------------------------------------------
\* Timers and the clock.

\* The setInterval of the usage tracker; it exists only when tracking is on.
RpmReset ==
  /\ Enabled
  /\ rpmCounter' = 0
  /\ UNCHANGED <<breaker, phase, at, waited, requestCount, tokenCount, newDay,
                 events>>

Midnight ==
  /\ newDay' = TRUE
  /\ UNCHANGED <<breaker, phase, at, waited, rpmCounter, requestCount,
                 tokenCount, events>>

\* As in CircuitBreaker: a due timeout fires before another tick passes.
Tick ==
  /\ \A r \in Requests : phase[r] = "calling" => waited[r] < Timeout
  /\ breaker' = [p \in Providers |-> Aged(breaker[p])]
  /\ waited'  = [r \in Requests |->
                   IF phase[r] = "calling" THEN waited[r] + 1 ELSE waited[r]]
  /\ UNCHANGED <<phase, at, usage, events>>

Next ==
  \/ \E r \in Requests :
       \/ Generate(r) \/ GenerateRefused(r)
       \/ Answer(r) \/ AttemptFails(r) \/ AttemptTimesOut(r)
       \/ TryNext(r) \/ AllFailed(r)
  \/ RpmReset \/ Midnight \/ Tick

Spec == Init /\ [][Next]_vars

\* Time passes, due timeouts fire, and the database answers or fails the
\* insert of a failover event.  Nothing is assumed of the providers.
Fairness ==
  /\ WF_vars(Tick)
  /\ \A r \in Requests :
       /\ WF_vars(AttemptTimesOut(r))
       /\ WF_vars(TryNext(r) \/ AllFailed(r))

FairSpec == Spec /\ Fairness

-----------------------------------------------------------------------------

N == Cardinality(Requests)

\* The limits are checked when a request starts and charged when Gemini
\* answers, with awaits in between: counters pass a limit, but never by more
\* than the requests that were in flight with the last one let in.
UsageBound ==
  LET K == Cardinality(InFlight) IN
  /\ rpmCounter + K <= RpmLimit - 1 + N
  /\ requestCount + K <= DailyRequestLimit - 1 + N
  /\ tokenCount + K * MaxTokens <= DailyTokenLimit - 1 + N * MaxTokens

\* The promise of Failover: the providers already passed over, including the
\* one whose failure is just being recorded, are those ruled out.
Abstract == INSTANCE Failover WITH
  status   <- [r \in Requests |->
                 IF phase[r] \in Busy THEN "running" ELSE phase[r]],
  ruledOut <- [r \in Requests |->
                 IF phase[r] \in {"logging", "failed"} THEN at[r]
                 ELSE at[r] - 1]

\* generate() keeps that promise, whatever the breakers, timers and counters
\* do, and brings every request to an end.
RefinesFailover == Abstract!Spec

\* Each provider's breaker, driven by the requests that are calling it, is a
\* circuit breaker as specified on its own: no path through the loop enters
\* or leaves an attempt behind its breaker's back.
BreakerOf(p) == INSTANCE CircuitBreaker WITH
  Calls   <- Requests,
  breaker <- breaker[p],
  pending <- Calling(p),
  waited  <- [r \in Requests |-> IF r \in Calling(p) THEN waited[r] ELSE 0]

RefinesBreakers ==
  /\ \A p \in Providers : BreakerOf(p)!Init
  /\ [][\A p \in Providers :
          [BreakerOf(p)!Next]_(BreakerOf(p)!vars)]_vars
=============================================================================
