-------------------------- MODULE EmbeddingRouter --------------------------
(***************************************************************************)
(* EmbeddingRouterService in one process: concurrent calls of               *)
(* generateEmbedding() and generateBatchEmbeddings(), whose control is the  *)
(* same, over the configured providers, with the consecutive-failure count  *)
(* of each and the Retry decorator of the provider services.                *)
(*                                                                          *)
(* The loop over providerOrder runs synchronously from one provider call to *)
(* the next, so passing over unknown and disabled providers belongs to the  *)
(* step that reaches them.  A provider call is up to MaxAttempts executions *)
(* of the decorated method, with a sleep before each repetition.            *)
(***************************************************************************)
EXTENDS Naturals, FiniteSets, Sequences

CONSTANTS
  Requests,          \* slots for concurrent calls
  Names,             \* what EMBEDDING_PROVIDERS may list
  Registered,        \* keys of the providers map
  ProviderOrder,     \* EMBEDDING_PROVIDERS, split
  FailureThreshold,  \* FAILURE_THRESHOLD: 3
  MaxAttempts        \* maxAttempts of Retry: 3

ASSUME RequestsAssumption == IsFiniteSet(Requests)

ASSUME OrderAssumption == Registered \subseteq Names /\ ProviderOrder \in Seq(Names)

ASSUME LimitsAssumption ==
  /\ FailureThreshold \in Nat \ {0}
  /\ MaxAttempts \in Nat \ {0}

VARIABLES
  failureCount,      \* per registered provider
  phase,             \* what a request is doing, or how its last run ended
  at,                \* index in ProviderOrder; one more when it ran out
  attempt            \* the current execution of the decorated method

vars == <<failureCount, phase, at, attempt>>

Busy == {"calling", "sleeping"}

TypeOK ==
  /\ failureCount \in [Registered -> Nat]
  /\ phase \in [Requests -> Busy \cup {"idle", "answered", "failed"}]
  /\ at \in [Requests -> 1 .. Len(ProviderOrder) + 1]
  /\ attempt \in [Requests -> 1 .. MaxAttempts]

Init ==
  /\ failureCount = [p \in Registered |-> 0]
  /\ phase   = [r \in Requests |-> "idle"]
  /\ at      = [r \in Requests |-> 1]
  /\ attempt = [r \in Requests |-> 1]

-----------------------------------------------------------------------------

Available_UntilOneMore(p, count) ==
  p \in Registered /\ count[p] <= FailureThreshold

\* isProviderAvailable(), for given failure counts.
Available(p, count) == p \in Registered /\ count[p] < FailureThreshold

\* The places in the loop from i on where a provider will be asked.
Open(i, count) ==
  {j \in i .. Len(ProviderOrder) : Available(ProviderOrder[j], count)}

\* The loop from i on: the first available provider is called, or none is.
Loop(r, i, count) ==
  /\ attempt' = [attempt EXCEPT ![r] = 1]
  /\ \/ \E j \in Open(i, count) :
          /\ \A k \in Open(i, count) : j <= k
          /\ at'    = [at EXCEPT ![r] = j]
          /\ phase' = [phase EXCEPT ![r] = "calling"]
     \/ /\ Open(i, count) = {}
        /\ at'    = [at EXCEPT ![r] = Len(ProviderOrder) + 1]
        /\ phase' = [phase EXCEPT ![r] = "failed"]

Generate(r) ==
  /\ phase[r] \notin Busy
  /\ Loop(r, 1, failureCount)
  /\ UNCHANGED failureCount

RecordSuccess_ResetsAll(p) == failureCount' = [q \in Registered |-> 0]

RecordSuccess(p) == failureCount' = [failureCount EXCEPT ![p] = 0]

RecordFailure(p) == failureCount' = [failureCount EXCEPT ![p] = @ + 1]

Answer(r) ==
  /\ phase[r] = "calling"
  /\ RecordSuccess(ProviderOrder[at[r]])
  /\ phase' = [phase EXCEPT ![r] = "answered"]
  /\ UNCHANGED <<at, attempt>>

\* The method rejects with an error isRetryable() accepts.
Sleep_OnceMore(r) ==
  /\ phase[r] = "calling"
  /\ attempt[r] <= MaxAttempts
  /\ phase' = [phase EXCEPT ![r] = "sleeping"]
  /\ UNCHANGED <<failureCount, at, attempt>>

Sleep(r) ==
  /\ phase[r] = "calling"
  /\ attempt[r] < MaxAttempts
  /\ phase' = [phase EXCEPT ![r] = "sleeping"]
  /\ UNCHANGED <<failureCount, at, attempt>>

Retry_ForgetsToCount(r) ==
  /\ phase[r] = "sleeping"
  /\ phase' = [phase EXCEPT ![r] = "calling"]
  /\ UNCHANGED <<failureCount, at, attempt>>

Retry(r) ==
  /\ phase[r] = "sleeping"
  /\ phase'   = [phase EXCEPT ![r] = "calling"]
  /\ attempt' = [attempt EXCEPT ![r] = @ + 1]
  /\ UNCHANGED <<failureCount, at>>

\* It rejects with another error, or for the last time; the loop goes on.
Fail(r) ==
  /\ phase[r] = "calling"
  /\ RecordFailure(ProviderOrder[at[r]])
  /\ Loop(r, at[r] + 1, failureCount')

Next ==
  \E r \in Requests :
    Generate(r) \/ Answer(r) \/ Sleep(r) \/ Retry(r) \/ Fail(r)

Spec == Init /\ [][Next]_vars

\* An execution of the decorated method resolves or rejects: every HTTP call of
\* it has a timeout (60 s for Ollama, 30 s for OpenAI).
Settles(r) == Answer(r) \/ Sleep(r) \/ Fail(r)

\* Executions settle and sleeps end.
Fairness == \A r \in Requests : WF_vars(Settles(r) \/ Retry(r))

FairSpec == Spec /\ Fairness

-----------------------------------------------------------------------------

N == Cardinality(Requests)

Calling(p) ==
  {r \in Requests : phase[r] \in Busy /\ ProviderOrder[at[r]] = p}

\* Availability is read before the await and the failure is counted after it,
\* so a provider can be called, and fail, beyond the threshold; but never by
\* more than the calls that were in flight when it was reached.
FailuresBound ==
  \A p \in Registered :
    failureCount[p] + Cardinality(Calling(p)) <= FailureThreshold - 1 + N

Out(p) == failureCount[p] >= FailureThreshold /\ Calling(p) = {}

\* Once a provider is disabled and the last call in flight to it has failed it
\* is out until the process ends: success elsewhere, time and the health of
\* the provider do not bring it back.
OutForGood == [][\A p \in Registered : Out(p) => Out(p)']_vars

\* Every call returns or throws.
RequestsEnd ==
  \A r \in Requests : phase[r] \in Busy ~> phase[r] \notin Busy
=============================================================================
