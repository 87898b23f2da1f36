----------------------- MODULE EmbeddingRouterProofs -----------------------
(***************************************************************************)
(* Proofs about EmbeddingRouter, for any number of concurrent calls, any    *)
(* order of providers (unknown and repeated names included) and any limits. *)
(* Typing, with the fact that a busy call is at a registered provider, and  *)
(* FailuresBound are inductive together.                                    *)
(***************************************************************************)
EXTENDS EmbeddingRouter, EmbeddingServices, FiniteSetTheorems, TLAPS

\* A call that is busy is at a place of the order held by a known provider.
AtProvider ==
  \A r \in Requests : phase[r] \in Busy =>
    at[r] \in 1 .. Len(ProviderOrder) /\ ProviderOrder[at[r]] \in Registered

\* A call sleeps only before an execution it still has.
SleepsToRetry ==
  \A r \in Requests : phase[r] = "sleeping" => attempt[r] < MaxAttempts

Typed == TypeOK /\ AtProvider /\ SleepsToRetry

IInv == Typed /\ FailuresBound

-----------------------------------------------------------------------------
\* A finite set and its finite subsets: Calling(p) is never larger than N.
LEMMA CallingFinite ==
  ASSUME NEW p
  PROVE  /\ IsFiniteSet(Calling(p)) /\ Cardinality(Calling(p)) \in 0 .. N
         /\ N \in Nat
<1>1. Calling(p) \subseteq Requests
  BY DEF Calling
<1> QED  BY <1>1, RequestsAssumption, FS_Subset, FS_CardinalityType DEF N

\* The same of the next state.
LEMMA CallingFinitePrime ==
  ASSUME NEW p
  PROVE  IsFiniteSet(Calling(p)') /\ Cardinality(Calling(p)') \in 0 .. N
<1>1. Calling(p)' \subseteq Requests
  BY DEF Calling
<1> QED  BY <1>1, RequestsAssumption, FS_Subset, FS_CardinalityType DEF N

\* The loop over the providers: it calls a provider that is available by the
\* counts it is given, or ends the call; other calls are left alone.
LEMMA LoopEffect ==
  ASSUME Typed, NEW r \in Requests, NEW i \in 1 .. Len(ProviderOrder) + 1,
         NEW count \in [Registered -> Nat], Loop(r, i, count)
  PROVE  /\ phase' \in [Requests -> Busy \cup {"idle", "answered", "failed"}]
         /\ at' \in [Requests -> 1 .. Len(ProviderOrder) + 1]
         /\ attempt' \in [Requests -> 1 .. MaxAttempts]
         /\ AtProvider' /\ SleepsToRetry'
         /\ \A p \in Registered :
              Calling(p)' = Calling(p) \ {r} \/ count[p] < FailureThreshold
         /\ \A p \in Registered :
              count[p] >= FailureThreshold => Calling(p)' = Calling(p) \ {r}
<1> DEFINE len == Len(ProviderOrder)
<1>1. len \in Nat
  BY OrderAssumption
<1>2. attempt' \in [Requests -> 1 .. MaxAttempts]
  BY LimitsAssumption DEF Typed, TypeOK, Loop
<1>5. \A s \in Requests \ {r} : attempt'[s] = attempt[s]
  BY DEF Typed, TypeOK, Loop
<1>3. CASE \E j \in Open(i, count) :
             /\ at'    = [at EXCEPT ![r] = j]
             /\ phase' = [phase EXCEPT ![r] = "calling"]
  <2>1. PICK j \in Open(i, count) :
          /\ at'    = [at EXCEPT ![r] = j]
          /\ phase' = [phase EXCEPT ![r] = "calling"]
    BY <1>3
  <2>2. /\ j \in 1 .. len /\ ProviderOrder[j] \in Registered
        /\ count[ProviderOrder[j]] < FailureThreshold
    BY <1>1 DEF Open, Available
  <2>3. /\ at' \in [Requests -> 1 .. len + 1]
        /\ phase' \in [Requests -> Busy \cup {"idle", "answered", "failed"}]
    BY <1>1, <2>1, <2>2 DEF Typed, TypeOK, Busy
  <2>4. /\ at'[r] = j /\ phase'[r] = "calling"
        /\ \A s \in Requests \ {r} : at'[s] = at[s] /\ phase'[s] = phase[s]
    BY <2>1 DEF Typed, TypeOK
  <2>5. AtProvider' /\ SleepsToRetry'
    BY <1>5, <2>2, <2>4 DEF Typed, AtProvider, SleepsToRetry
  <2>6. ASSUME NEW p \in Registered, p # ProviderOrder[j]
        PROVE  Calling(p)' = Calling(p) \ {r}
    BY <2>4, <2>6 DEF Calling
  <2>7. ASSUME NEW p \in Registered, count[p] >= FailureThreshold
        PROVE  p # ProviderOrder[j]
    BY <2>2, <2>7, LimitsAssumption
  <2>8. \A p \in Registered :
          Calling(p)' = Calling(p) \ {r} \/ count[p] < FailureThreshold
    BY <2>2, <2>6
  <2>9. \A p \in Registered :
          count[p] >= FailureThreshold => Calling(p)' = Calling(p) \ {r}
    BY <2>6, <2>7
  <2> QED  BY <1>2, <2>3, <2>5, <2>8, <2>9
<1>4. CASE /\ at'    = [at EXCEPT ![r] = len + 1]
           /\ phase' = [phase EXCEPT ![r] = "failed"]
  <2>1. /\ at' \in [Requests -> 1 .. len + 1]
        /\ phase' \in [Requests -> Busy \cup {"idle", "answered", "failed"}]
    BY <1>1, <1>4 DEF Typed, TypeOK
  <2>2. /\ phase'[r] = "failed"
        /\ \A s \in Requests \ {r} : at'[s] = at[s] /\ phase'[s] = phase[s]
    BY <1>4 DEF Typed, TypeOK
  <2>3. AtProvider' /\ SleepsToRetry'
    BY <1>5, <2>2 DEF Typed, AtProvider, SleepsToRetry, Busy
  <2>4. ASSUME NEW p \in Registered
        PROVE  Calling(p)' = Calling(p) \ {r}
    BY <2>2 DEF Calling, Busy
  <2> QED  BY <1>2, <2>1, <2>3, <2>4
<1> QED  BY <1>3, <1>4 DEF Loop

\* A step that leaves every call where it is, or takes r out of the loop.
LEMMA LeavingEffect ==
  ASSUME Typed, NEW r \in Requests, UNCHANGED at,
         NEW x \in Busy \cup {"answered"}, phase[r] \in Busy,
         phase' = [phase EXCEPT ![r] = x]
  PROVE  /\ phase' \in [Requests -> Busy \cup {"idle", "answered", "failed"}]
         /\ AtProvider'
         /\ \A p \in Registered : Calling(p)' \subseteq Calling(p)
<1>1. phase' \in [Requests -> Busy \cup {"idle", "answered", "failed"}]
  BY DEF Typed, TypeOK
<1>2. /\ phase'[r] = x
      /\ \A s \in Requests \ {r} : phase'[s] = phase[s]
  BY DEF Typed, TypeOK
<1>3. AtProvider'
  BY <1>2 DEF Typed, AtProvider
<1>4. ASSUME NEW p \in Registered
      PROVE  Calling(p)' \subseteq Calling(p)
  BY <1>2 DEF Calling
<1> QED  BY <1>1, <1>3, <1>4

\* Counting a failure: one more for its provider, nothing for the others.
LEMMA RecordFailureEffect ==
  ASSUME failureCount \in [Registered -> Nat], NEW q \in Registered,
         RecordFailure(q)
  PROVE  /\ failureCount' \in [Registered -> Nat]
         /\ failureCount'[q] = failureCount[q] + 1
         /\ \A p \in Registered \ {q} : failureCount'[p] = failureCount[p]
BY DEF RecordFailure

\* Counting a success: the failures of its provider are forgotten.
LEMMA RecordSuccessEffect ==
  ASSUME failureCount \in [Registered -> Nat], NEW q \in Registered,
         RecordSuccess(q)
  PROVE  /\ failureCount' \in [Registered -> Nat]
         /\ failureCount'[q] = 0
         /\ \A p \in Registered \ {q} : failureCount'[p] = failureCount[p]
BY DEF RecordSuccess

-----------------------------------------------------------------------------
\* Every step keeps the variables typed and busy calls at known providers.
LEMMA TypedStep ==
  ASSUME Typed, [Next]_vars
  PROVE  Typed'
<1>1. CASE UNCHANGED vars
  BY <1>1 DEF vars, Typed, TypeOK, AtProvider, SleepsToRetry
<1>2. ASSUME NEW r \in Requests, Generate(r)
      PROVE  Typed'
  <2>1. 1 \in 1 .. Len(ProviderOrder) + 1
    BY OrderAssumption
  <2> QED  BY <1>2, <2>1, LoopEffect DEF Generate, Typed, TypeOK
<1>3. ASSUME NEW r \in Requests, Answer(r)
      PROVE  Typed'
  <2>1. ProviderOrder[at[r]] \in Registered /\ phase[r] \in Busy
    BY <1>3 DEF Answer, Typed, AtProvider, Busy
  <2>2. failureCount' \in [Registered -> Nat]
    BY <1>3, <2>1, RecordSuccessEffect DEF Answer, Typed, TypeOK
  <2>3. SleepsToRetry'
    BY <1>3 DEF Answer, Typed, TypeOK, SleepsToRetry
  <2> QED  BY <1>3, <2>1, <2>2, <2>3, LeavingEffect DEF Answer, Typed, TypeOK
<1>4. ASSUME NEW r \in Requests, Sleep(r)
      PROVE  Typed'
  <2>1. "sleeping" \in Busy /\ phase[r] \in Busy
    BY <1>4 DEF Sleep, Busy
  <2>2. SleepsToRetry'
    BY <1>4 DEF Sleep, Typed, TypeOK, SleepsToRetry
  <2> QED  BY <1>4, <2>1, <2>2, LeavingEffect DEF Sleep, Typed, TypeOK
<1>5. ASSUME NEW r \in Requests, Retry(r)
      PROVE  Typed'
  <2>1. "calling" \in Busy /\ phase[r] \in Busy
    BY <1>5 DEF Retry, Busy
  <2>2. attempt' \in [Requests -> 1 .. MaxAttempts]
    <3>1. attempt[r] \in 1 .. MaxAttempts /\ attempt[r] < MaxAttempts
      BY <1>5 DEF Retry, Typed, TypeOK, SleepsToRetry
    <3>2. attempt[r] + 1 \in 1 .. MaxAttempts
      BY <3>1, LimitsAssumption
    <3> QED  BY <1>5, <3>2 DEF Retry, Typed, TypeOK
  <2>3. SleepsToRetry'
    BY <1>5 DEF Retry, Typed, TypeOK, SleepsToRetry
  <2> QED  BY <1>5, <2>1, <2>2, <2>3, LeavingEffect DEF Retry, Typed, TypeOK
<1>6. ASSUME NEW r \in Requests, Fail(r)
      PROVE  Typed'
  <2>1. /\ at[r] + 1 \in 1 .. Len(ProviderOrder) + 1
        /\ ProviderOrder[at[r]] \in Registered
    BY <1>6, OrderAssumption DEF Fail, Typed, AtProvider, Busy
  <2>2. failureCount' \in [Registered -> Nat]
    BY <1>6, <2>1, RecordFailureEffect DEF Fail, Typed, TypeOK
  <2> QED  BY <1>6, <2>1, <2>2, LoopEffect DEF Fail, Typed, TypeOK
<1> QED  BY <1>1, <1>2, <1>3, <1>4, <1>5, <1>6 DEF Next

-----------------------------------------------------------------------------
\* A provider below the threshold may be called by everybody.
LEMMA BelowThreshold ==
  ASSUME NEW c \in Nat, c < FailureThreshold, NEW K \in 0 .. N, N \in Nat
  PROVE  c + K <= FailureThreshold - 1 + N
BY LimitsAssumption

\* FailuresBound of one provider.
BoundOf(p) ==
  failureCount[p] + Cardinality(Calling(p)) <= FailureThreshold - 1 + N

\* If a provider's calls and failures do not grow, its bound stays.
LEMMA BoundKept ==
  ASSUME Typed, Typed', NEW p \in Registered, BoundOf(p),
         Calling(p)' \subseteq Calling(p), failureCount'[p] <= failureCount[p]
  PROVE  BoundOf(p)'
<1>1. Cardinality(Calling(p)') <= Cardinality(Calling(p))
  BY CallingFinite, FS_Subset
<1>2. /\ Cardinality(Calling(p)) \in Nat /\ Cardinality(Calling(p)') \in Nat
      /\ N \in Nat
  BY CallingFinite, CallingFinitePrime
<1>3. failureCount[p] \in Nat /\ failureCount'[p] \in Nat
  BY DEF Typed, TypeOK
<1> QED  BY <1>1, <1>2, <1>3, LimitsAssumption DEF BoundOf

\* A provider still below its threshold has its bound, whoever calls it.
LEMMA BoundBelowThreshold ==
  ASSUME Typed', NEW p \in Registered, failureCount'[p] < FailureThreshold
  PROVE  BoundOf(p)'
<1>1. Cardinality(Calling(p)') \in 0 .. N /\ N \in Nat
  BY CallingFinite, CallingFinitePrime
<1>2. failureCount'[p] \in Nat
  BY DEF Typed, TypeOK
<1> QED  BY <1>1, <1>2, BelowThreshold DEF BoundOf

\* A failure at a provider disabled by it: the call that failed leaves.
LEMMA BoundAtFailure ==
  ASSUME Typed, Typed', NEW r \in Requests, Fail(r),
         NEW p \in Registered, p = ProviderOrder[at[r]], BoundOf(p),
         Calling(p)' = Calling(p) \ {r}
  PROVE  BoundOf(p)'
<1>1. r \in Calling(p)
  BY DEF Fail, Calling, Busy
<1>2. Cardinality(Calling(p)') = Cardinality(Calling(p)) - 1
  BY <1>1, CallingFinite, FS_RemoveElement
<1>3. failureCount'[p] = failureCount[p] + 1
  BY RecordFailureEffect DEF Fail, Typed, TypeOK
<1>4. /\ Cardinality(Calling(p)) \in Nat /\ Cardinality(Calling(p)') \in Nat
      /\ N \in Nat
  BY CallingFinite, CallingFinitePrime
<1>5. failureCount[p] \in Nat
  BY DEF Typed, TypeOK
<1> QED  BY <1>2, <1>3, <1>4, <1>5, LimitsAssumption DEF BoundOf

\* Every step keeps the bound of every provider.
LEMMA BoundStep ==
  ASSUME Typed, Typed', NEW p \in Registered, BoundOf(p), [Next]_vars
  PROVE  BoundOf(p)'
<1>1. failureCount[p] \in Nat /\ failureCount'[p] \in Nat
  BY DEF Typed, TypeOK
<1>2. CASE UNCHANGED vars
  BY <1>2 DEF vars, BoundOf, Calling, N
<1>3. ASSUME NEW r \in Requests, Generate(r)
      PROVE  BoundOf(p)'
  <2>1. 1 \in 1 .. Len(ProviderOrder) + 1
    BY OrderAssumption
  <2>2. \/ Calling(p)' = Calling(p) \ {r}
        \/ failureCount[p] < FailureThreshold
    BY <1>3, <2>1, LoopEffect DEF Generate, Typed, TypeOK
  <2> QED  BY <1>1, <1>3, <2>2, BoundKept, BoundBelowThreshold DEF Generate
<1>4. ASSUME NEW r \in Requests, Answer(r)
      PROVE  BoundOf(p)'
  <2>1. ProviderOrder[at[r]] \in Registered /\ phase[r] \in Busy
    BY <1>4 DEF Answer, Typed, AtProvider, Busy
  <2>2. failureCount'[p] = 0 \/ failureCount'[p] = failureCount[p]
    BY <1>4, <2>1, RecordSuccessEffect DEF Answer, Typed, TypeOK
  <2>3. Calling(p)' \subseteq Calling(p)
    BY <1>4, <2>1, LeavingEffect DEF Answer
  <2> QED  BY <1>1, <2>2, <2>3, BoundKept
<1>5. ASSUME NEW r \in Requests, Sleep(r) \/ Retry(r)
      PROVE  BoundOf(p)'
  <2>1. phase[r] \in Busy /\ failureCount' = failureCount
    BY <1>5 DEF Sleep, Retry, Busy
  <2>2. Calling(p)' \subseteq Calling(p)
    BY <1>5, <2>1, LeavingEffect DEF Sleep, Retry, Busy
  <2> QED  BY <1>1, <2>1, <2>2, BoundKept
<1>6. ASSUME NEW r \in Requests, Fail(r)
      PROVE  BoundOf(p)'
  <2> DEFINE q == ProviderOrder[at[r]]
  <2>1. at[r] + 1 \in 1 .. Len(ProviderOrder) + 1 /\ q \in Registered
    BY <1>6, OrderAssumption DEF Fail, Typed, AtProvider, Busy
  <2>2. failureCount' \in [Registered -> Nat]
    BY DEF Typed, TypeOK
  <2>3. \/ Calling(p)' = Calling(p) \ {r}
        \/ failureCount'[p] < FailureThreshold
    BY <1>6, <2>1, <2>2, LoopEffect DEF Fail
  <2>4. CASE p = q
    BY <1>6, <2>3, <2>4, BoundAtFailure, BoundBelowThreshold
  <2>5. CASE p # q
    <3>1. failureCount'[p] = failureCount[p]
      BY <1>6, <2>1, <2>5, RecordFailureEffect DEF Fail, Typed, TypeOK
    <3> QED  BY <1>1, <2>3, <3>1, BoundKept, BoundBelowThreshold
  <2> QED  BY <2>4, <2>5
<1> QED  BY <1>2, <1>3, <1>4, <1>5, <1>6 DEF Next

\* Nobody has called or failed at the start.
LEMMA InitInvariant ==
  ASSUME Init
  PROVE  IInv
<1>1. Typed
  BY OrderAssumption, LimitsAssumption
     DEF Init, Typed, TypeOK, AtProvider, SleepsToRetry, Busy
<1>2. ASSUME NEW p \in Registered
      PROVE  BoundOf(p)
  <2>1. Calling(p) = {}
    BY DEF Init, Calling, Busy
  <2>2. failureCount[p] = 0 /\ Cardinality(Calling(p)) = 0 /\ N \in Nat
    BY <2>1, FS_EmptySet, CallingFinite DEF Init
  <2> QED  BY <2>2, LimitsAssumption DEF BoundOf
<1> QED  BY <1>1, <1>2 DEF IInv, FailuresBound, BoundOf

\* The inductive invariant holds of every state.
THEOREM Invariance == Spec => []IInv
<1>1. IInv /\ [Next]_vars => IInv'
  <2> SUFFICES ASSUME IInv, [Next]_vars
               PROVE  IInv'
    OBVIOUS
  <2>1. Typed'
    BY TypedStep DEF IInv
  <2>2. \A p \in Registered : BoundOf(p)'
    BY <2>1, BoundStep DEF IInv, FailuresBound, BoundOf
  <2>3. FailuresBound'
    BY <2>2 DEF FailuresBound, BoundOf, N
  <2> QED  BY <2>1, <2>3 DEF IInv
<1> QED  BY <1>1, InitInvariant, PTL DEF Spec

\* The failure counts and the bookkeeping of every call are always typed.
THEOREM TypeCorrect == Spec => []TypeOK
<1>1. IInv => TypeOK
  BY DEF IInv, Typed
<1> QED  BY <1>1, Invariance, PTL

\* Concurrent calls push a provider past the threshold by less than their
\* number.
THEOREM FailuresBounded == Spec => []FailuresBound
<1>1. IInv => FailuresBound
  BY DEF IInv
<1> QED  BY <1>1, Invariance, PTL

-----------------------------------------------------------------------------
\* A provider that is out is not called, and nothing forgets its failures.
LEMMA OutStep ==
  ASSUME Typed, NEW p \in Registered, Out(p), Next
  PROVE  Out(p)'
<1>1. /\ failureCount[p] \in Nat /\ failureCount[p] >= FailureThreshold
      /\ Calling(p) = {}
  BY DEF Out, Typed, TypeOK
<1>2. \A r \in Requests : phase[r] \in Busy =>
        ProviderOrder[at[r]] \in Registered \ {p}
  BY <1>1 DEF Calling, Typed, AtProvider
<1>3. ASSUME NEW r \in Requests, Generate(r)
      PROVE  Out(p)'
  <2>1. 1 \in 1 .. Len(ProviderOrder) + 1
    BY OrderAssumption
  <2>2. Calling(p)' = Calling(p) \ {r}
    BY <1>1, <1>3, <2>1, LoopEffect DEF Generate, Typed, TypeOK
  <2> QED  BY <1>1, <1>3, <2>2 DEF Generate, Out
<1>4. ASSUME NEW r \in Requests, Answer(r)
      PROVE  Out(p)'
  <2>1. phase[r] \in Busy
    BY <1>4 DEF Answer, Busy
  <2>2. failureCount'[p] = failureCount[p]
    BY <1>2, <1>4, <2>1, RecordSuccessEffect DEF Answer, Typed, TypeOK
  <2>3. Calling(p)' \subseteq Calling(p)
    BY <1>4, <2>1, LeavingEffect DEF Answer
  <2> QED  BY <1>1, <2>2, <2>3 DEF Out
<1>5. ASSUME NEW r \in Requests, Sleep(r) \/ Retry(r)
      PROVE  Out(p)'
  <2>1. phase[r] \in Busy /\ failureCount' = failureCount
    BY <1>5 DEF Sleep, Retry, Busy
  <2>2. Calling(p)' \subseteq Calling(p)
    BY <1>5, <2>1, LeavingEffect DEF Sleep, Retry, Busy
  <2> QED  BY <1>1, <2>1, <2>2 DEF Out
<1>6. ASSUME NEW r \in Requests, Fail(r)
      PROVE  Out(p)'
  <2>1. phase[r] \in Busy /\ at[r] + 1 \in 1 .. Len(ProviderOrder) + 1
    BY <1>6, OrderAssumption DEF Fail, Typed, AtProvider, Busy
  <2>2. /\ failureCount' \in [Registered -> Nat]
        /\ failureCount'[p] = failureCount[p]
    BY <1>2, <1>6, <2>1, RecordFailureEffect DEF Fail, Typed, TypeOK
  <2>3. Calling(p)' = Calling(p) \ {r}
    BY <1>1, <1>6, <2>1, <2>2, LoopEffect DEF Fail
  <2> QED  BY <1>1, <2>2, <2>3 DEF Out
<1> QED  BY <1>3, <1>4, <1>5, <1>6 DEF Next

\* A disabled provider with no call left in flight never comes back.
THEOREM OutStaysOut == Spec => OutForGood
<1>1. IInv /\ [Next]_vars => [\A p \in Registered : Out(p) => Out(p)']_vars
  BY OutStep DEF IInv
<1> QED  BY <1>1, Invariance, PTL DEF Spec, OutForGood

-----------------------------------------------------------------------------
\* The multiple of 100 at or below a number.
LEMMA Hundreds ==
  ASSUME NEW x \in Nat
  PROVE  \E i \in Nat : i % 100 = 0 /\ i <= x /\ x < i + 100
<1> DEFINE m == x % 100
<1>1. m \in 0 .. 99 /\ (x - m) % 100 = 0
  OBVIOUS
<1>2. m <= x
  <2>1. CASE x < 100
    <3>1. m = x
      BY <2>1
    <3> QED  BY <3>1
  <2>2. CASE x >= 100
    BY <1>1, <2>2
  <2> QED  BY <2>1, <2>2
<1> HIDE DEF m
<1>3. x - m \in Nat /\ x - m <= x /\ x < (x - m) + 100
  BY <1>1, <1>2
<1> QED  BY <1>1, <1>3

\* generateBatchEmbeddings() of both services asks for every text, and for each
\* in one HTTP call only, also when their number is a multiple of the slice's; no
\* call is made for nothing.
THEOREM SlicesPartition ==
  ASSUME NEW s \in Services, NEW n \in Nat
  PROVE  /\ \A k \in 1 .. n : \E i \in Starts(s, n) :
              /\ k \in Slice(s, n, i)
              /\ \A j \in Starts(s, n) : k \in Slice(s, n, j) => j = i
         /\ \A i \in Starts(s, n) : Slice(s, n, i) # {}
<1>1. s.batchSize \in {1, 100}
  BY DEF Services, OllamaEmbeddingService, OpenAIEmbeddingService
<1>2. ASSUME NEW k \in 1 .. n
      PROVE  \E i \in Starts(s, n) :
               /\ k \in Slice(s, n, i)
               /\ \A j \in Starts(s, n) : k \in Slice(s, n, j) => j = i
  <2>1. CASE s.batchSize = 1
    <3>1. k - 1 \in Starts(s, n) /\ k \in Slice(s, n, k - 1)
      BY <2>1 DEF Starts, Slice
    <3>2. \A j \in Starts(s, n) : k \in Slice(s, n, j) => j = k - 1
      BY <2>1 DEF Starts, Slice
    <3> QED  BY <3>1, <3>2
  <2>2. CASE s.batchSize = 100
    <3>1. PICK i \in Nat : i % 100 = 0 /\ i <= k - 1 /\ k - 1 < i + 100
      <4>1. k - 1 \in Nat
        OBVIOUS
      <4> QED  BY <4>1, Hundreds
    <3>2. i \in Starts(s, n) /\ k \in Slice(s, n, i)
      BY <2>2, <3>1 DEF Starts, Slice
    <3>3. ASSUME NEW j \in Starts(s, n), k \in Slice(s, n, j)
          PROVE  j = i
      <4>1. j \in Int /\ j % 100 = 0 /\ j < k /\ k <= j + 100
        BY <2>2, <3>3 DEF Starts, Slice
      <4> QED  BY <3>1, <4>1
    <3> QED  BY <3>2, <3>3
  <2> QED  BY <1>1, <2>1, <2>2
<1>3. ASSUME NEW i \in Starts(s, n)
      PROVE  Slice(s, n, i) # {}
  <2>1. i + 1 \in Slice(s, n, i)
    BY <1>1 DEF Starts, Slice
  <2> QED  BY <2>1
<1> QED  BY <1>2, <1>3
=============================================================================
