------------------------------ MODULE Failover ------------------------------
(***************************************************************************)
(* What the model router promises its callers, without breakers, timers,    *)
(* usage counters or the event table: a request is either refused before    *)
(* any provider is asked, or the providers are taken strictly in their      *)
(* order, each at most once; the first that succeeds answers, and the       *)
(* request fails only when every one of them has been ruled out.            *)
(* ModelRouter implements this (ModelRouter!RefinesFailover).               *)
(***************************************************************************)
EXTENDS Integers, Sequences

CONSTANTS
  Requests,          \* slots for concurrent generate() calls
  Order              \* the providers, in the order they are to be asked

VARIABLES
  status,            \* "idle", "running", "answered", "failed" or "refused"
  ruledOut           \* how many providers, from the front, did not answer

vars == <<status, ruledOut>>

Init ==
  /\ status   = [r \in Requests |-> "idle"]
  /\ ruledOut = [r \in Requests |-> 0]

\* The first provider may be known to be out before it is asked.
Start(r) ==
  /\ status[r] # "running"
  /\ status' = [status EXCEPT ![r] = "running"]
  /\ \E n \in {0, 1} : ruledOut' = [ruledOut EXCEPT ![r] = n]

Refuse(r) ==
  /\ status[r] # "running"
  /\ status'   = [status EXCEPT ![r] = "refused"]
  /\ ruledOut' = [ruledOut EXCEPT ![r] = 0]

RuleOut(r) ==
  /\ status[r] = "running"
  /\ ruledOut[r] < Len(Order)
  /\ ruledOut' = [ruledOut EXCEPT ![r] = @ + 1]
  /\ UNCHANGED status

\* The answer comes from the provider after those ruled out.
Answer(r) ==
  /\ status[r] = "running"
  /\ ruledOut[r] < Len(Order)
  /\ status' = [status EXCEPT ![r] = "answered"]
  /\ UNCHANGED ruledOut

GiveUp(r) ==
  /\ status[r] = "running"
  /\ ruledOut[r] = Len(Order)
  /\ status' = [status EXCEPT ![r] = "failed"]
  /\ UNCHANGED ruledOut

Progress(r) == RuleOut(r) \/ Answer(r) \/ GiveUp(r)

Next == \E r \in Requests : Start(r) \/ Refuse(r) \/ Progress(r)

\* A request that was started is brought to an end.
Spec == Init /\ [][Next]_vars /\ \A r \in Requests : WF_vars(Progress(r))
=============================================================================
