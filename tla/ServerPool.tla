----------------------------- MODULE ServerPool -----------------------------
(***************************************************************************)
(* What the execution manager promises its client, without module names,   *)
(* gates, messages or the run-time model: a pool of interchangeable        *)
(* servers of each type, of which at most one is starting and at most one  *)
(* is stopping, and which always serves once it serves at all.             *)
(***************************************************************************)
EXTENDS Integers

CONSTANTS
  Kind,       \* the types of server
  None,       \* no type
  Capacity    \* [Kind -> Nat]: the most servers of each type

VARIABLES
  serving,    \* servers of each type that get jobs
  starting,   \* type of the server that is booting, or None
  stopping    \* type of the server that finishes its jobs before it goes, or None

poolVars == <<serving, starting, stopping>>

Count(t) ==
  serving[t] + (IF starting = t THEN 1 ELSE 0) + (IF stopping = t THEN 1 ELSE 0)

SomeOtherServes(t) == serving[t] > 1 \/ \E s \in Kind \ {t} : serving[s] > 0

Init ==
  /\ serving = [t \in Kind |-> 0]
  /\ starting = None
  /\ stopping = None

Idle == starting = None /\ stopping = None

(* A server that is there from the start, or boots in no time.             *)
Serve(t) ==
  /\ Idle
  /\ Count(t) < Capacity[t]
  /\ serving' = [serving EXCEPT ![t] = @ + 1]
  /\ UNCHANGED <<starting, stopping>>

BeginStart(t) ==
  /\ Idle
  /\ Count(t) < Capacity[t]
  /\ starting' = t
  /\ UNCHANGED <<serving, stopping>>

FinishStart ==
  /\ starting # None
  /\ serving' = [serving EXCEPT ![starting] = @ + 1]
  /\ starting' = None
  /\ UNCHANGED stopping

CancelStart ==
  /\ starting # None
  /\ stopping = None
  /\ stopping' = starting
  /\ starting' = None
  /\ UNCHANGED serving

(* The server that stops gets no new job from this moment, and another one *)
(* does.                                                                   *)
BeginStop(t) ==
  /\ Idle
  /\ serving[t] > 0
  /\ SomeOtherServes(t)
  /\ serving' = [serving EXCEPT ![t] = @ - 1]
  /\ stopping' = t
  /\ UNCHANGED starting

FinishStop ==
  /\ stopping # None
  /\ stopping' = None
  /\ UNCHANGED <<serving, starting>>

Next ==
  \/ \E t \in Kind : Serve(t)
  \/ \E t \in Kind : BeginStart(t)
  \/ FinishStart
  \/ CancelStart
  \/ \E t \in Kind : BeginStop(t)
  \/ FinishStop

SafeSpec == Init /\ [][Next]_poolVars

(* A start that is not cancelled and a stop both come to an end.           *)
Spec == SafeSpec /\ WF_poolVars(FinishStart) /\ WF_poolVars(FinishStop)

=============================================================================
