------------------------------- MODULE BootClock -------------------------------
(***************************************************************************)
(* The run-time model in time: HPModel keeps the time of the expected      *)
(* change, how many periods the boot has left (getConfiguration) and what  *)
(* was active an instant ago (getActiveServerCountIn), and the samples of  *)
(* planning problems encode the boot as a state (Utils.cc).  The state is  *)
(* that of module HPModel and the times it leaves out; the operations are  *)
(* put together from the calls that HPModel.cc and HPConfiguration.cc make.*)
(*                                                                         *)
(* The execution manager's part is reduced to its serial use: initial      *)
(* servers at time 0, one addition or removal at a time, and a BootComplete*)
(* scheduled for the time the model expects.                               *)
(***************************************************************************)
EXTENDS HPModel, Sequences, FiniteSetsExt

CONSTANTS
  BootDelay,         \* bootDelay
  EvaluationPeriod,  \* evaluationPeriod
  MaxModelTime, MaxChanges  \* bounds on the clock and on the changes in an instant

ASSUME BootClockAssumption ==
  /\ BootDelay \in Nat \ {0} /\ EvaluationPeriod \in Nat \ {0}
  /\ MaxModelTime \in Nat /\ MaxChanges \in Nat

VARIABLES
  modelClock,    \* simTime()
  eventTime,     \* time of the expected change in events, 0 without one
  bootRemain,    \* mBootRemain
  countLast,     \* activeServerCountLast of each type
  timeCountLast, \* timeActiveServerCountLast
  bootComplete,  \* the scheduled BootComplete: its type, or NoType
  before,        \* history: the active servers an instant ago
  changes        \* history: the types whose count has changed since, one by one

bootVars == <<modelClock, eventTime, bootRemain, countLast, timeCountLast, bootComplete,
              before, changes>>
clockVars == <<modelVars, bootVars>>

CeilDiv(a, b) == -((-a) \div b)

(* Seeded fault: a boot that is due has no periods left, though the server *)
(* may still boot.                                                         *)
RemainingPeriodsToZero ==
  IF IsServerBooting THEN CeilDiv(eventTime - modelClock, EvaluationPeriod) ELSE 0

(* The periods left of a boot, as getConfiguration brings them up to date. *)
RemainingPeriods ==
  IF IsServerBooting THEN Max({1, CeilDiv(eventTime - modelClock, EvaluationPeriod)}) ELSE 0

BootClockInit ==
  /\ ModelInit
  /\ modelClock = 0 /\ eventTime = 0 /\ bootRemain = 0
  /\ countLast = [t \in Type |-> 0] /\ timeCountLast = 0
  /\ bootComplete = NoType
  /\ before = [t \in Type |-> 0] /\ changes = <<>>

(***************************************************************************)
(* Calls within the operations                                             *)
(***************************************************************************)

AddExpectedChange(time, t) == events' = events \cup {t} /\ eventTime' = time

(* The last of the events; there is one at most.                           *)
RemoveExpectedChange == events' = {} /\ eventTime' = 0

SetBootRemain(n, t) ==
  /\ bootRemain' = n
  /\ bootType' = IF n = 0 THEN NoType ELSE IF t # NoType THEN t ELSE bootType

(* A change of the active servers ends the boot in the configuration.      *)
SetActiveServers(n, t) ==
  /\ active' = [active EXCEPT ![t] = n]
  /\ bootRemain' = 0 /\ bootType' = NoType

(* What serverBecameActive and removeServer remember of the count.         *)
CountChanges(t) ==
  /\ Len(changes) < MaxChanges
  /\ countLast' = [countLast EXCEPT ![t] = active[t]]
  /\ timeCountLast' = modelClock
  /\ changes' = Append(changes, t)

(***************************************************************************)
(* The operations                                                          *)
(***************************************************************************)

(* addServer(0, t) and serverBecameActive(t) at the start of the run.      *)
AddInitialServer(t) ==
  /\ modelClock = 0 /\ ~IsServerBooting /\ GetServers(t) < MaxServers[t]
  /\ CountChanges(t)
  /\ SetActiveServers(active[t] + 1, t)
  /\ UNCHANGED <<events, brownout, traffic, modelClock, eventTime, bootComplete, before>>

AddServer(t) ==
  /\ ~IsServerBooting /\ GetServers(t) < MaxServers[t]
  /\ AddExpectedChange(modelClock + BootDelay, t)
  /\ SetBootRemain(CeilDiv(BootDelay, EvaluationPeriod), t)
  /\ bootComplete' = t
  /\ UNCHANGED <<active, brownout, traffic, modelClock, countLast, timeCountLast, before,
                 changes>>

(* BootComplete: serverBecameActive.                                       *)
ServerBecameActive ==
  /\ bootComplete # NoType /\ eventTime = modelClock
  /\ CountChanges(bootComplete)
  /\ RemoveExpectedChange
  /\ SetActiveServers(active[bootComplete] + 1, bootComplete)
  /\ bootComplete' = NoType
  /\ UNCHANGED <<brownout, traffic, modelClock, before>>

(* The removal of the server that boots cancels its BootComplete and is    *)
(* completed by an event of the same instant.                              *)
CancelBoot ==
  /\ bootComplete # NoType
  /\ bootComplete' = NoType
  /\ UNCHANGED <<modelVars, modelClock, eventTime, bootRemain, countLast, timeCountLast,
                 before, changes>>

RemoveBootingServer ==
  /\ IsServerBooting /\ bootComplete = NoType
  /\ RemoveExpectedChange
  /\ SetBootRemain(0, NoType)
  /\ UNCHANGED <<active, brownout, traffic, modelClock, countLast, timeCountLast,
                 bootComplete, before, changes>>

RemoveActiveServer(t) ==
  /\ ~IsServerBooting /\ active[t] > 0
  /\ CountChanges(t)
  /\ SetActiveServers(active[t] - 1, t)
  /\ UNCHANGED <<events, brownout, traffic, modelClock, eventTime, bootComplete, before>>

(* getConfiguration: brings the periods left up to date.                   *)
GetConfiguration ==
  /\ SetBootRemain(RemainingPeriods, NoType)
  /\ UNCHANGED <<active, events, brownout, traffic, modelClock, eventTime, countLast,
                 timeCountLast, bootComplete, before, changes>>

Advance ==
  /\ modelClock < MaxModelTime
  /\ IsServerBooting => bootComplete # NoType /\ eventTime > modelClock
  /\ modelClock' = modelClock + 1
  /\ before' = active /\ changes' = <<>>
  /\ UNCHANGED <<modelVars, eventTime, bootRemain, countLast, timeCountLast, bootComplete>>

BootClockNext ==
  \/ \E t \in Type : AddInitialServer(t) \/ AddServer(t) \/ RemoveActiveServer(t)
  \/ ServerBecameActive
  \/ CancelBoot
  \/ RemoveBootingServer
  \/ GetConfiguration
  \/ Advance

(* removeExpiredEvents: what is left of the events; there is one at most.  *)
NotExpired == IF eventTime <= modelClock THEN {} ELSE events

(* getActiveServerCountIn(deltaTime, t).  A call with a time to come also  *)
(* leaves the model with NotExpired as its events.  It is no action here:  *)
(* its one call (HPMonitor.cc:234) is left out by #if MDL_RESPONSE_TIME.   *)
GetActiveServerCountIn(delta, t) ==
  IF delta < 0 THEN (IF timeCountLast < modelClock THEN active[t] ELSE countLast[t])
  ELSE active[t] + (IF t \in NotExpired /\ eventTime <= modelClock + delta THEN 1 ELSE 0)

(* writeInitialStateVariables, whose calls of getConfiguration bring the   *)
(* boot up to date: a row of a sample (the response time left out).  Only  *)
(* the type that boots has a state other than 0.                           *)
InitialStateVariables ==
  LET bootPeriods == BootDelay \div EvaluationPeriod
      addServerState == Min({bootPeriods - RemainingPeriods, bootPeriods})
  IN  [dimmer  |-> 1 + brownout,
       servers |-> active,
       adding  |-> [t \in Type |-> IF RemainingPeriods > 0 /\ t = bootType
                                  THEN addServerState ELSE 0],
       load    |-> traffic]

(***************************************************************************)
(* Properties                                                              *)
(***************************************************************************)

(* A boot is in the configuration from its command until its BootComplete  *)
(* or the end of its removal, with its type, so that no reader finds a     *)
(* boot without a type (Utils.cc:204) or the server neither booting nor    *)
(* active; the model foresees when it is active; an instant back it still  *)
(* knows the counts, if one server has changed; and the state of a sample  *)
(* counts, for the type that boots alone, the whole periods that have      *)
(* passed, without the odd first part of one, in which it is -1.           *)
BootIsForeseen ==
  /\ bootRemain > 0 <=> IsServerBooting
  /\ bootRemain > 0 <=> bootType # NoType
  /\ bootComplete # NoType =>
       /\ events = {bootComplete} /\ bootType = bootComplete
       /\ \A delta \in 0 .. BootDelay : eventTime > modelClock =>
            (GetActiveServerCountIn(delta, bootComplete) > active[bootComplete]
              <=> modelClock + delta >= eventTime)
       /\ LET elapsed == BootDelay - (eventTime - modelClock)
              whole == (elapsed - (BootDelay % EvaluationPeriod)) \div EvaluationPeriod
              adding == InitialStateVariables.adding
          IN  /\ adding[bootComplete] = Min({whole, BootDelay \div EvaluationPeriod - 1})
              /\ \A t \in Type \ {bootComplete} : adding[t] = 0
  /\ Len(changes) <= 1 => \A t \in Type :
       (changes = <<>> \/ t = changes[1]) => GetActiveServerCountIn(-1, t) = before[t]

(***************************************************************************)
(* The inductive invariant behind BootIsForeseen.                          *)
(***************************************************************************)

ClockTypeOK ==
  /\ active \in [Type -> Int] /\ before \in [Type -> Int] /\ countLast \in [Type -> Int]
  /\ events \subseteq Type /\ bootType \in Type \cup {NoType}
  /\ bootComplete \in Type \cup {NoType}
  /\ modelClock \in Nat /\ eventTime \in Nat /\ bootRemain \in Nat
  /\ timeCountLast \in 0 .. modelClock
  /\ changes \in Seq(Type)

(* The configuration, the expected change and the scheduled BootComplete   *)
(* speak of one boot, which ends within the boot delay.                    *)
OneBoot ==
  /\ bootRemain > 0 <=> IsServerBooting
  /\ bootRemain > 0 <=> bootType # NoType
  /\ bootComplete # NoType =>
       /\ events = {bootComplete} /\ bootType = bootComplete
       /\ eventTime \in modelClock .. modelClock + BootDelay

(* What is remembered of the last instant, unless two counts have changed. *)
Remembers ==
  /\ changes = <<>> => \A t \in Type :
       active[t] = before[t] /\ (timeCountLast = modelClock => countLast[t] = before[t])
  /\ Len(changes) = 1 => timeCountLast = modelClock
                         /\ countLast[changes[1]] = before[changes[1]]

ForesightInv == ClockTypeOK /\ OneBoot /\ Remembers

=============================================================================
