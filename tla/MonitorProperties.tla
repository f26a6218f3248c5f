-------------------------- MODULE MonitorProperties --------------------------
(***************************************************************************)
(* Properties of the measurement of utilization.  What a server has really *)
(* worked since the last reset is a history variable, kept beside the      *)
(* monitor's own bookkeeping.                                              *)
(***************************************************************************)
EXTENDS Monitor

VARIABLES
  worked,   \* time each server had a running job since it was last reset
  settled   \* servers that have been reset at least once, or exist since time 0

measureHistoryVars == <<worked, settled>>

MonitorInitH ==
  /\ MonitorInit
  /\ worked = [s \in Server |-> 0]
  /\ settled = InitialServers

MonitorNextH ==
  /\ MonitorNext
  /\ worked' = [s \in Server |->
       IF periodPostEventAt' # periodPostEventAt THEN 0
       ELSE IF s \in occupied THEN worked[s] + monitorClock' - monitorClock ELSE worked[s]]
  /\ settled' = (IF periodPostEventAt' # periodPostEventAt THEN alive ELSE settled) \cap alive'

MonitorSpecH == MonitorInitH /\ [][MonitorNextH]_<<measureVars, measureHistoryVars>>

(* Type correctness of the monitor.                                        *)
MonitorTypeOK ==
  /\ monitorClock \in Nat /\ periodEventAt \in Nat /\ periodPostEventAt \in Nat
  /\ alive \subseteq Server /\ goneServers \subseteq Server /\ occupied \subseteq alive
  /\ start \in [Server -> Nat]
  /\ busyTime \in [Server -> Nat]
  /\ busyPeriodStart \in [Server -> Nat]
  /\ isBusy \in [Server -> BOOLEAN]
  /\ worked \in [Server -> Nat] /\ settled \subseteq alive

(* The measured busy time of a server since the last reset is the time it  *)
(* has worked since then, across signals and period boundaries in any      *)
(* order (ServerUtilization.h:46), once the server has seen a reset.       *)
MeasuresWork == \A s \in settled : BusyAmount(s) = worked[s]

(* The same for every server, also in the period in which it is created.   *)
MeasuresWorkFromCreation == \A s \in alive : BusyAmount(s) = worked[s]

(* What periodEvent reports of a server that has seen a reset covers just  *)
(* the period before it: never an empty one (getUtilization divides by its *)
(* length), and the fraction is in [0,1] (ServerUtilization.h:48).         *)
ReportsOnePeriod ==
  [][periodEventAt' # periodEventAt =>
       \A s \in settled : /\ report'[s].length = MonitorPeriod
                          /\ report'[s].busy \in 0 .. MonitorPeriod
  ]_<<measureVars, measureHistoryVars>>

(***************************************************************************)
(* The inductive invariant behind them.                                    *)
(***************************************************************************)

(* The busy flag of an entry says whether the server runs jobs, and no     *)
(* recorded time lies in the future.                                       *)
EntryInv ==
  /\ alive \cap goneServers = {}
  /\ \A s \in Server : /\ (isBusy[s] <=> s \in occupied)
                       /\ busyPeriodStart[s] <= monitorClock
                       /\ start[s] <= monitorClock

(* Between the periods both messages are due at the same time, and the     *)
(* last reset was a period before; at their instant periodEvent is ahead.  *)
PhaseInv ==
  /\ monitorClock <= periodEventAt
  /\ \/ /\ periodEventAt = periodPostEventAt
        /\ \A s \in settled : start[s] + MonitorPeriod = periodEventAt
     \/ /\ periodEventAt = periodPostEventAt + MonitorPeriod
        /\ monitorClock = periodPostEventAt

(* No server has worked longer than it has been measured.                  *)
WorkInv == \A s \in settled : worked[s] <= monitorClock - start[s]

MonitorInv == MonitorTypeOK /\ EntryInv /\ PhaseInv /\ WorkInv /\ MeasuresWork

=============================================================================
