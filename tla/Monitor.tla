------------------------------- MODULE Monitor -------------------------------
(***************************************************************************)
(* How the monitor (src/src/managers/monitor/HPMonitor.cc) measures the    *)
(* utilization of the servers: the busy signals of each server drive a     *)
(* ServerUtilization (src/src/util/ServerUtilization.cc), which            *)
(* periodEvent reads and periodPostEvent resets, once per period.          *)
(*                                                                         *)
(* The two period messages fall due at the same instants; their scheduling *)
(* priorities (ModulePriorities.h) order them.  Times are in ticks.        *)
(***************************************************************************)
EXTENDS Integers

CONSTANTS
  Server,           \* ids of the MTServer modules, never used twice
  InitialServers,   \* the servers HPModel::initialize adds
  MonitorPeriod,    \* evaluationPeriod
  MaxMonitorTime    \* bound on the clock of a run

ASSUME ServersAssumption == InitialServers \subseteq Server
ASSUME MonitorTimesAssumption == MonitorPeriod \in Nat \ {0} /\ MaxMonitorTime \in Nat

VARIABLES
  monitorClock,        \* simTime()
  periodEventAt,       \* when periodEvent is scheduled
  periodPostEventAt,   \* when periodPostEvent is scheduled
  alive,               \* servers that exist
  goneServers,         \* servers that have been deleted
  occupied,            \* servers whose runningJobs is not empty
  start,               \* the fields of utilizationTable[s], as of a fresh entry
  busyTime,            \*   where there is none
  busyPeriodStart,
  isBusy,
  report               \* what the last periodEvent read: [busy, length] of each server

tableVars == <<start, busyTime, busyPeriodStart, isBusy>>
usageVars == <<alive, goneServers, occupied>>
monitorClockVars == <<monitorClock, periodEventAt, periodPostEventAt>>
measureVars == <<monitorClockVars, usageVars, tableVars, report>>

MonitorInit ==
  /\ monitorClock = 0
  /\ periodEventAt = MonitorPeriod
  /\ periodPostEventAt = 0
  /\ alive = InitialServers /\ goneServers = {} /\ occupied = {}
  /\ start = [s \in Server |-> 0]
  /\ busyTime = [s \in Server |-> 0]
  /\ busyPeriodStart = [s \in Server |-> 0]
  /\ isBusy = [s \in Server |-> FALSE]
  /\ report = [s \in {} |-> [busy |-> 0, length |-> 0]]

(***************************************************************************)
(* ServerUtilization                                                       *)
(***************************************************************************)

Busy(s) ==
  /\ busyPeriodStart' = [busyPeriodStart EXCEPT ![s] = monitorClock]
  /\ isBusy' = [isBusy EXCEPT ![s] = TRUE]
  /\ UNCHANGED <<start, busyTime>>

(* Seeded fault: a busy period counts from the start of the period.        *)
IdleFromStart(s) ==
  /\ busyTime' = [busyTime EXCEPT ![s] = @ + monitorClock - start[s]]
  /\ isBusy' = [isBusy EXCEPT ![s] = FALSE]
  /\ UNCHANGED <<start, busyPeriodStart>>

Idle(s) ==
  /\ busyTime' = [busyTime EXCEPT ![s] = @ + monitorClock - busyPeriodStart[s]]
  /\ isBusy' = [isBusy EXCEPT ![s] = FALSE]
  /\ UNCHANGED <<start, busyPeriodStart>>

(* The two parts of the fraction that getUtilization returns.              *)
BusyAmount(s) == busyTime[s] + (IF isBusy[s] THEN monitorClock - busyPeriodStart[s] ELSE 0)
Length(s) == monitorClock - start[s]

(* reset of the servers of S; the entries of R are erased.                 *)
ResetAndErase(S, R) ==
  /\ start' = [s \in Server |->
       CASE s \in S -> monitorClock [] s \in R -> 0 [] OTHER -> start[s]]
  /\ busyPeriodStart' = [s \in Server |->
       CASE s \in S -> monitorClock [] s \in R -> 0 [] OTHER -> busyPeriodStart[s]]
  /\ busyTime' = [s \in Server |-> IF s \in S \cup R THEN 0 ELSE busyTime[s]]
  /\ isBusy' = [s \in Server |-> isBusy[s] /\ s \notin R]

(***************************************************************************)
(* Signals of the servers                                                  *)
(***************************************************************************)

(* A new server module is initialized and emits busy = false.              *)
CreateServer(s) ==
  /\ s \notin alive \cup goneServers
  /\ alive' = alive \cup {s}
  /\ Idle(s)
  /\ UNCHANGED <<monitorClockVars, goneServers, occupied, report>>

(* The first running job: busy = true.                                     *)
GoBusy(s) ==
  /\ s \in alive \ occupied
  /\ occupied' = occupied \cup {s}
  /\ Busy(s)
  /\ UNCHANGED <<monitorClockVars, alive, goneServers, report>>

(* The last running job ends: busy = false.                                *)
GoIdle(s) ==
  /\ s \in occupied
  /\ occupied' = occupied \ {s}
  /\ Idle(s)
  /\ UNCHANGED <<monitorClockVars, alive, goneServers, report>>

(* The manager deletes a module that holds no job.                         *)
DeleteServer(s) ==
  /\ s \in alive \ occupied
  /\ alive' = alive \ {s}
  /\ goneServers' = goneServers \cup {s}
  /\ UNCHANGED <<monitorClockVars, occupied, tableVars, report>>

(***************************************************************************)
(* HPMonitor::handleMessage                                                *)
(***************************************************************************)

(* periodEvent reads the utilization of the servers that exist, and erases *)
(* the others.                                                             *)
MonitorPeriodEvent ==
  /\ monitorClock = periodEventAt
  /\ report' = [s \in alive |-> [busy |-> BusyAmount(s), length |-> Length(s)]]
  /\ ResetAndErase({}, goneServers)
  /\ periodEventAt' = monitorClock + MonitorPeriod
  /\ UNCHANGED <<monitorClock, periodPostEventAt, usageVars>>

(* Seeded fault: the priorities of the two messages are swapped.           *)
PostEventIsFirst == monitorClock = periodPostEventAt

(* MONITOR_PRE_PRIO goes before MONITOR_POST_PRIO.                         *)
PostEventIsNext == monitorClock = periodPostEventAt /\ monitorClock < periodEventAt

(* periodPostEvent starts a new measurement period.                        *)
PeriodPostEvent ==
  /\ PostEventIsNext
  /\ ResetAndErase(alive, goneServers)
  /\ periodPostEventAt' = monitorClock + MonitorPeriod
  /\ UNCHANGED <<monitorClock, periodEventAt, usageVars, report>>

MonitorTick ==
  /\ monitorClock < MaxMonitorTime
  /\ monitorClock < periodEventAt /\ monitorClock < periodPostEventAt
  /\ monitorClock' = monitorClock + 1
  /\ UNCHANGED <<periodEventAt, periodPostEventAt, usageVars, tableVars, report>>

MonitorNext ==
  \/ \E s \in Server : CreateServer(s)
  \/ \E s \in Server : GoBusy(s)
  \/ \E s \in Server : GoIdle(s)
  \/ \E s \in Server : DeleteServer(s)
  \/ MonitorPeriodEvent
  \/ PeriodPostEvent
  \/ MonitorTick

MonitorSpec == MonitorInit /\ [][MonitorNext]_measureVars

=============================================================================
