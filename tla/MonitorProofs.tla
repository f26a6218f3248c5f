---------------------------- MODULE MonitorProofs ----------------------------
(***************************************************************************)
(* Proofs about the measurement of utilization, for every set of servers   *)
(* and every period.                                                       *)
(***************************************************************************)
EXTENDS MonitorProperties, TLAPS

(* The inductive invariant holds at the start.                             *)
LEMMA InitLemma == MonitorInitH => MonitorInv
<1> SUFFICES ASSUME MonitorInitH PROVE MonitorInv
  OBVIOUS
<1>1. /\ monitorClock = 0 /\ periodEventAt = MonitorPeriod /\ periodPostEventAt = 0
      /\ alive = InitialServers /\ goneServers = {} /\ occupied = {} /\ settled = InitialServers
      /\ start = [s \in Server |-> 0] /\ busyTime = [s \in Server |-> 0]
      /\ busyPeriodStart = [s \in Server |-> 0] /\ isBusy = [s \in Server |-> FALSE]
      /\ worked = [s \in Server |-> 0]
  BY DEF MonitorInitH, MonitorInit
<1>2. InitialServers \subseteq Server /\ MonitorPeriod \in Nat \ {0}
  BY ServersAssumption, MonitorTimesAssumption
<1>3. \A s \in Server : /\ start[s] = 0 /\ busyTime[s] = 0 /\ busyPeriodStart[s] = 0
                       /\ worked[s] = 0 /\ ~isBusy[s]
  BY <1>1
<1>4. MonitorTypeOK
  BY <1>1, <1>2 DEF MonitorTypeOK
<1>5. EntryInv
  BY <1>1, <1>2, <1>3 DEF EntryInv
<1>6. PhaseInv
  BY <1>1, <1>2 DEF PhaseInv
<1>7. WorkInv /\ MeasuresWork
  BY <1>1, <1>2, <1>3 DEF WorkInv, MeasuresWork, BusyAmount
<1> QED
  BY <1>4, <1>5, <1>6, <1>7 DEF MonitorInv

(* A busy signal, a new module and a deletion leave the clock alone, so    *)
(* they change no server's measured amount but in the way it has worked.   *)
LEMMA SignalLemma ==
  ASSUME MonitorInv, MonitorNextH, NEW s \in Server,
         CreateServer(s) \/ GoBusy(s) \/ GoIdle(s) \/ DeleteServer(s)
  PROVE  MonitorInv'
<1>1. UNCHANGED monitorClockVars /\ settled' = settled \cap alive' /\ worked' = worked
  <2>1. UNCHANGED monitorClockVars
    BY DEF CreateServer, GoBusy, GoIdle, DeleteServer
  <2>2. worked \in [Server -> Nat] /\ monitorClock \in Nat /\ settled \subseteq alive
    BY DEF MonitorInv, MonitorTypeOK
  <2>3. monitorClock' = monitorClock /\ periodPostEventAt' = periodPostEventAt
    BY <2>1 DEF monitorClockVars
  <2>4. settled' = settled \cap alive'
    BY <2>3 DEF MonitorNextH
  <2>5. worked' = [x \in Server |-> worked[x]]
    BY <2>2, <2>3 DEF MonitorNextH
  <2> QED
    BY <2>1, <2>2, <2>4, <2>5
<1>2. CASE CreateServer(s)
  <2>1. MonitorTypeOK'
    BY <1>1, <1>2 DEF CreateServer, Idle, monitorClockVars, MonitorInv, MonitorTypeOK, EntryInv
  <2>2. EntryInv'
    BY <1>1, <1>2 DEF CreateServer, Idle, monitorClockVars, MonitorInv, MonitorTypeOK, EntryInv
  <2>3. PhaseInv' /\ WorkInv'
    BY <1>1, <1>2
       DEF CreateServer, Idle, monitorClockVars, MonitorInv, MonitorTypeOK, PhaseInv, WorkInv
  <2>4. MeasuresWork'
    BY <1>1, <1>2
       DEF CreateServer, Idle, monitorClockVars, MonitorInv, MonitorTypeOK, EntryInv, MeasuresWork,
                    BusyAmount
  <2> QED
    BY <2>1, <2>2, <2>3, <2>4 DEF MonitorInv
<1>3. CASE GoBusy(s)
  <2>1. MonitorTypeOK'
    BY <1>1, <1>3 DEF GoBusy, Busy, monitorClockVars, MonitorInv, MonitorTypeOK, EntryInv
  <2>2. EntryInv'
    BY <1>1, <1>3 DEF GoBusy, Busy, monitorClockVars, MonitorInv, MonitorTypeOK, EntryInv
  <2>3. PhaseInv' /\ WorkInv'
    BY <1>1, <1>3 DEF GoBusy, Busy, monitorClockVars, MonitorInv, MonitorTypeOK, PhaseInv, WorkInv
  <2>4. MeasuresWork'
    BY <1>1, <1>3
       DEF GoBusy, Busy, monitorClockVars, MonitorInv, MonitorTypeOK, EntryInv, MeasuresWork,
                    BusyAmount
  <2> QED
    BY <2>1, <2>2, <2>3, <2>4 DEF MonitorInv
<1>4. CASE GoIdle(s)
  <2>1. MonitorTypeOK'
    BY <1>1, <1>4 DEF GoIdle, Idle, monitorClockVars, MonitorInv, MonitorTypeOK, EntryInv
  <2>2. EntryInv'
    BY <1>1, <1>4 DEF GoIdle, Idle, monitorClockVars, MonitorInv, MonitorTypeOK, EntryInv
  <2>3. PhaseInv' /\ WorkInv'
    BY <1>1, <1>4 DEF GoIdle, Idle, monitorClockVars, MonitorInv, MonitorTypeOK, PhaseInv, WorkInv
  <2>4. MeasuresWork'
    BY <1>1, <1>4
       DEF GoIdle, Idle, monitorClockVars, MonitorInv, MonitorTypeOK, EntryInv, MeasuresWork,
                    BusyAmount
  <2> QED
    BY <2>1, <2>2, <2>3, <2>4 DEF MonitorInv
<1>5. CASE DeleteServer(s)
  BY <1>1, <1>5
     DEF DeleteServer, monitorClockVars, tableVars, MonitorInv, MonitorTypeOK, EntryInv, PhaseInv,
                    WorkInv, MeasuresWork, BusyAmount
<1> QED
  BY <1>2, <1>3, <1>4, <1>5

(* periodEvent reads, and erases only entries of modules that are gone.    *)
LEMMA PeriodEventLemma ==
  ASSUME MonitorInv, MonitorNextH, MonitorPeriodEvent
  PROVE  MonitorInv'
<1>1. /\ worked \in [Server -> Nat] /\ monitorClock \in Nat /\ settled \subseteq alive
      /\ MonitorPeriod \in Nat \ {0}
  BY MonitorTimesAssumption DEF MonitorInv, MonitorTypeOK
<1>2. /\ monitorClock' = monitorClock /\ periodPostEventAt' = periodPostEventAt /\ periodEventAt' = monitorClock + MonitorPeriod
      /\ monitorClock = periodEventAt /\ UNCHANGED usageVars
  BY DEF MonitorPeriodEvent
<1>3. settled' = settled /\ worked' = worked
  <2>1. worked' = [x \in Server |-> worked[x]]
    BY <1>1, <1>2 DEF MonitorNextH
  <2>2. settled' = settled \cap alive'
    BY <1>2 DEF MonitorNextH
  <2> QED
    BY <1>1, <1>2, <2>1, <2>2 DEF usageVars
<1>4. periodEventAt = periodPostEventAt /\ periodPostEventAt \in Nat
  BY <1>1, <1>2 DEF MonitorInv, MonitorTypeOK, PhaseInv
<1>5. \A s \in alive : s \in Server /\ s \notin goneServers
  BY DEF MonitorInv, MonitorTypeOK, EntryInv
<1>6. \A s \in alive : /\ start'[s] = start[s] /\ busyTime'[s] = busyTime[s]
                       /\ busyPeriodStart'[s] = busyPeriodStart[s]
                       /\ isBusy'[s] = (isBusy[s] /\ TRUE)
  BY <1>5 DEF MonitorPeriodEvent, ResetAndErase
<1>7. MonitorTypeOK'
  BY <1>1, <1>2, <1>3 DEF MonitorPeriodEvent, ResetAndErase, MonitorInv, MonitorTypeOK, usageVars
<1>8. EntryInv'
  BY <1>1, <1>2, <1>5
     DEF MonitorPeriodEvent, ResetAndErase, MonitorInv, MonitorTypeOK, EntryInv, usageVars
<1>9. PhaseInv'
  BY <1>1, <1>2, <1>3, <1>4 DEF PhaseInv
<1>10. WorkInv' /\ MeasuresWork'
  BY <1>1, <1>2, <1>3, <1>6 DEF MonitorInv, MonitorTypeOK, WorkInv, MeasuresWork, BusyAmount
<1> QED
  BY <1>7, <1>8, <1>9, <1>10 DEF MonitorInv

(* periodPostEvent starts the measurement and the history afresh.          *)
LEMMA PeriodPostEventLemma ==
  ASSUME MonitorInv, MonitorNextH, PeriodPostEvent
  PROVE  MonitorInv'
<1>1. /\ monitorClock \in Nat /\ periodPostEventAt \in Nat /\ periodEventAt \in Nat
      /\ MonitorPeriod \in Nat \ {0}
  BY MonitorTimesAssumption DEF MonitorInv, MonitorTypeOK
<1>2. /\ monitorClock' = monitorClock /\ periodPostEventAt' = monitorClock + MonitorPeriod /\ periodEventAt' = periodEventAt
      /\ monitorClock = periodPostEventAt /\ monitorClock < periodEventAt /\ UNCHANGED usageVars
  BY DEF PeriodPostEvent, PostEventIsNext
<1>3. periodEventAt = periodPostEventAt + MonitorPeriod
  BY <1>1, <1>2 DEF MonitorInv, PhaseInv
<1>4. settled' = alive /\ worked' = [s \in Server |-> 0] /\ alive' = alive
  BY <1>1, <1>2 DEF MonitorNextH, usageVars
<1>5. \A s \in alive : s \in Server /\ s \notin goneServers
  BY DEF MonitorInv, MonitorTypeOK, EntryInv
<1>6. \A s \in alive : /\ start'[s] = monitorClock /\ busyTime'[s] = 0 /\ busyPeriodStart'[s] = monitorClock
  BY <1>5 DEF PeriodPostEvent, ResetAndErase
<1>7. MonitorTypeOK'
  BY <1>1, <1>2, <1>4 DEF PeriodPostEvent, ResetAndErase, MonitorInv, MonitorTypeOK, usageVars
<1>8. EntryInv'
  BY <1>1, <1>2, <1>5
     DEF PeriodPostEvent, ResetAndErase, MonitorInv, MonitorTypeOK, EntryInv, usageVars
<1>9. PhaseInv'
  BY <1>1, <1>2, <1>3, <1>4, <1>6 DEF PhaseInv
<1>10. WorkInv' /\ MeasuresWork'
  BY <1>1, <1>2, <1>4, <1>5, <1>6 DEF WorkInv, MeasuresWork, BusyAmount
<1> QED
  BY <1>7, <1>8, <1>9, <1>10 DEF MonitorInv

(* While time passes, the busy servers work and are measured alike.        *)
LEMMA TickLemma ==
  ASSUME MonitorInv, MonitorNextH, MonitorTick
  PROVE  MonitorInv'
<1>1. /\ worked \in [Server -> Nat] /\ monitorClock \in Nat /\ settled \subseteq alive
      /\ periodEventAt \in Nat /\ periodPostEventAt \in Nat
      /\ alive \subseteq Server
  BY DEF MonitorInv, MonitorTypeOK
<1>2. /\ monitorClock' = monitorClock + 1 /\ UNCHANGED <<periodEventAt, periodPostEventAt, usageVars, tableVars>>
      /\ monitorClock < periodEventAt /\ monitorClock < periodPostEventAt
  BY DEF MonitorTick
<1>3. settled' = settled
  BY <1>1, <1>2 DEF MonitorNextH, usageVars
<1>4. worked' = [s \in Server |-> IF s \in occupied THEN worked[s] + 1 ELSE worked[s]]
  BY <1>1, <1>2 DEF MonitorNextH
<1>5. MonitorTypeOK'
  BY <1>1, <1>2, <1>3, <1>4 DEF MonitorInv, MonitorTypeOK, usageVars, tableVars
<1>6. EntryInv'
  BY <1>1, <1>2 DEF MonitorInv, MonitorTypeOK, EntryInv, usageVars, tableVars
<1>7. PhaseInv'
  BY <1>1, <1>2, <1>3 DEF MonitorInv, PhaseInv, tableVars
<1>8. WorkInv'
  BY <1>1, <1>2, <1>3, <1>4 DEF MonitorInv, MonitorTypeOK, WorkInv, tableVars
<1>9. MeasuresWork'
  BY <1>1, <1>2, <1>3, <1>4
     DEF MonitorInv, MonitorTypeOK, EntryInv, MeasuresWork, BusyAmount, tableVars
<1> QED
  BY <1>5, <1>6, <1>7, <1>8, <1>9 DEF MonitorInv

(* A step that changes nothing preserves the invariant.                    *)
LEMMA StutterLemma == MonitorInv /\ UNCHANGED <<measureVars, measureHistoryVars>> => MonitorInv'
  BY DEF measureVars, monitorClockVars, usageVars, tableVars, measureHistoryVars, MonitorInv,
           MonitorTypeOK, EntryInv,
         PhaseInv, WorkInv, MeasuresWork, BusyAmount

(* The invariant of the monitor holds of every behaviour.                  *)
THEOREM MonitorInvariant == MonitorSpecH => []MonitorInv
<1>1. MonitorInv /\ MonitorNextH => MonitorInv'
  BY SignalLemma, PeriodEventLemma, PeriodPostEventLemma, TickLemma DEF MonitorNextH, MonitorNext
<1> QED
  BY <1>1, InitLemma, StutterLemma, PTL DEF MonitorSpecH

(* Once a server has seen a reset, ServerUtilization measures exactly the  *)
(* time the server has worked since the last one.                          *)
THEOREM MeasurementTheorem == MonitorSpecH => []MeasuresWork
  BY MonitorInvariant, PTL DEF MonitorInv

(* What periodEvent reports of such a server covers exactly one period,    *)
(* and no more busy time than that.                                        *)
THEOREM ReportTheorem == MonitorSpecH => ReportsOnePeriod
<1>1. ASSUME MonitorInv, MonitorNextH, periodEventAt' # periodEventAt
      PROVE  \A s \in settled : report'[s].length = MonitorPeriod /\ report'[s].busy \in 0 .. MonitorPeriod
  <2>1. MonitorPeriodEvent
    BY <1>1
       DEF MonitorNextH, MonitorNext, CreateServer, GoBusy, GoIdle, DeleteServer,
             PeriodPostEvent, MonitorTick,
                monitorClockVars
  <2>2. /\ monitorClock \in Nat /\ MonitorPeriod \in Nat \ {0} /\ settled \subseteq alive /\ alive \subseteq Server
        /\ start \in [Server -> Nat] /\ worked \in [Server -> Nat] /\ periodPostEventAt \in Nat
    BY <1>1, MonitorTimesAssumption DEF MonitorInv, MonitorTypeOK
  <2>3. monitorClock = periodEventAt
    BY <2>1 DEF MonitorPeriodEvent
  <2>4. \A s \in settled : start[s] + MonitorPeriod = monitorClock
    BY <1>1, <2>2, <2>3 DEF MonitorInv, PhaseInv
  <2>5. \A s \in settled : BusyAmount(s) = worked[s] /\ worked[s] <= monitorClock - start[s]
    BY <1>1 DEF MonitorInv, MeasuresWork, WorkInv
  <2>6. \A s \in settled : report'[s].length = monitorClock - start[s] /\ report'[s].busy = BusyAmount(s)
    BY <2>1, <2>2 DEF MonitorPeriodEvent, Length
  <2> QED
    BY <2>2, <2>4, <2>5, <2>6
<1>2. MonitorInv /\ [MonitorNextH]_<<measureVars, measureHistoryVars>> =>
        [periodEventAt' # periodEventAt =>
           \A s \in settled : /\ report'[s].length = MonitorPeriod
                              /\ report'[s].busy \in 0 .. MonitorPeriod]_<<measureVars, measureHistoryVars>>
  BY <1>1
<1> QED
  BY <1>2, MonitorInvariant, PTL DEF MonitorSpecH, ReportsOnePeriod

=============================================================================
