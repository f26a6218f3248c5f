------------------------------ MODULE WindowStats ------------------------------
(***************************************************************************)
(* Statistics over a sliding window of simulated time (TimeWindowStats)    *)
(* and the probe that keeps one window for the arrivals, one for each kind *)
(* of response time and one for each server (SimProbe).                    *)
(*                                                                         *)
(* A window is a record of its entries, in order of time, of the cached    *)
(* statistics pStats, as <<sum, count>> or NotLoaded, and of lastValue.    *)
(* Servers come, work and go as MTServer reports them: the first signal of *)
(* a server is busy = false, and then busy = true and false take turns.    *)
(* The probe has no part in the removal of a server: its subscription to   *)
(* serverRemoved is commented out, so a server that is added again under a *)
(* name that was used before finds the old window.                         *)
(***************************************************************************)
EXTENDS Integers, SequencesExt, FiniteSetsExt

CONSTANTS
  ProbedServer,      \* names of servers
  WindowLength,      \* window
  CheckAfter,        \* ENTRIES_BETWEEN_CHECKS
  MaxWindowTime,     \* bound on the clock of a run
  MaxSignals,        \* bound on the signals of a run
  MaxMeasured        \* bound on the signals until the last value is recorded

ASSUME WindowAssumption ==
  /\ WindowLength \in Nat \ {0} /\ CheckAfter \in Nat
  /\ MaxWindowTime \in Nat /\ MaxSignals \in Nat /\ MaxMeasured \in Nat

VARIABLES
  windowClock,   \* simTime()
  measured,      \* arrival, basicResponseTime and optResponseTime
  utilization,   \* windows of the servers by name
  serving,       \* [server -> "gone", "idle" or "busy"]
  workTicks,     \* history: the ticks in which a server of a name worked
  sameName,      \* history: names that were given again after one had worked
  seen,          \* history: all that was recorded in each of measured
  signals        \* number of signals

windowVars == <<windowClock, measured, utilization, serving, workTicks, sameName,
                seen, signals>>

Measure == {"interArrival", "basic", "opt"}

NotLoaded == <<>>
NewWindow == [entries |-> <<>>, pStats |-> NotLoaded, lastValue |-> 0]
WindowStart == windowClock - WindowLength

(* removeOldEntries                                                        *)
RemoveOldEntries(w) ==
  LET kept == SelectSeq(w.entries, LAMBDA e : e.timestamp >= WindowStart)
  IN  [w EXCEPT !.entries = kept, !.pStats = IF kept = w.entries THEN @ ELSE NotLoaded]

(* Seeded fault: the statistics stay loaded.                               *)
RecordKeepingStats(w, value) ==
  LET checked == IF Len(w.entries) > CheckAfter THEN RemoveOldEntries(w) ELSE w
  IN  [checked EXCEPT !.entries = Append(@, [timestamp |-> windowClock, value |-> value]),
                      !.lastValue = value]

Record(w, value) ==
  LET checked == IF Len(w.entries) > CheckAfter THEN RemoveOldEntries(w) ELSE w
  IN  [entries |-> Append(checked.entries, [timestamp |-> windowClock, value |-> value]),
       pStats |-> NotLoaded, lastValue |-> value]

SumAndCount(entries) == <<FoldSeq(LAMBDA e, sum : e.value + sum, 0, entries), Len(entries)>>

(* loadStats, and what getAverage leaves behind.                           *)
LoadStats(w) ==
  IF w.pStats = NotLoaded /\ w.entries # <<>>
  THEN [w EXCEPT !.pStats = SumAndCount(w.entries)] ELSE w

(* getAverage, as sum and count                                            *)
GetAverage(w) ==
  LET valid == RemoveOldEntries(w)
  IN  IF valid.entries = <<>> THEN <<0, 0>> ELSE LoadStats(valid).pStats

(* getRate, as the count and the time it is divided by                     *)
GetRate(w) == <<Len(RemoveOldEntries(w).entries), Min({WindowLength, windowClock})>>

(* getPercentageAboveZero times the window: a busy period ends at an entry *)
(* of 0, and one that ends first has begun before the window.              *)
BusyTime(w) ==
  LET valid == RemoveOldEntries(w).entries
      Step(acc, e) ==
        [level |-> e.value,
         busy |-> CASE acc.level < 0 /\ e.value = 0 -> acc.busy + e.timestamp - WindowStart
                    [] acc.level > 0 /\ e.value = 0 -> acc.busy + e.timestamp - acc.start
                    [] OTHER -> acc.busy,
         start |-> IF acc.level <= 0 /\ e.value > 0 THEN e.timestamp ELSE acc.start]
      end == FoldLeft(Step, [level |-> -1, busy |-> 0, start |-> WindowStart], valid)
  IN  IF valid = <<>> THEN (IF w.lastValue > 0 THEN WindowLength ELSE 0)
      ELSE end.busy + (IF end.level > 0 THEN windowClock - end.start ELSE 0)

(* The initial servers are there, and their first signals are ignored.     *)
WindowInit ==
  /\ windowClock = 0
  /\ measured = [k \in Measure |-> NewWindow]
  /\ utilization = [s \in {} |-> NewWindow]
  /\ serving = [s \in ProbedServer |-> "idle"]
  /\ workTicks = [s \in ProbedServer |-> {}]
  /\ sameName = {}
  /\ seen = [k \in Measure |-> <<>>] /\ signals = 0

(* receiveSignal of busy: the first signal of a server the probe does not  *)
(* know is ignored when it says idle.                                      *)
BusySignal(s, value) ==
  utilization' =
    IF s \in DOMAIN utilization THEN [utilization EXCEPT ![s] = Record(@, value)]
    ELSE IF value = 1
    THEN [x \in DOMAIN utilization \cup {s} |->
            IF x = s THEN Record(NewWindow, value) ELSE utilization[x]]
    ELSE utilization

ServerChanges(s, before, after) ==
  /\ signals < MaxSignals /\ signals' = signals + 1
  /\ serving[s] = before /\ serving' = [serving EXCEPT ![s] = after]
  /\ UNCHANGED <<windowClock, measured, seen>>

ServerCreated(s) ==
  /\ ServerChanges(s, "gone", "idle")
  /\ BusySignal(s, 0)
  /\ sameName' = IF s \in DOMAIN utilization THEN sameName \cup {s} ELSE sameName
  /\ UNCHANGED workTicks

ServerStarts(s) ==
  ServerChanges(s, "idle", "busy") /\ BusySignal(s, 1) /\ UNCHANGED <<workTicks, sameName>>

ServerStops(s) ==
  ServerChanges(s, "busy", "idle") /\ BusySignal(s, 0) /\ UNCHANGED <<workTicks, sameName>>

ServerGone(s) ==
  ServerChanges(s, "idle", "gone") /\ UNCHANGED <<utilization, workTicks, sameName>>

(* A value is recorded in the window of kind k.                            *)
Measured(k, value) ==
  /\ signals < MaxMeasured /\ signals' = signals + 1
  /\ measured' = [measured EXCEPT ![k] = Record(@, value)]
  /\ seen' = [seen EXCEPT ![k] = Append(@, [timestamp |-> windowClock, value |-> value])]
  /\ UNCHANGED <<windowClock, utilization, serving, workTicks, sameName>>

(* receiveSignal of interArrival                                           *)
InterArrivalSignal(value) == Measured("interArrival", value)

(* receiveSignal of lifeTime, which sinkLow or another sink emits.         *)
LifeTimeSignal(sinkLow, t) == Measured(IF sinkLow THEN "basic" ELSE "opt", t)

(* getUpdatedObservations and getUpdatedEnvironment, which drop what is    *)
(* old; the averages load the statistics too.                              *)
Observe ==
  /\ \/ /\ utilization' = [s \in DOMAIN utilization |-> RemoveOldEntries(utilization[s])]
        /\ measured' = [k \in Measure |-> IF k = "interArrival" THEN measured[k]
                                          ELSE LoadStats(RemoveOldEntries(measured[k]))]
     \/ /\ measured' = [measured EXCEPT !["interArrival"] = RemoveOldEntries(@)]
        /\ UNCHANGED utilization
  /\ UNCHANGED <<windowClock, serving, workTicks, sameName, seen, signals>>

(* avgResponseTime of getUpdatedObservations, as sum and count: the two    *)
(* averages weighted with the two rates.                                   *)
Weighted(k) ==
  LET average == GetAverage(measured[k])
  IN  IF average[2] = 0 THEN 0 ELSE (average[1] * GetRate(measured[k])[1]) \div average[2]

AvgResponseTime ==
  <<Weighted("basic") + Weighted("opt"),
    GetRate(measured["basic"])[1] + GetRate(measured["opt"])[1]>>

WindowTick ==
  /\ windowClock < MaxWindowTime
  /\ windowClock' = windowClock + 1
  /\ workTicks' = [s \in ProbedServer |->
                     IF serving[s] = "busy" THEN workTicks[s] \cup {windowClock} ELSE workTicks[s]]
  /\ UNCHANGED <<measured, utilization, serving, sameName, seen, signals>>

WindowNext ==
  \/ \E s \in ProbedServer :
       ServerCreated(s) \/ ServerStarts(s) \/ ServerStops(s) \/ ServerGone(s)
  \/ InterArrivalSignal(1)
  \/ LifeTimeSignal(TRUE, 1) \/ LifeTimeSignal(TRUE, 2) \/ LifeTimeSignal(FALSE, 3)
  \/ Observe
  \/ WindowTick

WindowSpec == WindowInit /\ [][WindowNext]_windowVars

(***************************************************************************)
(* Properties                                                              *)
(***************************************************************************)

InWindow(values) == SelectSeq(values, LAMBDA e : e.timestamp >= WindowStart)

(* The time a server has worked in the window.                             *)
Worked(s) == Cardinality({tick \in workTicks[s] : tick >= WindowStart})

(* What the probe would answer now is what happened in the window: the     *)
(* number of arrivals recorded in it, the average of the response times of *)
(* all jobs in it, of both kinds together, whatever is cached for either,  *)
(* and the time each server has worked in it, also one added later, whose  *)
(* first signal is ignored; but not one with the name of a server that has *)
(* worked before it.                                                       *)
WindowIsExact ==
  /\ GetRate(measured["interArrival"])[1] = Len(InWindow(seen["interArrival"]))
  /\ AvgResponseTime = SumAndCount(InWindow(seen["basic"] \o seen["opt"]))
  /\ \A s \in DOMAIN utilization :
       s \notin sameName => BusyTime(utilization[s]) = Worked(s)

(* The busy time of every server is the time it has worked in the window,  *)
(* since the first signal of a new server, busy = false, "should not be    *)
(* recorded" (SimProbe.cc:105).                                            *)
BusyTimeIsExact ==
  \A s \in DOMAIN utilization : BusyTime(utilization[s]) = Worked(s)

================================================================================
