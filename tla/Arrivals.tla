------------------------------- MODULE Arrivals -------------------------------
(***************************************************************************)
(* Where jobs come from and how their rate is measured and predicted: a    *)
(* PredictableSource plays a trace of inter-arrival times, read from a file*)
(* of times or of rates (PredictableRateSource), or drawn when they are    *)
(* needed (PredictableRandomSource); ArrivalMonitor measures them,         *)
(* HPMonitor averages what was measured in a period and HPModel keeps the  *)
(* averages.                                                               *)
(*                                                                         *)
(* A timer or job has priority over the period message of its instant      *)
(* (ModulePriorities.h), and a job reaches the monitor in the instant it   *)
(* is created.  An average is the pair <<sum, count>>; <<0, 0>>, for which *)
(* the code has a NaN it turns to 0, is the average of nothing.  The rate  *)
(* of the random source and its trend are left to chance: what they decide *)
(* is how long an interval is and which of its periods stay quiet.         *)
(***************************************************************************)
EXTENDS Integers, SequencesExt, FiniteSetsExt

CONSTANTS
  InterArrival,     \* inter-arrival times of a trace
  TraceLength,      \* bound on the length of a trace
  RateLine,         \* lines of a file of rates: <<inter-arrival time, duration>>
  RandomInterval,   \* exponential(mean)
  RatePeriod,       \* PERIOD_LENGTH
  MaxQuietPeriods,  \* bound on the quiet periods in a row
  ArrivalPeriod,    \* evaluationPeriod
  MaxArrivalTime    \* bound on the clock of a run

ASSUME ArrivalsAssumption ==
  /\ InterArrival \subseteq Nat /\ TraceLength \in Nat
  /\ ArrivalPeriod \in Nat \ {0} /\ MaxArrivalTime \in Nat
  /\ RateLine \subseteq (Nat \ {0}) \X Nat /\ RandomInterval \subseteq Nat \ {0}
  /\ RatePeriod \in Nat /\ MaxQuietPeriods \in Nat

VARIABLES
  interArrivalTimes,  \* the trace
  arrivalTimes,       \* its sums
  nextArrivalIndex,   \* number of the trace entries whose timer was scheduled
  timeInPeriod,       \* of PredictableRandomSource, or NotRandom
  arrivalClock,       \* simTime()
  newJobTimer,        \* when it is scheduled, or NoTimer
  jobCounter,         \* jobs created
  firstArrival, lastArrivalTime,  \* of ArrivalMonitor
  interArrivalStats,  \* pInterArrivalStats of HPMonitor, as <<sum, count>>
  arrivalEvent,       \* when periodEvent is scheduled
  envRecord,          \* averages of the periods so far; the last is environment
  predicted           \* history: getPrediction for this period, when it began

traceVars == <<interArrivalTimes, arrivalTimes, timeInPeriod>>
sourceVars == <<traceVars, nextArrivalIndex, newJobTimer, jobCounter>>
monitorVars == <<firstArrival, lastArrivalTime, interArrivalStats>>
recordVars == <<arrivalEvent, envRecord, predicted>>
arrivalsVars == <<sourceVars, arrivalClock, monitorVars, recordVars>>

NoTimer == -1
NotRandom == -1
Nothing == <<0, 0>>
AddTo(average, value) == <<average[1] + value, average[2] + 1>>

(* PredictableSource::getPrediction over the given window, both ends       *)
(* included.  The entry before nextArrivalIndex is scheduled and has not   *)
(* happened; the first of all is left out, as ArrivalMonitor does.         *)
GetPrediction(times, gaps, next, start, duration) ==
  LET First == IF next > 1 THEN next ELSE 2
      InWindow == {i \in DOMAIN times : i >= First /\ times[i] >= start
                                         /\ times[i] <= start + duration}
  IN  <<MapThenSumSet(LAMBDA i : gaps[i], InWindow), Cardinality(InWindow)>>

(* What a source has generated, and what its preload reads from a file.    *)
Generated(gaps, inPeriod) ==
  [gaps |-> gaps, times |-> [i \in DOMAIN gaps |-> FoldSeq(+, 0, SubSeq(gaps, 1, i))],
   inPeriod |-> inPeriod]
FromTimes(gaps) == Generated(gaps, NotRandom)
FromRates(lines) ==
  FromTimes(FlattenSeq([i \in DOMAIN lines |->
              [k \in 1 .. (lines[i][2] + lines[i][1] - 1) \div lines[i][1] |-> lines[i][1]]]))

(* The random source, before anything is generated: a rate is to be drawn. *)
RandomSource == Generated(<<>>, RatePeriod)

(* generateArrival of the random source: a new rate is drawn when a period *)
(* of the rate is over, and when it is too low for the period to have an   *)
(* arrival the whole period is added to the inter-arrival time.            *)
GenerateArrival(src) ==
  IF src.inPeriod < RatePeriod
  THEN {Generated(Append(src.gaps, i), src.inPeriod + i) : i \in RandomInterval}
  ELSE {Generated(Append(src.gaps, quiet * RatePeriod + i), i) :
          quiet \in 0 .. MaxQuietPeriods, i \in RandomInterval}

(* What getPrediction of the random source may generate before it answers. *)
GenerateUntil(src, windowEnd) ==
  IF src.inPeriod = NotRandom THEN {src}
  ELSE FoldSeq(LAMBDA i, sources : UNION {IF Last(s.times) >= windowEnd THEN {s}
                                          ELSE GenerateArrival(s) : s \in sources},
               {src}, [i \in 1 .. windowEnd |-> i])

Source == [gaps |-> interArrivalTimes, times |-> arrivalTimes, inPeriod |-> timeInPeriod]
SourceBecomes(src) ==
  interArrivalTimes' = src.gaps /\ arrivalTimes' = src.times /\ timeInPeriod' = src.inPeriod

(* The prediction of the period that begins, and what it generates.        *)
PredictPeriod(src, next) ==
  \E after \in GenerateUntil(src, arrivalClock + ArrivalPeriod) :
    /\ SourceBecomes(after)
    /\ predicted' = GetPrediction(after.times, after.gaps, next, arrivalClock, ArrivalPeriod)

ArrivalsInit ==
  /\ interArrivalTimes = <<>> /\ arrivalTimes = <<>>
  /\ nextArrivalIndex = 0 /\ newJobTimer = NoTimer /\ timeInPeriod = NotRandom
  /\ jobCounter = 0
  /\ arrivalClock = 0
  /\ firstArrival = TRUE /\ lastArrivalTime = 0
  /\ interArrivalStats = Nothing
  /\ arrivalEvent = ArrivalPeriod
  /\ envRecord = <<>> /\ predicted = Nothing

(* preload and initialize: the trace is read, or its first entry drawn, and *)
(* its first timer set.                                                    *)
Preload(src) ==
  /\ interArrivalTimes = <<>> /\ arrivalClock = 0
  /\ nextArrivalIndex' = 1 /\ newJobTimer' = src.gaps[1]
  /\ PredictPeriod(src, 1)
  /\ UNCHANGED <<arrivalClock, jobCounter, monitorVars, arrivalEvent, envRecord>>

(* ArrivalMonitor::handleMessage, and the signal interArrival at HPMonitor. *)
ArrivalPasses ==
  /\ interArrivalStats' = IF firstArrival THEN interArrivalStats
                          ELSE AddTo(interArrivalStats, arrivalClock - lastArrivalTime)
  /\ firstArrival' = FALSE
  /\ lastArrivalTime' = arrivalClock

(* PredictableSource::handleMessage: the timer is set for the next entry   *)
(* and a job is created, or, without a next entry, neither.                *)
NewJob ==
  /\ newJobTimer = arrivalClock
  /\ nextArrivalIndex < Len(interArrivalTimes) \/ timeInPeriod # NotRandom
  /\ \E after \in IF nextArrivalIndex < Len(interArrivalTimes) THEN {Source}
                   ELSE GenerateArrival(Source) :
       /\ SourceBecomes(after)
       /\ nextArrivalIndex' = nextArrivalIndex + 1
       /\ newJobTimer' = arrivalClock + after.gaps[nextArrivalIndex']
  /\ jobCounter' = jobCounter + 1
  /\ ArrivalPasses
  /\ UNCHANGED <<arrivalClock, recordVars>>

SourceFinished ==
  /\ newJobTimer = arrivalClock
  /\ nextArrivalIndex = Len(interArrivalTimes) /\ timeInPeriod = NotRandom
  /\ newJobTimer' = NoTimer
  /\ UNCHANGED <<traceVars, nextArrivalIndex, jobCounter,
                 arrivalClock, monitorVars, recordVars>>

(* Seeded fault: the statistics of earlier periods stay in.                *)
MeasurePeriodKeepingStats ==
  /\ arrivalEvent = arrivalClock /\ newJobTimer # arrivalClock
  /\ envRecord' = Append(envRecord, interArrivalStats)
  /\ arrivalEvent' = arrivalClock + ArrivalPeriod
  /\ PredictPeriod(Source, nextArrivalIndex)
  /\ UNCHANGED <<nextArrivalIndex, newJobTimer, jobCounter, arrivalClock, monitorVars>>

(* The inter-arrival half of HPMonitor's periodEvent.                      *)
MeasurePeriod ==
  /\ arrivalEvent = arrivalClock /\ newJobTimer # arrivalClock
  /\ envRecord' = Append(envRecord, interArrivalStats)
  /\ interArrivalStats' = Nothing
  /\ arrivalEvent' = arrivalClock + ArrivalPeriod
  /\ PredictPeriod(Source, nextArrivalIndex)
  /\ UNCHANGED <<nextArrivalIndex, newJobTimer, jobCounter, arrivalClock, firstArrival, lastArrivalTime>>

ArrivalTick ==
  /\ interArrivalTimes # <<>>
  /\ arrivalClock < MaxArrivalTime
  /\ newJobTimer # arrivalClock /\ arrivalEvent # arrivalClock
  /\ arrivalClock' = arrivalClock + 1
  /\ UNCHANGED <<sourceVars, monitorVars, recordVars>>

ArrivalsNext ==
  \/ \E n \in 1 .. TraceLength : \E gaps \in [1 .. n -> InterArrival] : Preload(FromTimes(gaps))
  \/ \E lines \in RateLine \X RateLine : Preload(FromRates(lines))
  \/ \E src \in GenerateArrival(RandomSource) : Preload(src)
  \/ NewJob
  \/ SourceFinished
  \/ MeasurePeriod
  \/ ArrivalTick

(***************************************************************************)
(* Properties                                                              *)
(***************************************************************************)

(* What the source predicts for a period when the period begins is what    *)
(* the monitor has measured when it ends, over the same jobs, however the  *)
(* arrivals fall on its ends; except that the last entry of the trace is   *)
(* predicted and its job is never created (PredictableSource.cc:198).      *)
PredictionComesTrue ==
  [][Len(envRecord') > Len(envRecord) =>
       \/ Last(envRecord') = predicted
       \/ newJobTimer = NoTimer /\ Last(arrivalTimes) >= arrivalClock - ArrivalPeriod
          /\ predicted = AddTo(Last(envRecord'), Last(interArrivalTimes))]_arrivalsVars

=============================================================================
