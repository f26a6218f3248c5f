----------------------------- MODULE Accounting -----------------------------
(***************************************************************************)
(* How a job becomes revenue: the server writes down which type serves the *)
(* job (MTServerAdvance.cc, HPModel.cc), the classifier picks a sink by    *)
(* the kind of the job, the sink emits the signals lifeTime and then       *)
(* jobCompletion (Sink.cc), the monitor adds up response times and revenue *)
(* of the period (HPMonitor.cc, UtilityScorer.cc), and an external manager *)
(* may reset the revenue in between (AdaptInterface.cc).                   *)
(*                                                                         *)
(* Queues and threads are those of module AppServer; here a job just waits *)
(* any time before its server takes it, and runs for at least one tick.    *)
(***************************************************************************)
EXTENDS Integers, FiniteSetsExt

CONSTANTS
  Job,                 \* names of jobs
  ServingType,         \* types of servers
  NoServingType,       \* ServerType::NONE
  Revenue,             \* [Type -> [low: Int, normal: Int]]: dimmer_revenue_t, normal_revenue_t
  Cost,                \* [Type -> Int]: servert_cost_sec
  Penalty,             \* penalty
  Threshold,           \* RT_THRESHOLD
  Timeout,             \* timeout of the servers, 0 for none
  AccountPeriod,       \* evaluationPeriod
  ConfiguredServers,   \* [Type -> Nat]: getServers of the configuration
  MaxAccountTime       \* bound on the clock of a run

ASSUME TypesAssumption == NoServingType \notin ServingType
ASSUME MoneyAssumption ==
  /\ Revenue \in [ServingType -> [low: Int, normal: Int]] /\ Cost \in [ServingType -> Int]
  /\ ConfiguredServers \in [ServingType -> Nat] /\ Penalty \in Int
ASSUME AccountTimesAssumption ==
  /\ Threshold \in Nat \ {0} /\ Timeout \in Nat
  /\ AccountPeriod \in Nat \ {0} /\ MaxAccountTime \in Nat

(* A job that a server passes on unserved is too late to earn revenue.     *)
ASSUME TimeoutAssumption == Timeout = 0 \/ Timeout > Threshold

VARIABLES
  accountClock,     \* simTime()
  accountEventAt,   \* when periodEvent is scheduled
  place,            \* where each job is: "none", "queue", "server", "done"
  created,          \* getCreationTime of each job
  started,          \* when its service began
  kind,             \* getKind: 0, or 1 for low fidelity
  jobServeInfo,     \* the type that served it, NoType if it is not in the map
  latest,           \* latestJobResponseTime
  cumulative,       \* responseTimeCumulativePeriod
  count,            \* responseTimeCountPeriod
  revenue,          \* requestUtilityCumulative
  avgResponse,      \* observations.avgResponseTime, as <<sum, count>>
  utility,          \* the last periodUtility
  fault             \* "assertion" once an assert has failed

jobVars == <<place, created, started, kind, jobServeInfo>>
periodVars == <<cumulative, count, revenue>>
reportVars == <<avgResponse, utility>>
accountVars == <<accountClock, accountEventAt, jobVars, latest, periodVars, reportVars, fault>>

AccountInit ==
  /\ accountClock = 0 /\ accountEventAt = AccountPeriod
  /\ place = [j \in Job |-> "none"]
  /\ created = [j \in Job |-> 0] /\ started = [j \in Job |-> 0]
  /\ kind = [j \in Job |-> 0]
  /\ jobServeInfo = [j \in Job |-> NoServingType]
  /\ latest = 0
  /\ cumulative = 0 /\ count = 0 /\ revenue = 0
  /\ avgResponse = <<0, 0>> /\ utility = 0
  /\ fault = "none"

AccountRunning == fault = "none"

(***************************************************************************)
(* UtilityScorer                                                           *)
(***************************************************************************)

InTime(rt) == rt > 0 /\ rt <= Threshold

(* Seeded fault: a late job earns nothing, instead of the penalty.         *)
GetRequestUtilityNoPenalty(rt, low, t) ==
  IF InTime(rt) THEN (IF low THEN Revenue[t].low ELSE Revenue[t].normal) ELSE 0

(* getRequestUtility(responseTime, lowService, serverType).                *)
GetRequestUtility(rt, low, t) ==
  IF InTime(rt) THEN (IF low THEN Revenue[t].low ELSE Revenue[t].normal) ELSE Penalty

(* Seeded fault: the type is looked up before the response time is tested. *)
ScorerAssertsFirst(rt, t) == t = NoServingType

(* The assert(false) of its switch.                                        *)
ScorerAsserts(rt, t) == InTime(rt) /\ t = NoServingType

TotalCost(t) == ConfiguredServers[t] * Cost[t] * AccountPeriod

(* getPeriodUtility(configuration, revenue, periodLength), for the three   *)
(* types.                                                                  *)
GetPeriodUtility(money) == money - MapThenSumSet(TotalCost, ServingType)

(***************************************************************************)
(* Jobs                                                                    *)
(***************************************************************************)

Create(j) ==
  /\ AccountRunning /\ place[j] = "none"
  /\ place' = [place EXCEPT ![j] = "queue"]
  /\ created' = [created EXCEPT ![j] = accountClock]
  /\ UNCHANGED <<accountClock, accountEventAt, started, kind, jobServeInfo, latest, periodVars,
                 reportVars, fault>>

(* MTServerAdvance::generateJobServiceTime: setJobServerInfo, and kind 1   *)
(* if the brownout draw wants it.                                          *)
Serve(j, t, k) ==
  /\ AccountRunning /\ place[j] = "queue"
  /\ Timeout = 0 \/ accountClock - created[j] < Timeout
  /\ fault' = (IF jobServeInfo[j] = NoServingType THEN "none" ELSE "assertion")
  /\ jobServeInfo' = [jobServeInfo EXCEPT ![j] = t]
  /\ kind' = [kind EXCEPT ![j] = k]
  /\ place' = [place EXCEPT ![j] = "server"]
  /\ started' = [started EXCEPT ![j] = accountClock]
  /\ UNCHANGED <<accountClock, accountEventAt, created, latest, periodVars, reportVars>>

(* HPModel::getJobServerInfo.                                              *)
GetJobServerInfo(j) == jobServeInfo[j]

(* Classifier: kind 0 goes to the one gate of `out`, the rest to sinkLow.  *)
Sink(j) == IF kind[j] = 0 THEN "sink" ELSE "sinkLow"

(* HPMonitor::receiveSignal for jobCompletion, with the response time rt.  *)
JobCompletion(j, rt) ==
  IF ScorerAsserts(rt, GetJobServerInfo(j))
  THEN fault' = "assertion" /\ UNCHANGED periodVars
  ELSE /\ cumulative' = cumulative + rt
       /\ count' = count + 1
       /\ revenue' = revenue + GetRequestUtility(rt, Sink(j) = "sinkLow", GetJobServerInfo(j))
       /\ UNCHANGED fault

(* Seeded fault: the sink emits jobCompletion first.                       *)
SinkReceivesCompletionFirst(j) ==
  /\ latest' = accountClock - created[j]
  /\ JobCompletion(j, latest)
  /\ place' = [place EXCEPT ![j] = "done"]

(* Sink::handleMessage: lifeTime sets latestJobResponseTime, which         *)
(* jobCompletion then uses.                                                *)
SinkReceives(j) ==
  /\ latest' = accountClock - created[j]
  /\ JobCompletion(j, latest')
  /\ place' = [place EXCEPT ![j] = "done"]

Complete(j) ==
  /\ AccountRunning /\ place[j] = "server" /\ accountClock > started[j]
  /\ SinkReceives(j)
  /\ UNCHANGED <<accountClock, accountEventAt, created, started, kind, jobServeInfo, reportVars>>

(* MTServer::handleMessage passes on a job that has queued for too long.   *)
TimeOut(j) ==
  /\ AccountRunning /\ place[j] = "queue"
  /\ Timeout > 0 /\ accountClock - created[j] >= Timeout
  /\ SinkReceives(j)
  /\ UNCHANGED <<accountClock, accountEventAt, created, started, kind, jobServeInfo, reportVars>>

(***************************************************************************)
(* The period, the client, and the clock                                   *)
(***************************************************************************)

(* Seeded fault: the revenue is only reset by the external manager.        *)
PeriodEventKeepingRevenue ==
  /\ AccountRunning /\ accountClock = accountEventAt
  /\ avgResponse' = (IF count > 0 THEN <<cumulative, count>> ELSE <<0, 0>>)
  /\ utility' = GetPeriodUtility(revenue)
  /\ cumulative' = 0 /\ count' = 0
  /\ accountEventAt' = accountClock + AccountPeriod
  /\ UNCHANGED <<accountClock, jobVars, latest, revenue, fault>>

(* Seeded fault: the number of response times is not reset.                *)
PeriodEventKeepingCount ==
  /\ AccountRunning /\ accountClock = accountEventAt
  /\ avgResponse' = (IF count > 0 THEN <<cumulative, count>> ELSE <<0, 0>>)
  /\ utility' = GetPeriodUtility(revenue)
  /\ cumulative' = 0 /\ revenue' = 0
  /\ accountEventAt' = accountClock + AccountPeriod
  /\ UNCHANGED <<accountClock, jobVars, latest, count, fault>>

(* periodEvent in HPMonitor::handleMessage.                                *)
AccountPeriodEvent ==
  /\ AccountRunning /\ accountClock = accountEventAt
  /\ avgResponse' = (IF count > 0 THEN <<cumulative, count>> ELSE <<0, 0>>)
  /\ utility' = GetPeriodUtility(revenue)
  /\ cumulative' = 0 /\ count' = 0 /\ revenue' = 0
  /\ accountEventAt' = accountClock + AccountPeriod
  /\ UNCHANGED <<accountClock, jobVars, latest, fault>>

(* The command reset_revenue.                                              *)
ResetPeriodRevenue ==
  /\ AccountRunning
  /\ revenue' = 0
  /\ UNCHANGED <<accountClock, accountEventAt, jobVars, latest, cumulative, count, reportVars,
                 fault>>

AccountTick ==
  /\ AccountRunning /\ accountClock < MaxAccountTime /\ accountClock < accountEventAt
  /\ accountClock' = accountClock + 1
  /\ UNCHANGED <<accountEventAt, jobVars, latest, periodVars, reportVars, fault>>

AccountNext ==
  \/ \E j \in Job : Create(j)
  \/ \E j \in Job, t \in ServingType, k \in {0, 1} : Serve(j, t, k)
  \/ \E j \in Job : Complete(j)
  \/ \E j \in Job : TimeOut(j)
  \/ AccountPeriodEvent
  \/ ResetPeriodRevenue
  \/ AccountTick

AccountSpec == AccountInit /\ [][AccountNext]_accountVars

=============================================================================
