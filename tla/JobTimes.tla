------------------------------- MODULE JobTimes -------------------------------
(***************************************************************************)
(* The statistics a job carries through a network of queueinglib and       *)
(* reports at the Sink.  One job is followed from its Source through any   *)
(* sequence of Queues (or ResourceBasedQueues), PassiveQueues with their   *)
(* Servers, Delays, Allocates and Forks; how long it waits is up to the    *)
(* other jobs.  All these modules measure with the same two fields of the  *)
(* job, its timestamp and its sending time, which the next one overwrites. *)
(***************************************************************************)
EXTENDS Integers

CONSTANTS
  MaxVisits, MaxLifeTime  \* bounds on the modules a job visits and on the clock

ASSUME JobTimesAssumption == MaxVisits \in Nat /\ MaxLifeTime \in Nat

VARIABLES
  lifeClock,   \* simTime() since the creation of the job
  station,     \* where it is
  stamp,       \* its timestamp
  sendingTime, \* when it, or the message that ends its service, was scheduled
  totals,      \* totalQueueingTime, totalServiceTime and totalDelayTime
  queueCount, delayCount,
  visits,      \* history: modules visited
  spent,       \* history: ticks in which it waited, was served, delayed, forked
  queuesVisited \* history: Queues, ResourceBasedQueues and PassiveQueues visited

timesVars == <<lifeClock, station, stamp, sendingTime, totals, queueCount, delayCount,
               visits, spent, queuesVisited>>

TimeKind == {"queueing", "service", "delay"}

JobTimesInit ==
  /\ lifeClock = 0 /\ station = "onTheWay" /\ stamp = 0 /\ sendingTime = 0
  /\ totals = [kind \in TimeKind |-> 0]
  /\ queueCount = 0 /\ delayCount = 0
  /\ visits = 0
  /\ spent = [kind \in TimeKind \cup {"forked"} |-> 0]
  /\ queuesVisited = 0

Moves(from, to) == station = from /\ station' = to
Enters(to) == Moves("onTheWay", to) /\ visits < MaxVisits /\ visits' = visits + 1
AddTotal(kind, d) == totals' = [totals EXCEPT ![kind] = @ + d]
EntersQueue(to) == Enters(to) /\ queuesVisited' = queuesVisited + 1

(***************************************************************************)
(* Queue and ResourceBasedQueue                                            *)
(***************************************************************************)

(* arrival and startService of a job that finds the queue idle.            *)
QueueServesAtOnce ==
  /\ EntersQueue("served")
  /\ stamp' = lifeClock
  /\ UNCHANGED <<lifeClock, sendingTime, totals, queueCount, delayCount, spent>>

QueueInserts ==
  /\ EntersQueue("queued")
  /\ stamp' = lifeClock
  /\ queueCount' = queueCount + 1
  /\ UNCHANGED <<lifeClock, sendingTime, totals, delayCount, spent>>

(* Seeded fault: the timestamp stays that of the arrival.                  *)
StartServiceKeepingStamp ==
  /\ Moves("queued", "served")
  /\ AddTotal("queueing", lifeClock - stamp)
  /\ UNCHANGED <<lifeClock, stamp, sendingTime, queueCount, delayCount, visits, spent,
                 queuesVisited>>

StartService ==
  /\ Moves("queued", "served")
  /\ AddTotal("queueing", lifeClock - stamp)
  /\ stamp' = lifeClock
  /\ UNCHANGED <<lifeClock, sendingTime, queueCount, delayCount, visits, spent,
                 queuesVisited>>

EndServiceInQueue ==
  /\ Moves("served", "onTheWay")
  /\ AddTotal("service", lifeClock - stamp)
  /\ UNCHANGED <<lifeClock, stamp, sendingTime, queueCount, delayCount, visits, spent,
                 queuesVisited>>

(***************************************************************************)
(* PassiveQueue and Server                                                 *)
(***************************************************************************)

(* A job that finds an idle server is not counted by the queue.            *)
PassiveSendsThrough ==
  /\ EntersQueue("inServer")
  /\ stamp' = lifeClock /\ sendingTime' = lifeClock
  /\ UNCHANGED <<lifeClock, totals, queueCount, delayCount, spent>>

PassiveInserts ==
  /\ EntersQueue("inPassiveQueue")
  /\ stamp' = lifeClock
  /\ queueCount' = queueCount + 1
  /\ UNCHANGED <<lifeClock, sendingTime, totals, delayCount, spent>>

(* request counts the job once more, and the server begins at once.        *)
PassiveRequested ==
  /\ Moves("inPassiveQueue", "inServer")
  /\ queueCount' = queueCount + 1
  /\ AddTotal("queueing", lifeClock - stamp)
  /\ sendingTime' = lifeClock
  /\ UNCHANGED <<lifeClock, stamp, delayCount, visits, spent, queuesVisited>>

ServerEnds ==
  /\ Moves("inServer", "onTheWay")
  /\ AddTotal("service", lifeClock - sendingTime)
  /\ UNCHANGED <<lifeClock, stamp, sendingTime, queueCount, delayCount, visits, spent,
                 queuesVisited>>

(***************************************************************************)
(* Delay, Allocate, Fork and Join, Clone                                   *)
(***************************************************************************)

DelayBegins ==
  /\ Enters("delayed")
  /\ sendingTime' = lifeClock
  /\ UNCHANGED <<lifeClock, stamp, totals, queueCount, delayCount, spent, queuesVisited>>

DelayEnds ==
  /\ Moves("delayed", "onTheWay")
  /\ delayCount' = delayCount + 1
  /\ AddTotal("delay", lifeClock - sendingTime)
  /\ UNCHANGED <<lifeClock, stamp, sendingTime, queueCount, visits, spent, queuesVisited>>

(* An Allocate does not count the job as queued.                           *)
AllocateEnqueues ==
  /\ Enters("allocating")
  /\ stamp' = lifeClock
  /\ UNCHANGED <<lifeClock, sendingTime, totals, queueCount, delayCount, spent,
                 queuesVisited>>

AllocateDequeues ==
  /\ Moves("allocating", "onTheWay")
  /\ AddTotal("queueing", lifeClock - stamp)
  /\ UNCHANGED <<lifeClock, stamp, sendingTime, queueCount, delayCount, visits, spent,
                 queuesVisited>>

(* The job itself stays in the Fork until its sub-jobs are in the Join.    *)
ForkKeeps ==
  /\ Enters("forked")
  /\ UNCHANGED <<lifeClock, stamp, sendingTime, totals, queueCount, delayCount, spent,
                 queuesVisited>>

JoinSendsOn ==
  /\ Moves("forked", "onTheWay")
  /\ UNCHANGED <<lifeClock, stamp, sendingTime, totals, queueCount, delayCount, visits,
                 spent, queuesVisited>>

(* A copy of the job goes on from a Clone with all the job has gathered,   *)
(* and its time of creation; from here the copy is followed.               *)
CopyGoesOn ==
  /\ Enters("onTheWay")
  /\ UNCHANGED <<lifeClock, stamp, sendingTime, totals, queueCount, delayCount, spent,
                 queuesVisited>>

(***************************************************************************)
(* The end, and time                                                       *)
(***************************************************************************)

(* A full queue deletes the job; a Sink reports it first.                  *)
JobDropped ==
  /\ Enters("gone")
  /\ UNCHANGED <<lifeClock, stamp, sendingTime, totals, queueCount, delayCount, spent,
                 queuesVisited>>

SinkReports ==
  /\ Moves("onTheWay", "inSink")
  /\ UNCHANGED <<lifeClock, stamp, sendingTime, totals, queueCount, delayCount, visits,
                 spent, queuesVisited>>

SpendsOn(kind) == spent' = [spent EXCEPT ![kind] = @ + 1]

JobTick ==
  /\ lifeClock < MaxLifeTime
  /\ lifeClock' = lifeClock + 1
  /\ \/ station \in {"queued", "inPassiveQueue", "allocating"} /\ SpendsOn("queueing")
     \/ station \in {"served", "inServer"} /\ SpendsOn("service")
     \/ station = "delayed" /\ SpendsOn("delay")
     \/ station = "forked" /\ SpendsOn("forked")
  /\ UNCHANGED <<station, stamp, sendingTime, totals, queueCount, delayCount, visits,
                 queuesVisited>>

JobTimesNext ==
  \/ QueueServesAtOnce \/ QueueInserts \/ StartService \/ EndServiceInQueue
  \/ PassiveSendsThrough \/ PassiveInserts \/ PassiveRequested \/ ServerEnds
  \/ DelayBegins \/ DelayEnds
  \/ AllocateEnqueues \/ AllocateDequeues
  \/ ForkKeeps \/ JoinSendsOn \/ CopyGoesOn
  \/ JobDropped \/ SinkReports
  \/ JobTick

JobTimesSpec == JobTimesInit /\ [][JobTimesNext]_timesVars

(***************************************************************************)
(* Properties                                                              *)
(***************************************************************************)

(* Whatever way a job took, the totals it reports at the Sink are the      *)
(* times it really spent waiting, being served and being delayed, and with *)
(* the time in Forks, which nobody reports, they make up its lifeTime.     *)
TimesAddUp ==
  station = "inSink" =>
    /\ \A kind \in TimeKind : totals[kind] = spent[kind]
    /\ lifeClock = totals["queueing"] + totals["service"] + totals["delay"] + spent["forked"]

(* The queueCount a job reports at the Sink is "the number of queue        *)
(* modules visited by the job" (Job.msg).                                  *)
QueueCountIsVisits == station = "inSink" => queueCount = queuesVisited

(***************************************************************************)
(* The inductive invariant behind TimesAddUp.                              *)
(***************************************************************************)

TimesTypeOK ==
  /\ lifeClock \in Nat /\ stamp \in Nat /\ sendingTime \in Nat
  /\ totals \in [TimeKind -> Int]
  /\ spent \in [TimeKind \cup {"forked"} -> Int]

(* What the totals lack is the time since the field was set that the       *)
(* module measures with.                                                   *)
Balanced ==
  /\ IF station \in {"queued", "inPassiveQueue", "allocating"}
     THEN spent["queueing"] = totals["queueing"] + (lifeClock - stamp)
     ELSE spent["queueing"] = totals["queueing"]
  /\ station = "served" => spent["service"] = totals["service"] + (lifeClock - stamp)
  /\ station = "inServer" => spent["service"] = totals["service"] + (lifeClock - sendingTime)
  /\ station \notin {"served", "inServer"} => spent["service"] = totals["service"]
  /\ IF station = "delayed"
     THEN spent["delay"] = totals["delay"] + (lifeClock - sendingTime)
     ELSE spent["delay"] = totals["delay"]
  /\ lifeClock = spent["queueing"] + spent["service"] + spent["delay"] + spent["forked"]

TotalsInv == TimesTypeOK /\ Balanced

=============================================================================
