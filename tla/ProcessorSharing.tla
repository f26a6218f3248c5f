--------------------------- MODULE ProcessorSharing ---------------------------
(***************************************************************************)
(* How an MTServer divides its processor: the jobs that run share it       *)
(* equally, each with its remainingServiceTime as if it were alone, and    *)
(* one message, endExecutionMsg, stands for the completion that is next.   *)
(* What was served is accounted for when the message arrives or has to be  *)
(* scheduled anew, from the time it was sent last.                         *)
(*                                                                         *)
(* Arrivals come one at a time, on a grid that is so coarse that all       *)
(* completions of a run fall on whole ticks; remaining times count shares  *)
(* of a tick.                                                              *)
(***************************************************************************)
EXTENDS Integers, SequencesExt, FiniteSetsExt

CONSTANTS
  MaxThreads,    \* threads
  Shares,        \* a number that 1 .. MaxThreads divide
  Grid,          \* distance of arrivals
  ServiceTime,   \* service times of jobs
  QueueTimeout,  \* timeout
  SharingJobs, LastArrival  \* bounds on the number of jobs and on their arrival

ASSUME SharingAssumption ==
  /\ MaxThreads \in Nat \ {0} /\ Grid \in Nat \ {0} /\ SharingJobs \in Nat
  /\ LastArrival \in Nat
  /\ \A n \in 1 .. MaxThreads : Shares % n = 0
  /\ ServiceTime \subseteq Nat \ {0} /\ QueueTimeout \in Nat

VARIABLES
  sharingClock,  \* simTime()
  demand,        \* service time of each job so far
  waitingLine,   \* [job, since] of the jobs in the queue
  handedOver,    \* [job, queueing] on its way to the server, or none
  runningJobs,   \* [job, remaining], sorted
  endExecution,  \* [sent, at]: getSendingTime() and the arrival of the message
  serviceTotal,  \* totalServiceTime of each job
  got,           \* history: the shares of the processor each job got
  startedAt, leftAt  \* history: when it began to run, and left after running

sharingVars == <<sharingClock, demand, waitingLine, handedOver, runningJobs, endExecution,
                 serviceTotal, got, startedAt, leftAt>>

Never == -1

SharingInit ==
  /\ sharingClock = 0
  /\ demand = <<>> /\ waitingLine = <<>> /\ handedOver = <<>> /\ runningJobs = <<>>
  /\ endExecution = [sent |-> 0, at |-> Never]
  /\ serviceTotal = <<>> /\ got = <<>> /\ startedAt = <<>> /\ leftAt = <<>>

Elapsed == sharingClock - endExecution.sent
IsRunning(j, jobs) == \E i \in DOMAIN jobs : jobs[i].job = j

(* updateJobTimes                                                          *)
UpdatedJobs ==
  [i \in DOMAIN runningJobs |->
     [runningJobs[i] EXCEPT !.remaining = @ - Elapsed * (Shares \div Len(runningJobs))]]
UpdatedTotals ==
  [j \in DOMAIN demand |-> IF IsRunning(j, runningJobs) THEN serviceTotal[j] + Elapsed
                           ELSE serviceTotal[j]]

(* runningJobs.push_back and sort, which is stable.                        *)
Inserted(jobs, new) ==
  LET ahead == {i \in DOMAIN jobs : jobs[i].remaining <= new.remaining}
  IN  InsertAt(jobs, Cardinality(ahead) + 1, new)

(* scheduleNextCompletion                                                  *)
Scheduled(jobs) ==
  [sent |-> sharingClock, at |-> sharingClock + (jobs[1].remaining * Len(jobs)) \div Shares]

(* The end of handleMessage: with a thread left a job is requested.        *)
RequestJob(jobs) ==
  IF Len(jobs) < MaxThreads /\ waitingLine # <<>>
  THEN /\ handedOver' = <<[job |-> Head(waitingLine).job,
                           queueing |-> sharingClock - Head(waitingLine).since]>>
       /\ waitingLine' = Tail(waitingLine)
  ELSE handedOver' = <<>> /\ UNCHANGED waitingLine

(* The queue sends a job on if the server isIdle.                          *)
JobComes(d) ==
  /\ Len(demand) < SharingJobs /\ sharingClock <= LastArrival
  /\ sharingClock % Grid = 0 /\ handedOver = <<>>
  /\ LET j == Len(demand) + 1
     IN  IF Len(runningJobs) < MaxThreads
         THEN handedOver' = <<[job |-> j, queueing |-> 0]>> /\ UNCHANGED waitingLine
         ELSE /\ waitingLine' = Append(waitingLine, [job |-> j, since |-> sharingClock])
              /\ UNCHANGED handedOver
  /\ demand' = Append(demand, d)
  /\ serviceTotal' = Append(serviceTotal, 0) /\ got' = Append(got, 0)
  /\ startedAt' = Append(startedAt, Never) /\ leftAt' = Append(leftAt, Never)
  /\ UNCHANGED <<sharingClock, runningJobs, endExecution>>

(* handleMessage for a job that has queued for too long: it is sent out.   *)
PassesOn ==
  /\ handedOver # <<>> /\ QueueTimeout > 0 /\ handedOver[1].queueing >= QueueTimeout
  /\ RequestJob(runningJobs)
  /\ UNCHANGED <<sharingClock, demand, runningJobs, endExecution, serviceTotal, got,
                 startedAt, leftAt>>

(* Seeded fault: the jobs that run are not brought up to date.             *)
JobStartsWithoutUpdate ==
  /\ handedOver # <<>> /\ (QueueTimeout > 0 => handedOver[1].queueing < QueueTimeout)
  /\ LET j == handedOver[1].job
     IN  /\ runningJobs' = Inserted(runningJobs, [job |-> j, remaining |-> demand[j] * Shares])
         /\ startedAt' = [startedAt EXCEPT ![j] = sharingClock]
  /\ endExecution' = Scheduled(runningJobs')
  /\ RequestJob(runningJobs')
  /\ UNCHANGED <<sharingClock, demand, serviceTotal, got, leftAt>>

(* handleMessage for any other job.                                        *)
JobStarts ==
  /\ handedOver # <<>> /\ (QueueTimeout > 0 => handedOver[1].queueing < QueueTimeout)
  /\ LET j == handedOver[1].job
     IN  /\ runningJobs' = Inserted(UpdatedJobs, [job |-> j, remaining |-> demand[j] * Shares])
         /\ startedAt' = [startedAt EXCEPT ![j] = sharingClock]
  /\ serviceTotal' = UpdatedTotals
  /\ endExecution' = Scheduled(runningJobs')
  /\ RequestJob(runningJobs')
  /\ UNCHANGED <<sharingClock, demand, got, leftAt>>

(* handleMessage for endExecutionMsg: all jobs that are done leave.        *)
ExecutionEnds ==
  /\ endExecution.at = sharingClock /\ handedOver = <<>>
  /\ runningJobs' = SelectSeq(UpdatedJobs, LAMBDA r : r.remaining > 0)
  /\ serviceTotal' = UpdatedTotals
  /\ endExecution' = IF runningJobs' = <<>> THEN [endExecution EXCEPT !.at = Never]
                     ELSE Scheduled(runningJobs')
  /\ leftAt' = [j \in DOMAIN demand |->
                  IF IsRunning(j, runningJobs) /\ ~IsRunning(j, runningJobs')
                  THEN sharingClock ELSE leftAt[j]]
  /\ RequestJob(runningJobs')
  /\ UNCHANGED <<sharingClock, demand, got, startedAt>>

(* Time goes on to the next completion or the next point of the grid.      *)
SharingAdvance ==
  /\ handedOver = <<>> /\ endExecution.at # sharingClock
  /\ sharingClock < LastArrival \/ runningJobs # <<>>
  /\ LET grid == Grid * (1 + sharingClock \div Grid)
         next == IF endExecution.at = Never THEN grid ELSE Min({grid, endExecution.at})
     IN  /\ sharingClock' = next
         /\ got' = [j \in DOMAIN demand |->
                      IF IsRunning(j, runningJobs)
                      THEN got[j] + (next - sharingClock) * (Shares \div Len(runningJobs))
                      ELSE got[j]]
  /\ UNCHANGED <<demand, waitingLine, handedOver, runningJobs, endExecution, serviceTotal,
                 startedAt, leftAt>>

SharingNext ==
  \/ \E d \in ServiceTime : JobComes(d)
  \/ PassesOn
  \/ JobStarts
  \/ ExecutionEnds
  \/ SharingAdvance

(***************************************************************************)
(* Properties                                                              *)
(***************************************************************************)

(* However jobs come and go, each leaves when its share of the processor   *)
(* has served what it asked for, no earlier and no later; the message is   *)
(* scheduled exactly while jobs run, for the moment the first of them is   *)
(* done; and the service time a job carries is the time it was in service. *)
ServesByShares ==
  /\ runningJobs # <<>> <=> endExecution.at # Never
  /\ endExecution.at # Never => endExecution.at >= sharingClock
  /\ \A i \in DOMAIN runningJobs :
       LET j == runningJobs[i].job
       IN  /\ runningJobs[i].remaining - Elapsed * (Shares \div Len(runningJobs))
                = demand[j] * Shares - got[j]
           /\ endExecution.at = sharingClock <=> \E k \in DOMAIN runningJobs :
                got[runningJobs[k].job] = demand[runningJobs[k].job] * Shares
  /\ \A j \in DOMAIN demand : leftAt[j] # Never =>
       got[j] = demand[j] * Shares /\ serviceTotal[j] = leftAt[j] - startedAt[j]

=============================================================================
