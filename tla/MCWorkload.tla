----------------------------- MODULE MCWorkload -----------------------------
(***************************************************************************)
(* The application server under two workloads: jobs that time out in an    *)
(* unlimited queue, and bursts of jobs at a bounded queue without timeout. *)
(***************************************************************************)
EXTENDS MCAppServer

VARIABLE workload   \* "steady" or "burst"

Bursts == INSTANCE AppServerProperties
            WITH Capacity <- 1, JobTimeouts <- FALSE, Burst <- 2

WorkloadInit == Init /\ workload \in {"steady", "burst"}

WorkloadNext ==
  \/ /\ workload = "steady" /\ Next
     /\ UNCHANGED workload
  \/ /\ workload = "burst" /\ Bursts!Next
     /\ UNCHANGED workload

workloadVars == <<vars, workload>>

(* Fairness of AppServer, for either workload.                             *)
WorkloadFairness ==
  /\ WF_workloadVars(\E j \in Job :
       /\ UNCHANGED workload
       /\ \/ workload = "steady" /\ QueueReceives(j)
          \/ workload = "burst" /\ Bursts!QueueReceives(j)
          \/ ServerReceives(j))
  /\ WF_workloadVars(UNCHANGED workload /\ \E S \in SUBSET Job : EndExecution(S))
  /\ WF_workloadVars(UNCHANGED workload /\ CompleteRemoval)

WorkloadSpec == WorkloadInit /\ [][WorkloadNext]_workloadVars /\ WorkloadFairness

(* ThreadLimit of AppServerProperties for either workload: jobs that come  *)
(* one at a time never exceed the threads (PassiveQueue.cc:59-70).         *)
ThreadsInUse ==
  IF workload = "steady" THEN ThreadLimit ELSE Bursts!ThreadLimit

(* Without timeouts every removal that has begun completes.                *)
BurstDrainCompletes == workload = "burst" /\ phase = "draining" ~> phase = "gone"

=============================================================================
