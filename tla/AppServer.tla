------------------------------ MODULE AppServer ------------------------------
(***************************************************************************)
(* The inside of one application server module (AppServer.ned): a          *)
(* PassiveQueue (src/queueinglib/PassiveQueue.cc) in front of an MTServer  *)
(* (src/src/modules/MTServer.cc) that serves `threads` jobs at a time by   *)
(* processor sharing, together with the manager's removal of the module.   *)
(*                                                                         *)
(* Queue and server call each other directly and send each other messages  *)
(* without delay, which are handled in the order they were sent, before    *)
(* time passes: `inFlight` is that part of the future event set.  An       *)
(* end-execution due in the same instant was scheduled before it, and is   *)
(* handled before them; a command of the client may come between two of    *)
(* them, because SocketRTScheduler gives it the time of the wall clock,    *)
(* and they may be ahead of that.  How much service a job still needs is   *)
(* left out, so any running jobs may be those that finish next; how long a *)
(* job has queued is kept as `late`.                                       *)
(***************************************************************************)
EXTENDS Integers, FiniteSets, Sequences, SequencesExt

CONSTANTS
  Jobs,           \* number of jobs of a run; job j is the j-th to arrive
  Threads,        \* the threads parameter of the server
  Capacity,       \* the capacity parameter of the queue, -1 for no limit
  JobTimeouts,    \* whether the timeout parameter is positive
  Burst           \* how many jobs may arrive while messages are on their way

ASSUME SizesAssumption == Jobs \in Nat /\ Threads \in Nat \ {0}
ASSUME CapacityAssumption == Capacity \in Int /\ Capacity # 0
ASSUME OptionsAssumption == JobTimeouts \in BOOLEAN /\ Burst \in Nat

VARIABLES
  arrived,     \* number of jobs that have arrived
  inFlight,    \* messages of the current instant: <<"queue" or "server", job>>
  joined,      \* jobs that arrived while messages were on their way
  queue,       \* jobs in the queue, the oldest first
  running,     \* runningJobs of the server
  late,        \* queued jobs whose queueing time has reached the timeout
  served, timedOut, dropped,   \* jobs that have left, by the way they left
  phase,       \* removal: "connected", "draining", "removing" or "gone"
  missed       \* history: jobs on their way to a module that was taken for empty

jobVars == <<running, late, served, timedOut, dropped>>
vars == <<arrived, inFlight, joined, queue, jobVars, phase, missed>>

Job == 1 .. Jobs

Init ==
  /\ arrived = 0
  /\ inFlight = <<>> /\ joined = 0
  /\ queue = <<>>
  /\ running = {}
  /\ late = {}
  /\ served = {} /\ timedOut = {} /\ dropped = {}
  /\ phase = "connected" /\ missed = {}

Carried(flight) == {flight[i][2] : i \in DOMAIN flight}

Inside == ToSet(queue) \cup running \cup Carried(inFlight)

(* The load balancer sends a job, as long as the module is connected.      *)
Arrive ==
  /\ phase = "connected"
  /\ arrived < Jobs
  /\ arrived' = arrived + 1
  /\ \/ inFlight = <<>> /\ joined' = 0
     \/ inFlight # <<>> /\ joined < Burst /\ joined' = joined + 1
  /\ inFlight' = Append(inFlight, <<"queue", arrived + 1>>)
  /\ UNCHANGED <<queue, jobVars, phase, missed>>

(* Seeded fault: one thread too many.                                      *)
AcceptsOneTooMany(r) == Cardinality(r) <= Threads

(* MTServer::isIdle, and the condition under which it asks for a job.      *)
IsIdle(r) == Cardinality(r) < Threads

(***************************************************************************)
(* PassiveQueue                                                            *)
(***************************************************************************)

(* handleMessage: drop the job, send it straight on, or queue it.          *)
QueueReceives(j) ==
  /\ inFlight # <<>>
  /\ Head(inFlight) = <<"queue", j>>
  /\ \/ /\ Capacity >= 0 /\ Len(queue) >= Capacity
        /\ dropped' = dropped \cup {j}
        /\ inFlight' = Tail(inFlight)
        /\ UNCHANGED queue
     \/ /\ ~(Capacity >= 0 /\ Len(queue) >= Capacity)
        /\ IsIdle(running)
        /\ inFlight' = Append(Tail(inFlight), <<"server", j>>)
        /\ UNCHANGED <<queue, dropped>>
     \/ /\ ~(Capacity >= 0 /\ Len(queue) >= Capacity)
        /\ ~IsIdle(running)
        /\ queue' = Append(queue, j)
        /\ inFlight' = Tail(inFlight)
        /\ UNCHANGED dropped
  /\ UNCHANGED <<arrived, joined, running, late, served, timedOut, phase, missed>>

(* Seeded fault: the newest job is taken.                                  *)
RequestNewest(r, flight) ==
  \/ /\ IsIdle(r) /\ queue # <<>>
     /\ queue' = Front(queue)
     /\ inFlight' = Append(flight, <<"server", Last(queue)>>)
  \/ /\ ~(IsIdle(r) /\ queue # <<>>)
     /\ inFlight' = flight
     /\ UNCHANGED queue

(* Seeded fault: the server asks for no job.                               *)
RequestNothing(r, flight) ==
  /\ inFlight' = flight
  /\ UNCHANGED queue

(* Asking the queue for a job at the end of MTServer::handleMessage, and   *)
(* PassiveQueue::request; r and flight are what the handler has left of    *)
(* runningJobs and of the messages.                                        *)
Request(r, flight) ==
  \/ /\ IsIdle(r) /\ queue # <<>>
     /\ queue' = Tail(queue)
     /\ inFlight' = Append(flight, <<"server", Head(queue)>>)
  \/ /\ ~(IsIdle(r) /\ queue # <<>>)
     /\ inFlight' = flight
     /\ UNCHANGED queue

(***************************************************************************)
(* MTServer                                                                *)
(***************************************************************************)

(* handleMessage of a job: pass it out if it has queued too long, else run *)
(* it; then ask for another one.                                           *)
ServerReceives(j) ==
  /\ inFlight # <<>>
  /\ Head(inFlight) = <<"server", j>>
  /\ \/ /\ j \in late
        /\ timedOut' = timedOut \cup {j}
        /\ late' = late \ {j}
        /\ Request(running, Tail(inFlight))
        /\ UNCHANGED running
     \/ /\ j \notin late
        /\ running' = running \cup {j}
        /\ Request(running', Tail(inFlight))
        /\ UNCHANGED <<timedOut, late>>
  /\ UNCHANGED <<arrived, joined, served, dropped, phase, missed>>

(* Seeded fault: completion of the removal without a look at the queue.    *)
IsEmptyOfRunning(r) == r = {}

(* HPExecutionManagerMod::isServerBeingRemoveEmpty                         *)
IsEmpty(r) == r = {} /\ queue = <<>>

(* Seeded fault: only an immediate removal ever completes.                 *)
IgnoreIdleSignal(r) == UNCHANGED phase

(* The signal busy = false, emitted when no job is left running, and the   *)
(* manager's receiveSignal: a removal completes if the module is empty.    *)
ReceiveIdleSignal(r) ==
  phase' = IF phase = "draining" /\ IsEmpty(r) THEN "removing" ELSE phase

(* handleMessage of end-execution: the finished jobs S leave, the signal   *)
(* is emitted if none is left, and the server asks for a job.  A job takes *)
(* time, and completeRemove does not wait.                                 *)
EndExecution(S) ==
  /\ inFlight = <<>> /\ joined' = 0
  /\ phase # "removing"
  /\ S # {} /\ S \subseteq running
  /\ running' = running \ S
  /\ served' = served \cup S
  /\ ReceiveIdleSignal(running')
  /\ Request(running', inFlight)
  /\ UNCHANGED <<arrived, late, timedOut, dropped, missed>>

(* Time passes until the oldest job that was not late is.                  *)
Age(j) ==
  /\ JobTimeouts
  /\ inFlight = <<>>
  /\ phase # "removing"
  /\ \E i \in DOMAIN queue :
       /\ queue[i] = j
       /\ j \notin late
       /\ \A k \in 1 .. i - 1 : queue[k] \in late
  /\ late' = late \cup {j}
  /\ UNCHANGED <<arrived, inFlight, joined, queue, running, served, timedOut, dropped,
                 phase, missed>>

(***************************************************************************)
(* Removal, by the manager                                                 *)
(***************************************************************************)

(* doRemoveServer disconnects the module, and completes at once if neither *)
(* the queue nor the server holds a job: a job on its way is not seen.     *)
RemoveServer ==
  /\ phase = "connected"
  /\ \/ /\ IsEmpty(running)
        /\ phase' = "removing" /\ missed' = Carried(inFlight)
     \/ /\ ~IsEmpty(running)
        /\ phase' = "draining" /\ UNCHANGED missed
  /\ UNCHANGED <<arrived, inFlight, joined, queue, jobVars>>

(* The module is deleted with everything it holds, and the messages to it. *)
CompleteRemoval ==
  /\ phase = "removing"
  /\ phase' = "gone"
  /\ inFlight' = <<>> /\ queue' = <<>> /\ running' = {} /\ late' = {}
  /\ UNCHANGED <<arrived, joined, served, timedOut, dropped, missed>>

Next ==
  \/ Arrive
  \/ \E j \in Job : QueueReceives(j)
  \/ \E j \in Job : ServerReceives(j)
  \/ \E S \in SUBSET Job : EndExecution(S)
  \/ \E j \in Job : Age(j)
  \/ RemoveServer
  \/ CompleteRemoval

Spec == Init /\ [][Next]_vars

(* Messages are delivered, an execution ends, a removal completes.         *)
Fairness ==
  /\ WF_vars(\E j \in Job : QueueReceives(j) \/ ServerReceives(j))
  /\ WF_vars(\E S \in SUBSET Job : EndExecution(S))
  /\ WF_vars(CompleteRemoval)

FairSpec == Spec /\ Fairness

=============================================================================
