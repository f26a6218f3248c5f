----------------------------- MODULE ResourcePools -----------------------------
(***************************************************************************)
(* The resource pool of queueinglib and its users: a ResourceBasedQueue    *)
(* holds its amount while it serves a job, an Allocate takes its amount for*)
(* each job that passes, and the Deallocate behind it gives it back.       *)
(*                                                                         *)
(* release calls resourceGranted of the first waiting user before it       *)
(* returns, and that user may call tryToAllocate again before it returns,  *)
(* so that the operations are functions on the state of all that one       *)
(* handler of a message composes.  A job is its priority.                  *)
(***************************************************************************)
EXTENDS Integers, SequencesExt, FiniteSetsExt

CONSTANTS
  ResourceQueue, Allocator,  \* modules of the two kinds
  ResourceAmount,    \* [module -> Nat \ {0}]: resourceAmount
  ResourcePriority,  \* [module -> Int]: resourcePriority
  Capacity,          \* [module -> Int]: capacity, unbounded if negative
  Fifo,              \* [module -> BOOLEAN]: fifo
  PoolAmount,        \* amount of the pool
  JobPriority, MaxPoolJobs  \* priorities of jobs; bound on their number

User == ResourceQueue \cup Allocator

ASSUME PoolAssumption ==
  /\ IsFiniteSet(User) /\ PoolAmount \in Nat
  /\ ResourceQueue \cap Allocator = {}
  /\ ResourceAmount \in [User -> 1 .. PoolAmount]
  /\ Capacity \in [User -> Int]
  /\ MaxPoolJobs \in Nat

VARIABLES
  pool,        \* [amount, requests]: the amount left and allocatorList
  waitingJobs, \* the queue of each module
  held,        \* grants each module holds: jobServiced, or jobs not yet deallocated
  resourceAllocated, \* [queue -> BOOLEAN]: the flag a ResourceBasedQueue asserts
  wrongGrants, \* modules whose resourceGranted has failed its assertion
  wrongReleases, \* queues whose releaseResource has failed its assertion
  jobsSeen     \* number of arrivals

poolVars == <<pool, waitingJobs, held, resourceAllocated, wrongGrants, wrongReleases, jobsSeen>>

PoolInit ==
  /\ pool = [amount |-> PoolAmount, requests |-> <<>>]
  /\ waitingJobs = [a \in User |-> <<>>]
  /\ held = [a \in User |-> 0]
  /\ resourceAllocated = [a \in ResourceQueue |-> FALSE]
  /\ wrongGrants = {} /\ wrongReleases = {} /\ jobsSeen = 0

(* A failed assertion ends the run.                                        *)
PoolRuns == wrongGrants = {} /\ wrongReleases = {}

(* What the handlers pass on.                                              *)
Whole == [amount |-> pool.amount, requests |-> pool.requests, queue |-> waitingJobs,
          held |-> held, wrong |-> wrongGrants]

(* resourceAllocated is what the last tryToAllocate returned, for the      *)
(* queue of asking, and is set by resourceGranted; a release leaves it.    *)
Becomes(s, asking) ==
  /\ pool' = [amount |-> s.amount, requests |-> s.requests]
  /\ waitingJobs' = s.queue
  /\ held' = s.held
  /\ wrongGrants' = s.wrong
  /\ resourceAllocated' =
       [a \in ResourceQueue |-> IF a \in asking THEN s.held[a] > 0
                               ELSE resourceAllocated[a] \/ s.held[a] > held[a]]

(* ResourcePool::add: behind the last request whose priority is not larger. *)
AddRequest(requests, r) ==
  LET ahead == {i \in DOMAIN requests : requests[i].priority <= r.priority}
  IN  InsertAt(requests, Max(ahead \cup {0}) + 1, r)

(* tryToAllocate for a job of priority p; ok says what it returns.         *)
TryToAllocate(s, a, p) ==
  IF s.amount >= ResourceAmount[a]
  THEN [ok |-> TRUE, s |-> [s EXCEPT !.amount = @ - ResourceAmount[a]]]
  ELSE [ok |-> FALSE, s |-> [s EXCEPT !.requests =
         AddRequest(@, [allocator |-> a, priority |-> ResourcePriority[a] + p])]]

PeekJob(s, a) == IF Fifo[a] THEN Head(s.queue[a]) ELSE Last(s.queue[a])
Dequeued(s, a) == IF Fifo[a] THEN Tail(s.queue[a]) ELSE Front(s.queue[a])

(* The job at the front leaves the queue and holds the resource.           *)
TakeJob(s, a) == [s EXCEPT !.queue[a] = Dequeued(s, a), !.held[a] = @ + 1]

(* Allocate::resourceGranted goes on while there are jobs and amounts.     *)
TakeMoreJobs(s, a) ==
  LET Step(acc, i) ==
        IF ~acc.go \/ acc.s.queue[a] = <<>> THEN acc
        ELSE LET try == TryToAllocate(acc.s, a, PeekJob(acc.s, a))
             IN  [go |-> try.ok, s |-> IF try.ok THEN TakeJob(try.s, a) ELSE try.s]
  IN  FoldLeft(Step, [go |-> TRUE, s |-> s], s.queue[a]).s

(* resourceGranted of both kinds, with their assertions.                   *)
ResourceGranted(s, a) ==
  IF s.queue[a] = <<>> \/ (a \in ResourceQueue /\ s.held[a] > 0)
  THEN [s EXCEPT !.wrong = @ \cup {a}]
  ELSE IF a \in ResourceQueue THEN TakeJob(s, a) ELSE TakeMoreJobs(TakeJob(s, a), a)

(* Seeded fault: the request is not removed from the list.                 *)
ReleaseKeepingRequest(s, n) ==
  LET back == [s EXCEPT !.amount = @ + n]
      first == back.requests[1].allocator
  IN  IF back.requests = <<>> \/ ResourceAmount[first] > back.amount THEN back
      ELSE ResourceGranted([back EXCEPT !.amount = @ - ResourceAmount[first]], first)

(* release: grants the first request only, and then removes what is first  *)
(* in the list, which another request of that user may have become.        *)
Release(s, n) ==
  LET back == [s EXCEPT !.amount = @ + n]
      first == back.requests[1].allocator
      granted == ResourceGranted([back EXCEPT !.amount = @ - ResourceAmount[first]], first)
  IN  IF back.requests = <<>> \/ ResourceAmount[first] > back.amount THEN back
      ELSE IF granted.wrong # {} THEN granted
      ELSE [granted EXCEPT !.requests = Tail(@)]

(* A job that does not get the resource is queued, or dropped, with its    *)
(* request still in the list.                                              *)
EnqueueOrDrop(s, a, job) ==
  IF Capacity[a] >= 0 /\ Len(s.queue[a]) >= Capacity[a] THEN s
  ELSE [s EXCEPT !.queue[a] = Append(@, job)]

(* handleMessage of both kinds for a job.                                  *)
JobArrives(a, job) ==
  /\ PoolRuns
  /\ jobsSeen < MaxPoolJobs /\ jobsSeen' = jobsSeen + 1
  /\ LET asks == waitingJobs[a] = <<>> /\ (a \in ResourceQueue => held[a] = 0)
         try == TryToAllocate(Whole, a, job)
     IN  Becomes(IF ~asks THEN EnqueueOrDrop(Whole, a, job)
                 ELSE IF try.ok THEN [try.s EXCEPT !.held[a] = @ + 1]
                 ELSE EnqueueOrDrop(try.s, a, job),
                 IF asks THEN {a} ELSE {})
  /\ UNCHANGED wrongReleases

(* ResourceBasedQueue::handleMessage for endServiceMsg: the amount is      *)
(* given back while jobServiced is still set, and asked for again for the  *)
(* next job.                                                               *)
EndsService(a) ==
  LET released == Release(Whole, ResourceAmount[a])
      idle == [released EXCEPT !.held[a] = 0]
      try == TryToAllocate(idle, a, PeekJob(idle, a))
  IN  IF released.wrong # {} THEN Becomes(released, {})
      ELSE IF idle.queue[a] = <<>> THEN Becomes(idle, {})
      ELSE Becomes(IF try.ok THEN TakeJob(try.s, a) ELSE try.s, {a})

EndService(a) ==
  /\ PoolRuns /\ a \in ResourceQueue /\ held[a] = 1
  /\ IF resourceAllocated[a] THEN EndsService(a) /\ UNCHANGED wrongReleases
     ELSE wrongReleases' = {a} /\ UNCHANGED <<pool, waitingJobs, held, resourceAllocated, wrongGrants>>
  /\ UNCHANGED jobsSeen

(* Deallocate::handleMessage for a job that has passed a.                  *)
Deallocate(a) ==
  /\ PoolRuns /\ a \in Allocator /\ held[a] > 0
  /\ Becomes(Release([Whole EXCEPT !.held[a] = @ - 1], ResourceAmount[a]), {})
  /\ UNCHANGED <<wrongReleases, jobsSeen>>

PoolNext ==
  \/ \E a \in User, job \in JobPriority : JobArrives(a, job)
  \/ \E a \in User : EndService(a)
  \/ \E a \in User : Deallocate(a)

(***************************************************************************)
(* Properties                                                              *)
(***************************************************************************)

(* What each module holds of the amount, with h grants.                    *)
AmountHeld(h) == [a \in User |-> h[a] * ResourceAmount[a]]

(* Through all calls back and forth no amount is released that is not held *)
(* (ResourceBasedQueue.cc:165) and a grant finds a job (:183 and           *)
(* Allocate.cc:70), except that a user of capacity 0 asks for a job it     *)
(* drops and fails its assertion when it is granted the resource.  Until   *)
(* then no amount is lost, every other user has one request in the list    *)
(* exactly while jobs wait in it without being served, and nobody waits    *)
(* when nobody holds anything, though release wakes one user only.         *)
PoolIsSound ==
  /\ wrongReleases = {} /\ \A a \in wrongGrants : Capacity[a] = 0
  /\ wrongGrants = {} =>
       /\ pool.amount + SumFunctionOnSet(AmountHeld(held), User) = PoolAmount
       /\ \A a \in User : Capacity[a] # 0 =>
            Cardinality({i \in DOMAIN pool.requests : pool.requests[i].allocator = a}) =
              (IF waitingJobs[a] # <<>> /\ (a \in ResourceQueue => held[a] = 0) THEN 1 ELSE 0)
       /\ pool.requests # <<>> => \E a \in User : held[a] > 0

=============================================================================
