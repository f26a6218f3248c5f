------------------------------- MODULE QueueNet -------------------------------
(***************************************************************************)
(* A network of queueinglib: a Source, a Router, several PassiveQueues that*)
(* are connected to several Servers, and a Queue behind them.              *)
(*                                                                         *)
(* A job takes no time between modules, but it is a message: other events  *)
(* of the instant may come between its sending and its arrival, and isIdle *)
(* of a server says nothing of the job on its way.  The way from the source*)
(* into a queue, and that from a server into the last Queue, cross no such *)
(* test and are one step.  Gates count from 0.  A draw of the random       *)
(* strategy from nothing is taken to find nothing.                         *)
(*                                                                         *)
(* A BootServer counts as idle only once its boot event has come; queue 0  *)
(* is the PassiveQueueDyn it then refreshes.                               *)
(***************************************************************************)
EXTENDS Integers, FiniteSetsExt

CONSTANTS
  NumQueues, NumServers,
  BootServers,       \* the servers that are BootServers
  NumJobs,           \* numJobs of Source
  NetCapacity,       \* [queue -> Int]: capacity, negative if unbounded
  TailCapacity       \* capacity of the last Queue

NetQueue == 0 .. NumQueues - 1
NetServer == 0 .. NumServers - 1

ASSUME NetAssumption ==
  /\ NumQueues \in Nat \ {0} /\ NumServers \in Nat \ {0} /\ NumJobs \in Nat
  /\ BootServers \subseteq NetServer
  /\ NetCapacity \in [NetQueue -> Int] /\ TailCapacity \in Int

VARIABLES
  algorithm,    \* routingAlgorithm, sendingAlgorithm and fetchingAlgorithm
  netCounter,   \* jobCounter
  rrCounter,    \* of Router
  queued,       \* [queue -> Nat]: length of each PassiveQueue
  lastSent, lastFetched,  \* lastIndex of the strategies of queues and of servers
  onTheWay,     \* [server -> Nat]: jobs sent to it that have not arrived
  serviced,     \* [server -> BOOLEAN]: jobServiced
  isActive,     \* [server -> BOOLEAN]: isActive of a BootServer
  tail,         \* [length, busy] of the last Queue
  netError,     \* "job arrived while already servicing one"
  gone,         \* history: jobs dropped or sent out at the end
  crowded,      \* history: a job came into a queue while another was on its way
  unasked,      \* history: servers that were booted while jobs waited
  passedOver    \* history: fetches of a server since a queue had its turn

netVars == <<algorithm, netCounter, rrCounter, queued, lastSent, lastFetched, onTheWay,
             serviced, isActive, tail, netError, gone, crowded, unasked, passedOver>>

(* select: what a strategy may choose among the selectable ones of n gates. *)
Selected(strategy, selectable, last, n, length) ==
  CASE strategy = "priority" -> {Min(selectable)}
    [] strategy = "random" -> selectable
    [] strategy = "roundRobin" ->
         {i \in selectable : \A j \in selectable : (i - last - 1) % n <= (j - last - 1) % n}
    [] strategy = "shortestQueue" ->
         {Min({i \in selectable : \A j \in selectable : length[i] <= length[j]})}
    [] strategy = "longestQueue" ->
         {Min({i \in selectable : \A j \in selectable : length[i] >= length[j]})}

(* isIdle of Server and of BootServer                                      *)
IdleServers == {s \in NetServer : isActive[s] /\ ~serviced[s]}
WaitingQueues == {q \in NetQueue : queued[q] > 0}

NetInit ==
  /\ algorithm \in [route : {"random", "roundRobin"},
                    send : {"priority", "random", "roundRobin"},
                    fetch : {"priority", "random", "roundRobin", "shortestQueue", "longestQueue"}]
  /\ netCounter = 0 /\ rrCounter = -1
  /\ queued = [q \in NetQueue |-> 0]
  /\ lastSent = [q \in NetQueue |-> -1]
  /\ lastFetched = [s \in NetServer |-> -1]
  /\ onTheWay = [s \in NetServer |-> 0]
  /\ serviced = [s \in NetServer |-> FALSE]
  /\ isActive = [s \in NetServer |-> s \notin BootServers]
  /\ tail = [length |-> 0, busy |-> FALSE]
  /\ netError = FALSE
  /\ gone = 0 /\ crowded = FALSE /\ unasked = {}
  /\ passedOver = [s \in NetServer |-> [q \in NetQueue |-> 0]]

(* A job is sent to server s.                                              *)
SendTo(s) == onTheWay' = [onTheWay EXCEPT ![s] = @ + 1] /\ unasked' = unasked \ {s}

(* PassiveQueue::handleMessage                                             *)
PassiveQueueReceives(q) ==
  \/ /\ NetCapacity[q] >= 0 /\ queued[q] >= NetCapacity[q]
     /\ gone' = gone + 1
     /\ UNCHANGED <<queued, lastSent, onTheWay, unasked>>
  \/ /\ NetCapacity[q] < 0 \/ queued[q] < NetCapacity[q]
     /\ IF IdleServers = {}
        THEN /\ queued' = [queued EXCEPT ![q] = @ + 1]
             /\ UNCHANGED <<lastSent, onTheWay, unasked>>
        ELSE \E s \in Selected(algorithm.send, IdleServers, lastSent[q], NumServers, <<>>) :
               /\ lastSent' = [lastSent EXCEPT ![q] = s]
               /\ SendTo(s)
               /\ UNCHANGED queued
     /\ UNCHANGED gone

(* Router::handleMessage: the job goes to queue q.                         *)
RouterSends(q) ==
  /\ rrCounter' = IF algorithm.route = "roundRobin" THEN (rrCounter + 1) % NumQueues ELSE rrCounter
  /\ algorithm.route = "roundRobin" => q = rrCounter'

(* Source::handleMessage, and SourceOnce's for jobs of one instant.        *)
SourceSends ==
  /\ ~netError /\ netCounter < NumJobs
  /\ netCounter' = netCounter + 1
  /\ \E q \in NetQueue : RouterSends(q) /\ PassiveQueueReceives(q)
  /\ crowded' = (crowded \/ \E s \in NetServer : onTheWay[s] > 0)
  /\ UNCHANGED <<algorithm, lastFetched, serviced, isActive, tail, netError, passedOver>>

(* Server::handleMessage for a job                                         *)
ServerGetsJob(s) ==
  /\ ~netError /\ onTheWay[s] > 0
  /\ IF serviced[s]
     THEN netError' = TRUE /\ UNCHANGED <<onTheWay, serviced>>
     ELSE /\ onTheWay' = [onTheWay EXCEPT ![s] = @ - 1]
          /\ serviced' = [serviced EXCEPT ![s] = TRUE]
          /\ UNCHANGED netError
  /\ UNCHANGED <<algorithm, netCounter, rrCounter, queued, lastSent, lastFetched, isActive,
                 tail, gone, crowded, unasked, passedOver>>

(* Queue::handleMessage for a job                                          *)
TailReceives ==
  LET full == TailCapacity >= 0 /\ tail.length >= TailCapacity
  IN  /\ tail' = IF ~tail.busy THEN [tail EXCEPT !.busy = TRUE]
                 ELSE IF full THEN tail ELSE [tail EXCEPT !.length = @ + 1]
      /\ gone' = IF tail.busy /\ full THEN gone + 1 ELSE gone

(* Seeded fault: only the first queue is asked for a job.                  *)
FetchFromFirst(s) ==
  IF 0 \notin WaitingQueues
  THEN UNCHANGED <<queued, lastFetched, onTheWay, unasked, passedOver>>
  ELSE /\ queued' = [queued EXCEPT ![0] = @ - 1]
       /\ lastFetched' = [lastFetched EXCEPT ![s] = 0]
       /\ SendTo(s)
       /\ UNCHANGED passedOver

(* A server that has finished asks one of the queues with jobs (request).  *)
Fetch(s) ==
  IF WaitingQueues = {} THEN UNCHANGED <<queued, lastFetched, onTheWay, unasked, passedOver>>
  ELSE \E q \in Selected(algorithm.fetch, WaitingQueues, lastFetched[s], NumQueues, queued) :
         /\ queued' = [queued EXCEPT ![q] = @ - 1]
         /\ lastFetched' = [lastFetched EXCEPT ![s] = q]
         /\ SendTo(s)
         /\ passedOver' = [passedOver EXCEPT ![s] = [x \in NetQueue |->
                             IF x = q \/ x \notin WaitingQueues THEN 0 ELSE @[x] + 1]]

(* Server::handleMessage for endServiceMsg                                 *)
ServerFinishes(s) ==
  /\ ~netError /\ serviced[s]
  /\ serviced' = [serviced EXCEPT ![s] = FALSE]
  /\ TailReceives
  /\ Fetch(s)
  /\ UNCHANGED <<algorithm, netCounter, rrCounter, lastSent, isActive, netError, crowded>>

(* Queue::handleMessage for endServiceMsg                                  *)
TailFinishes ==
  /\ ~netError /\ tail.busy
  /\ tail' = IF tail.length = 0 THEN [tail EXCEPT !.busy = FALSE] ELSE [tail EXCEPT !.length = @ - 1]
  /\ gone' = gone + 1
  /\ UNCHANGED <<algorithm, netCounter, rrCounter, queued, lastSent, lastFetched, onTheWay,
                 serviced, isActive, netError, crowded, unasked, passedOver>>

(* bootFinishedEvent: the queue makes its strategy anew, and nobody asks   *)
(* for the jobs that wait in it.                                           *)
BootFinished(s) ==
  /\ ~netError /\ ~isActive[s]
  /\ isActive' = [isActive EXCEPT ![s] = TRUE]
  /\ lastSent' = [lastSent EXCEPT ![0] = -1]
  /\ unasked' = IF WaitingQueues # {} THEN unasked \cup {s} ELSE unasked
  /\ UNCHANGED <<algorithm, netCounter, rrCounter, queued, lastFetched, onTheWay, serviced,
                 tail, netError, gone, crowded, passedOver>>

NetNext ==
  \/ SourceSends
  \/ \E s \in NetServer : ServerGetsJob(s) \/ ServerFinishes(s) \/ BootFinished(s)
  \/ TailFinishes

(***************************************************************************)
(* Properties                                                              *)
(***************************************************************************)

(* The jobs that are at a server or have been sent to it.                  *)
AtServer == [s \in NetServer |-> onTheWay[s] + (IF serviced[s] THEN 1 ELSE 0)]

(* Whatever the strategies: a job reaches a server that serves another one *)
(* (Server.cc:65) only after two jobs have come in one instant, no job is  *)
(* lost, no job waits beside an idle server that none is on its way to,    *)
(* unless it waited when that server was booted and no job has come since, *)
(* and under roundRobin no waiting queue is passed over twice for the same *)
(* other queue.                                                            *)
NetIsSound ==
  /\ netError => crowded
  /\ netCounter = gone + tail.length + (IF tail.busy THEN 1 ELSE 0)
       + SumFunctionOnSet(queued, NetQueue) + SumFunctionOnSet(AtServer, NetServer)
  /\ WaitingQueues # {} => \A s \in IdleServers : onTheWay[s] > 0 \/ s \in unasked
  /\ algorithm.fetch = "roundRobin" =>
       \A s \in NetServer, q \in NetQueue : passedOver[s][q] < NumQueues

(***************************************************************************)
(* The inductive invariant behind NetIsSound.                              *)
(***************************************************************************)

NetTypes ==
  /\ algorithm \in [route : {"random", "roundRobin"},
                    send : {"priority", "random", "roundRobin"},
                    fetch : {"priority", "random", "roundRobin", "shortestQueue", "longestQueue"}]
  /\ netCounter \in Nat /\ gone \in Nat /\ rrCounter \in Int
  /\ queued \in [NetQueue -> Nat] /\ lastSent \in [NetQueue -> Int]
  /\ lastFetched \in [NetServer -> -1 .. NumQueues - 1]
  /\ onTheWay \in [NetServer -> Nat]
  /\ serviced \in [NetServer -> BOOLEAN] /\ isActive \in [NetServer -> BOOLEAN]
  /\ tail \in [length : Nat, busy : BOOLEAN]
  /\ netError \in BOOLEAN /\ crowded \in BOOLEAN /\ unasked \subseteq NetServer
  /\ passedOver \in [NetServer -> [NetQueue -> Nat]]

(* As long as no job has come while another was on its way, a server has   *)
(* one job at most, sent to it or in it.                                   *)
OneJobEach == ~crowded => ~netError /\ \A s \in NetServer : AtServer[s] <= 1

NoJobLost ==
  netCounter = gone + tail.length + (IF tail.busy THEN 1 ELSE 0)
       + SumFunctionOnSet(queued, NetQueue) + SumFunctionOnSet(AtServer, NetServer)

NoneIdle == WaitingQueues # {} => \A s \in IdleServers : onTheWay[s] > 0 \/ s \in unasked

(* How many queues a round-robin server asks before queue q.               *)
TurnsBefore(s, q) == (q - lastFetched[s] - 1) % NumQueues

InTurn ==
  algorithm.fetch = "roundRobin" =>
    \A s \in NetServer, q \in NetQueue : passedOver[s][q] + TurnsBefore(s, q) < NumQueues

NetInv == NetTypes /\ OneJobEach /\ NoJobLost /\ NoneIdle /\ InTurn

=============================================================================
