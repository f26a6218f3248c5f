---------------------------- MODULE QueueProofs ----------------------------
(***************************************************************************)
(* Proofs about the queueing library: the network of queues and servers,   *)
(* the resource pools, and the families of jobs.  A step of another part   *)
(* leaves the state of a part alone, so each has its own invariant.        *)
(***************************************************************************)
EXTENDS MCParts, FoldProofs, SequenceTheorems

(***************************************************************************)
(* The network of queues and servers                                       *)
(***************************************************************************)

Strategy == {"priority", "random", "roundRobin", "shortestQueue", "longestQueue"}

(* The remainder of a number that is off by one round at most.             *)
LEMMA Remainder ==
  ASSUME NEW n \in Nat \ {0}, NEW x \in Int
  PROVE  /\ x % n \in 0 .. n - 1
         /\ x \in 0 .. n - 1 => x % n = x
         /\ x \in -n .. -1 => x % n = x + n
  OBVIOUS

(* A strategy selects among the selectable ones.                           *)
LEMMA SelectsOne ==
  ASSUME NEW strategy \in Strategy, NEW n \in Nat, NEW T \in SUBSET (0 .. n - 1), T # {},
         NEW last, NEW length,
         strategy \in {"shortestQueue", "longestQueue"} => \A i \in T : length[i] \in Int
  PROVE  Selected(strategy, T, last, n, length) \subseteq T
<1>1. IsFiniteSet(T)
  <2>1. IsFiniteSet(0 .. n - 1)
    <3>1. n - 1 \in Int OBVIOUS
    <3> HIDE DEF Strategy
    <3> QED BY <3>1, FS_Interval
  <2> QED BY <2>1, FS_Subset
<1>2. ASSUME NEW U \in SUBSET T, U # {} PROVE Min(U) \in T
  <2>0. IsFiniteSet(U) BY <1>1, FS_Subset
  <2>1. IsFiniteSet(U) /\ U \in SUBSET Int BY <2>0
  <2> QED BY <1>2, <2>1, MinIs
<1> DEFINE Shortest == {i \in T : \A j \in T : length[i] <= length[j]}
           Longest == {i \in T : \A j \in T : length[i] >= length[j]}
<1>3. strategy = "shortestQueue" => Shortest # {} BY <1>1, LeastValue
<1>4. strategy = "longestQueue" => Longest # {} BY <1>1, LeastValue
<1>5. CASE strategy = "priority" BY <1>2, <1>5 DEF Selected
<1>6. CASE strategy = "random" BY <1>6 DEF Selected
<1>7. CASE strategy = "roundRobin" BY <1>7 DEF Selected
<1>8. CASE strategy = "shortestQueue"
  <2>1. Shortest \in SUBSET T OBVIOUS
  <2>2. Min(Shortest) \in T BY <1>2, <1>3, <1>8, <2>1
  <2> QED BY <1>8, <2>2 DEF Selected
<1>9. CASE strategy = "longestQueue"
  <2>1. Longest \in SUBSET T OBVIOUS
  <2>2. Min(Longest) \in T BY <1>2, <1>4, <1>9, <2>1
  <2> QED BY <1>9, <2>2 DEF Selected
<1> QED BY <1>5, <1>6, <1>7, <1>8, <1>9 DEF Strategy

(* There are finitely many queues and servers.                             *)
LEMMA NetFinite == IsFiniteSet(NetQueue) /\ IsFiniteSet(NetServer)
  BY NetAssumption, FS_Interval DEF NetQueue, NetServer

(* The turns before a queue are fewer than the queues.                     *)
LEMMA TurnsType ==
  ASSUME NEW s \in NetServer, NEW q \in NetQueue, lastFetched \in [NetServer -> -1 .. NumQueues - 1]
  PROVE  /\ TurnsBefore(s, q) \in 0 .. NumQueues - 1
         /\ TurnsBefore(s, q) = IF q > lastFetched[s] THEN q - lastFetched[s] - 1
                                ELSE q - lastFetched[s] - 1 + NumQueues
<1> DEFINE x == q - lastFetched[s] - 1
<1>1. lastFetched[s] \in -1 .. NumQueues - 1 /\ q \in 0 .. NumQueues - 1 /\ NumQueues \in Nat \ {0}
  BY NetAssumption DEF NetQueue
<1>2. x \in Int /\ (q > lastFetched[s] => x \in 0 .. NumQueues - 1)
      /\ (~(q > lastFetched[s]) => x \in -NumQueues .. -1)
  BY <1>1
<1>3. TurnsBefore(s, q) = x % NumQueues BY DEF TurnsBefore
<1> HIDE DEF x
<1>4. TurnsBefore(s, q) = IF q > lastFetched[s] THEN x ELSE x + NumQueues
  BY <1>1, <1>2, <1>3, Remainder
<1>5. TurnsBefore(s, q) \in 0 .. NumQueues - 1 BY <1>1, <1>2, <1>3, Remainder
<1> QED BY <1>4, <1>5 DEF x

(* The invariant holds at the start.                                       *)
LEMMA NetInitially == NetInit => NetInv
<1> SUFFICES ASSUME NetInit PROVE NetInv OBVIOUS
<1> USE DEF NetInit
<1>1. NetTypes
  <2>1. lastFetched \in [NetServer -> -1 .. NumQueues - 1] BY NetAssumption
  <2>2. tail \in [length : Nat, busy : BOOLEAN] OBVIOUS
  <2>3. passedOver \in [NetServer -> [NetQueue -> Nat]] OBVIOUS
  <2>4. /\ queued \in [NetQueue -> Nat] /\ lastSent \in [NetQueue -> Int]
        /\ onTheWay \in [NetServer -> Nat]
        /\ serviced \in [NetServer -> BOOLEAN]
    OBVIOUS
  <2>5. isActive \in [NetServer -> BOOLEAN] OBVIOUS
  <2>6. netCounter \in Nat /\ gone \in Nat /\ rrCounter \in Int
    OBVIOUS
  <2>7. netError \in BOOLEAN /\ crowded \in BOOLEAN /\ unasked \subseteq NetServer
    BY Zenon
  <2> QED BY <2>1, <2>2, <2>3, <2>4, <2>5, <2>6, <2>7 DEF NetTypes
<1>2. \A s \in NetServer : AtServer[s] = 0 BY DEF AtServer
<1>3. OneJobEach BY <1>2 DEF OneJobEach
<1>4. NoJobLost
  <2>1. SumFunctionOnSet(AtServer, NetServer) = 0 BY <1>2, NetFinite, SumOfZeros
  <2>2. SumFunctionOnSet(queued, NetQueue) = 0 BY NetFinite, SumOfZeros
  <2> QED BY <2>1, <2>2 DEF NoJobLost
<1>5. NoneIdle BY DEF NoneIdle, WaitingQueues
<1>6. InTurn
  <2> SUFFICES ASSUME NEW s \in NetServer, NEW q \in NetQueue
               PROVE  passedOver[s][q] + TurnsBefore(s, q) < NumQueues
    BY DEF InTurn
  <2>1. TurnsBefore(s, q) \in 0 .. NumQueues - 1 BY <1>1, TurnsType DEF NetTypes
  <2>2. passedOver[s][q] = 0 OBVIOUS
  <2> QED BY <2>1, <2>2, NetAssumption
<1> QED BY <1>1, <1>3, <1>4, <1>5, <1>6 DEF NetInv

(* One queue changes by d jobs, and so does the sum.                       *)
LEMMA QueuedChange ==
  ASSUME NetTypes, NEW q \in NetQueue, NEW d \in Int,
         queued' = [queued EXCEPT ![q] = @ + d], queued[q] + d \in Nat
  PROVE  /\ SumFunctionOnSet(queued', NetQueue) = SumFunctionOnSet(queued, NetQueue) + d
         /\ queued' \in [NetQueue -> Nat]
<1>1. queued \in [NetQueue -> Nat] BY DEF NetTypes
<1>2. queued' \in [NetQueue -> Nat] BY <1>1
<1>3. \A x \in NetQueue : queued[x] \in Int /\ queued'[x] \in Int BY <1>1, <1>2
<1>4. \A x \in NetQueue \ {q} : queued'[x] = queued[x] BY <1>1
<1>5. SumFunctionOnSet(queued', NetQueue) = SumFunctionOnSet(queued, NetQueue) + (queued'[q] - queued[q])
  BY ONLY <1>3, <1>4, NetFinite, SumChange, q \in NetQueue
<1>6. queued'[q] = queued[q] + d /\ queued[q] \in Int BY <1>1
<1>7. queued'[q] - queued[q] = d BY <1>6
<1> QED BY <1>2, <1>5, <1>7

(* The jobs at a server are a number.                                      *)
LEMMA AtServerType ==
  ASSUME NetTypes
  PROVE  /\ \A s \in NetServer : AtServer[s] = onTheWay[s] + (IF serviced[s] THEN 1 ELSE 0)
         /\ \A s \in NetServer : AtServer[s] \in Nat
         /\ SumFunctionOnSet(AtServer, NetServer) \in Int
<1>1. \A s \in NetServer : AtServer[s] = onTheWay[s] + (IF serviced[s] THEN 1 ELSE 0)
  BY DEF AtServer
<1>2. \A s \in NetServer : AtServer[s] \in Nat BY <1>1 DEF NetTypes
<1>3. \A s \in NetServer : AtServer[s] \in Int BY <1>2
<1> QED BY <1>1, <1>2, <1>3, NetFinite, SumType

(* One server changes by d jobs, and so does the sum.                      *)
LEMMA AtServerChange ==
  ASSUME NetTypes, NetTypes', NEW s \in NetServer, NEW d \in Int,
         \A x \in NetServer \ {s} : onTheWay'[x] = onTheWay[x] /\ serviced'[x] = serviced[x],
         onTheWay'[s] + (IF serviced'[s] THEN 1 ELSE 0)
           = onTheWay[s] + (IF serviced[s] THEN 1 ELSE 0) + d
  PROVE  /\ SumFunctionOnSet(AtServer', NetServer) = SumFunctionOnSet(AtServer, NetServer) + d
         /\ AtServer'[s] = AtServer[s] + d
         /\ \A x \in NetServer \ {s} : AtServer'[x] = AtServer[x]
<1>1. \A x \in NetServer : AtServer'[x] = onTheWay'[x] + (IF serviced'[x] THEN 1 ELSE 0)
  BY DEF AtServer
<1>2. \A x \in NetServer : AtServer[x] = onTheWay[x] + (IF serviced[x] THEN 1 ELSE 0)
  BY DEF AtServer
<1>3. \A x \in NetServer : AtServer[x] \in Int /\ AtServer'[x] \in Int
  BY <1>1, <1>2 DEF NetTypes
<1>4. \A x \in NetServer \ {s} : AtServer'[x] = AtServer[x] BY <1>1, <1>2
<1>5. AtServer'[s] = AtServer[s] + d BY <1>1, <1>2
<1>6. SumFunctionOnSet(AtServer', NetServer) = SumFunctionOnSet(AtServer, NetServer) + (AtServer'[s] - AtServer[s])
  BY <1>3, <1>4, NetFinite, SumChange
<1>7. AtServer'[s] - AtServer[s] = d BY <1>3, <1>5
<1> QED BY <1>4, <1>5, <1>6, <1>7

(* The numbers of jobs as the model keeps them.                            *)
LEMMA Counted ==
  ASSUME NetTypes
  PROVE  /\ netCounter \in Nat /\ gone \in Nat /\ tail.length \in Nat /\ tail.busy \in BOOLEAN
         /\ SumFunctionOnSet(queued, NetQueue) \in Int
         /\ SumFunctionOnSet(AtServer, NetServer) \in Int
<1>1. tail.length \in Nat /\ tail.busy \in BOOLEAN BY DEF NetTypes
<1>2. \A x \in NetQueue : queued[x] \in Int BY DEF NetTypes
<1>3. SumFunctionOnSet(queued, NetQueue) \in Int BY <1>2, NetFinite, SumType
<1>4. SumFunctionOnSet(AtServer, NetServer) \in Int BY AtServerType
<1>5. netCounter \in Nat /\ gone \in Nat BY DEF NetTypes
<1> QED BY <1>1, <1>3, <1>4, <1>5

(* What becomes of the job that comes into a queue.                        *)
LEMMA SourceOutcomes ==
  ASSUME NetTypes, SourceSends
  PROVE  \/ gone' = gone + 1 /\ UNCHANGED <<queued, lastSent, onTheWay, unasked>>
         \/ /\ IdleServers = {} /\ UNCHANGED <<gone, lastSent, onTheWay, unasked>>
            /\ \E q \in NetQueue : queued' = [queued EXCEPT ![q] = @ + 1]
         \/ /\ UNCHANGED <<gone, queued>>
            /\ \E s \in IdleServers : SendTo(s)
            /\ \E q \in NetQueue, s \in NetServer : lastSent' = [lastSent EXCEPT ![q] = s]
<1>1. PICK q \in NetQueue : PassiveQueueReceives(q) BY DEF SourceSends
<1>2. algorithm.send \in Strategy /\ algorithm.send \notin {"shortestQueue", "longestQueue"}
  <2>1. algorithm.send \in {"priority", "random", "roundRobin"} BY DEF NetTypes
  <2> QED BY <2>1 DEF Strategy
<1>3. IdleServers \in SUBSET (0 .. NumServers - 1) /\ NumServers \in Nat
  BY NetAssumption DEF IdleServers, NetServer
<1>4. IdleServers # {} => Selected(algorithm.send, IdleServers, lastSent[q], NumServers, <<>>) \subseteq IdleServers
  BY <1>2, <1>3, SelectsOne
<1>5. CASE gone' = gone + 1 /\ UNCHANGED <<queued, lastSent, onTheWay, unasked>> BY <1>5
<1>6. CASE /\ IdleServers = {} /\ queued' = [queued EXCEPT ![q] = @ + 1]
           /\ UNCHANGED <<gone, lastSent, onTheWay, unasked>>
  BY <1>6
<1>7. ASSUME IdleServers # {}, NEW s \in Selected(algorithm.send, IdleServers, lastSent[q], NumServers, <<>>),
             lastSent' = [lastSent EXCEPT ![q] = s], SendTo(s), UNCHANGED <<gone, queued>>
      PROVE  /\ UNCHANGED <<gone, queued>>
             /\ \E x \in IdleServers : SendTo(x)
             /\ \E x \in NetQueue, y \in NetServer : lastSent' = [lastSent EXCEPT ![x] = y]
  <2>1. s \in IdleServers /\ s \in NetServer BY <1>4, <1>7 DEF IdleServers
  <2> QED BY <1>7, <2>1, Zenon
<1> QED BY <1>1, <1>5, <1>6, <1>7 DEF PassiveQueueReceives

(* The source sends a job.                                                 *)
LEMMA SourceStep ==
  ASSUME NetInv, SourceSends
  PROVE  NetInv'
<1>0. NetTypes /\ OneJobEach /\ NoJobLost /\ NoneIdle /\ InTurn BY DEF NetInv
<1>1. /\ netCounter' = netCounter + 1
      /\ UNCHANGED <<algorithm, lastFetched, serviced, isActive, tail, netError, passedOver>>
      /\ ~netError
      /\ crowded' = (crowded \/ \E s \in NetServer : onTheWay[s] > 0)
  BY DEF SourceSends
<1>2. rrCounter' \in Int
  <2>1. PICK q \in NetQueue : RouterSends(q) BY DEF SourceSends
  <2>2. (rrCounter + 1) % NumQueues \in Int /\ rrCounter \in Int
    BY <1>0, NetAssumption, Remainder DEF NetTypes
  <2> QED BY <2>1, <2>2 DEF RouterSends
<1>3. crowded' \in BOOLEAN /\ netError' \in BOOLEAN BY <1>0, <1>1, Zenon DEF NetTypes
<1>4. InTurn'
  BY <1>0, <1>1 DEF InTurn, TurnsBefore
<1>5. ASSUME gone' \in Nat, queued' \in [NetQueue -> Nat], lastSent' \in [NetQueue -> Int],
             onTheWay' \in [NetServer -> Nat], unasked' \subseteq NetServer
      PROVE  NetTypes'
  <2>1. netCounter' \in Nat BY <1>0, <1>1 DEF NetTypes
  <2>2. /\ serviced' \in [NetServer -> BOOLEAN] /\ isActive' \in [NetServer -> BOOLEAN]
        /\ lastFetched' \in [NetServer -> -1 .. NumQueues - 1]
        /\ tail' \in [length : Nat, busy : BOOLEAN]
        /\ passedOver' \in [NetServer -> [NetQueue -> Nat]]
    BY <1>0, <1>1 DEF NetTypes
  <2>3. algorithm' = algorithm BY <1>1
  <2>4. algorithm' \in [route : {"random", "roundRobin"},
                    send : {"priority", "random", "roundRobin"},
                    fetch : {"priority", "random", "roundRobin", "shortestQueue", "longestQueue"}]
    BY <1>0, <2>3, Zenon DEF NetTypes
  <2> QED BY <1>2, <1>3, <1>5, <2>1, <2>2, <2>4 DEF NetTypes
<1>6. IdleServers' = IdleServers BY <1>1 DEF IdleServers
<1>7. CASE gone' = gone + 1 /\ UNCHANGED <<queued, lastSent, onTheWay, unasked>>
  <2>1. NetTypes' BY <1>0, <1>5, <1>7 DEF NetTypes
  <2>2. AtServer' = AtServer BY <1>1, <1>7 DEF AtServer
  <2>3. OneJobEach' BY <1>0, <1>1, <2>2 DEF OneJobEach
  <2>4. NoJobLost' BY <1>0, <1>1, <1>7, <2>2, Counted DEF NoJobLost
  <2>5. NoneIdle' BY <1>0, <1>6, <1>7 DEF NoneIdle, WaitingQueues
  <2> QED BY <1>4, <2>1, <2>3, <2>4, <2>5 DEF NetInv
<1>8. ASSUME IdleServers = {}, UNCHANGED <<gone, lastSent, onTheWay, unasked>>,
             NEW q \in NetQueue, queued' = [queued EXCEPT ![q] = @ + 1]
      PROVE  NetInv'
  <2>0. queued[q] + 1 \in Nat /\ 1 \in Int BY <1>0 DEF NetTypes
  <2>1. /\ SumFunctionOnSet(queued', NetQueue) = SumFunctionOnSet(queued, NetQueue) + 1
        /\ queued' \in [NetQueue -> Nat]
    BY <1>0, <1>8, <2>0, QueuedChange
  <2>2. NetTypes' BY <1>0, <1>5, <1>8, <2>1 DEF NetTypes
  <2>3. AtServer' = AtServer BY <1>1, <1>8 DEF AtServer
  <2>4. OneJobEach' BY <1>0, <1>1, <2>3 DEF OneJobEach
  <2>5. NoJobLost' BY <1>0, <1>1, <1>8, <2>1, <2>3, Counted DEF NoJobLost
  <2>6. NoneIdle' BY <1>6, <1>8 DEF NoneIdle
  <2> QED BY <1>4, <2>2, <2>4, <2>5, <2>6 DEF NetInv
<1>9. ASSUME UNCHANGED <<gone, queued>>, NEW s \in IdleServers, SendTo(s),
             NEW q \in NetQueue, NEW t \in NetServer, lastSent' = [lastSent EXCEPT ![q] = t]
      PROVE  NetInv'
  <2>0. s \in NetServer /\ serviced[s] = FALSE
    <3>1. s \in NetServer /\ ~serviced[s] BY <1>9 DEF IdleServers
    <3>2. serviced[s] \in BOOLEAN BY <1>0, <3>1 DEF NetTypes
    <3> QED BY <3>1, <3>2
  <2>1. t \in Int BY <1>9, NetAssumption DEF NetServer
  <2>2. lastSent' \in [NetQueue -> Int] BY <1>0, <1>9, <2>1 DEF NetTypes
  <2>3. /\ onTheWay' \in [NetServer -> Nat] /\ onTheWay'[s] = onTheWay[s] + 1
        /\ \A x \in NetServer \ {s} : onTheWay'[x] = onTheWay[x]
        /\ unasked' = unasked \ {s}
    BY <1>0, <1>9, <2>0 DEF NetTypes, SendTo
  <2>4. NetTypes' BY <1>0, <1>5, <1>9, <2>2, <2>3 DEF NetTypes
  <2>5. \A x \in NetServer : onTheWay[x] \in Nat BY <1>0 DEF NetTypes
  <2>6. onTheWay'[s] + (IF serviced'[s] THEN 1 ELSE 0)
           = onTheWay[s] + (IF serviced[s] THEN 1 ELSE 0) + 1
    BY <1>1, <2>0, <2>3, <2>5
  <2>7. /\ SumFunctionOnSet(AtServer', NetServer) = SumFunctionOnSet(AtServer, NetServer) + 1
        /\ AtServer'[s] = AtServer[s] + 1
        /\ \A x \in NetServer \ {s} : AtServer'[x] = AtServer[x]
    <3>1. \A x \in NetServer \ {s} : onTheWay'[x] = onTheWay[x] /\ serviced'[x] = serviced[x]
      BY <1>1, <2>3
    <3>2. 1 \in Int OBVIOUS
    <3> QED BY ONLY <1>0, <2>0, <2>4, <2>6, <3>1, <3>2, AtServerChange
  <2>8. OneJobEach'
    <3> SUFFICES ASSUME ~crowded' PROVE ~netError' /\ \A x \in NetServer : AtServer'[x] <= 1
      BY DEF OneJobEach
    <3>1. ~crowded /\ ~(onTheWay[s] > 0) BY <1>1, <2>0
    <3>2. onTheWay[s] = 0 BY <2>0, <2>5, <3>1
    <3>3. AtServer[s] = 0 BY <1>0, <2>0, <3>2, AtServerType
    <3>4. \A x \in NetServer : AtServer[x] <= 1 BY <1>0, <3>1 DEF OneJobEach
    <3>5. \A x \in NetServer : AtServer'[x] <= 1 BY <2>7, <3>3, <3>4
    <3> QED BY <1>1, <3>5
  <2>9. NoJobLost' BY <1>0, <1>1, <1>9, <2>7, Counted DEF NoJobLost
  <2>10. NoneIdle'
    <3> SUFFICES ASSUME WaitingQueues' # {}, NEW x \in IdleServers'
                 PROVE  onTheWay'[x] > 0 \/ x \in unasked'
      BY DEF NoneIdle
    <3>1. WaitingQueues' = WaitingQueues BY <1>9 DEF WaitingQueues
    <3>2. x \in IdleServers /\ x \in NetServer BY <1>6 DEF IdleServers
    <3>3. onTheWay[x] > 0 \/ x \in unasked BY <1>0, <3>1, <3>2 DEF NoneIdle
    <3> QED BY <2>0, <2>3, <2>5, <3>2, <3>3
  <2> QED BY <1>4, <2>4, <2>8, <2>9, <2>10 DEF NetInv
<1> QED BY <1>0, <1>7, <1>8, <1>9, SourceOutcomes

(* A job reaches a server.                                                 *)
LEMMA ArrivalStep ==
  ASSUME NetInv, NEW s \in NetServer, ServerGetsJob(s)
  PROVE  NetInv'
<1>0. NetTypes /\ OneJobEach /\ NoJobLost /\ NoneIdle /\ InTurn BY DEF NetInv
<1>1. /\ UNCHANGED <<algorithm, netCounter, rrCounter, queued, lastSent, lastFetched, isActive,
                     tail, gone, crowded, unasked, passedOver>>
      /\ ~netError /\ onTheWay[s] > 0
  BY DEF ServerGetsJob
<1>2. serviced[s] \in BOOLEAN /\ onTheWay[s] \in Nat BY <1>0 DEF NetTypes
<1>4. InTurn' BY <1>0, <1>1 DEF InTurn, TurnsBefore
<1>5. ASSUME onTheWay' \in [NetServer -> Nat], serviced' \in [NetServer -> BOOLEAN], netError' \in BOOLEAN
      PROVE  NetTypes'
  <2>1. crowded' \in BOOLEAN BY <1>0, <1>1, Zenon DEF NetTypes
  <2>2. tail' \in [length : Nat, busy : BOOLEAN] BY <1>0, <1>1 DEF NetTypes
  <2>4. algorithm' \in [route : {"random", "roundRobin"},
                    send : {"priority", "random", "roundRobin"},
                    fetch : {"priority", "random", "roundRobin", "shortestQueue", "longestQueue"}]
    BY <1>0, <1>1, Zenon DEF NetTypes
  <2>5. /\ netCounter' \in Nat /\ gone' \in Nat /\ rrCounter' \in Int
        /\ queued' \in [NetQueue -> Nat] /\ lastSent' \in [NetQueue -> Int]
        /\ lastFetched' \in [NetServer -> -1 .. NumQueues - 1]
        /\ isActive' \in [NetServer -> BOOLEAN]
        /\ unasked' \subseteq NetServer
        /\ passedOver' \in [NetServer -> [NetQueue -> Nat]]
    BY <1>0, <1>1 DEF NetTypes
  <2> QED BY <1>5, <2>1, <2>2, <2>4, <2>5 DEF NetTypes
<1>6. CASE serviced[s]
  <2>1. netError' = TRUE /\ onTheWay' = onTheWay /\ serviced' = serviced
    BY <1>6 DEF ServerGetsJob
  <2>2. NetTypes' BY <1>0, <1>5, <2>1 DEF NetTypes
  <2>3. AtServer' = AtServer BY <2>1 DEF AtServer
  <2>4. AtServer[s] > 1 /\ AtServer[s] \in Nat BY <1>0, <1>1, <1>2, <1>6, AtServerType
  <2>5. crowded BY <1>0, <2>4 DEF OneJobEach
  <2>6. OneJobEach' BY <1>1, <2>5 DEF OneJobEach
  <2>7. NoJobLost' BY <1>0, <1>1, <2>3 DEF NoJobLost
  <2>8. NoneIdle' BY <1>0, <1>1, <2>1 DEF NoneIdle, WaitingQueues, IdleServers
  <2> QED BY <1>4, <2>2, <2>6, <2>7, <2>8 DEF NetInv
<1>7. CASE ~serviced[s]
  <2>1. /\ netError' = netError /\ onTheWay' = [onTheWay EXCEPT ![s] = @ - 1]
        /\ serviced' = [serviced EXCEPT ![s] = TRUE]
    BY <1>7 DEF ServerGetsJob
  <2>2. onTheWay' \in [NetServer -> Nat]
    <3>1. onTheWay[s] - 1 \in Nat BY <1>1, <1>2
    <3> QED BY <1>0, <2>1, <3>1 DEF NetTypes
  <2>3. serviced' \in [NetServer -> BOOLEAN] BY <1>0, <2>1 DEF NetTypes
  <2>4. netError' \in BOOLEAN BY <1>0, <2>1, Zenon DEF NetTypes
  <2>5. NetTypes' BY <1>5, <2>2, <2>3, <2>4
  <2>6. /\ onTheWay'[s] = onTheWay[s] - 1 /\ serviced'[s] = TRUE
        /\ \A x \in NetServer \ {s} : onTheWay'[x] = onTheWay[x] /\ serviced'[x] = serviced[x]
    BY <1>0, <2>1 DEF NetTypes
  <2>7. /\ SumFunctionOnSet(AtServer', NetServer) = SumFunctionOnSet(AtServer, NetServer) + 0
        /\ AtServer'[s] = AtServer[s] + 0
        /\ \A x \in NetServer \ {s} : AtServer'[x] = AtServer[x]
    <3>1. onTheWay'[s] + (IF serviced'[s] THEN 1 ELSE 0)
            = onTheWay[s] + (IF serviced[s] THEN 1 ELSE 0) + 0
      BY <1>2, <1>7, <2>6
    <3>2. 0 \in Int OBVIOUS
    <3> QED BY ONLY <1>0, s \in NetServer, <2>5, <2>6, <3>1, <3>2, AtServerChange
  <2>8. \A x \in NetServer : AtServer'[x] = AtServer[x]
    BY <1>0, <2>7, AtServerType
  <2>9. OneJobEach' BY <1>0, <1>1, <2>1, <2>8 DEF OneJobEach
  <2>10. NoJobLost' BY <1>0, <1>1, <2>7, Counted DEF NoJobLost
  <2>11. NoneIdle'
    <3> SUFFICES ASSUME WaitingQueues' # {}, NEW x \in IdleServers'
                 PROVE  onTheWay'[x] > 0 \/ x \in unasked'
      BY DEF NoneIdle
    <3>1. WaitingQueues' = WaitingQueues BY <1>1 DEF WaitingQueues
    <3>2. x \in NetServer \ {s} /\ isActive'[x] /\ ~serviced'[x] BY <2>6 DEF IdleServers
    <3>3. x \in IdleServers BY <1>1, <2>6, <3>2 DEF IdleServers
    <3>4. onTheWay[x] > 0 \/ x \in unasked BY <1>0, <3>1, <3>3 DEF NoneIdle
    <3> QED BY <1>1, <2>6, <3>2, <3>4
  <2> QED BY <1>4, <2>5, <2>9, <2>10, <2>11 DEF NetInv
<1> QED BY <1>6, <1>7

(* The queue behind the servers ends a service.                            *)
LEMMA TailStep ==
  ASSUME NetInv, TailFinishes
  PROVE  NetInv'
<1>0. NetTypes /\ OneJobEach /\ NoJobLost /\ NoneIdle /\ InTurn BY DEF NetInv
<1>1. /\ UNCHANGED <<algorithm, netCounter, rrCounter, queued, lastSent, lastFetched, onTheWay,
                     serviced, isActive, netError, crowded, unasked, passedOver>>
      /\ tail.busy /\ gone' = gone + 1
      /\ tail' = IF tail.length = 0 THEN [tail EXCEPT !.busy = FALSE] ELSE [tail EXCEPT !.length = @ - 1]
  BY DEF TailFinishes
<1>2. /\ tail' \in [length : Nat, busy : BOOLEAN]
      /\ tail'.length + (IF tail'.busy THEN 1 ELSE 0) = tail.length + 1 - 1
  <2>1. tail \in [length : Nat, busy : BOOLEAN] BY <1>0 DEF NetTypes
  <2>2. CASE tail.length = 0
    <3>1. tail' = [tail EXCEPT !.busy = FALSE] BY <1>1, <2>2
    <3>2. tail'.length = 0 /\ tail'.busy = FALSE BY <2>1, <2>2, <3>1
    <3>3. tail' \in [length : Nat, busy : BOOLEAN] BY <2>1, <3>1
    <3> QED BY <2>2, <3>2, <3>3
  <2>3. CASE tail.length # 0
    <3>1. tail' = [tail EXCEPT !.length = @ - 1] BY <1>1, <2>3
    <3>2. tail.length \in Nat /\ tail.length - 1 \in Nat BY <2>1, <2>3
    <3>3. tail'.length = tail.length - 1 /\ tail'.busy = tail.busy BY <2>1, <3>1
    <3>4. tail' \in [length : Nat, busy : BOOLEAN] BY <2>1, <3>1, <3>2
    <3> QED BY <1>1, <3>2, <3>3, <3>4
  <2> QED BY <2>2, <2>3
<1>3. NetTypes'
  <2>1. crowded' \in BOOLEAN /\ netError' \in BOOLEAN BY <1>0, <1>1, Zenon DEF NetTypes
  <2>4. algorithm' \in [route : {"random", "roundRobin"},
                    send : {"priority", "random", "roundRobin"},
                    fetch : {"priority", "random", "roundRobin", "shortestQueue", "longestQueue"}]
    BY <1>0, <1>1, Zenon DEF NetTypes
  <2>5. /\ netCounter' \in Nat /\ gone' \in Nat /\ rrCounter' \in Int
        /\ queued' \in [NetQueue -> Nat] /\ lastSent' \in [NetQueue -> Int]
        /\ lastFetched' \in [NetServer -> -1 .. NumQueues - 1]
        /\ onTheWay' \in [NetServer -> Nat]
        /\ isActive' \in [NetServer -> BOOLEAN]
        /\ serviced' \in [NetServer -> BOOLEAN]
        /\ unasked' \subseteq NetServer
        /\ passedOver' \in [NetServer -> [NetQueue -> Nat]]
    BY <1>0, <1>1 DEF NetTypes
  <2> QED BY <1>2, <2>1, <2>4, <2>5 DEF NetTypes
<1>4. AtServer' = AtServer BY <1>1 DEF AtServer
<1>5. OneJobEach' BY <1>0, <1>1, <1>4 DEF OneJobEach
<1>6. NoJobLost'
  <2> DEFINE a == tail'.length + (IF tail'.busy THEN 1 ELSE 0)
             n == SumFunctionOnSet(queued, NetQueue)
             m == SumFunctionOnSet(AtServer, NetServer)
  <2>1. a = tail.length BY <1>0, <1>2, Counted
  <2>2. tail'.length \in Nat /\ (IF tail'.busy THEN 1 ELSE 0) \in {0, 1} BY <1>2
  <2>3. tail.length \in Nat /\ gone \in Nat /\ n \in Int /\ m \in Int /\ tail.busy BY <1>0, <1>1, Counted
  <2>4. netCounter = gone + tail.length + 1 + n + m BY <1>0, <2>3 DEF NoJobLost
  <2> HIDE DEF n, m
  <2>5. netCounter = (gone + 1) + tail'.length + (IF tail'.busy THEN 1 ELSE 0) + n + m
    BY <2>1, <2>2, <2>3, <2>4
  <2>6. n' = n /\ m' = m BY <1>1, <1>4 DEF n, m
  <2>7. netCounter' = gone' + tail'.length + (IF tail'.busy THEN 1 ELSE 0) + n' + m'
    BY <1>1, <2>5, <2>6
  <2> QED BY <2>7 DEF NoJobLost, n, m
<1>7. NoneIdle' BY <1>0, <1>1 DEF NoneIdle, WaitingQueues, IdleServers
<1>8. InTurn' BY <1>0, <1>1 DEF InTurn, TurnsBefore
<1> QED BY <1>3, <1>5, <1>6, <1>7, <1>8 DEF NetInv

(* A server has booted.                                                    *)
LEMMA NetBootStep ==
  ASSUME NetInv, NEW s \in NetServer, BootFinished(s)
  PROVE  NetInv'
<1>0. NetTypes /\ OneJobEach /\ NoJobLost /\ NoneIdle /\ InTurn BY DEF NetInv
<1>1. /\ UNCHANGED <<algorithm, netCounter, rrCounter, queued, lastFetched, onTheWay, serviced,
                     tail, netError, gone, crowded, passedOver>>
      /\ isActive' = [isActive EXCEPT ![s] = TRUE]
      /\ lastSent' = [lastSent EXCEPT ![0] = -1]
      /\ unasked' = IF WaitingQueues # {} THEN unasked \cup {s} ELSE unasked
  BY DEF BootFinished
<1>2. NetTypes'
  <2>1. crowded' \in BOOLEAN /\ netError' \in BOOLEAN BY <1>0, <1>1, Zenon DEF NetTypes
  <2>2. tail' \in [length : Nat, busy : BOOLEAN] BY <1>0, <1>1 DEF NetTypes
  <2>3. algorithm' \in [route : {"random", "roundRobin"},
                    send : {"priority", "random", "roundRobin"},
                    fetch : {"priority", "random", "roundRobin", "shortestQueue", "longestQueue"}]
    BY <1>0, <1>1, Zenon DEF NetTypes
  <2>4. /\ netCounter' \in Nat /\ gone' \in Nat /\ rrCounter' \in Int
        /\ queued' \in [NetQueue -> Nat]
        /\ lastFetched' \in [NetServer -> -1 .. NumQueues - 1]
        /\ onTheWay' \in [NetServer -> Nat]
        /\ serviced' \in [NetServer -> BOOLEAN]
        /\ passedOver' \in [NetServer -> [NetQueue -> Nat]]
    BY <1>0, <1>1 DEF NetTypes
  <2>5. lastSent' \in [NetQueue -> Int]
    <3>1. lastSent \in [NetQueue -> Int] /\ -1 \in Int BY <1>0 DEF NetTypes
    <3>2. lastSent' = [lastSent EXCEPT ![0] = -1] BY <1>1
    <3> QED BY ONLY <3>1, <3>2
  <2>6. isActive' \in [NetServer -> BOOLEAN] BY <1>0, <1>1 DEF NetTypes
  <2>7. unasked' \subseteq NetServer BY <1>0, <1>1 DEF NetTypes
  <2> QED BY <2>1, <2>2, <2>3, <2>4, <2>5, <2>6, <2>7 DEF NetTypes
<1>3. AtServer' = AtServer BY <1>1 DEF AtServer
<1>4. OneJobEach' BY <1>0, <1>1, <1>3 DEF OneJobEach
<1>5. NoJobLost' BY <1>0, <1>1, <1>3 DEF NoJobLost
<1>6. NoneIdle'
  <2> SUFFICES ASSUME WaitingQueues' # {}, NEW x \in IdleServers'
               PROVE  onTheWay'[x] > 0 \/ x \in unasked'
    BY DEF NoneIdle
  <2>1. WaitingQueues' = WaitingQueues BY <1>1 DEF WaitingQueues
  <2>2. unasked' = unasked \cup {s} BY <1>1, <2>1
  <2>3. CASE x = s BY <2>2, <2>3
  <2>4. CASE x # s
    <3>1. x \in NetServer /\ isActive'[x] /\ ~serviced'[x] BY DEF IdleServers
    <3>2. isActive[x] /\ ~serviced[x] BY <1>0, <1>1, <2>4, <3>1 DEF NetTypes
    <3>3. x \in IdleServers BY <3>1, <3>2 DEF IdleServers
    <3>4. onTheWay[x] > 0 \/ x \in unasked BY <1>0, <2>1, <3>3 DEF NoneIdle
    <3> QED BY <1>1, <2>2, <3>4
  <2> QED BY <2>3, <2>4
<1>7. InTurn' BY <1>0, <1>1 DEF InTurn, TurnsBefore
<1> QED BY <1>2, <1>4, <1>5, <1>6, <1>7 DEF NetInv

(* A server asks a queue in which a job waits, if there is one.            *)
LEMMA FetchOutcomes ==
  ASSUME NetTypes, NEW s \in NetServer, Fetch(s)
  PROVE  \/ WaitingQueues = {} /\ UNCHANGED <<queued, lastFetched, onTheWay, unasked, passedOver>>
         \/ \E q \in WaitingQueues :
              /\ q \in Selected(algorithm.fetch, WaitingQueues, lastFetched[s], NumQueues, queued)
              /\ queued' = [queued EXCEPT ![q] = @ - 1]
              /\ lastFetched' = [lastFetched EXCEPT ![s] = q]
              /\ SendTo(s)
              /\ passedOver' = [passedOver EXCEPT ![s] = [x \in NetQueue |->
                                  IF x = q \/ x \notin WaitingQueues THEN 0 ELSE @[x] + 1]]
<1>1. CASE WaitingQueues = {} BY <1>1 DEF Fetch
<1>2. CASE WaitingQueues # {}
  <2>1. algorithm.fetch \in Strategy BY DEF NetTypes, Strategy
  <2>2. WaitingQueues \in SUBSET (0 .. NumQueues - 1) /\ NumQueues \in Nat
    BY NetAssumption DEF WaitingQueues, NetQueue
  <2>3. \A i \in WaitingQueues : queued[i] \in Int BY DEF WaitingQueues, NetTypes
  <2>4. Selected(algorithm.fetch, WaitingQueues, lastFetched[s], NumQueues, queued) \subseteq WaitingQueues
    BY <1>2, <2>1, <2>2, <2>3, SelectsOne
  <2> QED BY <1>2, <2>4, Zenon DEF Fetch
<1> QED BY <1>1, <1>2

(* A job that comes to the last queue stays there or leaves.               *)
LEMMA TailKeeps ==
  ASSUME NetTypes, TailReceives
  PROVE  /\ tail' \in [length : Nat, busy : BOOLEAN] /\ gone' \in Nat
         /\ gone' + tail'.length + (IF tail'.busy THEN 1 ELSE 0)
              = gone + tail.length + (IF tail.busy THEN 1 ELSE 0) + 1
<1> DEFINE full == TailCapacity >= 0 /\ tail.length >= TailCapacity
<1>1. tail \in [length : Nat, busy : BOOLEAN] /\ gone \in Nat BY DEF NetTypes
<1>2. /\ tail' = IF ~tail.busy THEN [tail EXCEPT !.busy = TRUE]
                 ELSE IF full THEN tail ELSE [tail EXCEPT !.length = @ + 1]
      /\ gone' = IF tail.busy /\ full THEN gone + 1 ELSE gone
  BY DEF TailReceives
<1> HIDE DEF full
<1>3. CASE ~tail.busy
  <2>1. tail' = [tail EXCEPT !.busy = TRUE] /\ gone' = gone BY <1>2, <1>3
  <2>2. tail'.length = tail.length /\ tail'.busy = TRUE BY <1>1, <2>1
  <2>3. tail' \in [length : Nat, busy : BOOLEAN] BY <1>1, <2>1
  <2> QED BY <1>1, <1>3, <2>1, <2>2, <2>3
<1>4. CASE tail.busy /\ full
  <2>1. tail' = tail /\ gone' = gone + 1 BY <1>2, <1>4
  <2> QED BY <1>1, <2>1
<1>5. CASE tail.busy /\ ~full
  <2>1. tail' = [tail EXCEPT !.length = @ + 1] /\ gone' = gone BY <1>2, <1>5
  <2>2. tail'.length = tail.length + 1 /\ tail'.busy = tail.busy BY <1>1, <2>1
  <2>3. tail' \in [length : Nat, busy : BOOLEAN] BY <1>1, <2>1
  <2> QED BY <1>1, <1>5, <2>1, <2>2, <2>3
<1> QED BY <1>3, <1>4, <1>5

(* With every queue a round-robin server asks, the turn of another one     *)
(* comes nearer.                                                           *)
LEMMA TurnsNearer ==
  ASSUME NetTypes, NEW s \in NetServer, NEW q \in NetQueue, NEW x \in NetQueue, x # q,
         TurnsBefore(s, q) <= TurnsBefore(s, x),
         lastFetched' = [lastFetched EXCEPT ![s] = q]
  PROVE  TurnsBefore(s, x)' <= TurnsBefore(s, x) - 1
<1>1. lastFetched \in [NetServer -> -1 .. NumQueues - 1] BY DEF NetTypes
<1>2. lastFetched' \in [NetServer -> -1 .. NumQueues - 1] /\ lastFetched'[s] = q
  <2>1. q \in -1 .. NumQueues - 1 BY NetAssumption DEF NetQueue
  <2> QED BY <1>1, <2>1
<1> DEFINE L == lastFetched[s]
<1>3. /\ TurnsBefore(s, q) = IF q > L THEN q - L - 1 ELSE q - L - 1 + NumQueues
      /\ TurnsBefore(s, x) = IF x > L THEN x - L - 1 ELSE x - L - 1 + NumQueues
  BY <1>1, TurnsType
<1>4. TurnsBefore(s, x)' = IF x > q THEN x - q - 1 ELSE x - q - 1 + NumQueues
  <2>1. TurnsBefore(s, x)' = (x - q - 1) % NumQueues BY <1>2 DEF TurnsBefore
  <2>2. x \in 0 .. NumQueues - 1 /\ q \in 0 .. NumQueues - 1 /\ NumQueues \in Nat \ {0}
    BY NetAssumption DEF NetQueue
  <2>3. CASE x > q
    <3>1. x - q - 1 \in 0 .. NumQueues - 1 /\ x - q - 1 \in Int BY <2>2, <2>3
    <3> QED BY <2>1, <2>2, <2>3, <3>1, Remainder
  <2>4. CASE ~(x > q)
    <3>1. x - q - 1 \in -NumQueues .. -1 /\ x - q - 1 \in Int BY <2>2, <2>4
    <3> QED BY <2>1, <2>2, <2>4, <3>1, Remainder
  <2> QED BY <2>3, <2>4
<1>5. /\ L \in -1 .. NumQueues - 1 /\ q \in 0 .. NumQueues - 1 /\ x \in 0 .. NumQueues - 1
      /\ NumQueues \in Nat \ {0}
  BY <1>1, NetAssumption DEF NetQueue
<1> HIDE DEF L
<1> QED BY <1>3, <1>4, <1>5

(* A server ends a service and asks for the next job.                      *)
LEMMA FinishStep ==
  ASSUME NetInv, NEW s \in NetServer, ServerFinishes(s)
  PROVE  NetInv'
<1>0. NetTypes /\ OneJobEach /\ NoJobLost /\ NoneIdle /\ InTurn BY DEF NetInv
<1>1. /\ ~netError /\ serviced[s] /\ serviced' = [serviced EXCEPT ![s] = FALSE]
      /\ TailReceives /\ Fetch(s)
      /\ UNCHANGED <<algorithm, netCounter, rrCounter, lastSent, isActive, netError, crowded>>
  BY DEF ServerFinishes
<1>2. /\ tail' \in [length : Nat, busy : BOOLEAN] /\ gone' \in Nat
      /\ gone' + tail'.length + (IF tail'.busy THEN 1 ELSE 0)
           = gone + tail.length + (IF tail.busy THEN 1 ELSE 0) + 1
  BY <1>0, <1>1, TailKeeps
<1>3. /\ serviced' \in [NetServer -> BOOLEAN] /\ serviced'[s] = FALSE
      /\ \A x \in NetServer \ {s} : serviced'[x] = serviced[x]
  BY <1>0, <1>1 DEF NetTypes
<1>4. serviced[s] \in BOOLEAN /\ \A x \in NetServer : onTheWay[x] \in Nat BY <1>0 DEF NetTypes
<1>5. ASSUME queued' \in [NetQueue -> Nat], lastFetched' \in [NetServer -> -1 .. NumQueues - 1],
             onTheWay' \in [NetServer -> Nat], unasked' \subseteq NetServer,
             passedOver' \in [NetServer -> [NetQueue -> Nat]]
      PROVE  NetTypes'
  <2>1. crowded' \in BOOLEAN /\ netError' \in BOOLEAN BY <1>0, <1>1, Zenon DEF NetTypes
  <2>2. algorithm' \in [route : {"random", "roundRobin"},
                    send : {"priority", "random", "roundRobin"},
                    fetch : {"priority", "random", "roundRobin", "shortestQueue", "longestQueue"}]
    BY <1>0, <1>1, Zenon DEF NetTypes
  <2>3. /\ netCounter' \in Nat /\ rrCounter' \in Int /\ lastSent' \in [NetQueue -> Int]
        /\ isActive' \in [NetServer -> BOOLEAN]
    BY <1>0, <1>1 DEF NetTypes
  <2> QED BY <1>2, <1>3, <1>5, <2>1, <2>2, <2>3 DEF NetTypes
<1>6. ASSUME NEW n \in Int, NEW m \in Int,
             SumFunctionOnSet(queued', NetQueue) = SumFunctionOnSet(queued, NetQueue) + n,
             SumFunctionOnSet(AtServer', NetServer) = SumFunctionOnSet(AtServer, NetServer) + m,
             n + m = -1
      PROVE  NoJobLost'
  <2>1. PICK a \in Int : a = SumFunctionOnSet(queued, NetQueue) BY <1>0, Counted
  <2>2. PICK b \in Int : b = SumFunctionOnSet(AtServer, NetServer) BY <1>0, Counted
  <2>3. /\ gone \in Nat /\ tail.length \in Nat
        /\ (IF tail.busy THEN 1 ELSE 0) \in Nat /\ (IF tail'.busy THEN 1 ELSE 0) \in Nat
        /\ tail'.length \in Nat /\ gone' \in Nat
    BY <1>0, <1>2, Counted
  <2>4. netCounter = gone + tail.length + (IF tail.busy THEN 1 ELSE 0) + a + b
    BY <1>0, <2>1, <2>2 DEF NoJobLost
  <2>5. netCounter = gone' + tail'.length + (IF tail'.busy THEN 1 ELSE 0) + (a + n) + (b + m)
    BY ONLY <1>2, <1>6, <2>3, <2>4, a \in Int, b \in Int
  <2>6. netCounter' = netCounter BY <1>1
  <2> QED BY <1>6, <2>1, <2>2, <2>5, <2>6 DEF NoJobLost
<1>7. CASE WaitingQueues = {} /\ UNCHANGED <<queued, lastFetched, onTheWay, unasked, passedOver>>
  <2>1. NetTypes' BY <1>0, <1>5, <1>7 DEF NetTypes
  <2>2. onTheWay'[s] + (IF serviced'[s] THEN 1 ELSE 0)
           = onTheWay[s] + (IF serviced[s] THEN 1 ELSE 0) + (-1)
    BY <1>1, <1>3, <1>4, <1>7
  <2>3. /\ SumFunctionOnSet(AtServer', NetServer) = SumFunctionOnSet(AtServer, NetServer) + (-1)
        /\ AtServer'[s] = AtServer[s] + (-1)
        /\ \A x \in NetServer \ {s} : AtServer'[x] = AtServer[x]
    <3>1. \A x \in NetServer \ {s} : onTheWay'[x] = onTheWay[x] /\ serviced'[x] = serviced[x]
      BY <1>3, <1>7
    <3>2. -1 \in Int OBVIOUS
    <3> QED BY ONLY <1>0, s \in NetServer, <2>1, <2>2, <3>1, <3>2, AtServerChange
  <2>4. OneJobEach'
    <3>1. \A x \in NetServer : AtServer'[x] <= AtServer[x] /\ AtServer[x] \in Nat /\ AtServer'[x] \in Int
      BY <1>0, <2>3, AtServerType
    <3> QED BY <1>0, <1>1, <3>1 DEF OneJobEach
  <2>5. NoJobLost'
    <3>1. SumFunctionOnSet(queued', NetQueue) = SumFunctionOnSet(queued, NetQueue) + 0
      BY <1>0, <1>7, Counted
    <3>2. 0 \in Int /\ -1 \in Int /\ 0 + (-1) = -1 OBVIOUS
    <3> QED BY <1>6, <2>3, <3>1, <3>2
  <2>6. NoneIdle' BY <1>7 DEF NoneIdle, WaitingQueues
  <2>7. InTurn' BY <1>0, <1>1, <1>7 DEF InTurn, TurnsBefore
  <2> QED BY <2>1, <2>4, <2>5, <2>6, <2>7 DEF NetInv
<1>8. ASSUME NEW q \in WaitingQueues,
             q \in Selected(algorithm.fetch, WaitingQueues, lastFetched[s], NumQueues, queued),
             queued' = [queued EXCEPT ![q] = @ - 1],
             lastFetched' = [lastFetched EXCEPT ![s] = q],
             SendTo(s),
             passedOver' = [passedOver EXCEPT ![s] = [x \in NetQueue |->
                                  IF x = q \/ x \notin WaitingQueues THEN 0 ELSE @[x] + 1]]
      PROVE  NetInv'
  <2>0. q \in NetQueue /\ queued[q] > 0 /\ queued[q] \in Nat
    BY <1>0 DEF WaitingQueues, NetTypes
  <2>1. /\ SumFunctionOnSet(queued', NetQueue) = SumFunctionOnSet(queued, NetQueue) + (-1)
        /\ queued' \in [NetQueue -> Nat]
    <3>1. queued[q] + (-1) \in Nat /\ -1 \in Int /\ queued[q] - 1 = queued[q] + (-1) BY <2>0
    <3>2. queued' = [queued EXCEPT ![q] = @ + (-1)] BY <1>8, <3>1
    <3> QED BY <1>0, <2>0, <3>1, <3>2, QueuedChange
  <2>2. lastFetched' \in [NetServer -> -1 .. NumQueues - 1]
    <3>1. q \in -1 .. NumQueues - 1 BY <2>0, NetAssumption DEF NetQueue
    <3> QED BY <1>0, <1>8, <3>1 DEF NetTypes
  <2>3. /\ onTheWay' \in [NetServer -> Nat] /\ onTheWay'[s] = onTheWay[s] + 1
        /\ \A x \in NetServer \ {s} : onTheWay'[x] = onTheWay[x]
        /\ unasked' = unasked \ {s} /\ unasked' \subseteq NetServer
    BY <1>0, <1>8 DEF NetTypes, SendTo
  <2>4. /\ \A x \in NetQueue : passedOver'[s][x] =
             IF x = q \/ x \notin WaitingQueues THEN 0 ELSE passedOver[s][x] + 1
        /\ \A t \in NetServer \ {s} : passedOver'[t] = passedOver[t]
        /\ passedOver' \in [NetServer -> [NetQueue -> Nat]]
    <3>1. passedOver \in [NetServer -> [NetQueue -> Nat]] BY <1>0 DEF NetTypes
    <3> DEFINE f == [x \in NetQueue |-> IF x = q \/ x \notin WaitingQueues THEN 0 ELSE passedOver[s][x] + 1]
    <3>2. f \in [NetQueue -> Nat] BY <3>1
    <3>3. passedOver' = [passedOver EXCEPT ![s] = f] BY <1>8
    <3>4. passedOver'[s] = f BY <3>1, <3>3, Zenon
    <3>5. \A x \in NetQueue : f[x] = IF x = q \/ x \notin WaitingQueues THEN 0 ELSE passedOver[s][x] + 1
      OBVIOUS
    <3> HIDE DEF f
    <3> QED BY ONLY <3>1, <3>2, <3>3, <3>4, <3>5
  <2>5. NetTypes' BY <1>5, <2>1, <2>2, <2>3, <2>4
  <2>6. onTheWay'[s] + (IF serviced'[s] THEN 1 ELSE 0)
           = onTheWay[s] + (IF serviced[s] THEN 1 ELSE 0) + 0
    BY <1>1, <1>3, <1>4, <2>3
  <2>7. /\ SumFunctionOnSet(AtServer', NetServer) = SumFunctionOnSet(AtServer, NetServer) + 0
        /\ AtServer'[s] = AtServer[s] + 0
        /\ \A x \in NetServer \ {s} : AtServer'[x] = AtServer[x]
    <3>1. \A x \in NetServer \ {s} : onTheWay'[x] = onTheWay[x] /\ serviced'[x] = serviced[x]
      BY <1>3, <2>3
    <3>2. 0 \in Int OBVIOUS
    <3> QED BY ONLY <1>0, s \in NetServer, <2>5, <2>6, <3>1, <3>2, AtServerChange
  <2>8. OneJobEach'
    <3>1. \A x \in NetServer : AtServer'[x] = AtServer[x]
      BY <1>0, <2>7, AtServerType
    <3> QED BY <1>0, <1>1, <3>1 DEF OneJobEach
  <2>9. NoJobLost'
    <3>1. 0 \in Int /\ -1 \in Int /\ (-1) + 0 = -1 OBVIOUS
    <3> QED BY <1>6, <2>1, <2>7, <3>1
  <2>10. NoneIdle'
    <3> SUFFICES ASSUME WaitingQueues' # {}, NEW x \in IdleServers'
                 PROVE  onTheWay'[x] > 0 \/ x \in unasked'
      BY DEF NoneIdle
    <3>1. x \in NetServer /\ isActive[x] /\ ~serviced'[x] BY <1>1 DEF IdleServers
    <3>2. CASE x = s BY <1>4, <2>3, <3>2
    <3>3. CASE x # s
      <4>1. x \in IdleServers BY <1>3, <3>1, <3>3 DEF IdleServers
      <4>2. onTheWay[x] > 0 \/ x \in unasked BY <1>0, <4>1 DEF NoneIdle
      <4> QED BY <2>3, <3>1, <3>3, <4>2
    <3> QED BY <3>2, <3>3
  <2>11. InTurn'
    <3> SUFFICES ASSUME algorithm'.fetch = "roundRobin", NEW t \in NetServer, NEW x \in NetQueue
                 PROVE  passedOver'[t][x] + TurnsBefore(t, x)' < NumQueues
      BY DEF InTurn
    <3>0. algorithm.fetch = "roundRobin" BY <1>1, Zenon
    <3>1. passedOver[t][x] + TurnsBefore(t, x) < NumQueues BY <1>0, <3>0 DEF InTurn
    <3>2. /\ TurnsBefore(t, x) \in 0 .. NumQueues - 1
          /\ passedOver[t][x] \in Nat /\ NumQueues \in Nat
      BY <1>0, TurnsType, NetAssumption DEF NetTypes
    <3>3. TurnsBefore(t, x)' \in 0 .. NumQueues - 1
      <4>1. NumQueues \in Nat \ {0} BY NetAssumption
      <4>2. x - lastFetched'[t] - 1 \in Int BY <2>2, NetAssumption DEF NetQueue
      <4> QED BY <4>1, <4>2, Remainder DEF TurnsBefore
    <3>4. CASE t # s
      <4>1. lastFetched'[t] = lastFetched[t] BY <1>0, <1>8, <3>4 DEF NetTypes
      <4>2. TurnsBefore(t, x)' = TurnsBefore(t, x) BY <4>1 DEF TurnsBefore
      <4> QED BY <2>4, <3>1, <3>4, <4>2
    <3>5. CASE t = s /\ (x = q \/ x \notin WaitingQueues)
      <4>1. passedOver'[t][x] = 0 BY <2>4, <3>5
      <4> QED BY <3>2, <3>3, <4>1
    <3>6. CASE t = s /\ x # q /\ x \in WaitingQueues
      <4>1. passedOver'[t][x] = passedOver[t][x] + 1 BY <2>4, <3>6
      <4>2. \A j \in WaitingQueues : TurnsBefore(s, q) <= TurnsBefore(s, j)
        BY <1>8, <3>0 DEF Selected, TurnsBefore
      <4>3. TurnsBefore(s, q) <= TurnsBefore(s, x) BY <3>6, <4>2
      <4>4. TurnsBefore(s, x)' <= TurnsBefore(s, x) - 1
        BY <1>0, <1>8, <2>0, <3>6, <4>3, TurnsNearer
      <4> QED BY <3>1, <3>2, <3>3, <3>6, <4>1, <4>4
    <3> QED BY <3>4, <3>5, <3>6
  <2> QED BY <2>5, <2>8, <2>9, <2>10, <2>11 DEF NetInv
<1> QED BY <1>0, <1>1, <1>7, <1>8, FetchOutcomes

(* The invariant is inductive.                                             *)
LEMMA NetStep == NetInv /\ [NetNext]_netVars => NetInv'
<1> SUFFICES ASSUME NetInv, [NetNext]_netVars PROVE NetInv'
  OBVIOUS
<1>1. CASE SourceSends BY <1>1, SourceStep
<1>2. ASSUME NEW s \in NetServer, ServerGetsJob(s) PROVE NetInv' BY <1>2, ArrivalStep
<1>3. ASSUME NEW s \in NetServer, ServerFinishes(s) PROVE NetInv' BY <1>3, FinishStep
<1>4. ASSUME NEW s \in NetServer, BootFinished(s) PROVE NetInv' BY <1>4, NetBootStep
<1>5. CASE TailFinishes BY <1>5, TailStep
<1>6. CASE UNCHANGED netVars
  <2>1. NetTypes' BY <1>6 DEF netVars, NetInv, NetTypes
  <2>2. AtServer' = AtServer BY <1>6 DEF netVars, AtServer
  <2>3. OneJobEach' BY <1>6, <2>2 DEF netVars, NetInv, OneJobEach
  <2>4. NoJobLost' BY <1>6, <2>2 DEF netVars, NetInv, NoJobLost
  <2>5. NoneIdle' BY <1>6 DEF netVars, NetInv, NoneIdle, WaitingQueues, IdleServers
  <2>6. InTurn' BY <1>6 DEF netVars, NetInv, InTurn, TurnsBefore
  <2> QED BY <2>1, <2>3, <2>4, <2>5, <2>6 DEF NetInv
<1> QED BY <1>1, <1>2, <1>3, <1>4, <1>5, <1>6 DEF NetNext

(* The invariant is as strong as the property.                             *)
LEMMA NetInvSound == NetInv => NetIsSound
<1> SUFFICES ASSUME NetInv PROVE NetIsSound OBVIOUS
<1>0. NetTypes /\ OneJobEach /\ NoJobLost /\ NoneIdle /\ InTurn BY DEF NetInv
<1>1. netError => crowded BY <1>0 DEF OneJobEach
<1>2. ASSUME algorithm.fetch = "roundRobin", NEW s \in NetServer, NEW q \in NetQueue
      PROVE  passedOver[s][q] < NumQueues
  <2>1. passedOver[s][q] + TurnsBefore(s, q) < NumQueues BY <1>0, <1>2 DEF InTurn
  <2>2. TurnsBefore(s, q) \in Nat /\ passedOver[s][q] \in Nat /\ NumQueues \in Nat
    BY <1>0, TurnsType, NetAssumption DEF NetTypes
  <2> QED BY <2>1, <2>2
<1> QED BY <1>0, <1>1, <1>2, Zenon DEF NetIsSound, NoJobLost, NoneIdle

(* Whatever the strategies, the number of queues, servers and jobs, and the*)
(* capacities: no job is lost, a job finds a busy server only when two came*)
(* in one instant, none waits beside a server that could have been asked,  *)
(* and roundRobin passes no waiting queue over twice for the same other one*)
(* (PassiveQueue, Server, SelectionStrategies).  NetInv is inductive: it   *)
(* adds that a server has one job at most, and which turns a queue waits.  *)
THEOREM NetTheorem == PartsSpec => []NetIsSound
<1>1. PartsInit => NetInv
  BY NetInitially DEF PartsInit
<1>2. NetInv /\ [PartsNext]_partsVars => NetInv'
  <2>1. [PartsNext]_partsVars => [NetNext]_netVars
    BY DEF PartsNext, partsVars, OnlyPart
  <2> QED BY <2>1, NetStep
<1> QED
  BY <1>1, <1>2, NetInvSound, PTL DEF PartsSpec

(***************************************************************************)
(* The resource pools                                                      *)
(***************************************************************************)

Request == [allocator : User, priority : {ResourcePriority[a] + p : a \in User, p \in JobPriority}]
PoolState ==
  [amount : Nat, requests : Seq(Request), queue : [User -> Seq(JobPriority)],
   held : [User -> Nat], wrong : SUBSET User]

(* The amounts that are held, and the requests of a user in a list.        *)
Taken(h) == SumFunctionOnSet(AmountHeld(h), User)
RequestsOf(rs, a) == {i \in DOMAIN rs : rs[i].allocator = a}
Asked(rs, a) == Cardinality(RequestsOf(rs, a))

(* What is held of the amount is a number.                                 *)
LEMMA TakenType ==
  ASSUME NEW h \in [User -> Nat]
  PROVE  Taken(h) \in Int /\ \A a \in User : AmountHeld(h)[a] \in Int /\ AmountHeld(h)[a] = h[a] * ResourceAmount[a]
<1>1. \A a \in User : ResourceAmount[a] \in Nat /\ h[a] \in Nat BY PoolAssumption
<1>2. \A a \in User : AmountHeld(h)[a] = h[a] * ResourceAmount[a] BY DEF AmountHeld
<1>3. \A a \in User : AmountHeld(h)[a] \in Int BY <1>1, <1>2
<1> QED BY <1>2, <1>3, PoolAssumption, SumType DEF Taken

(* One grant more of a user takes its amount.                              *)
LEMMA TakenMore ==
  ASSUME NEW h \in [User -> Nat], NEW g \in [User -> Nat], NEW a \in User,
         g[a] = h[a] + 1, \A b \in User \ {a} : g[b] = h[b]
  PROVE  Taken(g) = Taken(h) + ResourceAmount[a]
<1>1. \A b \in User : AmountHeld(h)[b] = h[b] * ResourceAmount[b] /\ AmountHeld(g)[b] = g[b] * ResourceAmount[b]
  BY TakenType
<1>2. \A b \in User : AmountHeld(h)[b] \in Int /\ AmountHeld(g)[b] \in Int BY TakenType
<1>3. \A b \in User \ {a} : AmountHeld(g)[b] = AmountHeld(h)[b] BY <1>1
<1>4. Taken(g) = Taken(h) + (AmountHeld(g)[a] - AmountHeld(h)[a])
  BY ONLY <1>2, <1>3, PoolAssumption, SumChange, a \in User DEF Taken
<1>5. AmountHeld(g)[a] = AmountHeld(h)[a] + ResourceAmount[a]
  <2>1. \A x, y \in Int : (x + 1) * y = x * y + y OBVIOUS
  <2>2. h[a] \in Int /\ ResourceAmount[a] \in Int BY PoolAssumption
  <2> QED BY <1>1, <2>1, <2>2
<1>6. ResourceAmount[a] \in Int BY PoolAssumption
<1>7. AmountHeld(g)[a] - AmountHeld(h)[a] = ResourceAmount[a]
  BY ONLY <1>2, <1>5, <1>6, a \in User
<1> QED BY <1>4, <1>7

(* When the amount does not suffice for a user, somebody holds some of it. *)
LEMMA SomebodyHolds ==
  ASSUME NEW h \in [User -> Nat], NEW m \in Nat, m + Taken(h) = PoolAmount,
         NEW a \in User, m < ResourceAmount[a]
  PROVE  \E b \in User : h[b] > 0
<1> SUFFICES ASSUME \A b \in User : ~(h[b] > 0) PROVE FALSE OBVIOUS
<1>1. \A b \in User : h[b] = 0 OBVIOUS
<1>2. \A b \in User : AmountHeld(h)[b] = 0
  <2>1. \A b \in User : AmountHeld(h)[b] = h[b] * ResourceAmount[b] BY TakenType
  <2>2. \A b \in User : ResourceAmount[b] \in Int BY PoolAssumption
  <2> QED BY <1>1, <2>1, <2>2
<1>3. Taken(h) = 0 BY <1>2, PoolAssumption, SumOfZeros DEF Taken
<1>4. ResourceAmount[a] <= PoolAmount BY PoolAssumption
<1>5. ResourceAmount[a] \in Nat /\ PoolAmount \in Nat BY PoolAssumption
<1> QED BY <1>3, <1>4, <1>5

(* A list with one request more.                                           *)
IsInserted(rs, k, r, ts) ==
  /\ k \in 1 .. Len(rs) + 1 /\ Len(ts) = Len(rs) + 1 /\ ts[k] = r
  /\ \A j \in 1 .. k - 1 : ts[j] = rs[j]
  /\ \A j \in k .. Len(rs) : ts[j + 1] = rs[j]

OneAsks(rs, a, ts) == \E r \in Request : r.allocator = a /\ \E k : IsInserted(rs, k, r, ts)

(* Its user has one request more, and nobody else.                         *)
LEMMA InsertedCount ==
  ASSUME NEW rs \in Seq(Request), NEW r \in Request, NEW ts \in Seq(Request), NEW k,
         IsInserted(rs, k, r, ts)
  PROVE  \A a \in User : /\ Asked(rs, a) \in Nat
                         /\ Asked(ts, a) = Asked(rs, a) + (IF r.allocator = a THEN 1 ELSE 0)
<1> SUFFICES ASSUME NEW a \in User
             PROVE  /\ Asked(rs, a) \in Nat
                    /\ Asked(ts, a) = Asked(rs, a) + (IF r.allocator = a THEN 1 ELSE 0)
  OBVIOUS
<1> DEFINE C == RequestsOf(rs, a)
           D == RequestsOf(ts, a)
           f == [j \in C |-> IF j < k THEN j ELSE j + 1]
<1>0. Len(rs) \in Nat /\ DOMAIN rs = 1 .. Len(rs) /\ DOMAIN ts = 1 .. Len(rs) + 1 /\ k \in 1 .. Len(rs) + 1
  BY DEF IsInserted
<1>1. IsFiniteSet(C) /\ IsFiniteSet(D)
  <2>1. IsFiniteSet(1 .. Len(rs)) /\ IsFiniteSet(1 .. Len(rs) + 1) BY <1>0, FS_Interval
  <2>2. C \subseteq 1 .. Len(rs) /\ D \subseteq 1 .. Len(rs) + 1 BY <1>0 DEF RequestsOf
  <2> QED BY <2>1, <2>2, FS_Subset
<1>2. \A j \in C : j \in 1 .. Len(rs) /\ rs[j].allocator = a BY <1>0 DEF RequestsOf
<1>3. \A j \in C : f[j] \in D \ {k}
  <2> SUFFICES ASSUME NEW j \in C PROVE f[j] \in D \ {k} OBVIOUS
  <2>1. j \in 1 .. Len(rs) /\ rs[j].allocator = a BY <1>2
  <2>2. CASE j < k
    <3>1. f[j] = j /\ j \in 1 .. k - 1 BY <1>0, <2>1, <2>2
    <3>2. ts[j] = rs[j] BY <3>1 DEF IsInserted
    <3> QED BY <1>0, <2>1, <2>2, <3>1, <3>2 DEF RequestsOf
  <2>3. CASE ~(j < k)
    <3>1. f[j] = j + 1 /\ j \in k .. Len(rs) BY <1>0, <2>1, <2>3
    <3>2. ts[j + 1] = rs[j] BY <3>1 DEF IsInserted
    <3> QED BY <1>0, <2>1, <2>3, <3>1, <3>2 DEF RequestsOf
  <2> QED BY <2>2, <2>3
<1>4. \A i, j \in C : f[i] = f[j] => i = j
  <2>1. \A j \in C : j \in Int BY <1>2
  <2> QED BY <1>0, <2>1
<1>5. \A i \in D \ {k} : \E j \in C : f[j] = i
  <2> SUFFICES ASSUME NEW i \in D \ {k} PROVE \E j \in C : f[j] = i OBVIOUS
  <2>1. i \in 1 .. Len(rs) + 1 /\ ts[i].allocator = a /\ i # k BY <1>0 DEF RequestsOf
  <2>2. CASE i < k
    <3>1. i \in 1 .. k - 1 /\ i \in 1 .. Len(rs) BY <1>0, <2>1, <2>2
    <3>2. ts[i] = rs[i] BY <3>1 DEF IsInserted
    <3>3. i \in C BY <1>0, <2>1, <3>1, <3>2 DEF RequestsOf
    <3>4. f[i] = i BY <2>2, <3>3
    <3> QED BY <3>3, <3>4
  <2>3. CASE i > k
    <3>1. i - 1 \in k .. Len(rs) /\ i - 1 \in 1 .. Len(rs) /\ (i - 1) + 1 = i BY <1>0, <2>1, <2>3
    <3>2. ts[i] = rs[i - 1] BY <3>1 DEF IsInserted
    <3>3. i - 1 \in C BY <1>0, <2>1, <3>1, <3>2 DEF RequestsOf
    <3>4. f[i - 1] = i BY <1>0, <3>1, <3>3
    <3> QED BY <3>3, <3>4
  <2> QED BY <1>0, <2>1, <2>2, <2>3
<1>6. Cardinality(D \ {k}) = Cardinality(C)
  <2>1. f \in Bijection(C, D \ {k})
    <3>1. f \in [C -> D \ {k}] BY <1>3
    <3> HIDE DEF f, C, D
    <3>2. f \in Injection(C, D \ {k}) BY <1>4, <3>1 DEF Injection, IsInjective
    <3>3. f \in Surjection(C, D \ {k}) BY <1>5, <3>1 DEF Surjection
    <3> QED BY <3>2, <3>3 DEF Bijection
  <2>2. ExistsBijection(C, D \ {k}) BY <2>1 DEF ExistsBijection
  <2> QED BY <1>1, <2>2, FS_Bijection
<1>7. Cardinality(C) \in Nat BY <1>1, FS_CardinalityType
<1>8. r.allocator = a <=> k \in D
  <2>1. ts[k] = r BY DEF IsInserted
  <2> QED BY <1>0, <2>1 DEF RequestsOf
<1>9. CASE k \in D
  <2>1. Cardinality(D \ {k}) = Cardinality(D) - 1 /\ Cardinality(D) \in Nat
    BY <1>1, <1>9, FS_RemoveElement, FS_CardinalityType
  <2> HIDE DEF C, D
  <2>2. Cardinality(D) = Cardinality(C) + 1 BY <1>6, <1>7, <2>1
  <2> QED BY <1>7, <1>8, <1>9, <2>2 DEF Asked, C, D
<1>10. CASE k \notin D
  <2>1. D \ {k} = D BY <1>10
  <2> HIDE DEF C, D
  <2>2. Cardinality(D) = Cardinality(C) BY <1>6, <2>1
  <2> QED BY <1>7, <1>8, <1>10, <2>2 DEF Asked, C, D
<1> QED BY <1>9, <1>10

(* Without the first request its user has one less.                        *)
LEMMA TailCount ==
  ASSUME NEW rs \in Seq(Request), rs # <<>>
  PROVE  /\ Tail(rs) \in Seq(Request) /\ Head(rs) \in Request
         /\ \A a \in User :
              /\ Asked(Tail(rs), a) \in Nat
              /\ Asked(rs, a) = Asked(Tail(rs), a) + (IF Head(rs).allocator = a THEN 1 ELSE 0)
<1>1. Tail(rs) \in Seq(Request) /\ Head(rs) \in Request /\ Len(Tail(rs)) = Len(rs) - 1 /\ Len(rs) \in Nat
  OBVIOUS
<1>2. \A j \in 1 .. Len(Tail(rs)) : rs[j + 1] = Tail(rs)[j] OBVIOUS
<1>3. rs[1] = Head(rs) OBVIOUS
<1>4. Len(rs) # 0 OBVIOUS
<1>5. Len(rs) = Len(Tail(rs)) + 1 /\ 1 \in 1 .. Len(Tail(rs)) + 1 BY <1>1, <1>4
<1>6. IsInserted(Tail(rs), 1, Head(rs), rs) BY <1>2, <1>3, <1>5 DEF IsInserted
<1> QED BY <1>1, <1>6, InsertedCount

(* ResourcePool::add inserts the request.                                  *)
LEMMA AddRequestIs ==
  ASSUME NEW rs \in Seq(Request), NEW r \in Request
  PROVE  /\ AddRequest(rs, r) \in Seq(Request)
         /\ \E k : IsInserted(rs, k, r, AddRequest(rs, r))
<1> DEFINE ahead == {i \in DOMAIN rs : rs[i].priority <= r.priority}
           m == Max(ahead \cup {0})
           k == m + 1
           ts == AddRequest(rs, r)
<1>1. Len(rs) \in Nat /\ DOMAIN rs = 1 .. Len(rs) OBVIOUS
<1>2. m \in 0 .. Len(rs)
  <2>1. IsFiniteSet(0 .. Len(rs)) BY <1>1, FS_Interval
  <2>2. ahead \cup {0} \in SUBSET (0 .. Len(rs)) BY <1>1
  <2>3. IsFiniteSet(ahead \cup {0}) BY <2>1, <2>2, FS_Subset
  <2>4. ahead \cup {0} \in SUBSET Int /\ ahead \cup {0} # {} BY <2>2
  <2> HIDE DEF ahead
  <2>5. m \in ahead \cup {0} BY <2>3, <2>4, MaxIs
  <2> QED BY <2>2, <2>5
<1>3. ts = SubSeq(rs, 1, k - 1) \o <<r>> \o SubSeq(rs, k, Len(rs)) BY DEF AddRequest, InsertAt
<1> HIDE DEF m, ts
<1>4. k \in 1 .. Len(rs) + 1 /\ k - 1 = m /\ k \in Int BY <1>1, <1>2
<1> HIDE DEF k
<1> DEFINE A == SubSeq(rs, 1, k - 1)
           B == SubSeq(rs, k, Len(rs))
<1>5. A \in Seq(Request) /\ Len(A) = k - 1 /\ \A j \in 1 .. k - 1 : A[j] = rs[j]
  <2>1. A = [j \in 1 .. k - 1 |-> rs[j]] BY <1>1, <1>4
  <2> QED BY <1>1, <1>4, <2>1
<1>6. B \in Seq(Request) /\ Len(B) = Len(rs) - k + 1 /\ \A j \in 1 .. Len(rs) - k + 1 : B[j] = rs[j + k - 1]
  <2>1. B = [j \in 1 .. Len(rs) - k + 1 |-> rs[j + k - 1]] BY <1>1, <1>4
  <2> QED BY <1>1, <1>4, <2>1
<1> HIDE DEF A, B
<1>7. ts = (A \o <<r>>) \o B BY <1>3 DEF A, B
<1> DEFINE E == A \o <<r>>
<1>8. E \in Seq(Request) /\ Len(E) = k /\ E[k] = r /\ \A j \in 1 .. k - 1 : E[j] = rs[j]
  BY <1>4, <1>5
<1> HIDE DEF E
<1>9. ts \in Seq(Request) /\ Len(ts) = Len(rs) + 1
  <2>1. ts = E \o B BY <1>7 DEF E
  <2>2. ts \in Seq(Request) /\ Len(ts) = Len(E) + Len(B)
    BY ONLY <1>6, <1>8, <2>1, ConcatProperties
  <2>3. Len(rs) \in Nat /\ k \in Int /\ Len(E) = k /\ Len(B) = Len(rs) - k + 1 BY <1>1, <1>4, <1>6, <1>8
  <2>4. Len(E) + Len(B) = Len(rs) + 1 BY ONLY <2>3
  <2> QED BY <2>2, <2>4
<1>10. \A j \in 1 .. k : ts[j] = E[j] BY <1>4, <1>6, <1>7, <1>8 DEF E
<1>11. \A j \in k .. Len(rs) : ts[j + 1] = rs[j]
  <2> SUFFICES ASSUME NEW j \in k .. Len(rs) PROVE ts[j + 1] = rs[j] OBVIOUS
  <2>1. j + 1 - k \in 1 .. Len(rs) - k + 1 /\ j + 1 - k + k - 1 = j /\ j + 1 = k + (j + 1 - k) BY <1>1, <1>4
  <2>2. ts[k + (j + 1 - k)] = B[j + 1 - k] BY <1>4, <1>6, <1>7, <1>8, <2>1 DEF E
  <2> QED BY <1>6, <2>1, <2>2
<1>12. IsInserted(rs, k, r, ts)
  <2>1. ts[k] = r BY <1>4, <1>8, <1>10
  <2>2. \A j \in 1 .. k - 1 : ts[j] = rs[j] BY <1>4, <1>8, <1>10
  <2> QED BY <1>4, <1>9, <1>11, <2>1, <2>2 DEF IsInserted
<1> QED BY <1>9, <1>12 DEF ts

(* A job leaves the queue of its user.                                     *)
LEMMA TakeJobIs ==
  ASSUME NEW s \in PoolState, NEW a \in User, s.queue[a] # <<>>, NEW t, t = TakeJob(s, a)
  PROVE  /\ t \in PoolState
         /\ t.amount = s.amount /\ t.requests = s.requests /\ t.wrong = s.wrong
         /\ Len(t.queue[a]) = Len(s.queue[a]) - 1 /\ t.held[a] = s.held[a] + 1
         /\ \A b \in User \ {a} : t.queue[b] = s.queue[b] /\ t.held[b] = s.held[b]
<1> DEFINE d == Dequeued(s, a)
           q == s.queue[a]
<1>1. q \in Seq(JobPriority) /\ q # <<>> BY DEF PoolState
<1>2. d \in Seq(JobPriority) /\ Len(d) = Len(q) - 1
  <2>1. Tail(q) \in Seq(JobPriority) /\ Len(Tail(q)) = Len(q) - 1 BY <1>1
  <2>2. Front(q) \in Seq(JobPriority) /\ Len(Front(q)) = Len(q) - 1
    <3>1. Len(q) \in Nat /\ Len(q) - 1 \in Nat BY <1>1
    <3>2. Front(q) = [i \in 1 .. Len(q) - 1 |-> q[i]] BY <1>1, <3>1 DEF Front
    <3> QED BY <1>1, <3>1, <3>2
  <2> QED BY <2>1, <2>2 DEF Dequeued
<1> HIDE DEF d, q
<1>3. t = [s EXCEPT !.queue[a] = d, !.held[a] = @ + 1] BY DEF TakeJob, d
<1>4. /\ t.amount = s.amount /\ t.requests = s.requests /\ t.wrong = s.wrong
      /\ t.queue = [s.queue EXCEPT ![a] = d]
      /\ t.held = [s.held EXCEPT ![a] = @ + 1]
      /\ t = [amount |-> t.amount, requests |-> t.requests, queue |-> t.queue, held |-> t.held, wrong |-> t.wrong]
  BY <1>3 DEF PoolState
<1>5. /\ s.amount \in Nat /\ s.requests \in Seq(Request) /\ s.queue \in [User -> Seq(JobPriority)]
      /\ s.held \in [User -> Nat] /\ s.wrong \in SUBSET User
  BY DEF PoolState
<1>6. /\ t.queue \in [User -> Seq(JobPriority)] /\ t.queue[a] = d
      /\ \A b \in User \ {a} : t.queue[b] = s.queue[b]
  BY ONLY <1>2, <1>4, <1>5, a \in User
<1>7. /\ t.held \in [User -> Nat] /\ t.held[a] = s.held[a] + 1
      /\ \A b \in User \ {a} : t.held[b] = s.held[b]
  BY ONLY <1>4, <1>5, a \in User
<1>8. t \in PoolState BY ONLY <1>4, <1>5, <1>6, <1>7 DEF PoolState
<1> QED BY <1>2, <1>4, <1>6, <1>7, <1>8 DEF q

(* Somebody asks for the resource.                                         *)
LEMMA TryIs ==
  ASSUME NEW s \in PoolState, NEW a \in User, NEW p \in JobPriority, NEW try, try = TryToAllocate(s, a, p)
  PROVE  /\ try.ok \in BOOLEAN /\ try.s \in PoolState
         /\ try.s.queue = s.queue /\ try.s.held = s.held /\ try.s.wrong = s.wrong
         /\ try.ok => /\ try.s.requests = s.requests
                      /\ try.s.amount = s.amount - ResourceAmount[a]
         /\ ~try.ok => /\ try.s.amount = s.amount /\ s.amount < ResourceAmount[a]
                       /\ OneAsks(s.requests, a, try.s.requests)
<1>0. /\ s.amount \in Nat /\ s.requests \in Seq(Request) /\ s.queue \in [User -> Seq(JobPriority)]
      /\ s.held \in [User -> Nat] /\ s.wrong \in SUBSET User
      /\ ResourceAmount[a] \in Nat
  BY PoolAssumption DEF PoolState
<1>1. CASE s.amount >= ResourceAmount[a]
  <2> DEFINE u == [s EXCEPT !.amount = @ - ResourceAmount[a]]
  <2>1. try = [ok |-> TRUE, s |-> u] BY <1>1 DEF TryToAllocate
  <2>2. s.amount - ResourceAmount[a] \in Nat BY <1>0, <1>1
  <2>3. /\ u \in PoolState /\ u.queue = s.queue /\ u.held = s.held /\ u.wrong = s.wrong
        /\ u.requests = s.requests /\ u.amount = s.amount - ResourceAmount[a]
    BY <2>2 DEF PoolState
  <2> HIDE DEF u
  <2>4. try.ok = TRUE /\ try.s = u BY <2>1
  <2> QED BY <2>3, <2>4
<1>2. CASE ~(s.amount >= ResourceAmount[a])
  <2> DEFINE r == [allocator |-> a, priority |-> ResourcePriority[a] + p]
             rs == AddRequest(s.requests, r)
             u == [s EXCEPT !.requests = rs]
  <2>1. r \in Request /\ r.allocator = a BY DEF Request
  <2>2. try = [ok |-> FALSE, s |-> u] BY <1>2 DEF TryToAllocate
  <2> HIDE DEF r
  <2>3. rs \in Seq(Request) /\ \E k : IsInserted(s.requests, k, r, rs) BY <1>0, <2>1, AddRequestIs
  <2> HIDE DEF rs
  <2>4. /\ u \in PoolState /\ u.queue = s.queue /\ u.held = s.held /\ u.wrong = s.wrong
        /\ u.requests = rs /\ u.amount = s.amount
    BY <2>3 DEF PoolState
  <2> HIDE DEF u
  <2>5. try.ok = FALSE /\ try.s = u BY <2>2
  <2>6. s.amount < ResourceAmount[a] BY <1>0, <1>2
  <2>7. OneAsks(s.requests, a, try.s.requests)
    BY <2>1, <2>3, <2>4, <2>5, Zenon DEF OneAsks
  <2> QED BY <2>4, <2>5, <2>6, <2>7
<1> QED BY <1>1, <1>2

(* The first job that waits has a priority.                                *)
LEMMA PeekIs ==
  ASSUME NEW s \in PoolState, NEW a \in User, s.queue[a] # <<>>
  PROVE  PeekJob(s, a) \in JobPriority
<1>1. s.queue[a] \in Seq(JobPriority) BY DEF PoolState
<1>2. Len(s.queue[a]) \in 1 .. Len(s.queue[a]) BY <1>1
<1>3. Head(s.queue[a]) \in JobPriority /\ s.queue[a][Len(s.queue[a])] \in JobPriority BY <1>1, <1>2
<1> QED BY <1>3 DEF PeekJob, Last

(***************************************************************************)
(* Allocate::resourceGranted takes jobs while there are jobs and amounts.  *)
(***************************************************************************)

OneMore(acc, a) ==
  IF ~acc.go \/ acc.s.queue[a] = <<>> THEN acc
  ELSE LET try == TryToAllocate(acc.s, a, PeekJob(acc.s, a))
       IN  [go |-> try.ok, s |-> IF try.ok THEN TakeJob(try.s, a) ELSE try.s]
Start(s) == [go |-> TRUE, s |-> s]
MoreFrom(s, a, U, g) == IF U = {} THEN Start(s) ELSE OneMore(g[U \ {Max(U)}], a)
Loop == [go : BOOLEAN, s : PoolState]

(* What holds after i rounds of the loop.                                  *)
Rounds(s, a, i, acc) ==
  /\ acc \in Loop /\ acc.s.wrong = s.wrong
  /\ \A b \in User \ {a} : acc.s.queue[b] = s.queue[b] /\ acc.s.held[b] = s.held[b]
  /\ acc.s.held[a] >= s.held[a]
  /\ acc.s.amount + Taken(acc.s.held) = s.amount + Taken(s.held)
  /\ acc.go => Len(acc.s.queue[a]) = Len(s.queue[a]) - i /\ acc.s.requests = s.requests
  /\ ~acc.go => /\ acc.s.queue[a] # <<>>
                /\ OneAsks(s.requests, a, acc.s.requests)

(* The loop is a fold over the queue it finds.                             *)
LEMMA MoreIs ==
  ASSUME NEW s, NEW a
  PROVE  TakeMoreJobs(s, a) =
           (CHOOSE g : g = [U \in SUBSET (DOMAIN s.queue[a]) |-> MoreFrom(s, a, U, g)])[DOMAIN s.queue[a]].s
  BY Zenon DEF TakeMoreJobs, FoldLeft, MapThenFoldSet, MoreFrom, OneMore, Start

(* The parts of a state have their types.                                  *)
LEMMA StateParts ==
  ASSUME NEW s \in PoolState
  PROVE  /\ s.amount \in Nat /\ s.requests \in Seq(Request) /\ s.queue \in [User -> Seq(JobPriority)]
         /\ s.held \in [User -> Nat] /\ s.wrong \in SUBSET User
         /\ Taken(s.held) \in Int
         /\ \A a \in User : ResourceAmount[a] \in Nat /\ ResourceAmount[a] <= PoolAmount
         /\ PoolAmount \in Nat
<1>1. s.held \in [User -> Nat] BY DEF PoolState
<1> QED BY <1>1, TakenType, PoolAssumption DEF PoolState

(* One round of the loop.                                                  *)
LEMMA OneMoreKeeps ==
  ASSUME NEW s \in PoolState, NEW a \in User, NEW i \in Nat, NEW acc, Rounds(s, a, i, acc),
         i < Len(s.queue[a])
  PROVE  Rounds(s, a, i + 1, OneMore(acc, a))
<1> DEFINE t == OneMore(acc, a)
           u == acc.s
           try == TryToAllocate(u, a, PeekJob(u, a))
           v == try.s
           w == TakeJob(v, a)
<1>1. acc.go \in BOOLEAN /\ u \in PoolState /\ acc = [go |-> acc.go, s |-> u] BY DEF Rounds, Loop
<1>2. s.queue[a] \in Seq(JobPriority) /\ Len(s.queue[a]) \in Nat BY StateParts
<1>3. acc.go => u.queue[a] # <<>>
  <2>1. acc.go => Len(u.queue[a]) = Len(s.queue[a]) - i BY DEF Rounds
  <2>2. acc.go => Len(u.queue[a]) > 0 BY <1>2, <2>1
  <2> QED BY <2>2
<1>4. CASE ~acc.go
  <2>1. t = acc BY <1>4 DEF OneMore
  <2> QED BY <1>4, <2>1 DEF Rounds
<1>5. CASE acc.go
  <2>0. u.queue[a] # <<>> BY <1>3, <1>5
  <2>1. t = [go |-> try.ok, s |-> IF try.ok THEN w ELSE v] BY <1>5, <2>0 DEF OneMore
  <2>2. /\ try.ok \in BOOLEAN /\ v \in PoolState
        /\ v.queue = u.queue /\ v.held = u.held /\ v.wrong = u.wrong
        /\ try.ok => /\ v.requests = u.requests
                     /\ v.amount = u.amount - ResourceAmount[a]
        /\ ~try.ok => /\ v.amount = u.amount
                      /\ OneAsks(u.requests, a, v.requests)
    <3>1. PeekJob(u, a) \in JobPriority BY <1>1, <2>0, PeekIs
    <3>2. try = TryToAllocate(u, a, PeekJob(u, a)) OBVIOUS
    <3> HIDE DEF try, t, u
    <3> QED BY <1>1, <3>1, <3>2, TryIs
  <2> HIDE DEF try, t
  <2>3. /\ u.requests = s.requests /\ Len(u.queue[a]) = Len(s.queue[a]) - i
        /\ \A b \in User \ {a} : u.queue[b] = s.queue[b] /\ u.held[b] = s.held[b]
        /\ u.held[a] >= s.held[a] /\ u.wrong = s.wrong
        /\ u.amount + Taken(u.held) = s.amount + Taken(s.held)
    BY <1>5 DEF Rounds
  <2> HIDE DEF u
  <2>4. CASE ~try.ok
    <3>1. t.go = FALSE /\ t.s = v /\ t \in Loop BY <2>1, <2>2, <2>4 DEF Loop
    <3> HIDE DEF v
    <3>2. v.queue[a] # <<>> BY <2>0, <2>2
    <3>3. OneAsks(s.requests, a, v.requests)
      BY <2>2, <2>3, <2>4
    <3>4. v.amount + Taken(v.held) = s.amount + Taken(s.held) BY <2>2, <2>3, <2>4
    <3>5. v.held[a] >= s.held[a] /\ v.wrong = s.wrong BY <2>2, <2>3
    <3>6. \A b \in User \ {a} : v.queue[b] = s.queue[b] /\ v.held[b] = s.held[b] BY <2>2, <2>3
    <3> QED BY <3>1, <3>2, <3>3, <3>4, <3>5, <3>6 DEF Rounds, t
  <2>5. CASE try.ok
    <3>0. v.queue[a] # <<>> BY <2>0, <2>2
    <3>1. /\ w \in PoolState
          /\ w.amount = v.amount /\ w.requests = v.requests /\ w.wrong = v.wrong
          /\ Len(w.queue[a]) = Len(v.queue[a]) - 1 /\ w.held[a] = v.held[a] + 1
          /\ \A b \in User \ {a} : w.queue[b] = v.queue[b] /\ w.held[b] = v.held[b]
      <4>1. w = TakeJob(v, a) OBVIOUS
      <4> HIDE DEF w, v
      <4> QED BY <2>2, <3>0, <4>1, TakeJobIs
    <3> HIDE DEF w
    <3>2. t.go = TRUE /\ t.s = w /\ t \in Loop BY <2>1, <2>5, <3>1 DEF Loop
    <3> HIDE DEF v
    <3>3. Taken(w.held) = Taken(v.held) + ResourceAmount[a]
      BY <2>2, <3>1, TakenMore, StateParts
    <3>4. w.amount + Taken(w.held) = s.amount + Taken(s.held)
      <4>1. w.amount = u.amount - ResourceAmount[a] BY <2>2, <2>5, <3>1
      <4>2. Taken(w.held) = Taken(u.held) + ResourceAmount[a] BY <2>2, <3>3
      <4>3. u.amount \in Int /\ ResourceAmount[a] \in Int /\ Taken(u.held) \in Int BY <1>1, StateParts DEF u
      <4> QED BY ONLY <2>3, <4>1, <4>2, <4>3
    <3>5. w.held[a] >= s.held[a] /\ w.wrong = s.wrong
      <4>1. u.held[a] \in Nat /\ s.held[a] \in Nat BY <1>1, StateParts DEF u
      <4> QED BY <2>2, <2>3, <3>1, <4>1
    <3>6. \A b \in User \ {a} : w.queue[b] = s.queue[b] /\ w.held[b] = s.held[b] BY <2>2, <2>3, <3>1
    <3>7. Len(w.queue[a]) = Len(s.queue[a]) - (i + 1) /\ w.requests = s.requests
      <4>1. Len(w.queue[a]) = Len(s.queue[a]) - i - 1 BY <2>2, <2>3, <3>1
      <4> QED BY <1>2, <2>2, <2>3, <2>5, <3>1, <4>1
    <3> QED BY <3>2, <3>4, <3>5, <3>6, <3>7 DEF Rounds, t
  <2> QED BY <2>2, <2>4, <2>5
<1> QED BY <1>1, <1>4, <1>5

(* The loop as a whole, by induction over its rounds.                      *)
LEMMA TakeMoreIs ==
  ASSUME NEW s \in PoolState, NEW a \in User
  PROVE  \E acc : Rounds(s, a, Len(s.queue[a]), acc) /\ TakeMoreJobs(s, a) = acc.s
<1> DEFINE q == s.queue[a]
           n == Len(q)
           F == [i \in 1 .. n |-> [x \in Loop |-> OneMore(x, a)]]
           g == CHOOSE g : g = [U \in SUBSET (1 .. n) |-> MoreFrom(s, a, U, g)]
<1>1. q \in Seq(JobPriority) /\ n \in Nat /\ DOMAIN q = 1 .. n BY StateParts
<1>2. ASSUME NEW x \in Loop PROVE OneMore(x, a) \in Loop
  <2>1. x.go \in BOOLEAN /\ x.s \in PoolState BY DEF Loop
  <2>2. CASE ~x.go \/ x.s.queue[a] = <<>> BY <2>2 DEF OneMore
  <2>3. CASE x.go /\ x.s.queue[a] # <<>>
    <3> DEFINE try == TryToAllocate(x.s, a, PeekJob(x.s, a))
    <3>1. try.ok \in BOOLEAN /\ try.s \in PoolState /\ try.s.queue[a] # <<>>
      BY <2>1, <2>3, PeekIs, TryIs
    <3>2. OneMore(x, a) = [go |-> try.ok, s |-> IF try.ok THEN TakeJob(try.s, a) ELSE try.s]
      BY <2>3 DEF OneMore
    <3> HIDE DEF try
    <3>3. TakeJob(try.s, a) \in PoolState BY <3>1, TakeJobIs
    <3> QED BY <3>1, <3>2, <3>3 DEF Loop
  <2> QED BY <2>1, <2>2, <2>3
<1>3. Start(s) \in Loop BY DEF Start, Loop
<1>4. \E h : h = [U \in SUBSET (1 .. n) |-> MoreFrom(s, a, U, h)]
  <2>1. \A x \in Loop, i \in 1 .. n : F[i][x] \in Loop /\ F[i][x] = OneMore(x, a) BY <1>2
  <2> HIDE DEF F, n
  <2>a. PICK h : IsFold(F, Start(s), n, Loop, h)
    <3>1. \A x \in Loop, i \in 1 .. n : F[i][x] \in Loop BY <2>1
    <3> QED BY <1>1, <1>3, <3>1, FoldExists
  <2>2. /\ h \in [SUBSET (1 .. n) -> Loop]
        /\ \A U \in SUBSET (1 .. n) : h[U] = FoldFrom(F, Start(s), U, h)
    BY <2>a DEF IsFold
  <2>3. ASSUME NEW U \in SUBSET (1 .. n) PROVE h[U] = MoreFrom(s, a, U, h)
    <3>1. CASE U = {} BY <2>2, <3>1 DEF FoldFrom, MoreFrom
    <3>2. CASE U # {}
      <4>1. IsFiniteSet(U) /\ U \in SUBSET Int
        <5>1. IsFiniteSet(1 .. n) BY <1>1, FS_Interval
        <5>2. U \in SUBSET Int BY <1>1
        <5> QED BY <5>1, <5>2, FS_Subset
      <4>2. Max(U) \in U BY <3>2, <4>1, MaxIs
      <4>3. U \ {Max(U)} \in SUBSET (1 .. n) /\ Max(U) \in 1 .. n BY <4>2
      <4>4. h[U \ {Max(U)}] \in Loop BY <4>3, <2>2
      <4> QED BY <2>1, <2>2, <3>2, <4>3, <4>4 DEF FoldFrom, MoreFrom
    <3> QED BY <3>1, <3>2
  <2>4. h = [U \in SUBSET (1 .. n) |-> h[U]] BY <2>2
  <2>5. h = [U \in SUBSET (1 .. n) |-> MoreFrom(s, a, U, h)] BY ONLY <2>3, <2>4
  <2> QED BY <2>5
<1>5. g = [U \in SUBSET (1 .. n) |-> MoreFrom(s, a, U, g)] BY <1>4, Zenon
<1>6. TakeMoreJobs(s, a) = g[1 .. n].s BY <1>1, MoreIs, Zenon
<1> HIDE DEF g, n
<1> DEFINE G == {i \in Nat : i <= n => Rounds(s, a, i, g[1 .. i])}
<1>7. 0 \in G
  <2>1. g[{}] = Start(s) BY <1>5 DEF MoreFrom
  <2>2. 1 .. 0 = {} OBVIOUS
  <2>3. Start(s).go = TRUE /\ Start(s).s = s BY DEF Start
  <2>4. Rounds(s, a, 0, Start(s)) BY <1>1, <1>3, <2>3, StateParts DEF Rounds, n
  <2> QED BY <2>1, <2>2, <2>4
<1>8. ASSUME NEW i \in Nat, i \in G PROVE i + 1 \in G
  <2> SUFFICES ASSUME i + 1 <= n PROVE Rounds(s, a, i + 1, g[1 .. i + 1])
    OBVIOUS
  <2>1. i <= n /\ i < n BY <1>1
  <2>2. Rounds(s, a, i, g[1 .. i]) BY <1>8, <2>1
  <2>3. /\ Max(1 .. i + 1) = i + 1 /\ (1 .. i + 1) \ {i + 1} = 1 .. i /\ 1 .. i + 1 # {}
    <3>1. i + 1 \in Nat \ {0} /\ (i + 1) - 1 = i OBVIOUS
    <3> QED BY <3>1, Segment
  <2>4. 1 .. i + 1 \in SUBSET (1 .. n) BY <1>1
  <2>5. g[1 .. i + 1] = OneMore(g[1 .. i], a)
    BY ONLY <1>5, <2>3, <2>4 DEF MoreFrom
  <2> QED BY <2>1, <2>2, <2>5, OneMoreKeeps DEF n
<1>9. \A i \in Nat : i \in G
  <2> HIDE DEF G
  <2> QED BY <1>7, <1>8, NatInd
<1> QED BY <1>1, <1>6, <1>9 DEF n

(***************************************************************************)
(* The handlers                                                            *)
(***************************************************************************)

Asking(s, a) == s.queue[a] # <<>> /\ (a \in ResourceQueue => s.held[a] = 0)
AskedOnce(s, a) ==
  IF Capacity[a] = 0 THEN s.queue[a] = <<>>
  ELSE Asked(s.requests, a) = IF Asking(s, a) THEN 1 ELSE 0

(* Once an assertion has failed only its user is known to have capacity 0. *)
Sound(s) ==
  /\ s \in PoolState /\ \A a \in s.wrong : Capacity[a] = 0
  /\ s.wrong = {} => /\ s.amount + Taken(s.held) = PoolAmount
                     /\ \A a \in User : AskedOnce(s, a)
                     /\ s.requests # <<>> => \E a \in User : s.held[a] > 0

(* A state with another amount.                                            *)
LEMMA WithAmount ==
  ASSUME NEW s \in PoolState, NEW m \in Nat, NEW u, u = [s EXCEPT !.amount = m]
  PROVE  /\ u \in PoolState /\ u.amount = m /\ u.requests = s.requests
         /\ u.queue = s.queue /\ u.held = s.held /\ u.wrong = s.wrong
  BY DEF PoolState

(* The same, whatever the priority of the request.                         *)
LEMMA OneAsksCount ==
  ASSUME NEW rs \in Seq(Request), NEW ts \in Seq(Request), NEW a \in User, OneAsks(rs, a, ts)
  PROVE  /\ \A b \in User : /\ Asked(rs, b) \in Nat
                            /\ Asked(ts, b) = Asked(rs, b) + (IF a = b THEN 1 ELSE 0)
         /\ ts # <<>>
         /\ rs # <<>> => Head(ts).allocator \in {a, Head(rs).allocator}
<1>1. PICK r \in Request : r.allocator = a /\ \E k : IsInserted(rs, k, r, ts) BY DEF OneAsks
<1>2. PICK k : IsInserted(rs, k, r, ts) BY <1>1
<1>3. Len(ts) = Len(rs) + 1 /\ Len(rs) \in Nat BY <1>2 DEF IsInserted
<1>4. ts # <<>> BY <1>3
<1>5. rs # <<>> => Head(ts).allocator \in {a, Head(rs).allocator}
  <2>1. CASE k = 1
    <3>1. ts[1] = r BY <1>2, <2>1 DEF IsInserted
    <3>2. Head(ts) = r BY <1>4, <3>1
    <3> QED BY <1>1, <3>2
  <2>2. CASE k # 1 /\ rs # <<>>
    <3>1. 1 \in 1 .. k - 1 BY <1>2, <1>3, <2>2 DEF IsInserted
    <3>2. ts[1] = rs[1] BY <1>2, <3>1 DEF IsInserted
    <3>3. Head(ts) = Head(rs) BY <1>4, <2>2, <3>2
    <3> QED BY <3>3
  <2> QED BY <2>1, <2>2
<1> QED BY <1>1, <1>2, <1>4, <1>5, InsertedCount

(* A user to which the resource is granted serves a job, and perhaps more  *)
(* jobs, and may ask again.                                                *)
LEMMA GrantedIs ==
  ASSUME NEW s \in PoolState, NEW a \in User, Asking(s, a), NEW t, t = ResourceGranted(s, a)
  PROVE  /\ t \in PoolState /\ t.wrong = s.wrong
         /\ \A b \in User \ {a} : t.queue[b] = s.queue[b] /\ t.held[b] = s.held[b]
         /\ t.held[a] > s.held[a]
         /\ t.amount + Taken(t.held) = s.amount + Taken(s.held) + ResourceAmount[a]
         /\ \/ t.requests = s.requests /\ ~Asking(t, a)
            \/ OneAsks(s.requests, a, t.requests) /\ Asking(t, a)
<1> DEFINE u == TakeJob(s, a)
<1>1. s.queue[a] # <<>> /\ ~(a \in ResourceQueue /\ s.held[a] > 0)
  BY DEF Asking
<1>2. t = IF a \in ResourceQueue THEN u ELSE TakeMoreJobs(u, a) BY <1>1 DEF ResourceGranted
<1>3. /\ u \in PoolState
      /\ u.amount = s.amount /\ u.requests = s.requests /\ u.wrong = s.wrong
      /\ u.held[a] = s.held[a] + 1
      /\ \A b \in User \ {a} : u.queue[b] = s.queue[b] /\ u.held[b] = s.held[b]
  BY <1>1, TakeJobIs
<1> HIDE DEF u
<1>4. s.held[a] \in Nat /\ u.held[a] \in Nat /\ s.held \in [User -> Nat] /\ u.held \in [User -> Nat] BY <1>3, StateParts
<1>5. Taken(u.held) = Taken(s.held) + ResourceAmount[a] BY <1>3, <1>4, TakenMore
<1>6. /\ s.amount \in Int /\ Taken(s.held) \in Int /\ Taken(u.held) \in Int /\ ResourceAmount[a] \in Int
  BY <1>3, StateParts
<1>7. u.amount + Taken(u.held) = s.amount + Taken(s.held) + ResourceAmount[a]
  BY ONLY <1>3, <1>5, <1>6
<1>8. CASE a \in ResourceQueue
  <2>1. t = u BY <1>2, <1>8
  <2>2. ~Asking(t, a) BY <1>3, <1>4, <1>8, <2>1 DEF Asking
  <2>3. t.held[a] > s.held[a] BY <1>3, <1>4, <2>1
  <2> QED BY <1>3, <1>7, <2>1, <2>2, <2>3
<1>9. CASE a \notin ResourceQueue
  <2>1. PICK acc : Rounds(u, a, Len(u.queue[a]), acc) /\ TakeMoreJobs(u, a) = acc.s
    BY <1>3, TakeMoreIs
  <2>2. t = acc.s BY <1>2, <1>9, <2>1
  <2>3. /\ acc.go \in BOOLEAN /\ t \in PoolState /\ t.wrong = u.wrong
        /\ \A b \in User \ {a} : t.queue[b] = u.queue[b] /\ t.held[b] = u.held[b]
        /\ t.held[a] >= u.held[a]
        /\ t.amount + Taken(t.held) = u.amount + Taken(u.held)
    BY <2>1, <2>2 DEF Rounds, Loop
  <2>4. t.held[a] > s.held[a]
    <3>1. t.held[a] \in Nat BY <2>3, StateParts
    <3> QED BY <1>3, <1>4, <2>3, <3>1
  <2>5. CASE acc.go
    <3>1. Len(t.queue[a]) = Len(u.queue[a]) - Len(u.queue[a]) /\ t.requests = u.requests
      BY <2>1, <2>2, <2>5 DEF Rounds
    <3>2. Len(u.queue[a]) \in Nat /\ t.queue[a] \in Seq(JobPriority) BY <1>3, <2>3, StateParts
    <3>3. t.queue[a] = <<>> BY <3>1, <3>2
    <3>4. ~Asking(t, a) BY <3>3 DEF Asking
    <3> QED BY <1>3, <1>7, <2>3, <2>4, <3>1, <3>4
  <2>6. CASE ~acc.go
    <3>1. t.queue[a] # <<>> /\ OneAsks(u.requests, a, t.requests) BY <2>1, <2>2, <2>6 DEF Rounds
    <3>2. Asking(t, a) BY <1>9, <3>1 DEF Asking
    <3> QED BY <1>3, <1>7, <2>3, <2>4, <3>1, <3>2
  <2> QED BY <2>3, <2>5, <2>6
<1> QED BY <1>8, <1>9

(* release: whoever it wakes, each request is still that of a user whose   *)
(* jobs wait.                                                              *)
LEMMA ReleaseIs ==
  ASSUME NEW s \in PoolState, s.wrong = {}, \A b \in User : AskedOnce(s, b), NEW n \in Nat,
         NEW t, t = Release(s, n)
  PROVE  /\ t \in PoolState /\ \A b \in t.wrong : Capacity[b] = 0
         /\ t.wrong = {} =>
              /\ \A b \in User : AskedOnce(t, b)
              /\ \A b \in User : t.held[b] >= s.held[b]
              /\ \A b \in ResourceQueue : s.held[b] > 0 => t.held[b] = s.held[b]
              /\ t.amount + Taken(t.held) = s.amount + Taken(s.held) + n
              /\ t.requests # <<>> => \/ \E b \in User : t.held[b] > s.held[b]
                                      \/ \E b \in User : t.amount < ResourceAmount[b]
<1> DEFINE back == [s EXCEPT !.amount = @ + n]
           first == back.requests[1].allocator
           mid == [back EXCEPT !.amount = @ - ResourceAmount[first]]
           granted == ResourceGranted(mid, first)
<1>1. t = IF back.requests = <<>> \/ ResourceAmount[first] > back.amount THEN back
          ELSE IF granted.wrong # {} THEN granted
          ELSE [granted EXCEPT !.requests = Tail(@)]
  BY DEF Release
<1>2. /\ s.amount \in Nat /\ s.requests \in Seq(Request) /\ Taken(s.held) \in Int
      /\ s.held \in [User -> Nat]
  BY StateParts
<1>3. /\ back \in PoolState /\ back.amount = s.amount + n /\ back.requests = s.requests
      /\ back.queue = s.queue /\ back.held = s.held /\ back.wrong = s.wrong
  <2>1. back = [s EXCEPT !.amount = s.amount + n] OBVIOUS
  <2>2. s.amount + n \in Nat BY <1>2
  <2> HIDE DEF back
  <2> QED BY ONLY <2>1, <2>2, WithAmount, s \in PoolState
<1> HIDE DEF back
<1>4. \A b \in User : s.held[b] \in Nat BY <1>2
<1>5. s.requests # <<>> => first \in User /\ first = Head(s.requests).allocator
  <2>1. s.requests # <<>> => s.requests[1] \in Request /\ s.requests[1] = Head(s.requests) BY <1>2
  <2> QED BY <1>3, <2>1 DEF Request
<1> HIDE DEF first
<1>6. CASE back.requests = <<>> \/ ResourceAmount[first] > back.amount
  <2>1. t = back BY <1>1, <1>6
  <2>2. \A b \in User : AskedOnce(t, b) BY <1>3, <2>1 DEF AskedOnce, Asking
  <2>3. \A b \in User : t.held[b] >= s.held[b] BY <1>3, <1>4, <2>1
  <2>4. t.amount + Taken(t.held) = s.amount + Taken(s.held) + n
    <3>1. t.amount = s.amount + n /\ Taken(t.held) = Taken(s.held) BY <1>3, <2>1
    <3> QED BY ONLY <1>2, <3>1, n \in Nat
  <2>5. t.requests # <<>> => \E b \in User : t.amount < ResourceAmount[b]
    <3> SUFFICES ASSUME t.requests # <<>> PROVE \E b \in User : t.amount < ResourceAmount[b] OBVIOUS
    <3>1. first \in User /\ ResourceAmount[first] > back.amount BY <1>3, <1>5, <1>6, <2>1
    <3>2. ResourceAmount[first] \in Nat /\ back.amount \in Nat BY <1>3, <3>1, StateParts
    <3> QED BY <2>1, <3>1, <3>2
  <2> QED BY <1>3, <2>1, <2>2, <2>3, <2>4, <2>5
<1>7. CASE ~(back.requests = <<>> \/ ResourceAmount[first] > back.amount)
  <2>1. s.requests # <<>> /\ first \in User /\ first = Head(s.requests).allocator BY <1>3, <1>5, <1>7
  <2>2. ResourceAmount[first] \in Nat /\ back.amount \in Nat BY <1>3, <2>1, StateParts
  <2>3. back.amount - ResourceAmount[first] \in Nat BY <1>7, <2>2
  <2>4. /\ mid \in PoolState /\ mid.amount = s.amount + n - ResourceAmount[first]
        /\ mid.requests = s.requests
        /\ mid.queue = s.queue /\ mid.held = s.held /\ mid.wrong = s.wrong
    <3>1. mid = [back EXCEPT !.amount = back.amount - ResourceAmount[first]] OBVIOUS
    <3> HIDE DEF mid
    <3>2. /\ mid \in PoolState /\ mid.amount = back.amount - ResourceAmount[first]
          /\ mid.requests = back.requests
          /\ mid.queue = back.queue /\ mid.held = back.held /\ mid.wrong = back.wrong
      BY ONLY <1>3, <2>3, <3>1, WithAmount
    <3>3. mid.amount = s.amount + n - ResourceAmount[first] BY <1>2, <1>3, <2>2, <3>2
    <3> QED BY <1>3, <3>2, <3>3
  <2> HIDE DEF mid
  <2>a. CASE Capacity[first] = 0
    <3>1. mid.queue[first] = <<>> BY <2>1, <2>4, <2>a DEF AskedOnce
    <3> DEFINE w == mid.wrong \cup {first}
    <3>2. granted = [mid EXCEPT !.wrong = w] BY <3>1 DEF ResourceGranted
    <3>3. w = {first} /\ w \in SUBSET User BY <2>1, <2>4
    <3> HIDE DEF granted, w
    <3>4. granted \in PoolState /\ granted.wrong = w BY <2>4, <3>2, <3>3 DEF PoolState
    <3>5. t = granted BY <1>1, <1>7, <3>3, <3>4
    <3> QED BY <2>a, <3>3, <3>4, <3>5
  <2>b. SUFFICES ASSUME Capacity[first] # 0
                 PROVE  /\ t \in PoolState /\ t.wrong = {}
                        /\ \A b \in User : AskedOnce(t, b)
                        /\ \A b \in User : t.held[b] >= s.held[b]
                        /\ \A b \in ResourceQueue : s.held[b] > 0 => t.held[b] = s.held[b]
                        /\ t.amount + Taken(t.held) = s.amount + Taken(s.held) + n
                        /\ \E b \in User : t.held[b] > s.held[b]
    BY <2>a
  <2>5. \A b \in User : Asked(Tail(s.requests), b) \in Nat
                        /\ Asked(s.requests, b) = Asked(Tail(s.requests), b) + (IF first = b THEN 1 ELSE 0)
    BY <1>2, <2>1, TailCount
  <2>6. Asking(s, first)
    <3>1. Asked(s.requests, first) # 0 BY <2>1, <2>5
    <3> QED BY <2>1, <2>b, <3>1 DEF AskedOnce
  <2>7. Asked(s.requests, first) = 1 BY <2>1, <2>6, <2>b DEF AskedOnce
  <2>8. Asking(mid, first) BY <2>4, <2>6 DEF Asking
  <2>9. /\ granted \in PoolState /\ granted.wrong = mid.wrong
        /\ \A b \in User \ {first} : granted.queue[b] = mid.queue[b] /\ granted.held[b] = mid.held[b]
        /\ granted.held[first] > mid.held[first]
        /\ granted.amount + Taken(granted.held) = mid.amount + Taken(mid.held) + ResourceAmount[first]
        /\ \/ granted.requests = mid.requests /\ ~Asking(granted, first)
           \/ OneAsks(mid.requests, first, granted.requests) /\ Asking(granted, first)
    BY <2>1, <2>4, <2>8, GrantedIs
  <2> HIDE DEF granted
  <2>10. granted.requests \in Seq(Request) /\ granted.held \in [User -> Nat] BY <2>9, StateParts
  <2>11. granted.requests # <<>> /\ Head(granted.requests).allocator = first
    <3>1. CASE granted.requests = mid.requests BY <2>1, <2>4, <3>1
    <3>2. CASE OneAsks(mid.requests, first, granted.requests)
      <4>1. OneAsks(s.requests, first, granted.requests) BY <2>4, <3>2
      <4>2. granted.requests # <<>> /\ Head(granted.requests).allocator \in {first, Head(s.requests).allocator}
        BY <1>2, <2>1, <2>10, <4>1, OneAsksCount
      <4> QED BY <2>1, <4>2
    <3> QED BY <2>9, <3>1, <3>2
  <2>12. /\ Tail(granted.requests) \in Seq(Request)
         /\ \A b \in User : Asked(Tail(granted.requests), b) \in Nat
                         /\ Asked(granted.requests, b)
                              = Asked(Tail(granted.requests), b) + (IF first = b THEN 1 ELSE 0)
    BY <2>10, <2>11, TailCount
  <2>13. /\ t \in PoolState /\ t.amount = granted.amount /\ t.requests = Tail(granted.requests)
         /\ t.queue = granted.queue /\ t.held = granted.held /\ t.wrong = granted.wrong
    <3>1. t = [granted EXCEPT !.requests = Tail(@)] BY <1>1, <1>7, <2>4, <2>9
    <3> QED BY <2>9, <2>12, <3>1 DEF PoolState
  <2>14. ASSUME NEW b \in User PROVE AskedOnce(t, b)
    <3>1. CASE b # first
      <4>1. Asked(t.requests, b) = Asked(granted.requests, b) BY <2>12, <2>13, <3>1
      <4>2. Asked(granted.requests, b) = Asked(s.requests, b)
        <5>1. CASE granted.requests = mid.requests BY <2>4, <5>1
        <5>2. CASE OneAsks(mid.requests, first, granted.requests)
          <6>1. OneAsks(s.requests, first, granted.requests) BY <2>4, <5>2
          <6> QED BY <1>2, <2>1, <2>10, <3>1, <6>1, OneAsksCount
        <5> QED BY <2>9, <5>1, <5>2
      <4>3. Asking(t, b) <=> Asking(s, b) BY <2>4, <2>9, <2>13, <3>1 DEF Asking
      <4>4. AskedOnce(s, b) OBVIOUS
      <4>5. t.queue[b] = s.queue[b] BY <2>4, <2>9, <2>13, <3>1
      <4> QED BY <4>1, <4>2, <4>3, <4>4, <4>5 DEF AskedOnce
    <3>2. CASE b = first
      <4>1. Asking(t, first) <=> Asking(granted, first) BY <2>13 DEF Asking
      <4>2. /\ Asked(t.requests, first) \in Nat
            /\ Asked(granted.requests, first) = Asked(t.requests, first) + 1
        BY <2>1, <2>12, <2>13
      <4>3. CASE granted.requests = mid.requests /\ ~Asking(granted, first)
        <5>1. Asked(granted.requests, first) = 1 BY <2>4, <2>7, <4>3
        <5>2. Asked(t.requests, first) = 0 BY <4>2, <5>1
        <5> QED BY <2>b, <3>2, <4>1, <4>3, <5>2 DEF AskedOnce
      <4>4. CASE OneAsks(mid.requests, first, granted.requests) /\ Asking(granted, first)
        <5>1. OneAsks(s.requests, first, granted.requests) BY <2>4, <4>4
        <5>2. Asked(granted.requests, first) = 1 + 1
          BY <1>2, <2>1, <2>7, <2>10, <5>1, OneAsksCount
        <5>3. Asked(t.requests, first) = 1 BY <4>2, <5>2
        <5> QED BY <2>b, <3>2, <4>1, <4>4, <5>3 DEF AskedOnce
      <4> QED BY <2>9, <4>3, <4>4
    <3> QED BY <3>1, <3>2
  <2>15. \A b \in User : t.held[b] >= s.held[b]
    <3> SUFFICES ASSUME NEW b \in User PROVE t.held[b] >= s.held[b] OBVIOUS
    <3>1. t.held[b] \in Nat BY <2>10, <2>13
    <3>2. CASE b = first BY <1>4, <2>4, <2>9, <2>13, <3>1, <3>2
    <3>3. CASE b # first
      <4>1. t.held[b] = s.held[b] BY <2>4, <2>9, <2>13, <3>3
      <4> QED BY <3>1, <4>1
    <3> QED BY <3>2, <3>3
  <2>16. \A b \in ResourceQueue : s.held[b] > 0 => t.held[b] = s.held[b]
    <3> SUFFICES ASSUME NEW b \in ResourceQueue, s.held[b] > 0 PROVE t.held[b] = s.held[b] OBVIOUS
    <3>1. b \in User BY DEF User
    <3>2. b # first BY <1>4, <2>6, <3>1 DEF Asking
    <3> QED BY <2>4, <2>9, <2>13, <3>1, <3>2
  <2>17. t.amount + Taken(t.held) = s.amount + Taken(s.held) + n
    <3>1. t.amount + Taken(t.held) = (s.amount + n - ResourceAmount[first]) + Taken(s.held) + ResourceAmount[first]
      BY <2>4, <2>9, <2>13
    <3> QED BY ONLY <1>2, <2>2, <3>1, n \in Nat
  <2>18. \E b \in User : t.held[b] > s.held[b] BY <2>1, <2>4, <2>9, <2>13
  <2>19. t.wrong = {} BY <2>4, <2>9, <2>13
  <2> QED BY <2>13, <2>14, <2>15, <2>16, <2>17, <2>18, <2>19
<1> QED BY <1>6, <1>7

(* A job that does not get the resource is queued or dropped.              *)
LEMMA EnqueueIs ==
  ASSUME NEW s \in PoolState, NEW a \in User, NEW job \in JobPriority, NEW t, t = EnqueueOrDrop(s, a, job)
  PROVE  \/ t = s /\ (s.queue[a] # <<>> \/ Capacity[a] = 0)
         \/ /\ t \in PoolState /\ t.queue[a] # <<>> /\ Capacity[a] # 0
            /\ \A b \in User \ {a} : t.queue[b] = s.queue[b]
            /\ t.amount = s.amount /\ t.requests = s.requests /\ t.held = s.held /\ t.wrong = s.wrong
<1>1. s.queue \in [User -> Seq(JobPriority)] /\ Capacity[a] \in Int
  BY StateParts, PoolAssumption
<1>2. CASE Capacity[a] >= 0 /\ Len(s.queue[a]) >= Capacity[a]
  <2>1. t = s BY <1>2 DEF EnqueueOrDrop
  <2>2. s.queue[a] # <<>> \/ Capacity[a] = 0 BY <1>1, <1>2
  <2> QED BY <2>1, <2>2
<1>3. CASE ~(Capacity[a] >= 0 /\ Len(s.queue[a]) >= Capacity[a])
  <2> DEFINE q == Append(s.queue[a], job)
  <2>1. q \in Seq(JobPriority) /\ q # <<>> BY <1>1
  <2>2. t = [s EXCEPT !.queue[a] = q] BY <1>3 DEF EnqueueOrDrop
  <2> HIDE DEF q
  <2>3. /\ t.amount = s.amount /\ t.requests = s.requests /\ t.held = s.held /\ t.wrong = s.wrong
        /\ t.queue = [s.queue EXCEPT ![a] = q]
        /\ t = [amount |-> t.amount, requests |-> t.requests, queue |-> t.queue, held |-> t.held, wrong |-> t.wrong]
    BY <2>2 DEF PoolState
  <2>4. /\ t.queue \in [User -> Seq(JobPriority)] /\ t.queue[a] = q
        /\ \A b \in User \ {a} : t.queue[b] = s.queue[b]
    BY ONLY <1>1, <2>1, <2>3, a \in User
  <2>5. t \in PoolState BY <2>3, <2>4, StateParts DEF PoolState
  <2>6. Capacity[a] # 0
    <3>1. Len(s.queue[a]) \in Nat BY <1>1
    <3> QED BY <1>1, <1>3, <3>1
  <2> QED BY <2>1, <2>3, <2>4, <2>5, <2>6
<1> QED BY <1>2, <1>3

(* One grant more, or as many as h says.                                   *)
SetHeld(s, a, m) == [s EXCEPT !.held[a] = m]

OnlyHeld(u, s, a, m) ==
    /\ u \in PoolState /\ u.amount = s.amount /\ u.requests = s.requests
    /\ u.queue = s.queue /\ u.wrong = s.wrong
    /\ u.held[a] = m /\ \A b \in User \ {a} : u.held[b] = s.held[b]

(* Setting the grants of one user leaves the others.                       *)
LEMMA WithHeld ==
  ASSUME NEW s \in PoolState, NEW a \in User, NEW m \in Nat, NEW u, u = SetHeld(s, a, m)
  PROVE  OnlyHeld(u, s, a, m)
<1>1. /\ u.amount = s.amount /\ u.requests = s.requests /\ u.queue = s.queue /\ u.wrong = s.wrong
      /\ u.held = [s.held EXCEPT ![a] = m]
      /\ u = [amount |-> u.amount, requests |-> u.requests, queue |-> u.queue, held |-> u.held, wrong |-> u.wrong]
  BY DEF PoolState, SetHeld
<1>2. s.held \in [User -> Nat] BY StateParts
<1>3. /\ u.held \in [User -> Nat] /\ u.held[a] = m
      /\ \A b \in User \ {a} : u.held[b] = s.held[b]
  BY ONLY <1>1, <1>2, m \in Nat, a \in User
<1>4. u \in PoolState BY <1>1, <1>3, StateParts DEF PoolState
<1> QED BY <1>1, <1>3, <1>4 DEF OnlyHeld

(* A queue that holds the resource has its flag set, which is why no       *)
(* release fails.                                                          *)
QueuesAllocated == \A b \in ResourceQueue : held[b] > 0 => resourceAllocated[b]
PoolInv ==
  /\ Sound(Whole) /\ QueuesAllocated /\ wrongReleases = {}

(* The variables become the state of a handler.                            *)
LEMMA BecomesIs ==
  ASSUME PoolInv, NEW s, NEW asking, Becomes(s, asking), Sound(s), UNCHANGED wrongReleases
  PROVE  PoolInv'
<1>1. Whole' = [amount |-> s.amount, requests |-> s.requests, queue |-> s.queue, held |-> s.held, wrong |-> s.wrong]
  BY DEF Becomes, Whole
<1>2. s \in PoolState BY DEF Sound
<1>3. Whole' = s BY <1>1, <1>2 DEF PoolState
<1>4. held \in [User -> Nat] /\ s.held \in [User -> Nat]
  <2>1. Whole \in PoolState /\ Whole.held = held BY DEF PoolInv, Sound, Whole
  <2> QED BY <1>2, <2>1, StateParts
<1>5. QueuesAllocated BY DEF PoolInv
<1>6. /\ held' = s.held
      /\ resourceAllocated' =
           [a \in ResourceQueue |-> IF a \in asking THEN s.held[a] > 0
                                   ELSE resourceAllocated[a] \/ s.held[a] > held[a]]
  BY DEF Becomes
<1>7. ASSUME NEW b \in ResourceQueue, held'[b] > 0 PROVE resourceAllocated'[b]
  <2>1. held[b] \in Nat /\ s.held[b] \in Nat /\ s.held[b] > 0 BY <1>4, <1>6, <1>7 DEF User
  <2>2. resourceAllocated[b] \/ s.held[b] > held[b] BY <1>5, <2>1 DEF QueuesAllocated
  <2>3. resourceAllocated'[b] = IF b \in asking THEN s.held[b] > 0
                                ELSE resourceAllocated[b] \/ s.held[b] > held[b]
    BY <1>6
  <2> QED BY <2>1, <2>2, <2>3
<1> QED BY <1>3, <1>7 DEF PoolInv, QueuesAllocated

(* The invariant holds at the start.                                       *)
LEMMA PoolInitially == PoolInit => PoolInv
<1> SUFFICES ASSUME PoolInit PROVE PoolInv OBVIOUS
<1>0. wrongReleases = {} /\ \A b \in ResourceQueue : held[b] = 0
  BY DEF PoolInit, User
<1>1. Whole = [amount |-> PoolAmount, requests |-> <<>>, queue |-> [a \in User |-> <<>>],
               held |-> [a \in User |-> 0], wrong |-> {}]
  BY DEF PoolInit, Whole
<1> DEFINE s == Whole
<1>2. s \in PoolState /\ s.wrong = {} /\ s.amount = PoolAmount /\ s.requests = <<>>
      /\ \A a \in User : s.held[a] = 0 /\ s.queue[a] = <<>>
  BY <1>1, PoolAssumption DEF PoolState
<1> HIDE DEF s
<1>3. Taken(s.held) = 0
  <2>0. s.held \in [User -> Nat] BY <1>2, StateParts
  <2>1. \A a \in User : AmountHeld(s.held)[a] = s.held[a] * ResourceAmount[a] BY <2>0, TakenType
  <2>2. \A a \in User : ResourceAmount[a] \in Int BY <1>2, StateParts
  <2>3. \A a \in User : AmountHeld(s.held)[a] = 0 BY <1>2, <2>1, <2>2
  <2> QED BY <2>3, PoolAssumption, SumOfZeros DEF Taken
<1>4. \A a \in User : AskedOnce(s, a)
  <2> SUFFICES ASSUME NEW a \in User PROVE AskedOnce(s, a) OBVIOUS
  <2>1. RequestsOf(s.requests, a) = {} BY <1>2 DEF RequestsOf
  <2>2. Asked(s.requests, a) = 0 BY <2>1, FS_EmptySet DEF Asked
  <2> QED BY <1>2, <2>2 DEF AskedOnce, Asking
<1>5. s.amount + Taken(s.held) = PoolAmount BY <1>2, <1>3, PoolAssumption
<1>6. Sound(s) BY <1>2, <1>4, <1>5 DEF Sound
<1> QED BY <1>0, <1>6 DEF PoolInv, QueuesAllocated, s

(* A job arrives at a user.                                                *)
LEMMA JobArrivesStep ==
  ASSUME PoolInv, NEW a \in User, NEW job \in JobPriority, JobArrives(a, job)
  PROVE  PoolInv'
<1> DEFINE s == Whole
           asks == waitingJobs[a] = <<>> /\ (a \in ResourceQueue => held[a] = 0)
           try == TryToAllocate(s, a, job)
           t == IF ~asks THEN EnqueueOrDrop(s, a, job)
                ELSE IF try.ok THEN [try.s EXCEPT !.held[a] = @ + 1]
                ELSE EnqueueOrDrop(try.s, a, job)
<1>1. Sound(s) /\ s.wrong = {} BY DEF PoolInv, JobArrives, PoolRuns, Whole
<1>2. asks = (s.queue[a] = <<>> /\ (a \in ResourceQueue => s.held[a] = 0)) BY DEF Whole
<1>3. Becomes(t, IF asks THEN {a} ELSE {}) /\ UNCHANGED wrongReleases BY DEF JobArrives
<1>4. /\ try.ok \in BOOLEAN /\ try.s \in PoolState
      /\ try.s.queue = s.queue /\ try.s.held = s.held /\ try.s.wrong = s.wrong
      /\ try.ok => /\ try.s.requests = s.requests
                   /\ try.s.amount = s.amount - ResourceAmount[a]
      /\ ~try.ok => /\ try.s.amount = s.amount /\ s.amount < ResourceAmount[a]
                    /\ OneAsks(s.requests, a, try.s.requests)
  <2>1. try = TryToAllocate(s, a, job) OBVIOUS
  <2>2. s \in PoolState BY <1>1 DEF Sound
  <2> HIDE DEF try, s
  <2> QED BY <2>1, <2>2, TryIs
<1>5. SUFFICES Sound(t)
  <2> HIDE DEF t
  <2> QED BY <1>3, <1>5, BecomesIs
<1> HIDE DEF s, asks, try, t
<1>6. /\ s \in PoolState /\ s.wrong = {} /\ s.amount + Taken(s.held) = PoolAmount
      /\ \A b \in User : AskedOnce(s, b)
      /\ s.requests # <<>> => \E b \in User : s.held[b] > 0
  BY <1>1 DEF Sound
<1>7. /\ s.amount \in Nat /\ s.requests \in Seq(Request) /\ s.held \in [User -> Nat]
      /\ Taken(s.held) \in Int /\ ResourceAmount[a] \in Nat
  BY <1>6, StateParts
<1>8. CASE ~asks
  <2>1. t = EnqueueOrDrop(s, a, job) BY <1>8 DEF t
  <2>2. CASE t = s BY <1>1, <2>2
  <2>3. CASE /\ t \in PoolState /\ t.queue[a] # <<>> /\ Capacity[a] # 0
             /\ \A b \in User \ {a} : t.queue[b] = s.queue[b]
             /\ t.amount = s.amount /\ t.requests = s.requests /\ t.held = s.held /\ t.wrong = s.wrong
    <3>1. Asking(t, a) <=> Asking(s, a) BY <1>2, <1>8, <2>3 DEF Asking
    <3>2. \A b \in User : Asking(t, b) <=> Asking(s, b) BY <2>3, <3>1 DEF Asking
    <3>3. \A b \in User : AskedOnce(t, b) BY <1>6, <2>3, <3>2 DEF AskedOnce
    <3> QED BY <1>6, <2>3, <3>3 DEF Sound
  <2> QED BY <1>6, <2>1, <2>2, <2>3, EnqueueIs
<1>9. CASE asks /\ try.ok
  <2>0. try.s.held[a] + 1 \in Nat BY <1>4, <1>7
  <2>1. t = SetHeld(try.s, a, try.s.held[a] + 1) BY <1>9 DEF t, SetHeld
  <2>2. /\ t \in PoolState /\ t.amount = try.s.amount /\ t.requests = try.s.requests
        /\ t.queue = try.s.queue /\ t.wrong = try.s.wrong
        /\ t.held[a] = try.s.held[a] + 1 /\ \A b \in User \ {a} : t.held[b] = try.s.held[b]
    <3>1. OnlyHeld(t, try.s, a, try.s.held[a] + 1)
      <4> DEFINE m == try.s.held[a] + 1
      <4>1. try.s \in PoolState /\ m \in Nat /\ t = SetHeld(try.s, a, m) BY <1>4, <2>0, <2>1
      <4> HIDE DEF t, m
      <4>2. OnlyHeld(t, try.s, a, m) BY <4>1, WithHeld
      <4> QED BY <4>2 DEF m
    <3> QED BY <3>1 DEF OnlyHeld
  <2>3. t.held \in [User -> Nat] BY <2>2, StateParts
  <2>4. Taken(t.held) = Taken(s.held) + ResourceAmount[a] BY <1>4, <1>7, <2>2, <2>3, TakenMore
  <2>5. t.amount + Taken(t.held) = PoolAmount
    <3>1. t.amount = s.amount - ResourceAmount[a] BY <1>4, <1>9, <2>2
    <3> QED BY ONLY <1>6, <1>7, <2>4, <3>1
  <2>6. ASSUME NEW b \in User PROVE AskedOnce(t, b)
    <3>1. t.requests = s.requests BY <1>4, <1>9, <2>2
    <3>2. Asking(t, b) <=> Asking(s, b)
      <4>1. b # a => t.held[b] = s.held[b] BY <1>4, <2>2
      <4>2. t.queue = s.queue BY <1>4, <2>2
      <4>3. s.queue[a] = <<>> BY <1>2, <1>9
      <4> QED BY <4>1, <4>2, <4>3 DEF Asking
    <3>3. t.queue = s.queue BY <1>4, <2>2
    <3> QED BY <1>6, <3>1, <3>2, <3>3 DEF AskedOnce
  <2>7. t.held[a] > 0 BY <1>4, <1>7, <2>2
  <2>8. t.wrong = {} BY <1>4, <1>6, <2>2
  <2> QED BY <2>2, <2>5, <2>6, <2>7, <2>8 DEF Sound
<1>10. CASE asks /\ ~try.ok
  <2>1. t = EnqueueOrDrop(try.s, a, job) BY <1>10 DEF t
  <2>2. try.s.queue[a] = <<>> /\ (a \in ResourceQueue => s.held[a] = 0) BY <1>2, <1>4, <1>10
  <2>3. /\ t \in PoolState
        /\ IF Capacity[a] = 0 THEN t.queue[a] = <<>> ELSE t.queue[a] # <<>>
        /\ \A b \in User \ {a} : t.queue[b] = try.s.queue[b]
        /\ t.amount = try.s.amount /\ t.requests = try.s.requests /\ t.held = try.s.held /\ t.wrong = try.s.wrong
    BY <1>4, <2>1, <2>2, EnqueueIs
  <2>4. t.amount = s.amount /\ t.held = s.held /\ t.wrong = {} BY <1>4, <1>6, <1>10, <2>3
  <2>5. t.requests \in Seq(Request) BY <2>3, StateParts
  <2>6. OneAsks(s.requests, a, t.requests) BY <1>4, <1>10, <2>3
  <2>7. \A b \in User : /\ Asked(s.requests, b) \in Nat
                        /\ Asked(t.requests, b) = Asked(s.requests, b) + (IF a = b THEN 1 ELSE 0)
    BY <1>7, <2>5, <2>6, OneAsksCount
  <2>8. ASSUME NEW b \in User PROVE AskedOnce(t, b)
    <3>0. CASE b = a /\ Capacity[a] = 0 BY <2>3, <3>0 DEF AskedOnce
    <3>1. CASE b = a /\ Capacity[a] # 0
      <4>1. Asking(t, a) /\ ~Asking(s, a) BY <1>4, <2>2, <2>3, <2>4, <3>1 DEF Asking
      <4>2. Asked(s.requests, a) = 0 BY <1>6, <3>1, <4>1 DEF AskedOnce
      <4>3. Asked(t.requests, a) = 1 BY <2>7, <4>2
      <4> QED BY <3>1, <4>1, <4>3 DEF AskedOnce
    <3>2. CASE b # a
      <4>1. Asking(t, b) <=> Asking(s, b) BY <1>4, <2>3, <2>4, <3>2 DEF Asking
      <4>2. Asked(t.requests, b) = Asked(s.requests, b) BY <2>7, <3>2
      <4>3. t.queue[b] = s.queue[b] BY <1>4, <2>3, <3>2
      <4> QED BY <1>6, <4>1, <4>2, <4>3 DEF AskedOnce
    <3> QED BY <3>0, <3>1, <3>2
  <2>9. \E b \in User : t.held[b] > 0
    BY <1>4, <1>6, <1>7, <1>10, <2>4, SomebodyHolds
  <2> QED BY <1>6, <2>3, <2>4, <2>8, <2>9 DEF Sound
<1> QED BY <1>4, <1>8, <1>9, <1>10

(* A user other than a queue gives back what it holds.                     *)
LEMMA DeallocateStep ==
  ASSUME PoolInv, NEW a \in User, Deallocate(a)
  PROVE  PoolInv'
<1> DEFINE s == Whole
           u == [s EXCEPT !.held[a] = @ - 1]
           n == ResourceAmount[a]
           t == Release(u, n)
<1>1. Becomes(t, {}) /\ UNCHANGED wrongReleases /\ a \notin ResourceQueue /\ held[a] > 0
  BY PoolAssumption DEF Deallocate
<1>2. /\ s \in PoolState /\ s.wrong = {} /\ s.amount + Taken(s.held) = PoolAmount
      /\ \A b \in User : AskedOnce(s, b)
      /\ s.requests # <<>> => \E b \in User : s.held[b] > 0
  <2>1. s.wrong = {} BY DEF Deallocate, PoolRuns, Whole
  <2> HIDE DEF s
  <2> QED BY <2>1 DEF PoolInv, Sound, s
<1>3. s.held[a] > 0 BY <1>1 DEF Whole
<1> HIDE DEF s
<1>4. /\ s.amount \in Nat /\ s.held \in [User -> Nat] /\ s.held[a] \in Nat
      /\ Taken(s.held) \in Int /\ n \in Nat
  BY <1>2, StateParts
<1>5. s.held[a] - 1 \in Nat BY <1>3, <1>4
<1>6. /\ u \in PoolState /\ u.amount = s.amount /\ u.requests = s.requests
      /\ u.queue = s.queue /\ u.wrong = s.wrong
      /\ u.held[a] = s.held[a] - 1 /\ \A b \in User \ {a} : u.held[b] = s.held[b]
  <2>1. u = SetHeld(s, a, s.held[a] - 1) BY DEF SetHeld
  <2> HIDE DEF u
  <2> DEFINE m == s.held[a] - 1
  <2>2. m \in Nat /\ u = SetHeld(s, a, m) BY <1>5, <2>1
  <2> HIDE DEF m
  <2>3. OnlyHeld(u, s, a, m) BY <1>2, <2>2, WithHeld
  <2> QED BY <2>3 DEF OnlyHeld, m
<1> HIDE DEF u, n
<1>7. u.held \in [User -> Nat] /\ Taken(u.held) \in Int BY <1>6, StateParts
<1>8. Taken(s.held) = Taken(u.held) + n
  <2>1. s.held[a] = u.held[a] + 1 /\ \A b \in User \ {a} : s.held[b] = u.held[b] BY <1>4, <1>6
  <2> QED BY <1>4, <1>7, <2>1, TakenMore DEF n
<1>9. \A b \in User : AskedOnce(u, b)
  <2>1. \A b \in User : Asking(u, b) <=> Asking(s, b) BY <1>1, <1>6 DEF Asking
  <2> QED BY <1>2, <1>6, <2>1 DEF AskedOnce
<1>10. /\ t \in PoolState /\ \A b \in t.wrong : Capacity[b] = 0
       /\ t.wrong = {} =>
            /\ \A b \in User : AskedOnce(t, b)
            /\ t.amount + Taken(t.held) = u.amount + Taken(u.held) + n
            /\ t.requests # <<>> => \/ \E b \in User : t.held[b] > u.held[b]
                                    \/ \E b \in User : t.amount < ResourceAmount[b]
  <2>1. t = Release(u, n) OBVIOUS
  <2> HIDE DEF t
  <2>2. u \in PoolState /\ u.wrong = {} /\ n \in Nat BY <1>2, <1>4, <1>6
  <2> QED BY <1>9, <2>1, <2>2, ReleaseIs
<1> HIDE DEF t
<1>11. t.wrong = {} => t.amount + Taken(t.held) = PoolAmount
  BY ONLY <1>2, <1>4, <1>6, <1>7, <1>8, <1>10
<1>12. t.wrong = {} /\ t.requests # <<>> => \E b \in User : t.held[b] > 0
  <2>0. SUFFICES ASSUME t.wrong = {} PROVE t.requests # <<>> => \E b \in User : t.held[b] > 0
    OBVIOUS
  <2>1. ASSUME NEW b \in User, t.held[b] > u.held[b] PROVE t.held[b] > 0
    <3>1. t.held[b] \in Nat /\ u.held[b] \in Nat BY <1>7, <1>10, StateParts
    <3> QED BY <2>1, <3>1
  <2>2. ASSUME NEW b \in User, t.amount < ResourceAmount[b] PROVE \E c \in User : t.held[c] > 0
    <3>1. t.held \in [User -> Nat] /\ t.amount \in Nat BY <1>10, StateParts
    <3> QED BY <1>11, <2>0, <2>2, <3>1, SomebodyHolds
  <2> QED BY <1>10, <2>0, <2>1, <2>2
<1>13. Sound(t) BY <1>10, <1>11, <1>12 DEF Sound
<1> QED BY <1>1, <1>13, BecomesIs

(* A queue ends the service of its job.                                    *)
LEMMA EndServiceStep ==
  ASSUME PoolInv, NEW a \in User, EndService(a)
  PROVE  PoolInv'
<1> DEFINE s == Whole
           n == ResourceAmount[a]
           released == Release(s, n)
           idle == [released EXCEPT !.held[a] = 0]
           p == PeekJob(idle, a)
           try == TryToAllocate(idle, a, p)
           t == IF idle.queue[a] = <<>> THEN idle ELSE IF try.ok THEN TakeJob(try.s, a) ELSE try.s
<1>0. a \in ResourceQueue /\ held[a] = 1 /\ PoolRuns
  BY DEF EndService
<1>1. /\ UNCHANGED wrongReleases
      /\ IF released.wrong # {} THEN Becomes(released, {})
         ELSE \E asking : Becomes(t, asking)
  <2>1. held[a] > 0 BY <1>0
  <2>2. resourceAllocated[a] BY <1>0, <2>1 DEF PoolInv, QueuesAllocated
  <2>3. EndsService(a) /\ UNCHANGED wrongReleases BY <2>2 DEF EndService
  <2> QED BY <2>3 DEF EndsService
<1>2. /\ s \in PoolState /\ s.wrong = {} /\ s.amount + Taken(s.held) = PoolAmount
      /\ \A b \in User : AskedOnce(s, b)
  <2>1. s.wrong = {} BY <1>0 DEF PoolRuns, Whole
  <2> HIDE DEF s
  <2> QED BY <2>1 DEF PoolInv, Sound, s
<1>3. s.held[a] = 1 BY <1>0 DEF Whole
<1> HIDE DEF s
<1>4. s.amount \in Nat /\ s.held \in [User -> Nat] /\ Taken(s.held) \in Int /\ n \in Nat
  BY <1>2, StateParts
<1>a. /\ released \in PoolState /\ \A b \in released.wrong : Capacity[b] = 0
      /\ released.wrong = {} =>
           /\ \A b \in User : AskedOnce(released, b)
           /\ released.held[a] = 1
           /\ \A b \in User : released.held[b] >= s.held[b]
           /\ released.amount + Taken(released.held) = s.amount + Taken(s.held) + n
           /\ released.requests # <<>> => \/ \E b \in User : released.held[b] > s.held[b]
                                          \/ \E b \in User : released.amount < ResourceAmount[b]
  <2>1. released = Release(s, n) OBVIOUS
  <2> HIDE DEF released
  <2>2. s.held[a] > 0 BY <1>3
  <2> QED BY <1>0, <1>2, <1>3, <1>4, <2>1, <2>2, ReleaseIs
<1>b. CASE released.wrong # {}
  <2>1. Becomes(released, {}) BY <1>1, <1>b
  <2> HIDE DEF released
  <2>2. Sound(released) BY <1>a, <1>b DEF Sound
  <2> QED BY <1>1, <2>1, <2>2, BecomesIs
<1>c. SUFFICES ASSUME released.wrong = {} PROVE PoolInv'
  BY <1>b
<1>5. /\ released \in PoolState /\ released.wrong = {} /\ \A b \in User : AskedOnce(released, b)
      /\ released.held[a] = 1
      /\ \A b \in User : released.held[b] >= s.held[b]
      /\ released.amount + Taken(released.held) = s.amount + Taken(s.held) + n
      /\ released.requests # <<>> => \/ \E b \in User : released.held[b] > s.held[b]
                                     \/ \E b \in User : released.amount < ResourceAmount[b]
  <2> HIDE DEF released
  <2> QED BY <1>a, <1>c
<1>6. /\ idle \in PoolState /\ idle.amount = released.amount /\ idle.requests = released.requests
      /\ idle.queue = released.queue /\ idle.wrong = released.wrong
      /\ idle.held[a] = 0 /\ \A b \in User \ {a} : idle.held[b] = released.held[b]
  <2>1. idle = SetHeld(released, a, 0) BY DEF SetHeld
  <2>2. 0 \in Nat OBVIOUS
  <2> HIDE DEF idle, released
  <2>3. OnlyHeld(idle, released, a, 0) BY <1>5, <2>1, <2>2, WithHeld
  <2> QED BY <2>3 DEF OnlyHeld
<1> HIDE DEF idle, released, n
<1>7. /\ idle.held \in [User -> Nat] /\ released.held \in [User -> Nat]
      /\ Taken(idle.held) \in Int /\ Taken(released.held) \in Int
      /\ idle.amount \in Nat /\ idle.requests \in Seq(Request)
  BY <1>5, <1>6, StateParts
<1>8. idle.amount + Taken(idle.held) = PoolAmount
  <2>1. released.held[a] = idle.held[a] + 1 /\ \A b \in User \ {a} : released.held[b] = idle.held[b]
    BY <1>5, <1>6
  <2>2. Taken(released.held) = Taken(idle.held) + n BY <1>7, <2>1, TakenMore DEF n
  <2>3. /\ s.amount + Taken(s.held) = PoolAmount
        /\ idle.amount + Taken(released.held) = s.amount + Taken(s.held) + n
    BY <1>2, <1>5, <1>6
  <2>4. /\ s.amount \in Int /\ Taken(s.held) \in Int /\ n \in Int
        /\ idle.amount \in Int /\ Taken(idle.held) \in Int
    BY <1>4, <1>7
  <2> QED BY ONLY <2>2, <2>3, <2>4
<1>9. idle.requests # <<>> => \E b \in User : idle.held[b] > 0
  <2>1. ASSUME NEW b \in User, released.held[b] > s.held[b] PROVE idle.held[b] > 0
    <3>1. b # a BY <1>3, <1>5, <2>1
    <3>2. released.held[b] \in Nat /\ s.held[b] \in Nat BY <1>4, <1>7
    <3> QED BY <1>6, <2>1, <3>1, <3>2
  <2>2. ASSUME NEW b \in User, released.amount < ResourceAmount[b] PROVE \E c \in User : idle.held[c] > 0
    <3>1. idle.amount < ResourceAmount[b] BY <1>6, <2>2
    <3> QED BY <1>7, <1>8, <3>1, SomebodyHolds
  <2> QED BY <1>5, <1>6, <2>1, <2>2
<1>10. /\ IF Capacity[a] = 0 THEN idle.queue[a] = <<>> ELSE Asked(idle.requests, a) = 0
       /\ \A b \in User \ {a} : AskedOnce(idle, b)
  <2>1. ~Asking(released, a) BY <1>0, <1>5 DEF Asking
  <2>2. IF Capacity[a] = 0 THEN released.queue[a] = <<>> ELSE Asked(released.requests, a) = 0
    BY <1>5, <2>1 DEF AskedOnce
  <2>3. \A b \in User \ {a} : Asking(idle, b) <=> Asking(released, b) BY <1>6 DEF Asking
  <2> QED BY <1>5, <1>6, <2>2, <2>3 DEF AskedOnce
<1>11. SUFFICES Sound(t)
  <2> HIDE DEF t
  <2>1. PICK asking : Becomes(t, asking) BY <1>1, <1>c
  <2> QED BY <1>1, <1>11, <2>1, BecomesIs
<1>12. CASE idle.queue[a] = <<>>
  <2>1. t = idle BY <1>12
  <2> HIDE DEF t
  <2>2. AskedOnce(idle, a) BY <1>10, <1>12 DEF AskedOnce, Asking
  <2>3. \A b \in User : AskedOnce(idle, b) BY <1>10, <2>2
  <2> QED BY <1>5, <1>6, <1>8, <1>9, <2>1, <2>3 DEF Sound
<1>13. CASE idle.queue[a] # <<>>
  <2>0. p \in JobPriority BY <1>6, <1>13, PeekIs
  <2>c. Capacity[a] # 0 /\ Asked(idle.requests, a) = 0 BY <1>10, <1>13
  <2>1. t = IF try.ok THEN TakeJob(try.s, a) ELSE try.s BY <1>13
  <2> HIDE DEF t
  <2>2. /\ try.ok \in BOOLEAN /\ try.s \in PoolState
        /\ try.s.queue = idle.queue /\ try.s.held = idle.held /\ try.s.wrong = idle.wrong
        /\ try.ok => /\ try.s.requests = idle.requests
                     /\ try.s.amount = idle.amount - ResourceAmount[a]
        /\ ~try.ok => /\ try.s.amount = idle.amount /\ idle.amount < ResourceAmount[a]
                      /\ OneAsks(idle.requests, a, try.s.requests)
    <3>1. try = TryToAllocate(idle, a, p) OBVIOUS
    <3> HIDE DEF try, p
    <3> QED BY <1>6, <2>0, <3>1, TryIs
  <2> HIDE DEF try, p
  <2>3. CASE try.ok
    <3>1. t = TakeJob(try.s, a) /\ try.s.queue[a] # <<>> BY <1>13, <2>1, <2>2, <2>3
    <3>2. /\ t \in PoolState
          /\ t.amount = try.s.amount /\ t.requests = try.s.requests /\ t.wrong = try.s.wrong
          /\ t.held[a] = try.s.held[a] + 1
          /\ \A b \in User \ {a} : t.queue[b] = try.s.queue[b] /\ t.held[b] = try.s.held[b]
      BY <2>2, <3>1, TakeJobIs
    <3>3. t.held \in [User -> Nat] /\ ResourceAmount[a] \in Nat BY <3>2, StateParts
    <3>4. Taken(t.held) = Taken(idle.held) + ResourceAmount[a]
      <4>1. t.held[a] = idle.held[a] + 1 /\ \A b \in User \ {a} : t.held[b] = idle.held[b]
        BY <2>2, <3>2
      <4> QED BY ONLY <1>7, <3>3, <4>1, TakenMore, a \in User
    <3>5. t.amount + Taken(t.held) = PoolAmount
      <4>1. t.amount = idle.amount - ResourceAmount[a] BY <2>2, <2>3, <3>2
      <4> QED BY ONLY <1>7, <1>8, <3>3, <3>4, <4>1
    <3>6. t.held[a] = 1 BY <1>6, <2>2, <3>2
    <3>7. t.requests = idle.requests BY <2>2, <2>3, <3>2
    <3>8. AskedOnce(t, a) BY <1>0, <2>c, <3>6, <3>7 DEF AskedOnce, Asking
    <3>9. ASSUME NEW b \in User \ {a} PROVE AskedOnce(t, b)
      <4>1. Asking(t, b) <=> Asking(idle, b) BY <2>2, <3>2 DEF Asking
      <4>2. t.queue[b] = idle.queue[b] BY <2>2, <3>2
      <4> QED BY <1>10, <3>7, <4>1, <4>2 DEF AskedOnce
    <3>10. t.held[a] > 0 /\ t.wrong = {} BY <1>5, <1>6, <2>2, <3>2, <3>6
    <3> QED BY <3>2, <3>5, <3>8, <3>9, <3>10 DEF Sound
  <2>4. CASE ~try.ok
    <3>1. t = try.s BY <2>1, <2>4
    <3>2. /\ t \in PoolState /\ t.queue = idle.queue /\ t.held = idle.held /\ t.wrong = idle.wrong
          /\ t.amount = idle.amount /\ idle.amount < ResourceAmount[a]
          /\ OneAsks(idle.requests, a, t.requests)
      BY <2>2, <2>4, <3>1
    <3>3. t.requests \in Seq(Request) BY <3>2, StateParts
    <3>4. \A b \in User : /\ Asked(idle.requests, b) \in Nat
                          /\ Asked(t.requests, b) = Asked(idle.requests, b) + (IF a = b THEN 1 ELSE 0)
      BY <1>7, <3>2, <3>3, OneAsksCount
    <3>5. AskedOnce(t, a)
      <4>1. Asking(t, a) BY <1>6, <1>13, <3>2 DEF Asking
      <4>2. Asked(t.requests, a) = 1 BY <2>c, <3>4
      <4> QED BY <2>c, <4>1, <4>2 DEF AskedOnce
    <3>6. ASSUME NEW b \in User \ {a} PROVE AskedOnce(t, b)
      <4>1. Asking(t, b) <=> Asking(idle, b) BY <3>2 DEF Asking
      <4>2. Asked(t.requests, b) = Asked(idle.requests, b) BY <3>4
      <4> QED BY <1>10, <3>2, <4>1, <4>2 DEF AskedOnce
    <3>7. \E b \in User : t.held[b] > 0 BY <1>7, <1>8, <3>2, SomebodyHolds
    <3>8. t.amount + Taken(t.held) = PoolAmount /\ t.wrong = {} BY <1>5, <1>6, <1>8, <3>2
    <3> QED BY <3>2, <3>5, <3>6, <3>7, <3>8 DEF Sound
  <2> QED BY <2>2, <2>3, <2>4
<1> QED BY <1>12, <1>13

(* The invariant is inductive.                                             *)
LEMMA PoolStep == PoolInv /\ [PoolNext]_poolVars => PoolInv'
<1> SUFFICES ASSUME PoolInv, [PoolNext]_poolVars PROVE PoolInv'
  OBVIOUS
<1>1. ASSUME NEW a \in User, NEW job \in JobPriority, JobArrives(a, job) PROVE PoolInv'
  BY <1>1, JobArrivesStep
<1>2. ASSUME NEW a \in User, EndService(a) PROVE PoolInv'
  BY <1>2, EndServiceStep
<1>3. ASSUME NEW a \in User, Deallocate(a) PROVE PoolInv'
  BY <1>3, DeallocateStep
<1>4. CASE UNCHANGED poolVars
  <2>1. Whole' = Whole BY <1>4 DEF poolVars, Whole
  <2> QED BY <1>4, <2>1 DEF PoolInv, QueuesAllocated, poolVars
<1> QED BY <1>1, <1>2, <1>3, <1>4 DEF PoolNext

(* The invariant is as strong as the property.                             *)
LEMMA PoolInvSound == PoolInv => PoolIsSound
<1> SUFFICES ASSUME PoolInv PROVE PoolIsSound OBVIOUS
<1> DEFINE s == Whole
<1>1. /\ s.amount = pool.amount /\ s.requests = pool.requests /\ s.queue = waitingJobs
      /\ s.held = held /\ s.wrong = wrongGrants
  BY DEF Whole
<1>2. Sound(s) /\ wrongReleases = {} BY DEF PoolInv
<1> HIDE DEF s
<1>3. \A a \in wrongGrants : Capacity[a] = 0 BY <1>1, <1>2 DEF Sound
<1>4. SUFFICES ASSUME wrongGrants = {}
               PROVE  /\ pool.amount + SumFunctionOnSet(AmountHeld(held), User) = PoolAmount
                      /\ \A a \in User : Capacity[a] # 0 =>
                           Cardinality({i \in DOMAIN pool.requests : pool.requests[i].allocator = a}) =
                             (IF waitingJobs[a] # <<>> /\ (a \in ResourceQueue => held[a] = 0) THEN 1 ELSE 0)
                      /\ pool.requests # <<>> => \E a \in User : held[a] > 0
  BY <1>2, <1>3 DEF PoolIsSound
<1>5. pool.amount + SumFunctionOnSet(AmountHeld(held), User) = PoolAmount
  BY <1>1, <1>2, <1>4 DEF Sound, Taken
<1>6. pool.requests # <<>> => \E a \in User : held[a] > 0 BY <1>1, <1>2, <1>4 DEF Sound
<1>7. ASSUME NEW a \in User, Capacity[a] # 0
      PROVE  Cardinality({i \in DOMAIN pool.requests : pool.requests[i].allocator = a}) =
               (IF waitingJobs[a] # <<>> /\ (a \in ResourceQueue => held[a] = 0) THEN 1 ELSE 0)
  <2>1. AskedOnce(s, a) BY <1>1, <1>2, <1>4 DEF Sound
  <2> QED BY <1>1, <1>7, <2>1 DEF AskedOnce, Asked, RequestsOf, Asking
<1> QED BY <1>5, <1>6, <1>7

(* Whatever the amounts, the priorities, the disciplines and the           *)
(* capacities: no queue releases what it does not hold, and a grant finds  *)
(* a job unless its user has capacity 0.  Until such a grant fails, what is*)
(* held and what is left are the pool's amount, and every other user has a *)
(* request in the pool's list exactly while its jobs wait for the resource *)
(* (ResourcePool, Allocate, ResourceBasedQueue).  PoolInv is inductive: it *)
(* adds that the queue of a user of capacity 0 is empty, and the flag.     *)
THEOREM ResourceTheorem == PartsSpec => []PoolIsSound
<1>1. PartsInit => PoolInv
  BY PoolInitially DEF PartsInit
<1>2. PoolInv /\ [PartsNext]_partsVars => PoolInv'
  <2>1. [PartsNext]_partsVars => [PoolNext]_poolVars
    BY DEF PartsNext, partsVars, OnlyPart
  <2> QED BY <2>1, PoolStep
<1> QED
  BY <1>1, <1>2, PoolInvSound, PTL DEF PartsSpec

(***************************************************************************)
(* The families of jobs                                                    *)
(***************************************************************************)

FamilyState ==
  [place : [JobId -> {"none", "moving", "forked", "joined"}],
   parent : [JobId -> JobId \cup {NoJob}], children : [JobId -> Seq(JobId)],
   gen : [JobId -> Nat], listed : [JobId -> BOOLEAN], list : (SUBSET JobId) \cup {NoList},
   failed : BOOLEAN]

(* Parents and children agree on each other.                               *)
RelativesAgree(s) ==
  /\ ~s.failed
  /\ \A j \in JobId :
       /\ IsInjective(s.children[j])
       /\ \A k \in JobId : Contains(s.children[j], k) <=> s.parent[k] = j
       /\ s.children[j] # <<>> => s.place[j] = "forked"
       /\ s.parent[j] # NoJob => s.place[j] # "none"

(* The list holds the jobs that exist, and they know it.                   *)
ListAgrees(s) ==
  /\ s.list # NoList => /\ s.list = {j \in JobId : s.place[j] # "none"}
                        /\ \A j \in JobId : s.listed[j] <=> s.place[j] # "none"
  /\ s.list = NoList => \A j \in JobId : ~s.listed[j]

FamilyOK(s) == s \in FamilyState /\ RelativesAgree(s) /\ ListAgrees(s)

(* A sub-job of p is still to come to the Join.                            *)
Expected(s, p) == \E k \in JobId : s.parent[k] = p /\ s.place[k] # "joined"

(* The jobs of U have parents.                                             *)
Parented(s, U) == U \subseteq JobId /\ \A k \in U : s.parent[k] # NoJob

FamilyInv ==
  /\ FamilyOK(Family) /\ Parented(Family, subJobs) /\ strayJoined \cap subJobs = {}
  /\ \A j \in JobId : jobPlace[j] = "forked" => Expected(Family, j) \/ j \in orphaned

(* The parts of a state have their types.                                  *)
LEMMA FamilyParts ==
  ASSUME NEW s \in FamilyState
  PROVE  /\ s.place \in [JobId -> {"none", "moving", "forked", "joined"}]
         /\ s.parent \in [JobId -> JobId \cup {NoJob}] /\ s.children \in [JobId -> Seq(JobId)]
         /\ s.gen \in [JobId -> Nat] /\ s.listed \in [JobId -> BOOLEAN]
         /\ s.list \in (SUBSET JobId) \cup {NoList} /\ s.failed \in BOOLEAN
         /\ \A j \in JobId : s.children[j] \in Seq(JobId)
  BY DEF FamilyState

(* No job and no list are none of the jobs and lists there can be.         *)
LEMMA NoJobIs == /\ NoJob \notin JobId /\ \A j \in JobId : j # NoJob
                 /\ \A U \in SUBSET JobId : U # NoList
  BY FamilyAssumption DEF NoJob, NoList

(* A family is complete when none of its jobs is expected.                 *)
LEMMA CompleteIs ==
  ASSUME NEW s, FamilyOK(s), NEW p \in JobId
  PROVE  FamilyComplete(s, p) <=> ~Expected(s, p)
<1>1. s.children[p] \in Seq(JobId) BY FamilyParts DEF FamilyOK
<1>2. \A k \in JobId : (\E i \in 1 .. Len(s.children[p]) : s.children[p][i] = k) <=> s.parent[k] = p
  BY DEF FamilyOK, RelativesAgree, Contains
<1>3. DOMAIN s.children[p] = 1 .. Len(s.children[p])
      /\ \A i \in 1 .. Len(s.children[p]) : s.children[p][i] \in JobId
  BY <1>1
<1> QED BY <1>2, <1>3 DEF FamilyComplete, Expected

(* Without one of its elements, a list holds the others.                   *)
Without(q, k, r) ==
  /\ r \in Seq(JobId) /\ IsInjective(r)
  /\ \A x \in JobId : Contains(r, x) <=> Contains(q, x) /\ x # k

(* RemoveFirst removes one element from a list without repetitions.        *)
LEMMA RemovedIs ==
  ASSUME NEW q \in Seq(JobId), IsInjective(q), NEW k \in JobId, Contains(q, k),
         NEW r, r = RemoveFirst(q, k)
  PROVE  Without(q, k, r)
<1> DEFINE I == {i \in 1 .. Len(q) : q[i] = k}
           m == Min(I)
<1>1. Len(q) \in Nat /\ DOMAIN q = 1 .. Len(q) OBVIOUS
<1>2. m \in 1 .. Len(q) /\ q[m] = k
  <2>1. IsFiniteSet(1 .. Len(q)) BY <1>1, FS_Interval
  <2>2. I \in SUBSET Int /\ I # {} /\ I \subseteq 1 .. Len(q) BY <1>1 DEF Contains
  <2>3. IsFiniteSet(I) BY <2>1, <2>2, FS_Subset
  <2> HIDE DEF I
  <2>4. m \in I BY <2>2, <2>3, MinIs
  <2> QED BY <2>4 DEF I
<1>3. r = SubSeq(q, 1, m - 1) \o SubSeq(q, m + 1, Len(q))
  <2>1. I # {} BY <1>2
  <2>2. \E i \in 1 .. Len(q) : q[i] = k BY <1>2
  <2> QED BY <2>1, <2>2 DEF RemoveFirst, RemoveAt, SelectInSeq
<1> HIDE DEF m
<1> DEFINE A == SubSeq(q, 1, m - 1)
           B == SubSeq(q, m + 1, Len(q))
<1>4. A \in Seq(JobId) /\ Len(A) = m - 1 /\ \A j \in 1 .. m - 1 : A[j] = q[j]
  <2>1. A = [j \in 1 .. m - 1 |-> q[j]] BY <1>1, <1>2
  <2> QED BY <1>1, <1>2, <2>1
<1>5. B \in Seq(JobId) /\ Len(B) = Len(q) - m /\ \A j \in 1 .. Len(q) - m : B[j] = q[j + m]
  <2>1. \A j \in m + 1 .. Len(q) : q[j] \in JobId BY <1>1, <1>2
  <2>2. m + 1 \in Int /\ Len(q) \in Int BY <1>1, <1>2
  <2>3. /\ B \in Seq(JobId)
        /\ Len(B) = IF m + 1 <= Len(q) THEN Len(q) - (m + 1) + 1 ELSE 0
        /\ \A j \in 1 .. Len(q) - (m + 1) + 1 : B[j] = q[(m + 1) + j - 1]
    BY <2>1, <2>2, SubSeqProperties
  <2> HIDE DEF B
  <2>4. Len(q) - (m + 1) + 1 = Len(q) - m /\ \A j \in 1 .. Len(q) - m : (m + 1) + j - 1 = j + m
    BY <1>1, <1>2
  <2>5. Len(B) = Len(q) - m
    <3>1. m + 1 <= Len(q) => Len(q) - (m + 1) + 1 = Len(q) - m BY <1>1, <1>2
    <3>2. ~(m + 1 <= Len(q)) => Len(q) - m = 0
      <4>1. m \in Int /\ Len(q) \in Int /\ m <= Len(q) BY <1>1, <1>2
      <4> QED BY ONLY <4>1
    <3> QED BY ONLY <2>3, <3>1, <3>2
  <2>6. \A j \in 1 .. Len(q) - m : B[j] = q[j + m] BY <2>3, <2>4
  <2> QED BY <2>3, <2>5, <2>6
<1>6. r = A \o B BY <1>3
<1> HIDE DEF A, B
<1>7. r \in Seq(JobId) /\ Len(r) = Len(A) + Len(B)
      /\ \A i \in 1 .. Len(A) + Len(B) : r[i] = IF i <= Len(A) THEN A[i] ELSE B[i - Len(A)]
  BY ONLY <1>4, <1>5, <1>6, ConcatProperties
<1>8. Len(r) = Len(q) - 1 /\ \A i \in 1 .. Len(q) - 1 : r[i] = IF i < m THEN q[i] ELSE q[i + 1]
  <2>1. Len(r) = Len(q) - 1 BY <1>1, <1>2, <1>4, <1>5, <1>7
  <2> SUFFICES ASSUME NEW i \in 1 .. Len(q) - 1 PROVE r[i] = IF i < m THEN q[i] ELSE q[i + 1]
    BY <2>1
  <2>2. CASE i < m
    <3>1. i \in 1 .. m - 1 /\ i <= Len(A) /\ i \in 1 .. Len(A) + Len(B) BY <1>1, <1>2, <1>4, <1>5, <2>2
    <3> QED BY <1>4, <1>7, <2>2, <3>1
  <2>3. CASE ~(i < m)
    <3>0. Len(A) = m - 1 /\ Len(B) = Len(q) - m /\ m \in 1 .. Len(q) /\ Len(q) \in Nat
      BY <1>1, <1>2, <1>4, <1>5
    <3>1. ~(i <= Len(A)) /\ i \in 1 .. Len(A) + Len(B) /\ i - Len(A) = i - m + 1
          /\ i - m + 1 \in 1 .. Len(q) - m /\ i - m + 1 + m = i + 1
      BY ONLY <2>3, <3>0, i \in 1 .. Len(q) - 1
    <3>2. r[i] = B[i - Len(A)] BY <1>7, <3>1
    <3>3. B[i - m + 1] = q[i + 1] BY <1>5, <3>1
    <3> QED BY <2>3, <3>1, <3>2, <3>3
  <2> QED BY <2>2, <2>3
<1>9. \A i, j \in 1 .. Len(q) : q[i] = q[j] => i = j BY <1>1 DEF IsInjective
<1>10. IsInjective(r)
  <2>1. DOMAIN r = 1 .. Len(r) BY ONLY <1>7
  <2>2. Len(r) = Len(q) - 1 BY <1>8
  <2> SUFFICES ASSUME NEW i \in 1 .. Len(q) - 1, NEW j \in 1 .. Len(q) - 1, r[i] = r[j] PROVE i = j
    BY <2>1, <2>2 DEF IsInjective
  <2> DEFINE i2 == IF i < m THEN i ELSE i + 1
             j2 == IF j < m THEN j ELSE j + 1
  <2>3. i2 \in 1 .. Len(q) /\ j2 \in 1 .. Len(q) /\ (i2 = j2 => i = j) BY <1>1, <1>2
  <2>4. r[i] = q[i2] /\ r[j] = q[j2] BY <1>8
  <2> QED BY <1>9, <2>3, <2>4
<1>11. ASSUME NEW x \in JobId PROVE Contains(r, x) <=> Contains(q, x) /\ x # k
  <2>1. ASSUME NEW i \in 1 .. Len(q) - 1, r[i] = x PROVE Contains(q, x) /\ x # k
    <3> DEFINE i2 == IF i < m THEN i ELSE i + 1
    <3>1. i2 \in 1 .. Len(q) /\ q[i2] = x /\ i2 # m BY <1>1, <1>2, <1>8, <2>1
    <3>2. x # k BY <1>2, <1>9, <3>1
    <3> QED BY <3>1, <3>2 DEF Contains
  <2>2. ASSUME NEW i \in 1 .. Len(q), q[i] = x, x # k PROVE \E j \in 1 .. Len(r) : r[j] = x
    <3>1. i # m BY <1>2, <2>2
    <3> DEFINE j == IF i < m THEN i ELSE i - 1
    <3>2. j \in 1 .. Len(q) - 1 /\ (j < m => j = i) /\ (~(j < m) => j + 1 = i) BY <1>1, <1>2, <3>1
    <3>3. r[j] = x BY <1>8, <2>2, <3>2
    <3> QED BY <1>8, <3>2, <3>3
  <2> QED BY <1>8, <2>1, <2>2 DEF Contains
<1> QED BY <1>7, <1>10, <1>11 DEF Without


(* A family that is OK, and its parts.                                     *)
LEMMA FamilyFacts ==
  ASSUME NEW s, FamilyOK(s)
  PROVE  /\ s \in FamilyState /\ ~s.failed
         /\ \A j \in JobId : s.parent[j] \in JobId \cup {NoJob} /\ s.children[j] \in Seq(JobId)
         /\ \A j \in JobId : IsInjective(s.children[j])
         /\ \A j, k \in JobId : Contains(s.children[j], k) <=> s.parent[k] = j
         /\ \A j \in JobId : s.children[j] # <<>> => s.place[j] = "forked"
         /\ \A j \in JobId : s.parent[j] # NoJob => s.place[j] # "none"
         /\ \A j, k \in JobId : s.parent[k] = j => s.place[j] = "forked"
<1>1. s \in FamilyState BY DEF FamilyOK
<1>2. \A j, k \in JobId : s.parent[k] = j => s.place[j] = "forked"
  <2> SUFFICES ASSUME NEW j \in JobId, NEW k \in JobId, s.parent[k] = j PROVE s.place[j] = "forked"
    OBVIOUS
  <2>1. Contains(s.children[j], k) BY DEF FamilyOK, RelativesAgree
  <2>2. s.children[j] # <<>> BY <2>1 DEF Contains
  <2> QED BY <2>2 DEF FamilyOK, RelativesAgree
<1> QED BY <1>1, <1>2, FamilyParts DEF FamilyOK, RelativesAgree

(* The list knows of a change of the jobs that exist.                      *)
Listing(s, t) == t.list # NoList <=> s.list # NoList

(* Setting a value to what it is changes nothing.                          *)
LEMMA SameValue ==
  ASSUME NEW S, NEW X, NEW f \in [S -> X], NEW x \in S, NEW v, f[x] = v
  PROVE  [f EXCEPT ![x] = v] = f
  OBVIOUS

(* A new job without relatives.                                            *)
Made(s, t, j) ==
  /\ FamilyOK(t) /\ Listing(s, t)
  /\ t.place = [s.place EXCEPT ![j] = "moving"] /\ t.parent = s.parent /\ t.children = s.children

(* The constructors keep the relatives and register the job.               *)
LEMMA ConstructIs ==
  ASSUME NEW s, FamilyOK(s), NEW j \in JobId, s.place[j] = "none", NEW g \in Nat,
         NEW r \in BOOLEAN, r <=> s.list # NoList, NEW t, t = Construct(s, j, g, r)
  PROVE  Made(s, t, j)
<1>0. s \in FamilyState BY DEF FamilyOK
<1>1. /\ t.place = [s.place EXCEPT ![j] = "moving"] /\ t.parent = [s.parent EXCEPT ![j] = NoJob]
      /\ t.children = [s.children EXCEPT ![j] = <<>>] /\ t.gen = [s.gen EXCEPT ![j] = g]
      /\ t.listed = [s.listed EXCEPT ![j] = r] /\ t.list = (IF r THEN s.list \cup {j} ELSE s.list)
      /\ t.failed = s.failed
      /\ t = [place |-> t.place, parent |-> t.parent, children |-> t.children, gen |-> t.gen,
              listed |-> t.listed, list |-> t.list, failed |-> t.failed]
  BY <1>0 DEF Construct, FamilyState
<1>2. /\ s.place \in [JobId -> {"none", "moving", "forked", "joined"}]
      /\ s.parent \in [JobId -> JobId \cup {NoJob}] /\ s.children \in [JobId -> Seq(JobId)]
      /\ s.gen \in [JobId -> Nat] /\ s.listed \in [JobId -> BOOLEAN]
      /\ s.list \in (SUBSET JobId) \cup {NoList} /\ s.failed \in BOOLEAN
  BY <1>0, FamilyParts
<1>3. s.parent[j] = NoJob /\ s.children[j] = <<>> BY FamilyFacts
<1>4. t.parent = s.parent BY ONLY <1>1, <1>2, <1>3, j \in JobId
<1>5. t.children = s.children
  <2>1. s.children \in [JobId -> Seq(JobId)] /\ s.children[j] = <<>> BY <1>2, <1>3
  <2>2. [s.children EXCEPT ![j] = <<>>] = s.children BY ONLY <2>1, SameValue, j \in JobId, Zenon
  <2> QED BY <1>1, <2>2
<1>6. /\ t.place \in [JobId -> {"none", "moving", "forked", "joined"}] /\ t.place[j] = "moving"
      /\ \A k \in JobId \ {j} : t.place[k] = s.place[k]
  BY ONLY <1>1, <1>2, j \in JobId
<1>7. /\ t.listed \in [JobId -> BOOLEAN] /\ t.listed[j] = r
      /\ \A k \in JobId \ {j} : t.listed[k] = s.listed[k]
  BY ONLY <1>1, <1>2, j \in JobId, r \in BOOLEAN
<1>8. t.gen \in [JobId -> Nat] BY ONLY <1>1, <1>2, j \in JobId, g \in Nat
<1>9. CASE s.list = NoList
  <2>0. t.list = NoList BY <1>1, <1>9
  <2>1. t.list = NoList /\ t.list \in (SUBSET JobId) \cup {NoList} BY <2>0, Zenon
  <2>2. t \in FamilyState BY <1>1, <1>2, <1>4, <1>5, <1>6, <1>7, <1>8, <2>1 DEF FamilyState
  <2>3. \A k \in JobId : ~t.listed[k]
    <3>1. \A k \in JobId : ~s.listed[k] BY <1>9 DEF FamilyOK, ListAgrees
    <3> QED BY <1>7, <1>9, <3>1
  <2>4. RelativesAgree(t) BY <1>1, <1>4, <1>5, <1>6, FamilyFacts DEF RelativesAgree
  <2> QED BY <1>1, <1>4, <1>5, <1>9, <2>1, <2>2, <2>3, <2>4 DEF Made, FamilyOK, ListAgrees, Listing
<1>10. CASE s.list # NoList
  <2>0. s.list \in SUBSET JobId
    <3>1. s.list \in (SUBSET JobId) \cup {NoList} BY <1>2
    <3> QED BY ONLY <1>10, <3>1, Zenon
  <2>1. t.list = s.list \cup {j} /\ s.list \in SUBSET JobId BY <1>1, <1>10, <2>0
  <2>2. t.list \in SUBSET JobId /\ t.list # NoList BY <2>1, NoJobIs
  <2>3. t \in FamilyState BY <1>1, <1>2, <1>4, <1>5, <1>6, <1>7, <1>8, <2>2 DEF FamilyState
  <2>4. /\ s.list = {k \in JobId : s.place[k] # "none"}
        /\ \A k \in JobId : s.listed[k] <=> s.place[k] # "none"
    BY <1>10 DEF FamilyOK, ListAgrees
  <2>5. t.list = {k \in JobId : t.place[k] # "none"} BY <1>6, <2>1, <2>4
  <2>6. \A k \in JobId : t.listed[k] <=> t.place[k] # "none" BY <1>6, <1>7, <1>10, <2>4
  <2>7. RelativesAgree(t) BY <1>1, <1>4, <1>5, <1>6, FamilyFacts DEF RelativesAgree
  <2> QED BY <1>1, <1>4, <1>5, <1>10, <2>2, <2>3, <2>5, <2>6, <2>7 DEF Made, FamilyOK, ListAgrees, Listing
<1> QED BY <1>9, <1>10

(* A new job that is the last child of p.                                  *)
Adopted(s, t, j, p) ==
  /\ FamilyOK(t) /\ Listing(s, t)
  /\ t.place = [s.place EXCEPT ![j] = "moving"] /\ t.parent = [s.parent EXCEPT ![j] = p]

(* A copy becomes the last child.                                          *)
LEMMA DupIs ==
  ASSUME NEW s, FamilyOK(s), NEW j \in JobId, s.place[j] = "none",
         NEW p \in JobId, s.place[p] = "forked", NEW t, t = DupAsChild(s, j, p)
  PROVE  Adopted(s, t, j, p)
<1> DEFINE u == Construct(s, j, s.gen[p], s.listed[p])
<1>0. s \in FamilyState BY DEF FamilyOK
<1>1. Made(s, u, j)
  <2>1. s.gen[p] \in Nat /\ s.listed[p] \in BOOLEAN BY <1>0, FamilyParts
  <2>2. s.listed[p] <=> s.list # NoList BY DEF FamilyOK, ListAgrees
  <2>3. u = Construct(s, j, s.gen[p], s.listed[p]) OBVIOUS
  <2> HIDE DEF u
  <2> QED BY <2>1, <2>2, <2>3, ConstructIs
<1>2. t = [u EXCEPT !.parent[j] = p, !.children[p] = Append(@, j),
                    !.failed = @ \/ Contains(s.children[p], j)]
  BY DEF DupAsChild
<1> HIDE DEF u
<1>3. FamilyOK(u) /\ u \in FamilyState /\ Listing(s, u) /\ u.place = [s.place EXCEPT ![j] = "moving"]
      /\ u.parent = s.parent /\ u.children = s.children
  BY <1>1 DEF Made, FamilyOK
<1>4. s.parent[j] = NoJob /\ s.children[j] = <<>> /\ j # p /\ ~Contains(s.children[p], j) /\ ~u.failed
  BY <1>3, FamilyFacts, NoJobIs
<1>5. /\ t.place = u.place /\ t.parent = [u.parent EXCEPT ![j] = p]
      /\ t.children = [u.children EXCEPT ![p] = Append(@, j)]
      /\ t.gen = u.gen /\ t.listed = u.listed /\ t.list = u.list
      /\ t.failed = (u.failed \/ Contains(s.children[p], j))
      /\ t = [place |-> t.place, parent |-> t.parent, children |-> t.children, gen |-> t.gen,
              listed |-> t.listed, list |-> t.list, failed |-> t.failed]
  BY <1>2, <1>3 DEF FamilyState
<1>6. t.failed = FALSE BY <1>4, <1>5
<1>7. /\ u.place \in [JobId -> {"none", "moving", "forked", "joined"}]
      /\ u.parent \in [JobId -> JobId \cup {NoJob}] /\ u.children \in [JobId -> Seq(JobId)]
      /\ u.gen \in [JobId -> Nat] /\ u.listed \in [JobId -> BOOLEAN]
      /\ u.list \in (SUBSET JobId) \cup {NoList} /\ s.place \in [JobId -> {"none", "moving", "forked", "joined"}]
  BY <1>0, <1>3, FamilyParts
<1>8. /\ t.parent \in [JobId -> JobId \cup {NoJob}] /\ t.parent[j] = p
      /\ \A k \in JobId \ {j} : t.parent[k] = s.parent[k]
  BY ONLY <1>3, <1>5, <1>7, j \in JobId, p \in JobId
<1> DEFINE q == s.children[p]
<1>9. q \in Seq(JobId) /\ IsInjective(q) BY FamilyFacts
<1>10. /\ t.children \in [JobId -> Seq(JobId)] /\ t.children[p] = Append(q, j)
       /\ \A k \in JobId \ {p} : t.children[k] = s.children[k]
  BY <1>3, <1>5, <1>7, <1>9
<1>11. /\ IsInjective(Append(q, j)) /\ Append(q, j) # <<>>
       /\ \A k \in JobId : Contains(Append(q, j), k) <=> Contains(q, k) \/ k = j
  <2> HIDE DEF q
  <2>1. Len(q) \in Nat /\ DOMAIN q = 1 .. Len(q) /\ Len(Append(q, j)) = Len(q) + 1
        /\ DOMAIN Append(q, j) = 1 .. Len(q) + 1
        /\ \A i \in 1 .. Len(q) : Append(q, j)[i] = q[i]
        /\ Append(q, j)[Len(q) + 1] = j
    BY <1>9
  <2>2. \A i \in 1 .. Len(q) : q[i] # j BY <1>4 DEF q, Contains
  <2>3. \A i \in 1 .. Len(q) + 1 : i \in 1 .. Len(q) \/ i = Len(q) + 1 BY <2>1
  <2>4. IsInjective(Append(q, j))
    <3> SUFFICES ASSUME NEW x \in 1 .. Len(q) + 1, NEW y \in 1 .. Len(q) + 1,
                        Append(q, j)[x] = Append(q, j)[y]
                 PROVE  x = y
      BY <2>1 DEF IsInjective
    <3>1. \A a, b \in 1 .. Len(q) : q[a] = q[b] => a = b BY <1>9, <2>1 DEF IsInjective
    <3>2. CASE x \in 1 .. Len(q) /\ y \in 1 .. Len(q) BY <2>1, <3>1, <3>2
    <3>3. CASE x = Len(q) + 1 /\ y \in 1 .. Len(q) BY <2>1, <2>2, <3>3
    <3>4. CASE y = Len(q) + 1 /\ x \in 1 .. Len(q) BY <2>1, <2>2, <3>4
    <3> QED BY <2>3, <3>2, <3>3, <3>4
  <2>5. Append(q, j) # <<>>
    BY <1>9, AppendProperties
  <2>6. ASSUME NEW k \in JobId PROVE Contains(Append(q, j), k) <=> Contains(q, k) \/ k = j
    <3>1. \A i \in 1 .. Len(q) : i \in 1 .. Len(q) + 1 BY <2>1
    <3>2. Len(q) + 1 \in 1 .. Len(q) + 1 BY <2>1
    <3> QED BY <2>1, <2>3, <3>1, <3>2 DEF Contains
  <2> QED BY <2>4, <2>5, <2>6
<1>12. t \in FamilyState BY <1>3, <1>5, <1>6, <1>7, <1>8, <1>10 DEF FamilyState
<1>13. /\ t.place[j] = "moving" /\ \A k \in JobId \ {j} : t.place[k] = s.place[k]
  BY ONLY <1>3, <1>5, <1>7, j \in JobId
<1>14. RelativesAgree(t)
  <2> SUFFICES ASSUME NEW i \in JobId
               PROVE  /\ IsInjective(t.children[i])
                      /\ \A k \in JobId : Contains(t.children[i], k) <=> t.parent[k] = i
                      /\ t.children[i] # <<>> => t.place[i] = "forked"
                      /\ t.parent[i] # NoJob => t.place[i] # "none"
    BY <1>6 DEF RelativesAgree
  <2>1. IsInjective(t.children[i]) BY <1>9, <1>10, <1>11, FamilyFacts
  <2>2. ASSUME NEW k \in JobId PROVE Contains(t.children[i], k) <=> t.parent[k] = i
    <3>1. CASE i = p
      <4>1. Contains(q, k) <=> s.parent[k] = p BY FamilyFacts
      <4> QED BY <1>8, <1>10, <1>11, <3>1, <4>1
    <3>2. CASE i # p
      <4>1. Contains(s.children[i], k) <=> s.parent[k] = i BY FamilyFacts
      <4>2. s.parent[j] # i BY <1>4, NoJobIs
      <4> QED BY <1>8, <1>10, <3>2, <4>1, <4>2
    <3> QED BY <3>1, <3>2
  <2>3. t.children[i] # <<>> => t.place[i] = "forked"
    <3>1. CASE i = p BY <1>4, <1>13, <3>1
    <3>2. CASE i # p
      <4>1. t.children[i] # <<>> => s.place[i] = "forked" BY <1>10, <3>2, FamilyFacts
      <4>2. s.place[i] = "forked" => i # j OBVIOUS
      <4> QED BY <1>13, <4>1, <4>2
    <3> QED BY <3>1, <3>2
  <2>4. t.parent[i] # NoJob => t.place[i] # "none" BY <1>8, <1>13, FamilyFacts
  <2> QED BY <2>1, <2>2, <2>3, <2>4
<1>15. ListAgrees(t) BY <1>3, <1>5 DEF FamilyOK, ListAgrees
<1>16. Listing(s, t) BY <1>3, <1>5 DEF Listing
<1> QED BY <1>3, <1>5, <1>12, <1>14, <1>15, <1>16 DEF Adopted, FamilyOK


(* A job without sub-jobs is deleted: its parent has one child less.       *)
Deleted(s, t, j) ==
  /\ FamilyOK(t) /\ Listing(s, t)
  /\ t.place = [s.place EXCEPT ![j] = "none"] /\ t.parent = [s.parent EXCEPT ![j] = NoJob]

(* The destructor tells the parent and the list.                           *)
LEMMA DeleteIs ==
  ASSUME NEW s, FamilyOK(s), NEW j \in JobId, s.place[j] \in {"moving", "joined"},
         NEW t, t = DeleteJob(s, j)
  PROVE  Deleted(s, t, j)
<1> DEFINE p == s.parent[j]
<1>0. s \in FamilyState /\ s.place[j] # "none" BY DEF FamilyOK
<1>1. s.children[j] = <<>> /\ p # j /\ (p # NoJob => p \in JobId) /\ p \in JobId \cup {NoJob}
  BY FamilyFacts
<1>2. /\ t.place = [s.place EXCEPT ![j] = "none"] /\ t.gen = [s.gen EXCEPT ![j] = 0]
      /\ t.listed = [s.listed EXCEPT ![j] = FALSE]
      /\ t.children = [k \in JobId |-> IF k = j THEN <<>>
                                       ELSE IF k = p THEN RemoveFirst(s.children[k], j) ELSE s.children[k]]
      /\ t.parent = [k \in JobId |-> IF k = j \/ Contains(s.children[j], k) THEN NoJob ELSE s.parent[k]]
      /\ t.list = (IF s.listed[j] THEN s.list \ {j} ELSE s.list)
      /\ t.failed = (s.failed \/ (p # NoJob /\ ~Contains(s.children[p], j)) \/ (s.listed[j] /\ j \notin s.list))
      /\ t = [place |-> t.place, parent |-> t.parent, children |-> t.children, gen |-> t.gen,
              listed |-> t.listed, list |-> t.list, failed |-> t.failed]
  BY <1>0 DEF DeleteJob, FamilyState
<1>3. /\ s.place \in [JobId -> {"none", "moving", "forked", "joined"}]
      /\ s.parent \in [JobId -> JobId \cup {NoJob}] /\ s.children \in [JobId -> Seq(JobId)]
      /\ s.gen \in [JobId -> Nat] /\ s.listed \in [JobId -> BOOLEAN]
      /\ s.list \in (SUBSET JobId) \cup {NoList}
  BY <1>0, FamilyParts
<1>4. /\ t.place \in [JobId -> {"none", "moving", "forked", "joined"}] /\ t.place[j] = "none"
      /\ \A k \in JobId \ {j} : t.place[k] = s.place[k]
  BY ONLY <1>2, <1>3, j \in JobId
<1>5. /\ t.listed \in [JobId -> BOOLEAN] /\ ~t.listed[j]
      /\ \A k \in JobId \ {j} : t.listed[k] = s.listed[k]
  BY ONLY <1>2, <1>3, j \in JobId
<1>6. t.gen \in [JobId -> Nat] BY ONLY <1>2, <1>3, j \in JobId
<1>7. t.parent = [s.parent EXCEPT ![j] = NoJob] /\ t.parent \in [JobId -> JobId \cup {NoJob}]
  <2>1. \A k \in JobId : ~Contains(s.children[j], k)
    <3>1. \A k \in JobId : s.parent[k] # j BY FamilyFacts
    <3> QED BY <3>1, FamilyFacts
  <2>2. t.parent = [k \in JobId |-> IF k = j THEN NoJob ELSE s.parent[k]] BY <1>2, <2>1
  <2>3. s.parent = [k \in JobId |-> s.parent[k]] BY <1>3
  <2>4. t.parent = [s.parent EXCEPT ![j] = NoJob] BY ONLY <2>2, <2>3
  <2>5. \A k \in JobId : s.parent[k] \in JobId \cup {NoJob} BY <1>3
  <2>6. t.parent \in [JobId -> JobId \cup {NoJob}] BY ONLY <2>2, <2>5
  <2> QED BY <2>4, <2>6
<1>8. t.parent[j] = NoJob /\ \A k \in JobId \ {j} : t.parent[k] = s.parent[k] BY ONLY <1>3, <1>7, j \in JobId
<1>9. p # NoJob => Contains(s.children[p], j) BY <1>1, FamilyFacts
<1>10. ASSUME p # NoJob PROVE Without(s.children[p], j, RemoveFirst(s.children[p], j))
  <2>1. s.children[p] \in Seq(JobId) /\ IsInjective(s.children[p]) BY <1>1, <1>10, FamilyFacts
  <2> DEFINE q == s.children[p]
             r == RemoveFirst(q, j)
  <2>2. q \in Seq(JobId) /\ IsInjective(q) /\ Contains(q, j) /\ r = RemoveFirst(q, j) BY <1>9, <1>10, <2>1
  <2> HIDE DEF q, r
  <2>3. Without(q, j, r) BY <2>2, RemovedIs
  <2> QED BY <2>3 DEF q, r
<1>11. /\ t.children[j] = <<>>
       /\ p # NoJob => Without(s.children[p], j, t.children[p])
       /\ \A k \in JobId : k # j /\ k # p => t.children[k] = s.children[k]
  BY <1>1, <1>2, <1>10
<1>12. t.children \in [JobId -> Seq(JobId)]
  <2>1. \A k \in JobId : t.children[k] \in Seq(JobId)
    <3> SUFFICES ASSUME NEW k \in JobId PROVE t.children[k] \in Seq(JobId) OBVIOUS
    <3>1. CASE k = j
      <4>1. <<>> \in Seq(JobId) OBVIOUS
      <4> QED BY <1>11, <3>1, <4>1
    <3>2. CASE k # j /\ k = p
      <4>1. p # NoJob BY <3>2, NoJobIs
      <4>2. Without(s.children[p], j, t.children[p]) BY <1>11, <4>1
      <4> QED BY <3>2, <4>2 DEF Without
    <3>3. CASE k # j /\ k # p BY <1>3, <1>11, <3>3
    <3> QED BY <3>1, <3>2, <3>3
  <2>2. t.children = [k \in JobId |-> t.children[k]] BY <1>2
  <2> QED BY ONLY <2>1, <2>2
<1>13. RelativesAgree(t) \/ t.failed
  <2> SUFFICES ASSUME NEW i \in JobId
               PROVE  /\ IsInjective(t.children[i])
                      /\ \A k \in JobId : Contains(t.children[i], k) <=> t.parent[k] = i
                      /\ t.children[i] # <<>> => t.place[i] = "forked"
                      /\ t.parent[i] # NoJob => t.place[i] # "none"
    BY DEF RelativesAgree
  <2>0. t.parent[i] # NoJob => t.place[i] # "none" BY <1>4, <1>8, FamilyFacts
  <2>1. CASE i = j
    <3>1. t.children[i] = <<>> BY <1>11, <2>1
    <3>2. IsInjective(t.children[i]) BY <3>1 DEF IsInjective
    <3>3. \A k \in JobId : ~Contains(t.children[i], k) BY <3>1 DEF Contains
    <3>4. \A k \in JobId : t.parent[k] # j
      <4>1. \A k \in JobId : s.parent[k] # j BY <1>0, FamilyFacts
      <4> QED BY <1>8, <4>1, NoJobIs
    <3> QED BY <2>0, <2>1, <3>1, <3>2, <3>3, <3>4
  <2>2. CASE i # j /\ i = p
    <3>1. Without(s.children[i], j, t.children[i]) BY <1>11, <2>2, NoJobIs
    <3>2. \A k \in JobId : Contains(s.children[i], k) <=> s.parent[k] = i BY FamilyFacts
    <3>3. \A k \in JobId : Contains(t.children[i], k) <=> t.parent[k] = i
      BY <1>8, <3>1, <3>2, NoJobIs DEF Without
    <3>4. s.place[i] = "forked" BY <2>2, FamilyFacts
    <3> QED BY <1>4, <2>0, <2>2, <3>1, <3>3, <3>4 DEF Without
  <2>3. CASE i # j /\ i # p
    <3>1. t.children[i] = s.children[i] /\ t.place[i] = s.place[i] BY <1>4, <1>11, <2>3
    <3>2. \A k \in JobId : Contains(s.children[i], k) <=> s.parent[k] = i BY FamilyFacts
    <3>3. \A k \in JobId : Contains(t.children[i], k) <=> t.parent[k] = i
      BY <1>8, <2>3, <3>1, <3>2, NoJobIs
    <3>4. IsInjective(t.children[i]) /\ (t.children[i] # <<>> => t.place[i] = "forked") BY <3>1, FamilyFacts
    <3> QED BY <2>0, <3>3, <3>4
  <2> QED BY <2>1, <2>2, <2>3
<1>14. ~s.failed BY FamilyFacts
<1>15. CASE s.list = NoList
  <2>1. \A k \in JobId : ~s.listed[k] BY <1>15 DEF FamilyOK, ListAgrees
  <2>2. t.list = NoList /\ \A k \in JobId : ~t.listed[k] BY <1>2, <1>5, <1>15, <2>1
  <2>3. t.failed = FALSE BY <1>2, <1>9, <1>14, <2>1
  <2>4. t.list \in (SUBSET JobId) \cup {NoList} BY <2>2, Zenon
  <2>5. t \in FamilyState BY <1>2, <1>4, <1>5, <1>6, <1>7, <1>12, <2>3, <2>4 DEF FamilyState
  <2> QED BY <1>2, <1>7, <1>13, <1>15, <2>2, <2>3, <2>5 DEF Deleted, FamilyOK, ListAgrees, Listing
<1>16. CASE s.list # NoList
  <2>1. /\ s.list = {k \in JobId : s.place[k] # "none"}
        /\ \A k \in JobId : s.listed[k] <=> s.place[k] # "none"
    BY <1>16 DEF FamilyOK, ListAgrees
  <2>2. t.list = s.list \ {j} BY <1>0, <1>2, <2>1
  <2>3. t.list = {k \in JobId : t.place[k] # "none"} BY <1>4, <2>1, <2>2
  <2>4. \A k \in JobId : t.listed[k] <=> t.place[k] # "none" BY <1>4, <1>5, <2>1
  <2>5. t.list \in SUBSET JobId /\ t.list # NoList BY <2>3, NoJobIs
  <2>6. t.failed = FALSE
    <3>1. s.listed[j] /\ j \in s.list BY <1>0, <2>1
    <3> QED BY <1>2, <1>9, <1>14, <3>1
  <2>7. t \in FamilyState BY <1>2, <1>4, <1>5, <1>6, <1>7, <1>12, <2>5, <2>6 DEF FamilyState
  <2> QED BY <1>2, <1>7, <1>13, <1>16, <2>3, <2>4, <2>5, <2>6, <2>7 DEF Deleted, FamilyOK, ListAgrees, Listing
<1> QED BY <1>15, <1>16

(* A job is elsewhere, without sub-jobs unless it is in the Fork.          *)
Moved(s, t, j, x) ==
  /\ FamilyOK(t) /\ Listing(s, t)
  /\ t.place = [s.place EXCEPT ![j] = x] /\ t.parent = s.parent /\ t.children = s.children

(* Moving a job keeps the relatives.                                       *)
LEMMA MovedIs ==
  ASSUME NEW s, FamilyOK(s), NEW j \in JobId, s.place[j] # "none",
         NEW x \in {"moving", "forked", "joined"}, s.children[j] # <<>> => x = "forked",
         NEW t, t = [s EXCEPT !.place[j] = x]
  PROVE  Moved(s, t, j, x)
<1>0. s \in FamilyState BY DEF FamilyOK
<1>1. /\ t.place = [s.place EXCEPT ![j] = x] /\ t.parent = s.parent /\ t.children = s.children
      /\ t.gen = s.gen /\ t.listed = s.listed /\ t.list = s.list /\ t.failed = s.failed
      /\ t = [place |-> t.place, parent |-> t.parent, children |-> t.children, gen |-> t.gen,
              listed |-> t.listed, list |-> t.list, failed |-> t.failed]
  BY <1>0 DEF FamilyState
<1>2. /\ t.place \in [JobId -> {"none", "moving", "forked", "joined"}] /\ t.place[j] = x
      /\ \A k \in JobId \ {j} : t.place[k] = s.place[k]
  BY <1>0, <1>1, FamilyParts
<1>3. t \in FamilyState BY <1>0, <1>1, <1>2, FamilyParts DEF FamilyState
<1>4. \A k \in JobId : t.place[k] = "none" <=> s.place[k] = "none" BY <1>2
<1>5. RelativesAgree(t)
  <2>1. \A k \in JobId : s.children[k] # <<>> => t.place[k] = "forked" BY <1>2, FamilyFacts
  <2>2. \A k \in JobId : s.parent[k] # NoJob => t.place[k] # "none" BY <1>4, FamilyFacts
  <2>3. /\ \A i \in JobId : IsInjective(s.children[i])
        /\ \A i, k \in JobId : Contains(s.children[i], k) <=> s.parent[k] = i
    BY FamilyFacts
  <2>4. ~t.failed BY <1>1, FamilyFacts
  <2> QED BY ONLY <1>1, <2>1, <2>2, <2>3, <2>4 DEF RelativesAgree
<1>6. {k \in JobId : t.place[k] # "none"} = {k \in JobId : s.place[k] # "none"} BY <1>4
<1>7. ListAgrees(t) BY <1>1, <1>4, <1>6 DEF FamilyOK, ListAgrees
<1> QED BY <1>1, <1>3, <1>5, <1>7 DEF Moved, FamilyOK, Listing


(***************************************************************************)
(* The loops of Fork, Clone and Join are recursive functions (FoldExists). *)
(***************************************************************************)

(* The jobs that existed are where they were, and none is new in the Fork. *)
Kept(s, t) ==
  \A k \in JobId :
    /\ s.place[k] # "none" => t.place[k] = s.place[k] /\ t.parent[k] = s.parent[k]
    /\ s.place[k] = "none" => t.place[k] # "forked"

(* A loop that adds i jobs keeps those that existed.                       *)
Grown(s, i, t) ==
  /\ FamilyOK(t) /\ Listing(s, t)
  /\ Cardinality(FreeJobs(t)) = Cardinality(FreeJobs(s)) - i
  /\ Kept(s, t)

(* There is a free job as long as the loop needs one.                      *)
LEMMA FirstFree ==
  ASSUME NEW s, NEW i \in Nat, NEW n \in Nat, Cardinality(FreeJobs(s)) >= n - i, i < n
  PROVE  /\ Min(FreeJobs(s)) \in JobId /\ s.place[Min(FreeJobs(s))] = "none"
         /\ IsFiniteSet(FreeJobs(s)) /\ Cardinality(FreeJobs(s)) \in Nat
<1>1. FreeJobs(s) \in SUBSET JobId BY DEF FreeJobs
<1>2. IsFiniteSet(FreeJobs(s)) BY <1>1, FamilyAssumption, FS_Subset
<1>3. FreeJobs(s) \in SUBSET Int
  <2>1. \A k \in JobId : k \in Int BY FamilyAssumption
  <2> QED BY ONLY <1>1, <2>1
<1>4. Cardinality(FreeJobs(s)) \in Nat BY <1>2, FS_CardinalityType
<1>5. FreeJobs(s) # {}
  <2>1. Cardinality({}) = 0 BY FS_EmptySet
  <2>2. n - i > 0 /\ n - i \in Int OBVIOUS
  <2>3. Cardinality(FreeJobs(s)) # 0 BY <1>4, <2>2
  <2> QED BY ONLY <2>1, <2>3
<1>6. Min(FreeJobs(s)) \in FreeJobs(s) BY <1>2, <1>3, <1>5, MinIs
<1> QED BY <1>2, <1>4, <1>6 DEF FreeJobs

(* One more job is in use.                                                 *)
LEMMA OneFewer ==
  ASSUME NEW s, NEW t, NEW j \in JobId, s.place \in [JobId -> {"none", "moving", "forked", "joined"}],
         s.place[j] = "none", t.place = [s.place EXCEPT ![j] = "moving"]
  PROVE  Cardinality(FreeJobs(t)) = Cardinality(FreeJobs(s)) - 1
<1>1. FreeJobs(t) = FreeJobs(s) \ {j} /\ j \in FreeJobs(s) BY DEF FreeJobs
<1>2. IsFiniteSet(FreeJobs(s)) BY FamilyAssumption, FS_Subset DEF FreeJobs
<1> QED BY <1>1, <1>2, FS_RemoveElement

(* Fork: one sub-job more of j.                                            *)
ForkOnce(j, s) == DupAsChild(s, Min(FreeJobs(s)), j)
Forked(s, j, i, t) ==
  /\ Grown(s, i, t) /\ (i > 0 => Expected(t, j))
  /\ \A k \in JobId : s.place[k] = "none" /\ t.place[k] # "none" => t.parent[k] = j

(* One round of the loop of Fork.                                          *)
LEMMA ForkRound ==
  ASSUME NEW s, FamilyOK(s), NEW j \in JobId, s.place[j] = "forked", NEW i \in Nat,
         Cardinality(FreeJobs(s)) >= ForkGates, i < ForkGates, NEW t, Forked(s, j, i, t)
  PROVE  Forked(s, j, i + 1, ForkOnce(j, t))
<1> DEFINE m == Min(FreeJobs(t))
           u == ForkOnce(j, t)
<1>0. ForkGates \in Nat BY FamilyAssumption
<1>1. FamilyOK(t) /\ t \in FamilyState /\ Listing(s, t) /\ t.place[j] = "forked"
      /\ Cardinality(FreeJobs(t)) = Cardinality(FreeJobs(s)) - i
      /\ Kept(s, t)
      /\ \A k \in JobId : s.place[k] = "none" /\ t.place[k] # "none" => t.parent[k] = j
  BY DEF Forked, Grown, Kept, FamilyOK
<1>2. Cardinality(FreeJobs(s)) \in Nat
  <2>1. IsFiniteSet(FreeJobs(s)) BY FamilyAssumption, FS_Subset DEF FreeJobs
  <2> QED BY <2>1, FS_CardinalityType
<1>3. m \in JobId /\ t.place[m] = "none"
  <2>1. Cardinality(FreeJobs(t)) >= ForkGates - i BY <1>0, <1>1, <1>2
  <2> QED BY <1>0, <2>1, FirstFree
<1>4. u = DupAsChild(t, m, j) BY DEF ForkOnce
<1> HIDE DEF m, u
<1>5. Adopted(t, u, m, j) BY <1>1, <1>3, <1>4, DupIs
<1>6. FamilyOK(u) /\ Listing(t, u) /\ u.place = [t.place EXCEPT ![m] = "moving"]
      /\ u.parent = [t.parent EXCEPT ![m] = j]
  BY <1>5 DEF Adopted
<1>7. /\ t.place \in [JobId -> {"none", "moving", "forked", "joined"}]
      /\ t.parent \in [JobId -> JobId \cup {NoJob}]
  BY <1>1, FamilyParts
<1>8. /\ u.place[m] = "moving" /\ u.parent[m] = j
      /\ \A k \in JobId \ {m} : u.place[k] = t.place[k] /\ u.parent[k] = t.parent[k]
  BY ONLY <1>3, <1>6, <1>7
<1>9. Expected(u, j) BY <1>3, <1>8 DEF Expected
<1>10. Cardinality(FreeJobs(u)) = Cardinality(FreeJobs(s)) - (i + 1)
  <2>1. Cardinality(FreeJobs(u)) = Cardinality(FreeJobs(t)) - 1 BY <1>3, <1>6, <1>7, OneFewer
  <2> QED BY <1>1, <1>2, <2>1
<1>11. Kept(s, u)
  BY <1>1, <1>3, <1>8 DEF Kept
<1>12. Listing(s, u) BY <1>1, <1>6 DEF Listing
<1>13. \A k \in JobId : s.place[k] = "none" /\ u.place[k] # "none" => u.parent[k] = j
  BY <1>1, <1>3, <1>8
<1> QED BY <1>6, <1>9, <1>10, <1>11, <1>12, <1>13 DEF Forked, Grown, u

ForkFrom(j, s, U, g) == IF U = {} THEN s ELSE ForkOnce(j, g[U \ {Max(U)}])

ForkFold(s, j) == FoldLeft(LAMBDA x, i : DupAsChild(x, Min(FreeJobs(x)), j), s,
                           [i \in 1 .. ForkGates |-> i])

(* The loop of Fork is a recursive function.                               *)
LEMMA ForkFoldIs ==
  ASSUME NEW j, NEW s
  PROVE  ForkFold(s, j) =
           (CHOOSE g : g = [U \in SUBSET (1 .. ForkGates) |-> ForkFrom(j, s, U, g)])[1 .. ForkGates]
<1> DEFINE q == [i \in 1 .. ForkGates |-> i]
<1>1. DOMAIN q = 1 .. ForkGates OBVIOUS
<1>2. ForkFold(s, j) = FoldLeft(LAMBDA x, i : DupAsChild(x, Min(FreeJobs(x)), j), s, q)
  BY DEF ForkFold
<1> HIDE DEF q
<1>3. FoldLeft(LAMBDA x, i : DupAsChild(x, Min(FreeJobs(x)), j), s, q) =
        (CHOOSE g : g = [U \in SUBSET (DOMAIN q) |-> ForkFrom(j, s, U, g)])[DOMAIN q]
  BY Zenon DEF FoldLeft, MapThenFoldSet, ForkFrom, ForkOnce
<1> QED BY <1>1, <1>2, <1>3

(* The loop of Fork as a whole.                                            *)
LEMMA ForkLoop ==
  ASSUME NEW s, FamilyOK(s), NEW j \in JobId, s.place[j] = "forked",
         Cardinality(FreeJobs(s)) >= ForkGates
  PROVE  Forked(s, j, ForkGates, ForkFold(s, j))
<1> DEFINE n == ForkGates
           F == [i \in 1 .. n |-> [x \in FamilyState |-> ForkOnce(j, x)]]
           R == {w \in (SUBSET (1 .. n)) \X FamilyState : Forked(s, j, Cardinality(w[1]), w[2])}
<1>0. n \in Nat /\ s \in FamilyState BY FamilyAssumption DEF FamilyOK
<1>1. \A U \in SUBSET (1 .. n), x \in FamilyState : <<U, x>> \in R <=> Forked(s, j, Cardinality(U), x)
  OBVIOUS
<1>2. \A i \in 1 .. n, x \in FamilyState : F[i][x] = ForkOnce(j, x) OBVIOUS
<1> HIDE DEF F, R
<1>3. <<{}, s>> \in R
  <2>1. Cardinality({}) = 0 BY FS_EmptySet
  <2>2. Cardinality(FreeJobs(s)) \in Nat
    <3>1. IsFiniteSet(FreeJobs(s)) BY FamilyAssumption, FS_Subset DEF FreeJobs
    <3> QED BY <3>1, FS_CardinalityType
  <2>3. Forked(s, j, 0, s) BY <2>2 DEF Forked, Grown, Kept, Listing
  <2> QED BY <1>0, <1>1, <2>1, <2>3
<1>4. ASSUME NEW U \in SUBSET (1 .. n), NEW x \in FamilyState, U # {}, <<U \ {Max(U)}, x>> \in R
      PROVE  F[Max(U)][x] \in FamilyState /\ <<U, F[Max(U)][x]>> \in R
  <2> DEFINE m == Max(U)
             i == Cardinality(U \ {m})
             y == ForkOnce(j, x)
  <2>1. m \in U /\ i \in Nat /\ i < n /\ Cardinality(U) = i + 1 /\ U \ {m} \in SUBSET (1 .. n)
    BY <1>0, <1>4, LastOf
  <2>2. Forked(s, j, i, x) BY <1>1, <1>4, <2>1
  <2> HIDE DEF m, i, y
  <2>3. Forked(s, j, i + 1, y)
    <3>1. Forked(s, j, i + 1, ForkOnce(j, x)) BY <2>1, <2>2, ForkRound DEF n
    <3> QED BY <3>1 DEF y
  <2>4. y \in FamilyState BY <2>3 DEF Forked, Grown, FamilyOK
  <2>5. F[m][x] = y BY <1>2, <2>1 DEF y
  <2> QED BY <1>1, <2>1, <2>3, <2>4, <2>5 DEF m
<1>5. PICK h : Reaches(F, s, n, FamilyState, R, h)
  <2>1. \A U \in SUBSET (1 .. n), x \in FamilyState :
          U # {} /\ <<U \ {Max(U)}, x>> \in R => F[Max(U)][x] \in FamilyState /\ <<U, F[Max(U)][x]>> \in R
    BY <1>4
  <2> HIDE DEF n
  <2> QED BY <1>0, <1>3, <2>1, FoldReaches
<1>6. h \in [SUBSET (1 .. n) -> FamilyState] /\ h[{}] = s
      /\ \A U \in SUBSET (1 .. n) : <<U, h[U]>> \in R /\ (U # {} => h[U] = F[Max(U)][h[U \ {Max(U)}]])
  BY <1>5 DEF Reaches
<1>7. \A U \in SUBSET (1 .. n) : U # {} => h[U] = ForkOnce(j, h[U \ {Max(U)}])
  <2> SUFFICES ASSUME NEW U \in SUBSET (1 .. n), U # {} PROVE h[U] = ForkOnce(j, h[U \ {Max(U)}])
    OBVIOUS
  <2>1. Max(U) \in 1 .. n BY <1>0, LastOf
  <2>2. h[U \ {Max(U)}] \in FamilyState BY <1>6
  <2> QED BY <1>2, <1>6, <2>1, <2>2
<1>8. h = [U \in SUBSET (1 .. n) |-> ForkFrom(j, s, U, h)]
  <2>1. \A U \in SUBSET (1 .. n) : h[U] = ForkFrom(j, s, U, h) BY <1>6, <1>7 DEF ForkFrom
  <2> QED BY <1>6, <2>1
<1> DEFINE g == CHOOSE g : g = [U \in SUBSET (1 .. n) |-> ForkFrom(j, s, U, g)]
<1>9. g = [U \in SUBSET (1 .. n) |-> ForkFrom(j, s, U, g)] BY <1>8
<1>10. ForkFold(s, j) = g[1 .. n] BY ForkFoldIs
<1> HIDE DEF g, n
<1>11. \A U \in SUBSET (1 .. n) : g[U] = ForkFrom(j, s, U, g) BY <1>9
<1>12. g[1 .. n] = h[1 .. n]
  <2>1. g[{}] = h[{}] BY <1>6, <1>11 DEF ForkFrom
  <2>2. \A U \in SUBSET (1 .. n) : U # {} /\ g[U \ {Max(U)}] = h[U \ {Max(U)}] => g[U] = h[U]
    BY <1>7, <1>11 DEF ForkFrom
  <2> QED BY <1>0, <2>1, <2>2, SameFold
<1>13. Forked(s, j, Cardinality(1 .. n), h[1 .. n])
  <2>1. 1 .. n \in SUBSET (1 .. n) OBVIOUS
  <2>2. <<1 .. n, h[1 .. n]>> \in R /\ h[1 .. n] \in FamilyState BY <1>6, <2>1
  <2> QED BY <1>1, <2>1, <2>2
<1>14. Cardinality(1 .. n) = n BY <1>0, FS_Interval
<1> QED BY <1>10, <1>12, <1>13, <1>14 DEF n

(* Clone: one copy more, which knows the list if its original does.        *)
CloneOnce(r, s) == Construct(s, Min(FreeJobs(s)), 1, r)

(* One round of the loop of Clone.                                         *)
LEMMA CloneRound ==
  ASSUME NEW s, FamilyOK(s), NEW r \in BOOLEAN, r <=> s.list # NoList, NEW n \in Nat, NEW i \in Nat,
         Cardinality(FreeJobs(s)) >= n, i < n, NEW t, Grown(s, i, t)
  PROVE  Grown(s, i + 1, CloneOnce(r, t))
<1> DEFINE m == Min(FreeJobs(t))
           u == CloneOnce(r, t)
<1>1. FamilyOK(t) /\ t \in FamilyState /\ Listing(s, t)
      /\ Cardinality(FreeJobs(t)) = Cardinality(FreeJobs(s)) - i
      /\ Kept(s, t)
  BY DEF Grown, FamilyOK
<1>2. Cardinality(FreeJobs(s)) \in Nat
  <2>1. IsFiniteSet(FreeJobs(s)) BY FamilyAssumption, FS_Subset DEF FreeJobs
  <2> QED BY <2>1, FS_CardinalityType
<1>3. m \in JobId /\ t.place[m] = "none"
  <2>1. Cardinality(FreeJobs(t)) >= n - i BY <1>1, <1>2
  <2> QED BY <2>1, FirstFree
<1>4. u = Construct(t, m, 1, r) BY DEF CloneOnce
<1> HIDE DEF m, u
<1>5. Made(t, u, m)
  <2>1. r <=> t.list # NoList BY <1>1 DEF Listing
  <2> QED BY <1>1, <1>3, <1>4, <2>1, ConstructIs
<1>6. FamilyOK(u) /\ Listing(t, u) /\ u.place = [t.place EXCEPT ![m] = "moving"] /\ u.parent = t.parent
  BY <1>5 DEF Made
<1>7. t.place \in [JobId -> {"none", "moving", "forked", "joined"}] BY <1>1, FamilyParts
<1>8. u.place[m] = "moving" /\ \A k \in JobId \ {m} : u.place[k] = t.place[k] BY ONLY <1>3, <1>6, <1>7
<1>9. Cardinality(FreeJobs(u)) = Cardinality(FreeJobs(s)) - (i + 1)
  <2>1. Cardinality(FreeJobs(u)) = Cardinality(FreeJobs(t)) - 1 BY <1>3, <1>6, <1>7, OneFewer
  <2> QED BY <1>1, <1>2, <2>1
<1>10. Kept(s, u)
  BY <1>1, <1>3, <1>6, <1>8 DEF Kept
<1>11. Listing(s, u) BY <1>1, <1>6 DEF Listing
<1> QED BY <1>6, <1>9, <1>10, <1>11 DEF Grown, u

CloneFrom(r, s, U, g) == IF U = {} THEN s ELSE CloneOnce(r, g[U \ {Max(U)}])

CloneFold(s, r, n) == FoldLeft(LAMBDA x, i : Construct(x, Min(FreeJobs(x)), 1, r), s,
                           [i \in 1 .. n |-> i])

(* The loop of Clone is a recursive function.                              *)
LEMMA CloneFoldIs ==
  ASSUME NEW r, NEW s, NEW n
  PROVE  CloneFold(s, r, n) =
           (CHOOSE g : g = [U \in SUBSET (1 .. n) |-> CloneFrom(r, s, U, g)])[1 .. n]
<1> DEFINE q == [i \in 1 .. n |-> i]
<1>1. DOMAIN q = 1 .. n OBVIOUS
<1>2. CloneFold(s, r, n) = FoldLeft(LAMBDA x, i : Construct(x, Min(FreeJobs(x)), 1, r), s, q)
  BY DEF CloneFold
<1> HIDE DEF q
<1>3. FoldLeft(LAMBDA x, i : Construct(x, Min(FreeJobs(x)), 1, r), s, q) =
        (CHOOSE g : g = [U \in SUBSET (DOMAIN q) |-> CloneFrom(r, s, U, g)])[DOMAIN q]
  BY Zenon DEF FoldLeft, MapThenFoldSet, CloneFrom, CloneOnce
<1> QED BY <1>1, <1>2, <1>3

(* The loop of Clone as a whole.                                           *)
LEMMA CloneLoop ==
  ASSUME NEW s, FamilyOK(s), NEW r \in BOOLEAN, r <=> s.list # NoList, NEW n \in Nat,
         Cardinality(FreeJobs(s)) >= n
  PROVE  Grown(s, n, CloneFold(s, r, n))
<1> DEFINE F == [i \in 1 .. n |-> [x \in FamilyState |-> CloneOnce(r, x)]]
           R == {w \in (SUBSET (1 .. n)) \X FamilyState : Grown(s, Cardinality(w[1]), w[2])}
<1>0. n \in Nat /\ s \in FamilyState BY DEF FamilyOK
<1>1. \A U \in SUBSET (1 .. n), x \in FamilyState : <<U, x>> \in R <=> Grown(s, Cardinality(U), x)
  OBVIOUS
<1>2. \A i \in 1 .. n, x \in FamilyState : F[i][x] = CloneOnce(r, x) OBVIOUS
<1> HIDE DEF F, R
<1>3. <<{}, s>> \in R
  <2>1. Cardinality({}) = 0 BY FS_EmptySet
  <2>2. Cardinality(FreeJobs(s)) \in Nat
    <3>1. IsFiniteSet(FreeJobs(s)) BY FamilyAssumption, FS_Subset DEF FreeJobs
    <3> QED BY <3>1, FS_CardinalityType
  <2>3. Grown(s, 0, s) BY <2>2 DEF Grown, Kept, Listing
  <2> QED BY <1>0, <1>1, <2>1, <2>3
<1>4. ASSUME NEW U \in SUBSET (1 .. n), NEW x \in FamilyState, U # {}, <<U \ {Max(U)}, x>> \in R
      PROVE  F[Max(U)][x] \in FamilyState /\ <<U, F[Max(U)][x]>> \in R
  <2> DEFINE m == Max(U)
             i == Cardinality(U \ {m})
             y == CloneOnce(r, x)
  <2>1. m \in U /\ i \in Nat /\ i < n /\ Cardinality(U) = i + 1 /\ U \ {m} \in SUBSET (1 .. n)
    BY <1>0, <1>4, LastOf
  <2>2. Grown(s, i, x) BY <1>1, <1>4, <2>1
  <2> HIDE DEF m, i, y
  <2>3. Grown(s, i + 1, y)
    <3>1. Grown(s, i + 1, CloneOnce(r, x)) BY <2>1, <2>2, CloneRound
    <3> QED BY <3>1 DEF y
  <2>4. y \in FamilyState BY <2>3 DEF Grown, FamilyOK
  <2>5. F[m][x] = y BY <1>2, <2>1 DEF y
  <2> QED BY <1>1, <2>1, <2>3, <2>4, <2>5 DEF m
<1>5. PICK h : Reaches(F, s, n, FamilyState, R, h)
  <2>1. \A U \in SUBSET (1 .. n), x \in FamilyState :
          U # {} /\ <<U \ {Max(U)}, x>> \in R => F[Max(U)][x] \in FamilyState /\ <<U, F[Max(U)][x]>> \in R
    BY <1>4
  <2> QED BY <1>0, <1>3, <2>1, FoldReaches
<1>6. h \in [SUBSET (1 .. n) -> FamilyState] /\ h[{}] = s
      /\ \A U \in SUBSET (1 .. n) : <<U, h[U]>> \in R /\ (U # {} => h[U] = F[Max(U)][h[U \ {Max(U)}]])
  BY <1>5 DEF Reaches
<1>7. \A U \in SUBSET (1 .. n) : U # {} => h[U] = CloneOnce(r, h[U \ {Max(U)}])
  <2> SUFFICES ASSUME NEW U \in SUBSET (1 .. n), U # {} PROVE h[U] = CloneOnce(r, h[U \ {Max(U)}])
    OBVIOUS
  <2>1. Max(U) \in 1 .. n BY <1>0, LastOf
  <2>2. h[U \ {Max(U)}] \in FamilyState BY <1>6
  <2> QED BY <1>2, <1>6, <2>1, <2>2
<1>8. h = [U \in SUBSET (1 .. n) |-> CloneFrom(r, s, U, h)]
  <2>1. \A U \in SUBSET (1 .. n) : h[U] = CloneFrom(r, s, U, h) BY <1>6, <1>7 DEF CloneFrom
  <2> QED BY <1>6, <2>1
<1> DEFINE g == CHOOSE g : g = [U \in SUBSET (1 .. n) |-> CloneFrom(r, s, U, g)]
<1>9. g = [U \in SUBSET (1 .. n) |-> CloneFrom(r, s, U, g)] BY <1>8
<1>10. CloneFold(s, r, n) = g[1 .. n] BY CloneFoldIs
<1> HIDE DEF g
<1>11. \A U \in SUBSET (1 .. n) : g[U] = CloneFrom(r, s, U, g) BY <1>9
<1>12. g[1 .. n] = h[1 .. n]
  <2>1. g[{}] = h[{}] BY <1>6, <1>11 DEF CloneFrom
  <2>2. \A U \in SUBSET (1 .. n) : U # {} /\ g[U \ {Max(U)}] = h[U \ {Max(U)}] => g[U] = h[U]
    BY <1>7, <1>11 DEF CloneFrom
  <2> QED BY <1>0, <2>1, <2>2, SameFold
<1>13. Grown(s, Cardinality(1 .. n), h[1 .. n])
  <2>1. 1 .. n \in SUBSET (1 .. n) OBVIOUS
  <2>2. <<1 .. n, h[1 .. n]>> \in R /\ h[1 .. n] \in FamilyState BY <1>6, <2>1
  <2> QED BY <1>1, <2>1, <2>2
<1>14. Cardinality(1 .. n) = n BY <1>0, FS_Interval
<1> QED BY <1>10, <1>12, <1>13, <1>14


(* H are the sub-jobs of p in the Join: all there are, when none is        *)
(* expected.                                                               *)
AreHeld(s, p, H) ==
  /\ IsFiniteSet(H) /\ H \in SUBSET JobId
  /\ \A k \in JobId : k \in H <=> s.place[k] = "joined" /\ s.parent[k] = p
  /\ Cardinality(H) = Len(s.children[p]) <=> ~Expected(s, p)

(* Counting the sub-jobs that are held tells whether one is expected.      *)
LEMMA HeldIs ==
  ASSUME NEW s, FamilyOK(s), NEW p \in JobId, NEW H, H = SubJobsHeld(s, p)
  PROVE  AreHeld(s, p, H)
<1>1. H \in SUBSET JobId /\ \A k \in JobId : k \in H <=> s.place[k] = "joined" /\ s.parent[k] = p
  BY DEF SubJobsHeld
<1>2. IsFiniteSet(H) BY <1>1, FamilyAssumption, FS_Subset
<1> DEFINE q == s.children[p]
           C == {k \in JobId : s.parent[k] = p}
<1>3. q \in Seq(JobId) /\ IsInjective(q) /\ \A k \in JobId : Contains(q, k) <=> s.parent[k] = p
  BY FamilyFacts
<1> HIDE DEF q
<1>4. Len(q) \in Nat /\ DOMAIN q = 1 .. Len(q) /\ (\A i \in 1 .. Len(q) : q[i] \in JobId) BY <1>3
<1>5. q \in Bijection(1 .. Len(q), C)
  <2>1. \A i \in 1 .. Len(q) : q[i] \in C
    <3> SUFFICES ASSUME NEW i \in 1 .. Len(q) PROVE q[i] \in C OBVIOUS
    <3>1. Contains(q, q[i]) BY DEF Contains
    <3> QED BY <1>3, <1>4, <3>1
  <2>2. q = [i \in 1 .. Len(q) |-> q[i]] BY <1>3, <1>4
  <2>3. q \in [1 .. Len(q) -> C] BY ONLY <2>1, <2>2
  <2>4. \A a, b \in 1 .. Len(q) : q[a] = q[b] => a = b BY <1>3, <1>4 DEF IsInjective
  <2>5. \A c \in C : \E i \in 1 .. Len(q) : q[i] = c BY <1>3 DEF Contains
  <2> HIDE DEF C
  <2>6. q \in Injection(1 .. Len(q), C) BY <1>3, <2>3 DEF Injection
  <2>7. q \in Surjection(1 .. Len(q), C) BY <2>3, <2>5 DEF Surjection
  <2> QED BY <2>6, <2>7 DEF Bijection
<1>6. IsFiniteSet(C) /\ Cardinality(C) = Len(q)
  <2>1. IsFiniteSet(1 .. Len(q)) /\ Cardinality(1 .. Len(q)) = Len(q) BY <1>4, FS_Interval
  <2>2. ExistsBijection(1 .. Len(q), C) BY <1>5 DEF ExistsBijection
  <2> HIDE DEF C
  <2> QED BY <2>1, <2>2, FS_Bijection
<1>7. H \subseteq C BY <1>1
<1>8. Cardinality(H) = Cardinality(C) <=> H = C BY <1>6, <1>7, FS_Subset
<1>9. H = C <=> ~Expected(s, p) BY <1>1 DEF Expected
<1> QED BY <1>1, <1>2, <1>6, <1>8, <1>9 DEF AreHeld, q

(* SetToSeq lists a finite set, each element once.                         *)
LEMMA ListingIs ==
  ASSUME NEW H, IsFiniteSet(H), NEW q, q = SetToSeq(H)
  PROVE  /\ Cardinality(H) \in Nat /\ DOMAIN q = 1 .. Cardinality(H)
         /\ \A i \in 1 .. Cardinality(H) : q[i] \in H
         /\ \A a, b \in 1 .. Cardinality(H) : q[a] = q[b] => a = b
         /\ \A k \in H : \E i \in 1 .. Cardinality(H) : q[i] = k
<1> DEFINE n == Cardinality(H)
<1>1. n \in Nat /\ ExistsBijection(1 .. n, H) BY FS_CardinalityType
<1>2. PICK f : f \in Bijection(1 .. n, H) BY <1>1 DEF ExistsBijection
<1>3. f \in [1 .. n -> H] /\ IsInjective(f) BY <1>2 DEF Bijection, Injection
<1>4. q \in [1 .. n -> H] /\ IsInjective(q) BY <1>3 DEF SetToSeq
<1>5. q \in Injection(1 .. n, H) BY <1>4 DEF Injection
<1>6. IsFiniteSet(1 .. n) /\ Cardinality(1 .. n) = n BY <1>1, FS_Interval
<1>7. q \in Surjection(1 .. n, H) BY <1>5, <1>6, FS_Injection
<1>8. \A k \in H : \E i \in 1 .. n : q[i] = k BY <1>7 DEF Surjection
<1>9. \A a, b \in 1 .. n : q[a] = q[b] => a = b BY <1>4 DEF IsInjective
<1> QED BY <1>1, <1>4, <1>8, <1>9

(* The jobs of W are gone.                                                 *)
Dropped(s, W, t) ==
  /\ FamilyOK(t) /\ Listing(s, t)
  /\ \A k \in JobId : /\ k \in W => t.place[k] = "none" /\ t.parent[k] = NoJob
                      /\ k \notin W => t.place[k] = s.place[k] /\ t.parent[k] = s.parent[k]

(* One round of the loop of Join.                                          *)
LEMMA DropRound ==
  ASSUME NEW s, FamilyOK(s), NEW W, NEW k \in JobId, k \notin W, s.place[k] = "joined",
         NEW t, Dropped(s, W, t), NEW Z, Z = W \cup {k}
  PROVE  Dropped(s, Z, DeleteJob(t, k))
<1> DEFINE u == DeleteJob(t, k)
<1>1. FamilyOK(t) /\ t \in FamilyState /\ t.place[k] = "joined" BY DEF Dropped, FamilyOK
<1>2. u = DeleteJob(t, k) OBVIOUS
<1> HIDE DEF u
<1>3. Deleted(t, u, k) BY <1>1, <1>2, DeleteIs
<1>4. FamilyOK(u) /\ Listing(t, u) /\ u.place = [t.place EXCEPT ![k] = "none"]
      /\ u.parent = [t.parent EXCEPT ![k] = NoJob]
  BY <1>3 DEF Deleted
<1>5. t.place \in [JobId -> {"none", "moving", "forked", "joined"}]
      /\ t.parent \in [JobId -> JobId \cup {NoJob}]
  BY <1>1, FamilyParts
<1>6. /\ u.place[k] = "none" /\ u.parent[k] = NoJob
      /\ \A i \in JobId \ {k} : u.place[i] = t.place[i] /\ u.parent[i] = t.parent[i]
  BY ONLY <1>4, <1>5, k \in JobId
<1>7. Listing(s, u) BY <1>4 DEF Dropped, Listing
<1> QED BY <1>4, <1>6, <1>7 DEF Dropped, u

DropFrom(q, s, U, g) == IF U = {} THEN s ELSE DeleteJob(g[U \ {Max(U)}], q[Max(U)])
DropFold(s, q) == FoldLeft(DeleteJob, s, q)

(* The loop of Join is a recursive function.                               *)
LEMMA DropFoldIs ==
  ASSUME NEW q, NEW s
  PROVE  DropFold(s, q) = (CHOOSE g : g = [U \in SUBSET (DOMAIN q) |-> DropFrom(q, s, U, g)])[DOMAIN q]
  BY Zenon DEF DropFold, FoldLeft, MapThenFoldSet, DropFrom

(* The loop of Join as a whole.                                            *)
LEMMA DropLoop ==
  ASSUME NEW s, FamilyOK(s), NEW H \in SUBSET JobId, IsFiniteSet(H),
         \A k \in H : s.place[k] = "joined", NEW q, q = SetToSeq(H)
  PROVE  Dropped(s, H, DropFold(s, q))
<1> DEFINE n == Cardinality(H)
           At(U) == {q[i] : i \in U}
           F == [i \in 1 .. n |-> [x \in FamilyState |-> DeleteJob(x, q[i])]]
           R == {w \in (SUBSET (1 .. n)) \X FamilyState : Dropped(s, At(w[1]), w[2])}
<1>0. /\ n \in Nat /\ DOMAIN q = 1 .. n /\ s \in FamilyState
      /\ \A i \in 1 .. n : q[i] \in H
      /\ \A a, b \in 1 .. n : q[a] = q[b] => a = b
      /\ \A k \in H : \E i \in 1 .. n : q[i] = k
  BY ListingIs DEF FamilyOK
<1> HIDE DEF n
<1>1. \A U \in SUBSET (1 .. n), x \in FamilyState : <<U, x>> \in R <=> Dropped(s, At(U), x)
  OBVIOUS
<1>2. \A i \in 1 .. n, x \in FamilyState : F[i][x] = DeleteJob(x, q[i]) OBVIOUS
<1> HIDE DEF F, R
<1>3. <<{}, s>> \in R
  <2>1. At({}) = {} OBVIOUS
  <2>2. Dropped(s, {}, s) BY DEF Dropped, Listing
  <2>3. Dropped(s, At({}), s) BY ONLY <2>1, <2>2
  <2> QED BY <1>0, <1>1, <2>3
<1>4. ASSUME NEW U \in SUBSET (1 .. n), NEW x \in FamilyState, U # {}, <<U \ {Max(U)}, x>> \in R
      PROVE  F[Max(U)][x] \in FamilyState /\ <<U, F[Max(U)][x]>> \in R
  <2> DEFINE m == Max(U)
             V == U \ {m}
             W == At(V)
             Z == At(U)
             k == q[m]
             y == DeleteJob(x, k)
  <2>1. m \in U /\ V \in SUBSET (1 .. n)
    BY <1>0, <1>4, LastOf
  <2>2. Dropped(s, W, x) BY <1>1, <1>4, <2>1
  <2>3. k \in H /\ k \in JobId /\ s.place[k] = "joined" BY <1>0, <2>1
  <2>4. k \notin W
    <3> SUFFICES ASSUME NEW i \in V PROVE q[i] # k OBVIOUS
    <3>1. i \in 1 .. n /\ m \in 1 .. n /\ i # m BY <2>1
    <3> QED BY <1>0, <3>1
  <2>5. Z = W \cup {k} BY <2>1
  <2>6. y = DeleteJob(x, k) OBVIOUS
  <2>7. F[m][x] = y BY <1>2, <2>1
  <2> HIDE DEF W, Z, k, y, V
  <2>8. Dropped(s, Z, y) BY <2>2, <2>3, <2>4, <2>5, <2>6, DropRound
  <2>9. y \in FamilyState BY <2>8 DEF Dropped, FamilyOK
  <2>10. <<U, y>> \in R BY <1>1, <2>8, <2>9 DEF Z
  <2> QED BY <2>7, <2>9, <2>10 DEF m
<1>5. PICK h : Reaches(F, s, n, FamilyState, R, h)
  <2>1. \A U \in SUBSET (1 .. n), x \in FamilyState :
          U # {} /\ <<U \ {Max(U)}, x>> \in R => F[Max(U)][x] \in FamilyState /\ <<U, F[Max(U)][x]>> \in R
    BY <1>4
  <2> QED BY <1>0, <1>3, <2>1, FoldReaches
<1>6. h \in [SUBSET (1 .. n) -> FamilyState] /\ h[{}] = s
      /\ \A U \in SUBSET (1 .. n) : <<U, h[U]>> \in R /\ (U # {} => h[U] = F[Max(U)][h[U \ {Max(U)}]])
  BY <1>5 DEF Reaches
<1>7. \A U \in SUBSET (1 .. n) : U # {} => h[U] = DeleteJob(h[U \ {Max(U)}], q[Max(U)])
  <2> SUFFICES ASSUME NEW U \in SUBSET (1 .. n), U # {}
               PROVE  h[U] = DeleteJob(h[U \ {Max(U)}], q[Max(U)])
    OBVIOUS
  <2>1. Max(U) \in 1 .. n BY <1>0, LastOf
  <2>2. h[U \ {Max(U)}] \in FamilyState BY <1>6
  <2> QED BY <1>2, <1>6, <2>1, <2>2
<1>8. h = [U \in SUBSET (1 .. n) |-> DropFrom(q, s, U, h)]
  <2>1. \A U \in SUBSET (1 .. n) : h[U] = DropFrom(q, s, U, h) BY <1>6, <1>7 DEF DropFrom
  <2> QED BY <1>6, <2>1
<1> DEFINE g == CHOOSE g : g = [U \in SUBSET (1 .. n) |-> DropFrom(q, s, U, g)]
<1>9. g = [U \in SUBSET (1 .. n) |-> DropFrom(q, s, U, g)] BY <1>8
<1>10. DropFold(s, q) = g[1 .. n] BY <1>0, DropFoldIs
<1> HIDE DEF g
<1>11. \A U \in SUBSET (1 .. n) : g[U] = DropFrom(q, s, U, g) BY <1>9
<1>12. g[1 .. n] = h[1 .. n]
  <2>1. g[{}] = h[{}] BY <1>6, <1>11 DEF DropFrom
  <2>2. \A U \in SUBSET (1 .. n) : U # {} /\ g[U \ {Max(U)}] = h[U \ {Max(U)}] => g[U] = h[U]
    BY <1>7, <1>11 DEF DropFrom
  <2> QED BY <1>0, <2>1, <2>2, SameFold
<1>13. Dropped(s, At(1 .. n), h[1 .. n])
  <2>1. 1 .. n \in SUBSET (1 .. n) OBVIOUS
  <2>2. <<1 .. n, h[1 .. n]>> \in R /\ h[1 .. n] \in FamilyState BY <1>6, <2>1
  <2> QED BY <1>1, <2>1, <2>2
<1>14. At(1 .. n) = H BY <1>0
<1> HIDE DEF At
<1> QED BY <1>10, <1>12, <1>13, <1>14


(* Every job in the Fork waits for a sub-job, or its family has gone.      *)
Awaited(s, O) == \A j \in JobId : s.place[j] = "forked" => Expected(s, j) \/ j \in O

(* The state a handler leaves.                                             *)
LEMMA FamilyBecomesIs ==
  ASSUME NEW t, FamilyBecomes(t), FamilyOK(t), Awaited(t, orphaned'), Parented(t, subJobs'),
         strayJoined' \cap subJobs' = {}
  PROVE  FamilyInv'
<1>1. t \in FamilyState BY DEF FamilyOK
<1>2. t = [place |-> t.place, parent |-> t.parent, children |-> t.children, gen |-> t.gen,
           listed |-> t.listed, list |-> t.list, failed |-> t.failed]
  BY <1>1 DEF FamilyState
<1>3. Family' = t BY <1>2 DEF Family, FamilyBecomes
<1>4. jobPlace' = t.place BY DEF FamilyBecomes
<1>5. FamilyOK(Family)' BY <1>3 DEF FamilyOK, RelativesAgree, ListAgrees
<1>6. (\A j \in JobId : jobPlace[j] = "forked" => Expected(Family, j) \/ j \in orphaned)'
  BY <1>3, <1>4 DEF Awaited, Expected
<1>7. Parented(Family, subJobs)' BY <1>3 DEF Parented
<1> QED BY <1>5, <1>6, <1>7 DEF FamilyInv

(* The invariant, of the record of the variables.                          *)
LEMMA FamilyIs ==
  ASSUME FamilyInv
  PROVE  /\ FamilyOK(Family) /\ Awaited(Family, orphaned) /\ Family.place = jobPlace
         /\ Parented(Family, subJobs) /\ strayJoined \cap subJobs = {}
         /\ Family.parent = parentOf /\ Family.children = childrenOf /\ Family.gen = generation
         /\ Family.listed = listed /\ Family.list = jobList
  BY DEF FamilyInv, Family, Awaited

(* A step that keeps the jobs that existed keeps what is awaited.          *)
LEMMA KeptAwaits ==
  ASSUME NEW s, FamilyOK(s), NEW t, FamilyOK(t), Kept(s, t), NEW O, NEW j \in JobId,
         s.place[j] = "forked" => Expected(s, j) \/ j \in O
  PROVE  t.place[j] = "forked" => Expected(t, j) \/ j \in O
<1> SUFFICES ASSUME t.place[j] = "forked" PROVE Expected(t, j) \/ j \in O OBVIOUS
<1>1. s.place[j] = "forked" BY DEF Kept
<1>2. ASSUME NEW k \in JobId, s.parent[k] = j, s.place[k] # "joined"
      PROVE  t.parent[k] = j /\ t.place[k] # "joined"
  <2>1. s.place[k] # "none" BY <1>2, FamilyFacts, NoJobIs
  <2> QED BY <1>2, <2>1 DEF Kept
<1> QED BY <1>1, <1>2 DEF Expected

(* The jobs of Fork that are left after a step that makes no other.        *)
LEMMA StillParented ==
  ASSUME FamilyInv, NEW t, FamilyBecomes(t), SubJobsAre({}),
         \A k \in JobId : t.place[k] # "none" /\ Family.parent[k] # NoJob => t.parent[k] # NoJob
  PROVE  Parented(t, subJobs') /\ subJobs' \subseteq subJobs
<1>1. subJobs' = {k \in subJobs : t.place[k] # "none"} BY DEF SubJobsAre, FamilyBecomes
<1>2. Parented(Family, subJobs) BY FamilyIs
<1> QED BY <1>1, <1>2 DEF Parented

(* A step that keeps the jobs that existed keeps their parents.            *)
LEMMA KeptParented ==
  ASSUME FamilyInv, NEW t, FamilyBecomes(t), SubJobsAre({}), Kept(Family, t), UNCHANGED strayJoined
  PROVE  Parented(t, subJobs') /\ strayJoined' \cap subJobs' = {}
<1>1. \A k \in JobId : Family.parent[k] # NoJob => t.parent[k] # NoJob
  <2>1. \A k \in JobId : Family.parent[k] # NoJob => Family.place[k] # "none" BY FamilyIs, FamilyFacts
  <2> QED BY <2>1 DEF Kept
<1>2. Parented(t, subJobs') /\ subJobs' \subseteq subJobs BY <1>1, StillParented
<1> QED BY <1>2, FamilyIs

(* A source makes a job.                                                   *)
LEMMA NewFamilyJobIs ==
  ASSUME FamilyInv, NewFamilyJob
  PROVE  FamilyInv'
<1> DEFINE m == Min(FreeJobs(Family))
           t == Construct(Family, m, 0, jobList # NoList)
           r == jobList # NoList
<1>1. FamilyOK(Family) /\ Awaited(Family, orphaned) /\ Family.list = jobList BY FamilyIs
<1>2. FreeJobs(Family) # {} /\ FamilyBecomes(t) /\ orphaned' = orphaned
      /\ SubJobsAre({}) /\ UNCHANGED strayJoined
  BY DEF NewFamilyJob
<1>3. m \in JobId /\ Family.place[m] = "none"
  <2>1. IsFiniteSet(FreeJobs(Family)) BY FamilyAssumption, FS_Subset DEF FreeJobs
  <2>2. FreeJobs(Family) \in SUBSET Int
    <3>1. \A k \in JobId : k \in Int BY FamilyAssumption
    <3> QED BY <3>1 DEF FreeJobs
  <2>3. m \in FreeJobs(Family) BY <1>2, <2>1, <2>2, MinIs
  <2> QED BY <2>3 DEF FreeJobs
<1>4. t = Construct(Family, m, 0, r) /\ r \in BOOLEAN /\ (r <=> Family.list # NoList) /\ 0 \in Nat BY <1>1
<1> HIDE DEF m, t, r
<1>5. Made(Family, t, m) BY <1>1, <1>3, <1>4, ConstructIs
<1>6. Family.place \in [JobId -> {"none", "moving", "forked", "joined"}] BY <1>1, FamilyParts DEF FamilyOK
<1>7. FamilyOK(t) /\ Kept(Family, t) BY <1>3, <1>5, <1>6 DEF Made, Kept
<1>8. Awaited(t, orphaned')
  <2> SUFFICES ASSUME NEW j \in JobId PROVE t.place[j] = "forked" => Expected(t, j) \/ j \in orphaned'
    BY DEF Awaited
  <2>1. Family.place[j] = "forked" => Expected(Family, j) \/ j \in orphaned' BY <1>1, <1>2 DEF Awaited
  <2> QED BY <1>1, <1>7, <2>1, KeptAwaits
<1>9. Parented(t, subJobs') /\ strayJoined' \cap subJobs' = {} BY <1>2, <1>7, KeptParented
<1> QED BY <1>2, <1>7, <1>8, <1>9, FamilyBecomesIs

(* A job is forked.                                                        *)
LEMMA ForkIs ==
  ASSUME FamilyInv, NEW j \in JobId, Fork(j)
  PROVE  FamilyInv'
<1> DEFINE s == [Family EXCEPT !.place[j] = "forked"]
           t == ForkFold(s, j)
<1>1. FamilyOK(Family) /\ Awaited(Family, orphaned) /\ Family.place = jobPlace BY FamilyIs
<1>2. Family.place[j] = "moving" /\ Cardinality(FreeJobs(Family)) >= ForkGates
      /\ FamilyBecomes(t) /\ orphaned' = orphaned
      /\ strayJoined' = {} /\ SubJobsAre(FreeJobs(Family))
  BY <1>1 DEF Fork, ForkFold, FamilyRuns
<1>3. s = [Family EXCEPT !.place[j] = "forked"] /\ t = ForkFold(s, j) OBVIOUS
<1> HIDE DEF s, t
<1>4. Moved(Family, s, j, "forked") BY <1>1, <1>2, <1>3, MovedIs
<1>5. FamilyOK(s) /\ s.place = [Family.place EXCEPT ![j] = "forked"] /\ s.parent = Family.parent
  BY <1>4 DEF Moved
<1>6. Family.place \in [JobId -> {"none", "moving", "forked", "joined"}] BY <1>1, FamilyParts DEF FamilyOK
<1>7. s.place[j] = "forked" /\ \A k \in JobId \ {j} : s.place[k] = Family.place[k]
  BY ONLY <1>5, <1>6, j \in JobId
<1>8. FreeJobs(s) = FreeJobs(Family) BY <1>2, <1>7 DEF FreeJobs
<1>9. Forked(s, j, ForkGates, t) BY <1>2, <1>3, <1>5, <1>7, <1>8, ForkLoop
<1>10. FamilyOK(t) /\ Kept(s, t) /\ Expected(t, j)
  <2>1. ForkGates > 0 BY FamilyAssumption
  <2> QED BY <1>9, <2>1 DEF Forked, Grown
<1>11. Awaited(t, orphaned')
  <2> SUFFICES ASSUME NEW p \in JobId, p # j
               PROVE  t.place[p] = "forked" => Expected(t, p) \/ p \in orphaned'
    BY <1>10 DEF Awaited
  <2>1. s.place[p] = "forked" => Expected(s, p) \/ p \in orphaned'
    <3>1. ASSUME Family.place[p] = "forked" PROVE Expected(Family, p) \/ p \in orphaned'
      BY <1>1, <1>2, <3>1 DEF Awaited
    <3>2. Expected(Family, p) => Expected(s, p) BY <1>5, <1>7 DEF Expected
    <3> QED BY <1>7, <3>1, <3>2
  <2> QED BY <1>5, <1>10, <2>1, KeptAwaits
<1>12. Parented(t, subJobs')
  <2>1. subJobs' = {k \in subJobs \cup FreeJobs(Family) : t.place[k] # "none"}
    BY <1>2 DEF SubJobsAre, FamilyBecomes
  <2>2. \A k \in FreeJobs(Family) : k \in JobId /\ (t.place[k] # "none" => t.parent[k] = j)
    BY <1>8, <1>9 DEF Forked, FreeJobs
  <2>3. \A k \in subJobs : k \in JobId /\ Family.parent[k] # NoJob BY FamilyIs DEF Parented
  <2>4. \A k \in subJobs : t.parent[k] # NoJob
    <3>1. \A k \in JobId : s.parent[k] # NoJob => s.place[k] # "none" BY <1>5, FamilyFacts
    <3>2. \A k \in subJobs : s.parent[k] # NoJob BY <1>5, <2>3
    <3> QED BY <1>10, <2>3, <3>1, <3>2 DEF Kept
  <2> QED BY <2>1, <2>2, <2>3, <2>4, NoJobIs DEF Parented
<1> QED BY <1>2, <1>10, <1>11, <1>12, FamilyBecomesIs

(* A job is deleted outside the Join.                                      *)
LEMMA DeletedIs ==
  ASSUME FamilyInv, NEW j \in JobId, jobPlace[j] = "moving", DeletedOnTheWay(j),
         SubJobsAre({}), UNCHANGED strayJoined
  PROVE  FamilyInv'
<1> DEFINE t == DeleteJob(Family, j)
           p == parentOf[j]
<1>1. FamilyOK(Family) /\ Awaited(Family, orphaned) /\ Family.place = jobPlace /\ Family.parent = parentOf
  BY FamilyIs
<1>2. t = DeleteJob(Family, j) /\ FamilyBecomes(t)
      /\ orphaned' = IF p # NoJob /\ FamilyComplete(t, p) THEN orphaned \cup {p} ELSE orphaned
  BY DEF DeletedOnTheWay
<1> HIDE DEF t
<1>3. Family.place[j] \in {"moving", "joined"} BY <1>1
<1>4. Deleted(Family, t, j) BY <1>1, <1>2, <1>3, DeleteIs
<1>5. FamilyOK(t) /\ t.place = [Family.place EXCEPT ![j] = "none"]
      /\ t.parent = [Family.parent EXCEPT ![j] = NoJob]
  BY <1>4 DEF Deleted
<1>6. /\ Family.place \in [JobId -> {"none", "moving", "forked", "joined"}]
      /\ Family.parent \in [JobId -> JobId \cup {NoJob}]
  BY <1>1, FamilyParts DEF FamilyOK
<1>7. /\ t.place[j] = "none" /\ t.parent[j] = NoJob
      /\ \A k \in JobId \ {j} : t.place[k] = Family.place[k] /\ t.parent[k] = Family.parent[k]
  BY ONLY <1>5, <1>6, j \in JobId
<1>8. Awaited(t, orphaned')
  <2> SUFFICES ASSUME NEW i \in JobId, t.place[i] = "forked" PROVE Expected(t, i) \/ i \in orphaned'
    BY DEF Awaited
  <2>1. Expected(Family, i) \/ i \in orphaned BY <1>1, <1>7 DEF Awaited
  <2>2. i \in orphaned => i \in orphaned' BY <1>2
  <2>3. CASE i # p
    <3>1. Expected(Family, i) => Expected(t, i) BY <1>1, <1>7, <2>3 DEF Expected
    <3> QED BY <2>1, <2>2, <3>1
  <2>4. CASE i = p
    <3>1. FamilyComplete(t, i) <=> ~Expected(t, i) BY <1>5, CompleteIs
    <3>2. p # NoJob BY <2>4, NoJobIs
    <3> QED BY <1>2, <2>4, <3>1, <3>2
  <2> QED BY <2>3, <2>4
<1>9. Parented(t, subJobs') /\ subJobs' \subseteq subJobs
  <2>1. \A k \in JobId : t.place[k] # "none" /\ Family.parent[k] # NoJob => t.parent[k] # NoJob BY <1>7
  <2> QED BY <1>2, <2>1, StillParented
<1>10. strayJoined' \cap subJobs' = {} BY <1>9, FamilyIs
<1> QED BY <1>2, <1>5, <1>8, <1>9, <1>10, FamilyBecomesIs


(* The generation of a job is not part of what its relatives agree on.     *)
LEMMA AgedIs ==
  ASSUME NEW s, FamilyOK(s), NEW j \in JobId, NEW t, t = [s EXCEPT !.gen[j] = 1]
  PROVE  FamilyOK(t) /\ t.place = s.place /\ t.parent = s.parent /\ t.list = s.list
<1>1. s \in FamilyState BY DEF FamilyOK
<1>2. /\ t.place = s.place /\ t.parent = s.parent /\ t.children = s.children
      /\ t.gen = [s.gen EXCEPT ![j] = 1] /\ t.listed = s.listed /\ t.list = s.list /\ t.failed = s.failed
      /\ t = [place |-> t.place, parent |-> t.parent, children |-> t.children, gen |-> t.gen,
              listed |-> t.listed, list |-> t.list, failed |-> t.failed]
  BY <1>1 DEF FamilyState
<1>3. t.gen \in [JobId -> Nat] BY <1>1, <1>2, FamilyParts
<1>4. t \in FamilyState BY <1>1, <1>2, <1>3, FamilyParts DEF FamilyState
<1>5. RelativesAgree(t) BY <1>2 DEF FamilyOK, RelativesAgree
<1>6. ListAgrees(t) BY <1>2 DEF FamilyOK, ListAgrees
<1> QED BY <1>2, <1>4, <1>5, <1>6 DEF FamilyOK

(* A job is cloned.                                                        *)
LEMMA CloneIs ==
  ASSUME FamilyInv, NEW j \in JobId, CloneJob(j)
  PROVE  FamilyInv'
<1>1. FamilyOK(Family) /\ Awaited(Family, orphaned) /\ Family.place = jobPlace
      /\ Family.list = jobList /\ Family.listed = listed
  BY FamilyIs
<1>2. CASE CloneGates = 0
  <2>1. jobPlace[j] = "moving" /\ DeletedOnTheWay(j) /\ SubJobsAre({}) /\ UNCHANGED strayJoined
    BY <1>2 DEF CloneJob
  <2> QED BY <2>1, DeletedIs
<1>3. CASE CloneGates # 0
  <2> DEFINE s == [Family EXCEPT !.gen[j] = 1]
             n == CloneGates - 1
             r == listed[j]
             t == CloneFold(s, r, n)
  <2>1. jobPlace[j] = "moving" /\ Cardinality(FreeJobs(Family)) >= n /\ FamilyBecomes(t) /\ orphaned' = orphaned
        /\ SubJobsAre({}) /\ UNCHANGED strayJoined
    BY <1>3 DEF CloneJob, CloneFold
  <2>2. s = [Family EXCEPT !.gen[j] = 1] /\ t = CloneFold(s, r, n) OBVIOUS
  <2>3. n \in Nat BY <1>3, FamilyAssumption
  <2>4. r \in BOOLEAN /\ (r <=> Family.list # NoList)
    <3>1. Family.listed \in [JobId -> BOOLEAN] BY <1>1, FamilyParts DEF FamilyOK
    <3>2. Family.place[j] # "none" BY <1>1, <2>1
    <3>3. Family.listed[j] <=> Family.list # NoList BY <1>1, <3>2 DEF FamilyOK, ListAgrees
    <3> QED BY <1>1, <3>1, <3>3
  <2> HIDE DEF s, t, n, r
  <2>5. FamilyOK(s) /\ s.place = Family.place /\ s.parent = Family.parent /\ s.list = Family.list
    BY <1>1, <2>2, AgedIs
  <2>6. FreeJobs(s) = FreeJobs(Family) BY <2>5 DEF FreeJobs
  <2>7. r <=> s.list # NoList BY <2>4, <2>5
  <2>8. Grown(s, n, t)
    <3>1. Cardinality(FreeJobs(s)) >= n BY <2>1, <2>6
    <3>2. Grown(s, n, CloneFold(s, r, n)) BY <2>3, <2>4, <2>5, <2>7, <3>1, CloneLoop
    <3> QED BY <2>2, <3>2
  <2>9. FamilyOK(t) /\ Kept(s, t) BY <2>8 DEF Grown
  <2>10. Awaited(t, orphaned')
    <3> SUFFICES ASSUME NEW p \in JobId PROVE t.place[p] = "forked" => Expected(t, p) \/ p \in orphaned'
      BY DEF Awaited
    <3>1. s.place[p] = "forked" => Expected(s, p) \/ p \in orphaned'
      BY <1>1, <2>1, <2>5 DEF Awaited, Expected
    <3> QED BY <2>5, <2>9, <3>1, KeptAwaits
  <2>11. Kept(Family, t) BY <2>5, <2>9 DEF Kept
  <2>12. Parented(t, subJobs') /\ strayJoined' \cap subJobs' = {} BY <2>1, <2>11, KeptParented
  <2> QED BY <2>1, <2>9, <2>10, <2>12, FamilyBecomesIs
<1> QED BY <1>2, <1>3

(* A job without a parent reaches the Join.                                *)
LEMMA StrayIs ==
  ASSUME FamilyInv, NEW j \in JobId, JoinReceives(j), parentOf[j] = NoJob
  PROVE  FamilyInv'
<1> DEFINE s == [Family EXCEPT !.place[j] = "joined"]
<1>1. /\ FamilyOK(Family) /\ Awaited(Family, orphaned) /\ Family.place = jobPlace
      /\ Family.parent = parentOf /\ Parented(Family, subJobs)
  BY FamilyIs
<1>2. /\ Family.place[j] = "moving" /\ Family.parent[j] = NoJob
      /\ FamilyBecomes(s) /\ SubJobsAre({}) /\ orphaned' = orphaned /\ strayJoined' = {j}
  BY <1>1 DEF JoinReceives
<1>3. s = [Family EXCEPT !.place[j] = "joined"] OBVIOUS
<1> HIDE DEF s
<1>4. Moved(Family, s, j, "joined")
  <2>1. Family.children[j] = <<>> BY <1>1, <1>2, FamilyFacts
  <2> QED BY <1>1, <1>2, <1>3, <2>1, MovedIs
<1>5. /\ FamilyOK(s) /\ s.parent = Family.parent
      /\ s.place = [Family.place EXCEPT ![j] = "joined"]
  BY <1>4 DEF Moved
<1>6. Family.place \in [JobId -> {"none", "moving", "forked", "joined"}] BY <1>1, FamilyParts DEF FamilyOK
<1>7. s.place[j] = "joined" /\ \A k \in JobId \ {j} : s.place[k] = Family.place[k]
  BY ONLY <1>5, <1>6, j \in JobId
<1>8. Awaited(s, orphaned')
  <2> SUFFICES ASSUME NEW i \in JobId, s.place[i] = "forked" PROVE Expected(s, i) \/ i \in orphaned'
    BY DEF Awaited
  <2>1. Expected(Family, i) \/ i \in orphaned' BY <1>1, <1>2, <1>7 DEF Awaited
  <2>2. Expected(Family, i) => Expected(s, i) BY <1>2, <1>5, <1>7, NoJobIs DEF Expected
  <2> QED BY <2>1, <2>2
<1>9. Parented(s, subJobs') /\ subJobs' \subseteq subJobs BY <1>2, <1>5, StillParented
<1>10. strayJoined' \cap subJobs' = {} BY <1>1, <1>2, <1>9 DEF Parented
<1> QED BY <1>2, <1>5, <1>8, <1>9, <1>10, FamilyBecomesIs

(* A sub-job reaches the Join.                                             *)
LEMMA JoinIs ==
  ASSUME FamilyInv, NEW j \in JobId, JoinReceives(j), parentOf[j] # NoJob
  PROVE  FamilyInv'
<1> DEFINE p == parentOf[j]
           s == [Family EXCEPT !.place[j] = "joined"]
           H == SubJobsHeld(s, p)
           q == SetToSeq(H)
           d == DropFold(s, q)
           t == [d EXCEPT !.place[p] = "moving"]
<1>1. FamilyOK(Family) /\ Awaited(Family, orphaned) /\ Family.place = jobPlace /\ Family.parent = parentOf
  BY FamilyIs
<1>2. /\ Family.place[j] = "moving" /\ p # NoJob /\ orphaned' = orphaned
      /\ strayJoined' = {} /\ SubJobsAre({})
      /\ FamilyBecomes(IF Cardinality(H) # Len(s.children[p]) THEN s ELSE t)
  BY <1>1 DEF JoinReceives, Joined, DropFold
<1>3. /\ s = [Family EXCEPT !.place[j] = "joined"] /\ H = SubJobsHeld(s, p) /\ q = SetToSeq(H)
      /\ d = DropFold(s, q) /\ t = [d EXCEPT !.place[p] = "moving"] /\ p = Family.parent[j]
  BY <1>1
<1> HIDE DEF s, H, q, d, t, p
<1>4. p \in JobId BY <1>1, <1>2, <1>3, FamilyFacts
<1>5. Moved(Family, s, j, "joined")
  <2>1. Family.children[j] = <<>> BY <1>1, <1>2, FamilyFacts
  <2> QED BY <1>1, <1>2, <1>3, <2>1, MovedIs
<1>6. FamilyOK(s) /\ s.place = [Family.place EXCEPT ![j] = "joined"] /\ s.parent = Family.parent
  BY <1>5 DEF Moved
<1>7. Family.place \in [JobId -> {"none", "moving", "forked", "joined"}] BY <1>1, FamilyParts DEF FamilyOK
<1>8. s.place[j] = "joined" /\ \A k \in JobId \ {j} : s.place[k] = Family.place[k]
  BY ONLY <1>6, <1>7, j \in JobId
<1>9. \A i \in JobId : i # p /\ s.place[i] = "forked" => Expected(s, i) \/ i \in orphaned'
  <2> SUFFICES ASSUME NEW i \in JobId, i # p, s.place[i] = "forked" PROVE Expected(s, i) \/ i \in orphaned'
    OBVIOUS
  <2>1. Expected(Family, i) \/ i \in orphaned' BY <1>1, <1>2, <1>8 DEF Awaited
  <2>2. Expected(Family, i) => Expected(s, i)
    BY <1>3, <1>6, <1>8 DEF Expected
  <2> QED BY <2>1, <2>2
<1>10. /\ IsFiniteSet(H) /\ H \in SUBSET JobId
       /\ \A k \in JobId : k \in H <=> s.place[k] = "joined" /\ s.parent[k] = p
       /\ Cardinality(H) = Len(s.children[p]) <=> ~Expected(s, p)
  <2>1. AreHeld(s, p, H) BY <1>3, <1>4, <1>6, HeldIs
  <2> QED BY <2>1 DEF AreHeld
<1>11. CASE Cardinality(H) # Len(s.children[p])
  <2>1. Awaited(s, orphaned') BY <1>9, <1>10, <1>11 DEF Awaited
  <2>2. FamilyBecomes(s) BY <1>2, <1>11
  <2>3. Parented(s, subJobs') BY <1>2, <1>6, <2>2, StillParented
  <2> QED BY <1>2, <1>6, <2>1, <2>2, <2>3, FamilyBecomesIs
<1>12. CASE Cardinality(H) = Len(s.children[p])
  <2>1. ~Expected(s, p) BY <1>10, <1>12
  <2>2. Dropped(s, H, d)
    <3>1. \A k \in H : s.place[k] = "joined" BY <1>10
    <3>2. Dropped(s, H, DropFold(s, q)) BY <1>3, <1>6, <1>10, <3>1, DropLoop
    <3> QED BY <1>3, <3>2
  <2>3. /\ FamilyOK(d)
        /\ \A k \in JobId : /\ k \in H => d.place[k] = "none" /\ d.parent[k] = NoJob
                            /\ k \notin H => d.place[k] = s.place[k] /\ d.parent[k] = s.parent[k]
    BY <2>2 DEF Dropped
  <2>4. \A k \in JobId : d.parent[k] # p
    BY <1>2, <1>10, <2>1, <2>3 DEF Expected
  <2>5. d.children[p] = <<>>
    <3>1. d.children[p] \in Seq(JobId) /\ \A k \in JobId : ~Contains(d.children[p], k)
      BY <1>4, <2>3, <2>4, FamilyFacts
    <3> DEFINE c == d.children[p]
    <3>2. c \in Seq(JobId) /\ \A k \in JobId : ~Contains(c, k) BY <3>1
    <3> HIDE DEF c
    <3>3. Len(c) \in Nat /\ \A i \in 1 .. Len(c) : c[i] \in JobId BY <3>2
    <3>4. \A i \in 1 .. Len(c) : FALSE BY <3>2, <3>3 DEF Contains
    <3>5. Len(c) = 0
      <4>1. Len(c) >= 1 => 1 \in 1 .. Len(c) BY <3>3
      <4> QED BY <3>3, <3>4, <4>1
    <3>6. c = <<>> BY <3>2, <3>5, EmptySeq
    <3> QED BY <3>6 DEF c
  <2>6. s.place[p] = "forked" /\ p # j
    <3>1. Family.place[p] = "forked" BY <1>1, <1>3, <1>4, FamilyFacts
    <3>2. p # j BY <1>2, <3>1
    <3> QED BY <1>4, <1>8, <3>1, <3>2
  <2>7. p \notin H BY <1>4, <1>10, <2>6
  <2>8. d.place[p] = "forked" BY <1>4, <2>3, <2>6, <2>7
  <2>9. Moved(d, t, p, "moving") BY <1>3, <1>4, <2>3, <2>5, <2>8, MovedIs
  <2>10. FamilyOK(t) /\ t.place = [d.place EXCEPT ![p] = "moving"] /\ t.parent = d.parent
    BY <2>9 DEF Moved
  <2>11. d.place \in [JobId -> {"none", "moving", "forked", "joined"}] BY <2>3, FamilyParts DEF FamilyOK
  <2>12. t.place[p] = "moving" /\ \A k \in JobId \ {p} : t.place[k] = d.place[k]
    BY ONLY <1>4, <2>10, <2>11
  <2>13. Awaited(t, orphaned')
    <3> SUFFICES ASSUME NEW i \in JobId, t.place[i] = "forked" PROVE Expected(t, i) \/ i \in orphaned'
      BY DEF Awaited
    <3>1. i # p /\ d.place[i] = "forked" BY <2>12
    <3>2. s.place[i] = "forked" BY <2>3, <3>1
    <3>3. Expected(s, i) \/ i \in orphaned' BY <1>9, <3>1, <3>2
    <3>4. ASSUME NEW k \in JobId, s.parent[k] = i, s.place[k] # "joined"
          PROVE  t.parent[k] = i /\ t.place[k] # "joined"
      <4>1. k \notin H BY <1>10, <3>4
      <4>2. d.parent[k] = i /\ d.place[k] # "joined" BY <2>3, <3>4, <4>1
      <4> QED BY <2>10, <2>12, <4>2
    <3> QED BY <3>3, <3>4 DEF Expected
  <2>14. FamilyBecomes(t) BY <1>2, <1>12
  <2>15. Parented(t, subJobs')
    <3>1. ASSUME NEW k \in JobId, t.place[k] # "none", Family.parent[k] # NoJob PROVE t.parent[k] # NoJob
      <4>1. k \notin H BY <2>3, <2>7, <2>12, <3>1
      <4> QED BY <1>6, <2>3, <2>10, <3>1, <4>1
    <3> QED BY <1>2, <2>14, <3>1, StillParented
  <2> QED BY <1>2, <2>10, <2>13, <2>14, <2>15, FamilyBecomesIs
<1> QED BY <1>11, <1>12

(* The list of jobs is deleted.                                            *)
LEMMA ListDeletedIs ==
  ASSUME FamilyInv, JobListDeleted
  PROVE  FamilyInv'
<1> DEFINE t == Family'
<1>1. FamilyOK(Family) /\ Awaited(Family, orphaned) BY FamilyIs
<1>2. /\ t.place = Family.place /\ t.parent = Family.parent /\ t.children = Family.children
      /\ t.gen = Family.gen /\ t.listed = [k \in JobId |-> FALSE] /\ t.list = NoList
      /\ t.failed = Family.failed
      /\ t = [place |-> t.place, parent |-> t.parent, children |-> t.children, gen |-> t.gen,
              listed |-> t.listed, list |-> t.list, failed |-> t.failed]
      /\ orphaned' = orphaned /\ strayJoined' = strayJoined /\ SubJobsAre({})
  BY DEF Family, JobListDeleted
<1>3. FamilyBecomes(t) BY DEF FamilyBecomes, Family
<1> HIDE DEF t
<1>4. Family \in FamilyState BY <1>1 DEF FamilyOK
<1>5. t.listed \in [JobId -> BOOLEAN] BY <1>2
<1>6. t.list \in (SUBSET JobId) \cup {NoList} BY <1>2, Zenon
<1>7. t \in FamilyState BY <1>2, <1>4, <1>5, <1>6, FamilyParts DEF FamilyState
<1>8. RelativesAgree(t) BY <1>1, <1>2 DEF FamilyOK, RelativesAgree
<1>9. ListAgrees(t) BY <1>2 DEF ListAgrees
<1>10. FamilyOK(t) BY <1>7, <1>8, <1>9 DEF FamilyOK
<1>11. Awaited(t, orphaned') BY <1>1, <1>2 DEF Awaited, Expected
<1>12. Parented(t, subJobs') /\ subJobs' \subseteq subJobs BY <1>2, <1>3, StillParented
<1>13. strayJoined' \cap subJobs' = {} BY <1>2, <1>12, FamilyIs
<1> QED BY <1>3, <1>10, <1>11, <1>12, <1>13, FamilyBecomesIs

(* The invariant holds at the start.                                       *)
LEMMA FamilyInitOK ==
  ASSUME FamilyInit
  PROVE  FamilyInv
<1>1. /\ Family.place = [j \in JobId |-> "none"] /\ Family.parent = [j \in JobId |-> NoJob]
      /\ Family.children = [j \in JobId |-> <<>>] /\ Family.gen = [j \in JobId |-> 0]
      /\ Family.listed = [j \in JobId |-> FALSE] /\ Family.list = {} /\ Family.failed = FALSE
      /\ Family = [place |-> Family.place, parent |-> Family.parent, children |-> Family.children,
                   gen |-> Family.gen, listed |-> Family.listed, list |-> Family.list,
                   failed |-> Family.failed]
  BY DEF FamilyInit, Family
<1>2. Family \in FamilyState
  <2>1. <<>> \in Seq(JobId) OBVIOUS
  <2>2. Family.children \in [JobId -> Seq(JobId)] BY <1>1, <2>1
  <2>3. Family.parent \in [JobId -> JobId \cup {NoJob}] /\ Family.gen \in [JobId -> Nat]
        /\ Family.listed \in [JobId -> BOOLEAN]
        /\ Family.place \in [JobId -> {"none", "moving", "forked", "joined"}]
    BY <1>1
  <2>4. Family.list \in (SUBSET JobId) \cup {NoList} BY <1>1
  <2> QED BY <1>1, <2>2, <2>3, <2>4 DEF FamilyState
<1>3. RelativesAgree(Family)
  <2>1. \A j \in JobId : Family.children[j] = <<>> /\ Family.parent[j] = NoJob /\ Family.place[j] = "none"
    BY <1>1
  <2>2. IsInjective(<<>>) BY DEF IsInjective
  <2>3. \A k \in JobId : ~Contains(<<>>, k) BY DEF Contains
  <2> QED BY <1>1, <2>1, <2>2, <2>3, NoJobIs DEF RelativesAgree
<1>4. ListAgrees(Family) BY <1>1, NoJobIs DEF ListAgrees
<1>5. \A j \in JobId : jobPlace[j] = "none" BY DEF FamilyInit
<1>6. subJobs = {} BY DEF FamilyInit
<1> QED BY <1>2, <1>3, <1>4, <1>5, <1>6 DEF FamilyInv, FamilyOK, Parented

(* The invariant is inductive.                                             *)
LEMMA FamilyStep ==
  ASSUME FamilyInv, [FamilyNext]_familyVars
  PROVE  FamilyInv'
<1>1. CASE UNCHANGED familyVars
  <2>1. Family' = Family /\ jobPlace' = jobPlace /\ orphaned' = orphaned BY <1>1 DEF familyVars, Family
  <2>2. FamilyOK(Family)' BY <2>1 DEF FamilyInv, FamilyOK, RelativesAgree, ListAgrees
  <2>3. (\A j \in JobId : jobPlace[j] = "forked" => Expected(Family, j) \/ j \in orphaned)'
    BY <2>1 DEF FamilyInv, Expected
  <2>4. (Parented(Family, subJobs) /\ strayJoined \cap subJobs = {})'
    BY <1>1, <2>1 DEF FamilyInv, Parented, familyVars
  <2> QED BY <2>2, <2>3, <2>4 DEF FamilyInv
<1>2. CASE NewFamilyJob BY <1>2, NewFamilyJobIs
<1>3. ASSUME NEW j \in JobId, Fork(j) PROVE FamilyInv' BY <1>3, ForkIs
<1>4. ASSUME NEW j \in JobId, CloneJob(j) PROVE FamilyInv' BY <1>4, CloneIs
<1>5. ASSUME NEW j \in JobId, JobDeleted(j) PROVE FamilyInv' BY <1>5, DeletedIs DEF JobDeleted
<1>6. ASSUME NEW j \in JobId, JoinReceives(j) PROVE FamilyInv' BY <1>6, JoinIs, StrayIs
<1>7. CASE JobListDeleted BY <1>7, ListDeletedIs
<1> QED BY <1>1, <1>2, <1>3, <1>4, <1>5, <1>6, <1>7 DEF FamilyNext

(* The invariant is as strong as the property.                             *)
LEMMA FamilyHolds ==
  ASSUME FamilyInv
  PROVE  FamilyIsSound
<1>1. FamilyOK(Family) /\ Awaited(Family, orphaned) /\ Family.place = jobPlace
      /\ Family.parent = parentOf /\ Family.children = childrenOf /\ Family.list = jobList
  BY FamilyIs
<1>2. ~familyAssert
  <2>1. ~Family.failed BY <1>1, FamilyFacts
  <2> QED BY <2>1 DEF Family
<1>3. \A j \in JobId : /\ IsInjective(childrenOf[j])
                       /\ \A k \in JobId : Contains(childrenOf[j], k) <=> parentOf[k] = j
                       /\ childrenOf[j] # <<>> => jobPlace[j] = "forked"
                       /\ parentOf[j] # NoJob => jobPlace[j] # "none"
  BY <1>1 DEF FamilyOK, RelativesAgree
<1>4. jobList # NoList => jobList = {j \in JobId : jobPlace[j] # "none"}
  BY <1>1 DEF FamilyOK, ListAgrees
<1>5. \A j \in JobId : jobPlace[j] = "forked" /\ FamilyComplete(Family, j) => j \in orphaned
  BY <1>1, CompleteIs DEF Awaited
<1>6. strayJoined \cap subJobs = {} BY FamilyIs
<1> QED BY <1>2, <1>3, <1>4, <1>5, <1>6 DEF FamilyIsSound

(* Whatever jobs there are, however many gates Fork and Clone have, and    *)
(* whoever is deleted in whatever order: parents, children and the list    *)
(* agree, no assertion of the destructors fails, a job that Fork made finds*)
(* its parent at the Join, and a job stays in the Fork only for a sub-job  *)
(* that is still to come, unless the last of them was deleted on the way   *)
(* (Job, JobList, Fork, Clone, Join).                                      *)
THEOREM FamilyTheorem == PartsSpec => []FamilyIsSound
<1>1. PartsInit => FamilyInv
  BY FamilyInitOK DEF PartsInit
<1>2. FamilyInv /\ [PartsNext]_partsVars => FamilyInv'
  <2>1. [PartsNext]_partsVars => [FamilyNext]_familyVars
    BY DEF PartsNext, partsVars, OnlyPart
  <2> QED BY <2>1, FamilyStep
<1> QED
  BY <1>1, <1>2, FamilyHolds, PTL DEF PartsSpec

=============================================================================
