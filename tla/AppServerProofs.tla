--------------------------- MODULE AppServerProofs ---------------------------
(***************************************************************************)
(* Proofs about one application server: its queue, its threads and its     *)
(* removal, for any number of jobs and threads and any capacity.           *)
(*                                                                         *)
(* AppInv is inductive.  Its parts say what a message of the current       *)
(* instant stands for: a message to the server counts as a job that runs   *)
(* (ThreadInv) and is a promise to ask for the next one (RequestInv);      *)
(* where it comes in the order of the jobs is OrderInv and OvertakeInv.    *)
(***************************************************************************)
EXTENDS MCWorkload, FiniteSetTheorems, SequenceTheorems, TLAPS

USE DEF jobVars

(* Sets of running jobs are finite.                                        *)
LEMMA RunningFinite ==
  ASSUME NEW r \in SUBSET Job
  PROVE  IsFiniteSet(r) /\ Cardinality(r) \in Nat
<1>1. IsFiniteSet(Job)
  BY SizesAssumption, FS_Interval DEF Job
<1> QED
  BY <1>1, FS_Subset, FS_CardinalityType

LEMMA RunningShrinks ==
  ASSUME NEW r \in SUBSET Job, NEW S
  PROVE  Cardinality(r \ S) <= Cardinality(r)
<1>1. r \ S \subseteq r
  OBVIOUS
<1> QED
  BY <1>1, RunningFinite, FS_Subset

(***************************************************************************)
(* What a handler does to the messages and the queue.                      *)
(***************************************************************************)

(* The message that is handled is taken away.                              *)
Consumed(flight, S) ==
  /\ flight \in Seq(S)
  /\ Len(flight) = Len(inFlight) - 1
  /\ \A i \in 1 .. Len(flight) : flight[i] = inFlight[i + 1]

LEMMA TailConsumes ==
  ASSUME AppTypeOK, inFlight # <<>> PROVE Consumed(Tail(inFlight), Message)
  BY DEF AppTypeOK, Consumed

(* A message that is sent comes last.                                      *)
LEMMA AppendSends ==
  ASSUME NEW S, NEW flight \in Seq(S), NEW m \in S
  PROVE  /\ Append(flight, m) \in Seq(S)
         /\ Len(Append(flight, m)) = Len(flight) + 1
         /\ \A i \in 1 .. Len(flight) : Append(flight, m)[i] = flight[i]
         /\ Append(flight, m)[Len(flight) + 1] = m
  OBVIOUS

(* A message is for the queue or for the server, and carries a job.        *)
LEMMA MessageParts ==
  ASSUME NEW m \in Message PROVE m[1] \in {"queue", "server"} /\ m[2] \in Job
  BY DEF Message

(* The initial states satisfy the invariant.                               *)
LEMMA InitApp == Init => AppInv
<1> SUFFICES ASSUME Init PROVE AppInv
  OBVIOUS
<1>1. AppTypeOK
  BY SizesAssumption, OptionsAssumption DEF Init, AppTypeOK
<1>2. Inside = {} /\ DOMAIN inFlight = {} /\ DOMAIN queue = {}
  BY DEF Init, Inside, Carried, ToSet
<1>3. ThreadInv
  <2>1. running \cup Sent(inFlight) = {}
    BY <1>2 DEF Init, Sent
  <2>2. Cardinality(running \cup Sent(inFlight)) <= Threads + Burst
    BY <2>1, FS_EmptySet, SizesAssumption, OptionsAssumption
  <2>3. Len(inFlight) <= 1 + joined
    BY DEF Init
  <2> QED
    BY <2>2, <2>3 DEF ThreadInv
<1>4. RequestInv /\ EmptyInv
  BY <1>2 DEF Init, RequestInv, EmptyInv
<1>5. OrderInv /\ OvertakeInv
  BY <1>2 DEF OrderInv, OvertakeInv, Ordered, ServerFirst
<1>6. NoJobLost
  BY <1>2 DEF Init, NoJobLost, Left
<1>7. NoJobTwice
  BY <1>2 DEF Init, NoJobTwice, Left, Inside, Carried
<1> QED
  BY <1>1, <1>3, <1>4, <1>5, <1>6, <1>7 DEF AppInv

(* Handlers keep the types.                                                *)
LEMMA RequestTypes ==
  ASSUME AppTypeOK, NEW r, NEW flight \in Seq(Message), Request(r, flight)
  PROVE  queue' \in Seq(Job) /\ inFlight' \in Seq(Message)
<1>1. CASE queue # <<>> /\ IsIdle(r)
  <2>1. Head(queue) \in Job /\ Tail(queue) \in Seq(Job)
    BY <1>1 DEF AppTypeOK
  <2>2. <<"server", Head(queue)>> \in Message
    BY <2>1 DEF Message
  <2>3. Append(flight, <<"server", Head(queue)>>) \in Seq(Message)
    BY <2>2, AppendSends
  <2> QED
    BY <1>1, <2>1, <2>3 DEF Request
<1>2. CASE ~(queue # <<>> /\ IsIdle(r))
  BY <1>2 DEF Request, AppTypeOK
<1> QED
  BY <1>1, <1>2

LEMMA TypeStep == ASSUME AppTypeOK, [Next]_vars PROVE AppTypeOK'
<1>1. CASE Arrive
  <2>1. arrived + 1 \in Job /\ arrived' \in 0 .. Jobs
    BY <1>1, SizesAssumption DEF Arrive, AppTypeOK, Job
  <2>2. <<"queue", arrived + 1>> \in Message
    BY <2>1 DEF Message
  <2>3. joined' \in 0 .. Burst
    BY <1>1, OptionsAssumption DEF Arrive, AppTypeOK
  <2>4. inFlight' \in Seq(Message)
    BY <1>1, <2>2, AppendSends DEF Arrive, AppTypeOK
  <2> QED
    BY <1>1, <2>1, <2>3, <2>4 DEF Arrive, AppTypeOK
<1>2. ASSUME NEW j \in Job, QueueReceives(j) PROVE AppTypeOK'
  <2>1. Tail(inFlight) \in Seq(Message) /\ <<"server", j>> \in Message
    BY <1>2, TailConsumes DEF QueueReceives, Consumed, Message
  <2>2. Append(Tail(inFlight), <<"server", j>>) \in Seq(Message) /\ Append(queue, j) \in Seq(Job)
    BY <2>1, AppendSends DEF AppTypeOK
  <2>3. inFlight' \in Seq(Message) /\ queue' \in Seq(Job)
    BY <1>2, <2>1, <2>2 DEF QueueReceives, AppTypeOK
  <2> QED
    BY <1>2, <2>3 DEF QueueReceives, AppTypeOK
<1>3. ASSUME NEW j \in Job, ServerReceives(j) PROVE AppTypeOK'
  <2>1. Tail(inFlight) \in Seq(Message)
    BY <1>3, TailConsumes DEF ServerReceives, Consumed
  <2>2. queue' \in Seq(Job) /\ inFlight' \in Seq(Message)
    BY <1>3, <2>1, RequestTypes DEF ServerReceives
  <2> QED
    BY <1>3, <2>2 DEF ServerReceives, AppTypeOK
<1>4. ASSUME NEW S \in SUBSET Job, EndExecution(S) PROVE AppTypeOK'
  <2>1. queue' \in Seq(Job) /\ inFlight' \in Seq(Message)
    BY <1>4, RequestTypes DEF EndExecution, AppTypeOK
  <2>2. joined' \in 0 .. Burst
    BY <1>4, OptionsAssumption DEF EndExecution
  <2> QED
    BY <1>4, <2>1, <2>2 DEF EndExecution, AppTypeOK, ReceiveIdleSignal
<1>5. CASE (\E j \in Job : Age(j)) \/ RemoveServer \/ UNCHANGED vars
  <2>1. Carried(inFlight) \in SUBSET Job
    BY MessageParts DEF AppTypeOK, Carried
  <2> QED
    BY <1>5, <2>1 DEF Age, RemoveServer, vars, AppTypeOK
<1>6. CASE CompleteRemoval
  <2>1. <<>> \in Seq(Message) /\ <<>> \in Seq(Job)
    OBVIOUS
  <2> QED
    BY <1>6, <2>1 DEF CompleteRemoval, AppTypeOK
<1> QED
  BY <1>1, <1>2, <1>3, <1>4, <1>5, <1>6 DEF Next

(***************************************************************************)
(* The messages and the threads.                                           *)
(***************************************************************************)

(* A handler that asks leaves a message to the server whenever it should.  *)
LEMMA RequestAsks ==
  ASSUME AppTypeOK, NEW r, NEW flight \in Seq(Message), Request(r, flight), running' = r
  PROVE  RequestInv'
<1>1. CASE queue # <<>> /\ IsIdle(r)
  <2>1. <<"server", Head(queue)>> \in Message
    BY <1>1 DEF Message, AppTypeOK
  <2>2. inFlight' = Append(flight, <<"server", Head(queue)>>)
    BY <1>1 DEF Request
  <2>3. Len(flight) + 1 \in DOMAIN inFlight' /\ inFlight'[Len(flight) + 1][1] = "server"
    BY <2>1, <2>2, AppendSends
  <2> QED
    BY <2>3 DEF RequestInv, ToServer
<1>2. CASE ~(queue # <<>> /\ IsIdle(r))
  BY <1>2 DEF Request, RequestInv, IsIdle
<1> QED
  BY <1>1, <1>2

(* The server is never idle while jobs wait, unless it has asked already.  *)
LEMMA RequestStep == ASSUME AppInv, [Next]_vars PROVE RequestInv'
<1>1. AppTypeOK /\ RequestInv
  BY DEF AppInv
<1>2. CASE Arrive
  <2>1. inFlight' = Append(inFlight, <<"queue", arrived + 1>>) /\ UNCHANGED <<queue, running>>
    BY <1>2 DEF Arrive
  <2>2. \A i \in DOMAIN inFlight : i \in DOMAIN inFlight' /\ inFlight'[i] = inFlight[i]
    BY <1>1, <2>1 DEF AppTypeOK
  <2> QED
    BY <1>1, <2>1, <2>2 DEF RequestInv, IsIdle, ToServer
<1>3. ASSUME NEW j \in Job, QueueReceives(j) PROVE RequestInv'
  <2> DEFINE t == Tail(inFlight)
  <2>1. t \in Seq(Message) /\ Len(t) = Len(inFlight) - 1
        /\ \A i \in 1 .. Len(t) : t[i] = inFlight[i + 1]
    BY <1>1, <1>3, TailConsumes DEF QueueReceives, Consumed
  <2>2. inFlight[1][1] = "queue" /\ inFlight \in Seq(Message)
    BY <1>1, <1>3 DEF QueueReceives, AppTypeOK
  <2>3. ASSUME NEW i \in DOMAIN inFlight, ToServer(inFlight, i)
        PROVE  \E k \in 1 .. Len(t) : ToServer(t, k)
    <3>1. i # 1
      BY <2>2, <2>3 DEF ToServer
    <3>2. i - 1 \in 1 .. Len(t) /\ t[i - 1] = inFlight[i]
      BY <2>1, <2>2, <3>1
    <3> QED
      BY <2>3, <3>2 DEF ToServer
  <2> HIDE DEF t
  <2>4. CASE UNCHANGED queue /\ inFlight' = t
    BY <1>1, <1>3, <2>1, <2>3, <2>4 DEF QueueReceives, RequestInv, IsIdle, ToServer
  <2>5. CASE inFlight' = Append(t, <<"server", j>>)
    <3>1. <<"server", j>> \in Message
      BY DEF Message
    <3>2. Len(t) + 1 \in DOMAIN inFlight' /\ inFlight'[Len(t) + 1][1] = "server"
      BY <2>1, <2>5, <3>1, AppendSends
    <3> QED
      BY <3>2 DEF RequestInv, ToServer
  <2>6. CASE ~IsIdle(running)
    BY <1>3, <2>6 DEF QueueReceives, RequestInv, IsIdle
  <2> QED
    BY <1>3, <2>4, <2>5, <2>6 DEF QueueReceives, t
<1>4. ASSUME NEW j \in Job, ServerReceives(j) PROVE RequestInv'
  <2>1. Tail(inFlight) \in Seq(Message)
    BY <1>1, <1>4, TailConsumes DEF ServerReceives, Consumed
  <2> QED
    BY <1>1, <1>4, <2>1, RequestAsks DEF ServerReceives
<1>5. ASSUME NEW S \in SUBSET Job, EndExecution(S) PROVE RequestInv'
  <2>1. inFlight \in Seq(Message)
    BY <1>1 DEF AppTypeOK
  <2> QED
    BY <1>1, <1>5, <2>1, RequestAsks DEF EndExecution
<1>6. CASE (\E j \in Job : Age(j)) \/ RemoveServer \/ UNCHANGED vars
  BY <1>1, <1>6 DEF Age, RemoveServer, vars, RequestInv, IsIdle, ToServer
<1>7. CASE CompleteRemoval
  BY <1>7 DEF CompleteRemoval, RequestInv
<1> QED
  BY <1>2, <1>3, <1>4, <1>5, <1>6, <1>7 DEF Next

(* The jobs that messages carry are no more than the messages.             *)
LEMMA SentBounded ==
  ASSUME NEW f \in Seq(Message)
  PROVE  /\ Sent(f) \in SUBSET Job /\ IsFiniteSet(Sent(f))
         /\ Cardinality(Sent(f)) \in Nat /\ Cardinality(Sent(f)) <= Len(f)
<1> DEFINE g == [i \in 1 .. Len(f) |-> f[i][2]]
<1>1. Len(f) \in Nat /\ DOMAIN f = 1 .. Len(f) /\ \A i \in 1 .. Len(f) : f[i][2] \in Job
  BY MessageParts
<1>2. IsFiniteSet(1 .. Len(f)) /\ Cardinality(1 .. Len(f)) = Len(f)
  BY <1>1, FS_Interval
<1>3. g \in Surjection(1 .. Len(f), Carried(f))
  BY <1>1 DEF Carried, Surjection
<1>4. IsFiniteSet(Carried(f)) /\ Cardinality(Carried(f)) <= Len(f)
  BY <1>1, <1>2, <1>3, FS_Surjection
<1>5. Sent(f) \in SUBSET Carried(f) /\ Carried(f) \in SUBSET Job
  BY <1>1 DEF Sent, Carried
<1> QED
  BY <1>1, <1>4, <1>5, FS_Subset, FS_CardinalityType

(* A message to the server adds its job, the others are as before.         *)
LEMMA SentMore ==
  ASSUME NEW f \in Seq(Message), NEW m \in Message
  PROVE  Sent(Append(f, m)) \subseteq Sent(f) \cup {m[2]}
         /\ (m[1] = "queue" => Sent(Append(f, m)) \subseteq Sent(f))
<1> DEFINE g == Append(f, m)
<1>1. \A i \in DOMAIN g : (i \in DOMAIN f /\ g[i] = f[i]) \/ g[i] = m
  BY AppendSends
<1> HIDE DEF g
<1>2. Sent(g) \subseteq Sent(f) \cup {m[2]} /\ (m[1] = "queue" => Sent(g) \subseteq Sent(f))
  BY <1>1 DEF Sent, ToServer
<1> QED
  BY <1>2 DEF g

LEMMA SentLess ==
  ASSUME NEW f \in Seq(Message), f # <<>>
  PROVE  Sent(Tail(f)) \subseteq Sent(f)
<1>1. \A i \in DOMAIN Tail(f) : i + 1 \in DOMAIN f /\ Tail(f)[i] = f[i + 1]
  OBVIOUS
<1> QED
  BY <1>1 DEF Sent, ToServer

(* While the server is idle, a handler may send it one more job.           *)
LEMMA OneMoreSent ==
  ASSUME NEW r \in SUBSET Job, NEW f \in Seq(Message), Len(f) <= Burst, IsIdle(r),
         NEW j \in Job, NEW S \in SUBSET (r \cup Sent(f) \cup {j})
  PROVE  Cardinality(S) <= Threads + Burst
<1>1. /\ IsFiniteSet(r) /\ Cardinality(r) \in Nat /\ Cardinality(r) < Threads
      /\ IsFiniteSet(Sent(f)) /\ Cardinality(Sent(f)) \in Nat /\ Cardinality(Sent(f)) <= Burst
  BY RunningFinite, SentBounded, OptionsAssumption DEF IsIdle
<1>2. /\ IsFiniteSet(r \cup Sent(f)) /\ Cardinality(r \cup Sent(f)) \in Nat
      /\ Cardinality(r \cap Sent(f)) \in Nat
      /\ Cardinality(r \cup Sent(f)) = Cardinality(r) + Cardinality(Sent(f))
                                         - Cardinality(r \cap Sent(f))
  <2>1. r \cap Sent(f) \in SUBSET r
    OBVIOUS
  <2> QED
    BY <1>1, <2>1, FS_Union, FS_Subset, FS_CardinalityType
<1>3. /\ IsFiniteSet(r \cup Sent(f) \cup {j})
      /\ Cardinality(r \cup Sent(f) \cup {j}) <= Cardinality(r \cup Sent(f)) + 1
      /\ Cardinality(r \cup Sent(f) \cup {j}) \in Nat
  <2> DEFINE U == r \cup Sent(f)
  <2>1. IsFiniteSet(U) /\ Cardinality(U) \in Nat
    BY <1>2
  <2> HIDE DEF U
  <2>2. /\ IsFiniteSet(U \cup {j})
        /\ Cardinality(U \cup {j}) = IF j \in U THEN Cardinality(U) ELSE Cardinality(U) + 1
    BY <2>1, FS_AddElement
  <2>3. Cardinality(U \cup {j}) <= Cardinality(U) + 1 /\ Cardinality(U \cup {j}) \in Nat
    BY <2>1, <2>2
  <2> QED
    BY <2>2, <2>3 DEF U
<1>4. Cardinality(S) <= Cardinality(r \cup Sent(f) \cup {j}) /\ Cardinality(S) \in Nat
  BY <1>3, FS_Subset, FS_CardinalityType
<1> QED
  BY <1>1, <1>2, <1>3, <1>4, SizesAssumption, OptionsAssumption

(* The request at the end of a handler.                                    *)
LEMMA RequestBounded ==
  ASSUME AppTypeOK, NEW r \in SUBSET Job, NEW flight \in Seq(Message), Request(r, flight),
         Len(flight) <= Burst, Cardinality(r \cup Sent(flight)) <= Threads + Burst
  PROVE  /\ Cardinality(r \cup Sent(inFlight')) <= Threads + Burst
         /\ Len(inFlight') <= Len(flight) + 1 /\ Len(inFlight') \in Nat
<1>1. CASE queue # <<>> /\ IsIdle(r)
  <2> DEFINE m == <<"server", Head(queue)>>
  <2>1. Head(queue) \in Job /\ inFlight' = Append(flight, m)
    BY <1>1 DEF Request, AppTypeOK
  <2>2. m \in Message /\ m[2] = Head(queue)
    BY <2>1 DEF Message
  <2> HIDE DEF m
  <2>3. /\ Sent(inFlight') \subseteq Sent(flight) \cup {Head(queue)}
        /\ Len(inFlight') = Len(flight) + 1 /\ Len(flight) \in Nat
    BY <2>1, <2>2, SentMore, AppendSends
  <2> QED
    BY <1>1, <2>1, <2>3, OneMoreSent
<1>2. CASE ~(queue # <<>> /\ IsIdle(r))
  <2>1. inFlight' = flight /\ Len(flight) \in Nat
    BY <1>2 DEF Request
  <2> QED
    BY <2>1
<1> QED
  BY <1>1, <1>2

(* The server runs no more jobs than it has threads, but for those that    *)
(* join while others are on their way.                                     *)
LEMMA ThreadStep == ASSUME AppInv, [Next]_vars PROVE ThreadInv'
<1> SUFFICES /\ Len(inFlight') <= 1 + joined'
             /\ Cardinality(running' \cup Sent(inFlight')) <= Threads + Burst
  BY DEF ThreadInv, Sent, ToServer
<1>1. /\ AppTypeOK /\ Len(inFlight) <= 1 + joined
      /\ Cardinality(running \cup Sent(inFlight)) <= Threads + Burst
  BY DEF AppInv, ThreadInv
<1>2. inFlight \in Seq(Message) /\ running \in SUBSET Job /\ joined \in Nat /\ joined <= Burst
  BY <1>1, OptionsAssumption DEF AppTypeOK
<1>3. ASSUME NEW S \in SUBSET (running \cup Sent(inFlight))
      PROVE  Cardinality(S) <= Threads + Burst
  <2>1. running \cup Sent(inFlight) \in SUBSET Job
    BY <1>2, SentBounded
  <2>2. Cardinality(S) <= Cardinality(running \cup Sent(inFlight))
        /\ Cardinality(S) \in Nat /\ Cardinality(running \cup Sent(inFlight)) \in Nat
    BY <2>1, RunningFinite, FS_Subset, FS_CardinalityType
  <2> QED
    BY <1>1, <2>2, SizesAssumption, OptionsAssumption
<1>4. CASE Arrive
  <2> DEFINE m == <<"queue", arrived + 1>>
  <2>1. m \in Message /\ m[1] = "queue"
    <3>1. arrived + 1 \in Job
      BY <1>1, <1>4, SizesAssumption DEF Arrive, AppTypeOK, Job
    <3> QED
      BY <3>1 DEF Message
  <2>2. inFlight' = Append(inFlight, m) /\ running' = running
    BY <1>4 DEF Arrive
  <2> HIDE DEF m
  <2>3. Sent(inFlight') \subseteq Sent(inFlight) /\ Len(inFlight') = Len(inFlight) + 1
    BY <1>2, <2>1, <2>2, SentMore, AppendSends
  <2>4. Len(inFlight') <= 1 + joined'
    <3>1. CASE inFlight = <<>> /\ joined' = 0
      BY <2>3, <3>1, EmptySeq
    <3>2. CASE joined' = joined + 1
      BY <1>1, <1>2, <2>3, <3>2
    <3> QED
      BY <1>4, <3>1, <3>2 DEF Arrive
  <2> QED
    BY <1>3, <2>2, <2>3, <2>4
<1>5. ASSUME inFlight # <<>>
      PROVE  /\ Tail(inFlight) \in Seq(Message) /\ Len(Tail(inFlight)) + 1 = Len(inFlight)
             /\ Len(Tail(inFlight)) <= Burst /\ Sent(Tail(inFlight)) \subseteq Sent(inFlight)
             /\ Len(Tail(inFlight)) \in Nat
  <2>1. Tail(inFlight) \in Seq(Message) /\ Len(Tail(inFlight)) = Len(inFlight) - 1
    BY <1>1, <1>5, TailConsumes DEF Consumed
  <2>2. Len(inFlight) \in Nat /\ Len(Tail(inFlight)) \in Nat
    BY <1>2, <2>1
  <2> QED
    BY <1>1, <1>2, <1>5, <2>1, <2>2, SentLess, OptionsAssumption
<1>6. ASSUME NEW j \in Job, QueueReceives(j)
      PROVE  /\ Len(inFlight') <= 1 + joined'
             /\ Cardinality(running' \cup Sent(inFlight')) <= Threads + Burst
  <2>1. inFlight # <<>> /\ joined' = joined /\ running' = running
    BY <1>6 DEF QueueReceives
  <2>2. CASE inFlight' = Tail(inFlight)
    BY <1>1, <1>2, <1>3, <1>5, <2>1, <2>2
  <2>3. CASE IsIdle(running) /\ inFlight' = Append(Tail(inFlight), <<"server", j>>)
    <3>1. <<"server", j>> \in Message /\ <<"server", j>>[2] = j
      BY DEF Message
    <3>2. Sent(inFlight') \subseteq Sent(Tail(inFlight)) \cup {j}
          /\ Len(inFlight') = Len(inFlight)
      BY <1>5, <2>1, <2>3, <3>1, SentMore, AppendSends
    <3> QED
      BY <1>1, <1>2, <1>5, <2>1, <2>3, <3>2, OneMoreSent
  <2> QED
    BY <1>6, <2>2, <2>3 DEF QueueReceives
<1>7. ASSUME NEW j \in Job, ServerReceives(j)
      PROVE  /\ Len(inFlight') <= 1 + joined'
             /\ Cardinality(running' \cup Sent(inFlight')) <= Threads + Burst
  <2>1. /\ inFlight # <<>> /\ joined' = joined /\ Head(inFlight) = <<"server", j>>
        /\ running' \in SUBSET (running \cup {j}) /\ Request(running', Tail(inFlight))
    BY <1>7 DEF ServerReceives
  <2>2. j \in Sent(inFlight)
    <3>1. 1 \in DOMAIN inFlight /\ inFlight[1][1] = "server" /\ inFlight[1][2] = j
      BY <1>2, <2>1
    <3> QED
      BY <3>1 DEF Sent, ToServer
  <2>3. running' \in SUBSET Job /\ Cardinality(running' \cup Sent(Tail(inFlight))) <= Threads + Burst
    BY <1>2, <1>3, <1>5, <2>1, <2>2
  <2>4. /\ Cardinality(running' \cup Sent(inFlight')) <= Threads + Burst
        /\ Len(inFlight') <= Len(Tail(inFlight)) + 1 /\ Len(inFlight') \in Nat
    BY <1>1, <1>5, <2>1, <2>3, RequestBounded
  <2>5. /\ Len(Tail(inFlight)) + 1 = Len(inFlight) /\ Len(Tail(inFlight)) \in Nat
        /\ joined' = joined
    BY <1>5, <2>1
  <2>6. Len(inFlight') <= 1 + joined'
    BY <1>1, <1>2, <2>4, <2>5
  <2> QED
    BY <2>4, <2>6
<1>8. ASSUME NEW S \in SUBSET Job, EndExecution(S)
      PROVE  /\ Len(inFlight') <= 1 + joined'
             /\ Cardinality(running' \cup Sent(inFlight')) <= Threads + Burst
  <2>1. /\ Request(running', inFlight) /\ running' \in SUBSET running
        /\ inFlight = <<>> /\ joined' = 0
    BY <1>8 DEF EndExecution
  <2>2. running' \in SUBSET Job /\ Cardinality(running' \cup Sent(inFlight)) <= Threads + Burst
    BY <1>2, <1>3, <2>1
  <2>3. Len(inFlight) = 0 /\ Len(inFlight) <= Burst
    BY <2>1, EmptySeq, OptionsAssumption
  <2>4. /\ Cardinality(running' \cup Sent(inFlight')) <= Threads + Burst
        /\ Len(inFlight') <= Len(inFlight) + 1
    BY <1>1, <1>2, <2>1, <2>2, <2>3, RequestBounded
  <2> QED
    BY <2>1, <2>3, <2>4
<1>9. CASE (\E j \in Job : Age(j)) \/ RemoveServer \/ UNCHANGED vars
  <2>1. UNCHANGED <<running, inFlight, joined>>
    BY <1>9 DEF Age, RemoveServer, vars
  <2> QED
    BY <1>1, <2>1
<1>10. CASE CompleteRemoval
  <2>1. inFlight' = <<>> /\ running' = {} /\ joined' = joined
    BY <1>10 DEF CompleteRemoval
  <2>2. running' \cup Sent(inFlight') = {} /\ Len(inFlight') = 0
    BY <2>1 DEF Sent
  <2>3. Cardinality(running' \cup Sent(inFlight')) = 0
    BY <2>2, FS_EmptySet
  <2> QED
    BY <1>2, <2>1, <2>2, <2>3, SizesAssumption, OptionsAssumption
<1> QED
  BY <1>4, <1>6, <1>7, <1>8, <1>9, <1>10 DEF Next

(***************************************************************************)
(* The order of the jobs.                                                  *)
(***************************************************************************)

(* A message is dropped from the front, or added at the end; a job leaves  *)
(* the queue at the front, or joins it at the end.                         *)
LEMMA OrderedConsumed ==
  ASSUME NEW f \in Seq(Message), f # <<>>, NEW q \in Seq(Job), NEW n, Ordered(f, q, n)
  PROVE  Ordered(Tail(f), q, n)
<1> DEFINE g == Tail(f)
<1>1. Len(g) = Len(f) - 1 /\ \A i \in 1 .. Len(g) : g[i] = f[i + 1] /\ i + 1 \in 1 .. Len(f)
  OBVIOUS
<1>2. DOMAIN g = 1 .. Len(g) /\ DOMAIN f = 1 .. Len(f)
  OBVIOUS
<1> HIDE DEF g
<1>3. \A i \in DOMAIN g : i + 1 \in DOMAIN f /\ g[i] = f[i + 1]
  BY <1>1, <1>2
<1>4. \A i, k \in DOMAIN g : i < k => i + 1 < k + 1
  BY <1>2
<1>5. Ordered(g, q, n)
  BY <1>3, <1>4 DEF Ordered, ToQueue, ToServer
<1> QED
  BY <1>5 DEF g

LEMMA OrderedSent ==
  ASSUME NEW f \in Seq(Message), NEW q \in Seq(Job), NEW n, Ordered(f, q, n),
         NEW j \in Job, j <= n, \A i \in DOMAIN f : ToQueue(f, i) => j < f[i][2]
  PROVE  Ordered(Append(f, <<"server", j>>), q, n)
<1> DEFINE m == <<"server", j>>
           g == Append(f, m)
<1>1. m \in Message /\ m[1] = "server" /\ m[2] = j
  BY DEF Message
<1>2. \A i \in DOMAIN g : (i \in DOMAIN f /\ g[i] = f[i]) \/ (i = Len(f) + 1 /\ g[i] = m)
  BY <1>1, AppendSends
<1> HIDE DEF g, m
<1>3. \A i \in DOMAIN g : ToQueue(g, i) => i \in DOMAIN f /\ g[i] = f[i] /\ ToQueue(f, i)
  BY <1>1, <1>2 DEF ToQueue
<1>4. \A i \in DOMAIN g : ToServer(g, i) => g[i][2] = j \/ (i \in DOMAIN f /\ g[i] = f[i] /\ ToServer(f, i))
  BY <1>1, <1>2 DEF ToServer
<1>5. \A i \in DOMAIN g : g[i][2] <= n
  BY <1>1, <1>2 DEF Ordered
<1>6. Ordered(g, q, n)
  BY <1>3, <1>4, <1>5 DEF Ordered
<1> QED
  BY <1>6 DEF g, m

LEMMA OrderedTaken ==
  ASSUME NEW f \in Seq(Message), NEW q \in Seq(Job), q # <<>>, NEW n, Ordered(f, q, n)
  PROVE  /\ Ordered(f, Tail(q), n)
         /\ Head(q) \in Job /\ Head(q) <= n
         /\ \A i \in DOMAIN f : ToQueue(f, i) => Head(q) < f[i][2]
         /\ \A k \in DOMAIN Tail(q) : Head(q) < Tail(q)[k]
         /\ \A k \in DOMAIN Tail(q) : k + 1 \in DOMAIN q /\ Tail(q)[k] = q[k + 1]
<1> DEFINE p == Tail(q)
<1>1. Len(p) = Len(q) - 1 /\ \A i \in 1 .. Len(p) : p[i] = q[i + 1] /\ i + 1 \in 1 .. Len(q)
  OBVIOUS
<1>2. DOMAIN p = 1 .. Len(p) /\ DOMAIN q = 1 .. Len(q)
  OBVIOUS
<1>3. 1 \in DOMAIN q /\ Head(q) = q[1] /\ Head(q) \in Job
  OBVIOUS
<1> HIDE DEF p
<1>4. \A i \in DOMAIN p : i + 1 \in DOMAIN q /\ p[i] = q[i + 1] /\ 1 < i + 1
  BY <1>1, <1>2
<1>5. \A i, k \in DOMAIN p : i < k => i + 1 < k + 1
  BY <1>2
<1>6. Ordered(f, p, n)
  BY <1>4, <1>5 DEF Ordered
<1>7. Head(q) <= n /\ \A i \in DOMAIN f : ToQueue(f, i) => Head(q) < f[i][2]
  BY <1>3 DEF Ordered
<1>8. \A k \in DOMAIN p : Head(q) < p[k]
  BY <1>3, <1>4 DEF Ordered
<1> QED
  BY <1>3, <1>4, <1>6, <1>7, <1>8 DEF p

LEMMA OrderedQueued ==
  ASSUME NEW f \in Seq(Message), NEW q \in Seq(Job), NEW n, Ordered(f, q, n),
         NEW j \in Job, j <= n, \A i \in DOMAIN f : ToQueue(f, i) => j < f[i][2],
         \A k \in DOMAIN q : q[k] < j
  PROVE  Ordered(f, Append(q, j), n)
<1> DEFINE p == Append(q, j)
<1>1. \A i \in DOMAIN p : (i \in DOMAIN q /\ p[i] = q[i]) \/ (i = Len(q) + 1 /\ p[i] = j)
  BY AppendSends
<1>2. \A i \in DOMAIN q : i < Len(q) + 1
  OBVIOUS
<1> HIDE DEF p
<1>3. \A i, k \in DOMAIN p : i < k => p[i] < p[k]
  <2> SUFFICES ASSUME NEW i \in DOMAIN p, NEW k \in DOMAIN p, i < k PROVE p[i] < p[k]
    OBVIOUS
  <2>1. i \in Nat /\ k \in Nat /\ Len(q) \in Nat /\ k <= Len(q) + 1
    BY AppendSends DEF p
  <2>2. i \in DOMAIN q /\ p[i] = q[i]
    BY <1>1, <2>1
  <2> QED
    BY <1>1, <2>2 DEF Ordered
<1>4. \A k \in DOMAIN p : p[k] <= n
  BY <1>1 DEF Ordered
<1>5. \A i \in DOMAIN f, k \in DOMAIN p : ToQueue(f, i) => p[k] < f[i][2]
  BY <1>1 DEF Ordered
<1>6. Ordered(f, p, n)
  BY <1>3, <1>4, <1>5 DEF Ordered
<1> QED
  BY <1>6 DEF p

LEMMA OrderedArrived ==
  ASSUME NEW f \in Seq(Message), NEW q \in Seq(Job), NEW n \in Nat, Ordered(f, q, n),
         n + 1 \in Job
  PROVE  Ordered(Append(f, <<"queue", n + 1>>), q, n + 1)
<1> DEFINE m == <<"queue", n + 1>>
           g == Append(f, m)
<1>1. m \in Message /\ m[1] = "queue" /\ m[2] = n + 1
  BY DEF Message
<1>2. \A i \in DOMAIN g : (i \in DOMAIN f /\ g[i] = f[i]) \/ (i = Len(f) + 1 /\ g[i] = m)
  BY <1>1, AppendSends
<1>3. \A i \in DOMAIN f : i < Len(f) + 1 /\ f[i][2] \in Job
  BY MessageParts
<1>4. \A k \in DOMAIN q : q[k] \in Job
  OBVIOUS
<1>5. \A i \in DOMAIN g : i \in Nat /\ i <= Len(f) + 1
  BY <1>1, AppendSends
<1> HIDE DEF g, m
<1>6. /\ \A i \in DOMAIN f : f[i][2] < n + 1
      /\ \A k \in DOMAIN q : q[k] < n + 1
  BY <1>3, <1>4 DEF Ordered, Job
<1>7. ASSUME NEW i \in DOMAIN g, NEW k \in DOMAIN g, ToQueue(g, i), ToQueue(g, k), i < k
      PROVE  g[i][2] < g[k][2]
  <2>1. i \in DOMAIN f /\ g[i] = f[i]
    BY <1>2, <1>5, <1>7
  <2> QED
    BY <1>1, <1>2, <1>6, <1>7, <2>1 DEF Ordered, ToQueue
<1>8. ASSUME NEW i \in DOMAIN g, NEW k \in DOMAIN q, ToQueue(g, i) PROVE q[k] < g[i][2]
  BY <1>1, <1>2, <1>6, <1>8 DEF Ordered, ToQueue
<1>9. ASSUME NEW i \in DOMAIN g, NEW k \in DOMAIN g, ToServer(g, i), ToQueue(g, k)
      PROVE  g[i][2] < g[k][2]
  <2>1. i \in DOMAIN f /\ g[i] = f[i]
    BY <1>1, <1>2, <1>9 DEF ToServer
  <2> QED
    BY <1>1, <1>2, <1>6, <1>9, <2>1 DEF Ordered, ToQueue, ToServer
<1>10. /\ \A i \in DOMAIN g : g[i][2] <= n + 1
       /\ \A k \in DOMAIN q : q[k] <= n + 1
  BY <1>1, <1>2, <1>3, <1>4, <1>6 DEF Job
<1>11. Ordered(g, q, n + 1)
  BY <1>7, <1>8, <1>9, <1>10 DEF Ordered
<1> QED
  BY <1>11 DEF g, m

(* The job of the message that is handled came before those of the others. *)
LEMMA HeadIsFirst ==
  ASSUME NEW f \in Seq(Message), f # <<>>, NEW q \in Seq(Job), NEW n, Ordered(f, q, n),
         NEW j \in Job, Head(f) = <<"queue", j>>
  PROVE  /\ j <= n
         /\ \A i \in DOMAIN Tail(f) : ToQueue(Tail(f), i) => j < Tail(f)[i][2]
         /\ \A k \in DOMAIN q : q[k] < j
         /\ \A i \in DOMAIN Tail(f) : ToServer(Tail(f), i) => Tail(f)[i][2] < j
<1> DEFINE g == Tail(f)
<1>1. Len(g) = Len(f) - 1 /\ \A i \in 1 .. Len(g) : g[i] = f[i + 1] /\ i + 1 \in 1 .. Len(f)
  OBVIOUS
<1>2. DOMAIN g = 1 .. Len(g) /\ DOMAIN f = 1 .. Len(f)
  OBVIOUS
<1>3. 1 \in DOMAIN f /\ f[1] = <<"queue", j>>
  OBVIOUS
<1>4. f[1][1] = "queue" /\ f[1][2] = j
  BY <1>3
<1> HIDE DEF g
<1>5. \A i \in DOMAIN g : i + 1 \in DOMAIN f /\ g[i] = f[i + 1] /\ 1 < i + 1
  BY <1>1, <1>2
<1>6. \A i \in DOMAIN g : ToQueue(g, i) => j < g[i][2]
  BY <1>3, <1>4, <1>5 DEF Ordered, ToQueue
<1>7. \A i \in DOMAIN g : ToServer(g, i) => g[i][2] < j
  BY <1>3, <1>4, <1>5 DEF Ordered, ToQueue, ToServer
<1>8. j <= n /\ \A k \in DOMAIN q : q[k] < j
  BY <1>3, <1>4 DEF Ordered, ToQueue
<1> QED
  BY <1>6, <1>7, <1>8 DEF g

(* Asking for a job keeps the order.                                       *)
LEMMA OrderedRequest ==
  ASSUME AppTypeOK, NEW r, NEW flight \in Seq(Message), Request(r, flight),
         Ordered(flight, queue, arrived)
  PROVE  Ordered(inFlight', queue', arrived)
<1>1. queue \in Seq(Job)
  BY DEF AppTypeOK
<1>2. CASE queue # <<>> /\ IsIdle(r)
  <2>1. inFlight' = Append(flight, <<"server", Head(queue)>>) /\ queue' = Tail(queue)
    BY <1>2 DEF Request
  <2>2. /\ Ordered(flight, queue', arrived)
        /\ Head(queue) \in Job /\ Head(queue) <= arrived
        /\ \A i \in DOMAIN flight : ToQueue(flight, i) => Head(queue) < flight[i][2]
    BY <1>1, <1>2, <2>1, OrderedTaken
  <2>3. queue' \in Seq(Job)
    BY <1>1, <1>2, <2>1
  <2> QED
    BY <2>1, <2>2, <2>3, OrderedSent
<1>3. CASE ~(queue # <<>> /\ IsIdle(r))
  BY <1>3 DEF Request
<1> QED
  BY <1>2, <1>3

LEMMA OrderStep == ASSUME AppInv, [Next]_vars PROVE OrderInv'
<1>1. AppTypeOK /\ Ordered(inFlight, queue, arrived)
  BY DEF AppInv, OrderInv
<1>2. inFlight \in Seq(Message) /\ queue \in Seq(Job) /\ arrived \in Nat
  BY <1>1, SizesAssumption DEF AppTypeOK
<1>3. CASE Arrive
  <2>1. arrived + 1 \in Job
    BY <1>2, <1>3, SizesAssumption DEF Arrive, Job
  <2> QED
    BY <1>1, <1>2, <1>3, <2>1, OrderedArrived DEF Arrive, OrderInv
<1>4. ASSUME NEW j \in Job, QueueReceives(j) PROVE OrderInv'
  <2>1. inFlight # <<>> /\ Head(inFlight) = <<"queue", j>> /\ arrived' = arrived
    BY <1>4 DEF QueueReceives
  <2>2. Tail(inFlight) \in Seq(Message) /\ Ordered(Tail(inFlight), queue, arrived)
    BY <1>1, <1>2, <2>1, OrderedConsumed
  <2>3. /\ j <= arrived
        /\ \A i \in DOMAIN Tail(inFlight) :
             ToQueue(Tail(inFlight), i) => j < Tail(inFlight)[i][2]
        /\ \A k \in DOMAIN queue : queue[k] < j
    BY <1>1, <1>2, <2>1, HeadIsFirst
  <2>4. CASE inFlight' = Tail(inFlight) /\ queue' = queue
    BY <2>1, <2>2, <2>4 DEF OrderInv
  <2>5. CASE inFlight' = Append(Tail(inFlight), <<"server", j>>) /\ queue' = queue
    BY <1>2, <2>1, <2>2, <2>3, <2>5, OrderedSent DEF OrderInv
  <2>6. CASE inFlight' = Tail(inFlight) /\ queue' = Append(queue, j)
    BY <1>2, <2>1, <2>2, <2>3, <2>6, OrderedQueued DEF OrderInv
  <2> QED
    BY <1>4, <2>4, <2>5, <2>6 DEF QueueReceives
<1>5. ASSUME NEW j \in Job, ServerReceives(j) PROVE OrderInv'
  <2>1. inFlight # <<>> /\ arrived' = arrived
    BY <1>5 DEF ServerReceives
  <2>2. Tail(inFlight) \in Seq(Message) /\ Ordered(Tail(inFlight), queue, arrived)
    BY <1>1, <1>2, <2>1, OrderedConsumed
  <2> QED
    BY <1>1, <1>5, <2>1, <2>2, OrderedRequest DEF ServerReceives, OrderInv
<1>6. ASSUME NEW S \in SUBSET Job, EndExecution(S) PROVE OrderInv'
  BY <1>1, <1>2, <1>6, OrderedRequest DEF EndExecution, OrderInv
<1>7. CASE (\E j \in Job : Age(j)) \/ RemoveServer \/ UNCHANGED vars
  BY <1>1, <1>7 DEF Age, RemoveServer, vars, OrderInv
<1>8. CASE CompleteRemoval
  <2>1. DOMAIN inFlight' = {} /\ DOMAIN queue' = {}
    BY <1>8 DEF CompleteRemoval
  <2> QED
    BY <2>1 DEF OrderInv, Ordered
<1> QED
  BY <1>3, <1>4, <1>5, <1>6, <1>7, <1>8 DEF Next

(* ServerFirst under the same changes.                                     *)
LEMMA ServerFirstConsumed ==
  ASSUME NEW f \in Seq(Message), f # <<>>, NEW q \in Seq(Job), ServerFirst(f, q)
  PROVE  ServerFirst(Tail(f), q)
<1>1. \A i \in DOMAIN Tail(f) : i + 1 \in DOMAIN f /\ Tail(f)[i] = f[i + 1]
  OBVIOUS
<1> QED
  BY <1>1 DEF ServerFirst, ToServer

LEMMA ServerFirstSent ==
  ASSUME NEW f \in Seq(Message), NEW q \in Seq(Job), ServerFirst(f, q), NEW m \in Message,
         m[1] = "server" => \A k \in DOMAIN q : m[2] < q[k]
  PROVE  ServerFirst(Append(f, m), q)
<1> DEFINE g == Append(f, m)
<1>1. \A i \in DOMAIN g : (i \in DOMAIN f /\ g[i] = f[i]) \/ g[i] = m
  BY AppendSends
<1> HIDE DEF g
<1>2. ServerFirst(g, q)
  BY <1>1 DEF ServerFirst, ToServer
<1> QED
  BY <1>2 DEF g

LEMMA ServerFirstRequest ==
  ASSUME AppTypeOK, NEW r, NEW flight \in Seq(Message), Request(r, flight),
         Ordered(flight, queue, arrived), ServerFirst(flight, queue)
  PROVE  ServerFirst(inFlight', queue')
<1>1. queue \in Seq(Job)
  BY DEF AppTypeOK
<1>2. CASE queue # <<>> /\ IsIdle(r)
  <2>1. inFlight' = Append(flight, <<"server", Head(queue)>>) /\ queue' = Tail(queue)
    BY <1>2 DEF Request
  <2>2. /\ Head(queue) \in Job
        /\ \A k \in DOMAIN queue' : Head(queue) < queue'[k]
        /\ \A k \in DOMAIN queue' : k + 1 \in DOMAIN queue /\ queue'[k] = queue[k + 1]
    BY <1>1, <1>2, <2>1, OrderedTaken
  <2>3. queue' \in Seq(Job)
    BY <1>1, <1>2, <2>1
  <2>4. ServerFirst(flight, queue')
    BY <2>2 DEF ServerFirst
  <2>5. <<"server", Head(queue)>> \in Message /\ <<"server", Head(queue)>>[2] = Head(queue)
    BY <2>2 DEF Message
  <2> QED
    BY <2>1, <2>2, <2>3, <2>4, <2>5, ServerFirstSent
<1>3. CASE ~(queue # <<>> /\ IsIdle(r))
  BY <1>3 DEF Request
<1> QED
  BY <1>2, <1>3

(* A job that is sent past the queue finds it empty.                       *)
LEMMA OvertakeStep == ASSUME AppInv, [Next]_vars PROVE OvertakeInv'
<1> SUFFICES ASSUME NoPassing PROVE ServerFirst(inFlight', queue')
  BY DEF OvertakeInv, NoPassing
<1>1. AppTypeOK /\ Ordered(inFlight, queue, arrived) /\ ServerFirst(inFlight, queue)
  BY DEF AppInv, OrderInv, OvertakeInv
<1>2. inFlight \in Seq(Message) /\ queue \in Seq(Job) /\ arrived \in Nat
  BY <1>1, SizesAssumption DEF AppTypeOK
<1>3. CASE Arrive
  <2>1. arrived + 1 \in Job
    BY <1>2, <1>3, SizesAssumption DEF Arrive, Job
  <2>2. <<"queue", arrived + 1>> \in Message /\ <<"queue", arrived + 1>>[1] # "server"
    BY <2>1 DEF Message
  <2> QED
    BY <1>1, <1>2, <1>3, <2>2, ServerFirstSent DEF Arrive
<1>4. ASSUME NEW j \in Job, QueueReceives(j) PROVE ServerFirst(inFlight', queue')
  <2>1. inFlight # <<>> /\ Head(inFlight) = <<"queue", j>>
    BY <1>4 DEF QueueReceives
  <2>2. Tail(inFlight) \in Seq(Message) /\ ServerFirst(Tail(inFlight), queue)
    BY <1>1, <1>2, <2>1, ServerFirstConsumed
  <2>3. CASE inFlight' = Tail(inFlight) /\ queue' = queue
    BY <2>2, <2>3
  <2>4. CASE /\ ~(Capacity >= 0 /\ Len(queue) >= Capacity) /\ IsIdle(running)
             /\ inFlight' = Append(Tail(inFlight), <<"server", j>>) /\ queue' = queue
    <3>1. queue = <<>>
      <4>1. CASE Capacity = 1
        BY <1>2, <2>4, <4>1, EmptySeq
      <4>2. CASE Burst = 0
        <5>1. Len(inFlight) <= 1 /\ RequestInv
          BY <4>2 DEF AppInv, AppTypeOK, ThreadInv
        <5>2. inFlight[1][1] = "queue" /\ \A i \in DOMAIN inFlight : i = 1
          BY <1>2, <2>1, <5>1
        <5> QED
          BY <2>4, <5>1, <5>2 DEF RequestInv, ToServer
      <4> QED
        BY <4>1, <4>2 DEF NoPassing
    <3>2. <<"server", j>> \in Message /\ DOMAIN queue = {}
      BY <3>1 DEF Message
    <3> QED
      BY <1>2, <2>2, <2>4, <3>2, ServerFirstSent
  <2>5. CASE inFlight' = Tail(inFlight) /\ queue' = Append(queue, j)
    <3>1. \A i \in DOMAIN Tail(inFlight) :
            ToServer(Tail(inFlight), i) => Tail(inFlight)[i][2] < j
      BY <1>1, <1>2, <2>1, HeadIsFirst
    <3>2. \A k \in DOMAIN queue' : (k \in DOMAIN queue /\ queue'[k] = queue[k]) \/ queue'[k] = j
      BY <1>2, <2>5, AppendSends
    <3> QED
      BY <2>2, <2>5, <3>1, <3>2 DEF ServerFirst
  <2> QED
    BY <1>4, <2>3, <2>4, <2>5 DEF QueueReceives
<1>5. ASSUME NEW j \in Job, ServerReceives(j) PROVE ServerFirst(inFlight', queue')
  <2>1. inFlight # <<>>
    BY <1>5 DEF ServerReceives
  <2>2. /\ Tail(inFlight) \in Seq(Message) /\ Ordered(Tail(inFlight), queue, arrived)
        /\ ServerFirst(Tail(inFlight), queue)
    BY <1>1, <1>2, <2>1, OrderedConsumed, ServerFirstConsumed
  <2> QED
    BY <1>1, <1>5, <2>2, ServerFirstRequest DEF ServerReceives
<1>6. ASSUME NEW S \in SUBSET Job, EndExecution(S) PROVE ServerFirst(inFlight', queue')
  BY <1>1, <1>2, <1>6, ServerFirstRequest DEF EndExecution
<1>7. CASE (\E j \in Job : Age(j)) \/ RemoveServer \/ UNCHANGED vars
  BY <1>1, <1>7 DEF Age, RemoveServer, vars
<1>8. CASE CompleteRemoval
  <2>1. DOMAIN inFlight' = {}
    BY <1>8 DEF CompleteRemoval
  <2> QED
    BY <2>1 DEF ServerFirst
<1> QED
  BY <1>3, <1>4, <1>5, <1>6, <1>7, <1>8 DEF Next

(***************************************************************************)
(* Where the jobs are.                                                     *)
(***************************************************************************)

Distinct(flight) == \A i, k \in DOMAIN flight : flight[i][2] = flight[k][2] => i = k

LEMMA CarriedConsumed ==
  ASSUME NEW f \in Seq(Message), f # <<>>
  PROVE  /\ Carried(f) = {Head(f)[2]} \cup Carried(Tail(f))
         /\ Distinct(f) => Distinct(Tail(f)) /\ Head(f)[2] \notin Carried(Tail(f))
<1> DEFINE g == Tail(f)
<1>1. Len(g) = Len(f) - 1 /\ \A i \in 1 .. Len(g) : g[i] = f[i + 1] /\ i + 1 \in 1 .. Len(f)
  OBVIOUS
<1>2. DOMAIN g = 1 .. Len(g) /\ DOMAIN f = 1 .. Len(f)
  OBVIOUS
<1>3. 1 \in DOMAIN f /\ Head(f) = f[1]
  OBVIOUS
<1>4. Len(f) \in Nat
  OBVIOUS
<1> HIDE DEF g
<1>5. \A i \in DOMAIN g : i + 1 \in DOMAIN f /\ g[i] = f[i + 1] /\ i + 1 # 1
  BY <1>1, <1>2
<1>6. \A i \in DOMAIN f : i # 1 => i - 1 \in DOMAIN g /\ g[i - 1] = f[i]
  BY <1>1, <1>2, <1>4
<1>7. \A i, k \in DOMAIN g : i + 1 = k + 1 => i = k
  BY <1>2
<1>8. Carried(f) = {Head(f)[2]} \cup Carried(g)
  BY <1>3, <1>5, <1>6 DEF Carried
<1>9. ASSUME Distinct(f) PROVE Distinct(g) /\ Head(f)[2] \notin Carried(g)
  <2>1. Distinct(g)
    BY <1>5, <1>7, <1>9 DEF Distinct
  <2>2. Head(f)[2] \notin Carried(g)
    BY <1>3, <1>5, <1>9 DEF Distinct, Carried
  <2> QED
    BY <2>1, <2>2
<1> QED
  BY <1>8, <1>9 DEF g

LEMMA CarriedSent ==
  ASSUME NEW f \in Seq(Message), NEW m \in Message
  PROVE  /\ Carried(Append(f, m)) = Carried(f) \cup {m[2]}
         /\ Distinct(f) /\ m[2] \notin Carried(f) => Distinct(Append(f, m))
<1> DEFINE g == Append(f, m)
<1>1. \A i \in DOMAIN g : (i \in DOMAIN f /\ g[i] = f[i]) \/ (i = Len(f) + 1 /\ g[i] = m)
  BY AppendSends
<1>2. /\ \A i \in DOMAIN f : i \in DOMAIN g /\ g[i] = f[i]
      /\ Len(f) + 1 \in DOMAIN g /\ g[Len(f) + 1] = m
  BY AppendSends
<1> HIDE DEF g
<1>3. Carried(g) = Carried(f) \cup {m[2]}
  BY <1>1, <1>2 DEF Carried
<1>4. ASSUME Distinct(f), m[2] \notin Carried(f) PROVE Distinct(g)
  <2> SUFFICES ASSUME NEW i \in DOMAIN g, NEW k \in DOMAIN g, g[i][2] = g[k][2] PROVE i = k
    BY DEF Distinct
  <2>1. CASE i \in DOMAIN f /\ g[i] = f[i] /\ k \in DOMAIN f /\ g[k] = f[k]
    BY <1>4, <2>1 DEF Distinct
  <2>2. CASE i \in DOMAIN f /\ g[i] = f[i] /\ g[k] = m
    BY <1>4, <2>2 DEF Carried
  <2>3. CASE k \in DOMAIN f /\ g[k] = f[k] /\ g[i] = m
    BY <1>4, <2>3 DEF Carried
  <2> QED
    BY <1>1, <2>1, <2>2, <2>3
<1> QED
  BY <1>3, <1>4 DEF g

LEMMA QueueTaken ==
  ASSUME NEW q \in Seq(Job), q # <<>>
  PROVE  /\ Head(q) \in Job
         /\ ToSet(q) = {Head(q)} \cup ToSet(Tail(q))
         /\ (\A i, k \in DOMAIN q : i < k => q[i] < q[k]) => Head(q) \notin ToSet(Tail(q))
<1> DEFINE p == Tail(q)
<1>1. Len(p) = Len(q) - 1 /\ \A i \in 1 .. Len(p) : p[i] = q[i + 1] /\ i + 1 \in 1 .. Len(q)
  OBVIOUS
<1>2. DOMAIN p = 1 .. Len(p) /\ DOMAIN q = 1 .. Len(q)
  OBVIOUS
<1>3. 1 \in DOMAIN q /\ Head(q) = q[1] /\ q[1] \in Job
  OBVIOUS
<1>4. Len(q) \in Nat
  OBVIOUS
<1> HIDE DEF p
<1>5. \A i \in DOMAIN p : i + 1 \in DOMAIN q /\ p[i] = q[i + 1] /\ 1 < i + 1
  BY <1>1, <1>2
<1>6. \A i \in DOMAIN q : i # 1 => i - 1 \in DOMAIN p /\ p[i - 1] = q[i]
  BY <1>1, <1>2, <1>4
<1>7. ToSet(q) = {Head(q)} \cup ToSet(p)
  BY <1>3, <1>5, <1>6 DEF ToSet
<1>8. ASSUME \A i, k \in DOMAIN q : i < k => q[i] < q[k] PROVE Head(q) \notin ToSet(p)
  <2>1. \A i \in DOMAIN p : Head(q) < p[i]
    BY <1>3, <1>5, <1>8
  <2>2. Head(q) \in Nat
    BY <1>3 DEF Job
  <2> QED
    BY <2>1, <2>2 DEF ToSet
<1> QED
  BY <1>3, <1>7, <1>8 DEF p

LEMMA QueueJoined ==
  ASSUME NEW q \in Seq(Job), NEW j \in Job PROVE ToSet(Append(q, j)) = ToSet(q) \cup {j}
<1> DEFINE p == Append(q, j)
<1>1. \A i \in DOMAIN p : (i \in DOMAIN q /\ p[i] = q[i]) \/ p[i] = j
  BY AppendSends
<1>2. /\ \A i \in DOMAIN q : i \in DOMAIN p /\ p[i] = q[i]
      /\ Len(q) + 1 \in DOMAIN p /\ p[Len(q) + 1] = j
  BY AppendSends
<1> HIDE DEF p
<1>3. ToSet(p) = ToSet(q) \cup {j}
  BY <1>1, <1>2 DEF ToSet
<1> QED
  BY <1>3 DEF p

(* Asking moves a job from the queue to the messages, or nothing.          *)
LEMMA RequestMoves ==
  ASSUME AppTypeOK, NEW r, NEW flight \in Seq(Message), Request(r, flight), OrderInv
  PROVE  /\ Carried(inFlight') \cup ToSet(queue') = Carried(flight) \cup ToSet(queue)
         /\ Distinct(flight) /\ Carried(flight) \cap ToSet(queue) = {} =>
              Distinct(inFlight') /\ Carried(inFlight') \cap ToSet(queue') = {}
<1>1. CASE queue # <<>> /\ IsIdle(r)
  <2> DEFINE m == <<"server", Head(queue)>>
  <2>1. inFlight' = Append(flight, m) /\ queue' = Tail(queue)
    BY <1>1 DEF Request
  <2>2. /\ Head(queue) \in Job
        /\ ToSet(queue) = {Head(queue)} \cup ToSet(queue')
        /\ Head(queue) \notin ToSet(queue')
    BY <1>1, <2>1, QueueTaken DEF AppTypeOK, OrderInv, Ordered
  <2>3. m \in Message /\ m[2] = Head(queue)
    BY <2>2 DEF Message
  <2> HIDE DEF m
  <2>4. Carried(inFlight') = Carried(flight) \cup {Head(queue)}
    BY <2>1, <2>3, CarriedSent
  <2>5. ASSUME Distinct(flight), Carried(flight) \cap ToSet(queue) = {}
        PROVE  Distinct(inFlight')
    <3>1. m[2] \notin Carried(flight)
      BY <2>2, <2>3, <2>5
    <3> QED
      BY <2>1, <2>3, <2>5, <3>1, CarriedSent
  <2> QED
    BY <2>2, <2>4, <2>5
<1>2. CASE ~(queue # <<>> /\ IsIdle(r))
  BY <1>2 DEF Request
<1> QED
  BY <1>1, <1>2

(* Where a job that is handled was, and where it is afterwards.            *)
LEMMA WhereJobsAre ==
  Inside = Carried(inFlight) \cup ToSet(queue) \cup running
  BY DEF Inside, Carried

(* A message of the current instant carries a job of the module.           *)
LEMMA MessageInside ==
  ASSUME AppTypeOK, inFlight # <<>> PROVE Inside # {}
<1>1. inFlight \in Seq(Message)
  BY DEF AppTypeOK
<1>2. Carried(inFlight) # {}
  BY <1>1, CarriedConsumed
<1> QED
  BY <1>2, WhereJobsAre

LEMMA JobsInQueue ==
  ASSUME AppInv, NEW j \in Job, QueueReceives(j)
  PROVE  /\ \/ Inside' = Inside /\ dropped' = dropped
            \/ /\ Inside = Inside' \cup {j} /\ j \notin Inside' /\ dropped' = dropped \cup {j}
               /\ queue' = queue /\ queue # <<>>
         /\ Distinct(inFlight') /\ Carried(inFlight') \cap ToSet(queue') = {}
         /\ running' \cap (Carried(inFlight') \cup ToSet(queue')) = {}
<1>1. /\ inFlight \in Seq(Message) /\ queue \in Seq(Job) /\ Distinct(inFlight)
      /\ Carried(inFlight) \cap ToSet(queue) = {}
      /\ running \cap (Carried(inFlight) \cup ToSet(queue)) = {}
  BY DEF AppInv, AppTypeOK, NoJobTwice, Distinct
<1>2. inFlight # <<>> /\ Head(inFlight) = <<"queue", j>> /\ running' = running
  BY DEF QueueReceives
<1> DEFINE t == Tail(inFlight)
<1>3. /\ t \in Seq(Message) /\ Distinct(t)
      /\ Carried(inFlight) = {j} \cup Carried(t) /\ j \notin Carried(t)
  BY <1>1, <1>2, CarriedConsumed
<1>4. <<"server", j>> \in Message
  BY DEF Message
<1> HIDE DEF t
<1>5. CASE /\ Capacity >= 0 /\ Len(queue) >= Capacity /\ queue' = queue
           /\ inFlight' = t /\ dropped' = dropped \cup {j}
  <2>1. queue # <<>>
    BY <1>1, <1>5, CapacityAssumption, EmptySeq
  <2> QED
    BY <1>1, <1>2, <1>3, <1>5, <2>1, WhereJobsAre DEF Inside, Carried
<1>6. CASE queue' = queue /\ inFlight' = Append(t, <<"server", j>>) /\ dropped' = dropped
  <2>1. Carried(inFlight') = Carried(t) \cup {j} /\ Distinct(inFlight')
    BY <1>3, <1>4, <1>6, CarriedSent
  <2>2. Carried(inFlight') = Carried(inFlight)
    BY <1>3, <2>1
  <2>3. Inside' = Inside
    BY <1>2, <1>6, <2>2 DEF Inside, Carried
  <2> QED
    BY <1>1, <1>2, <1>6, <2>1, <2>2, <2>3
<1>7. CASE queue' = Append(queue, j) /\ inFlight' = t /\ dropped' = dropped
  <2>1. ToSet(queue') = ToSet(queue) \cup {j}
    BY <1>1, <1>7, QueueJoined
  <2>2. Inside' = Inside
    BY <1>2, <1>3, <1>7, <2>1 DEF Inside, Carried
  <2>3. Carried(inFlight') = Carried(t)
    BY <1>7
  <2> QED
    BY <1>1, <1>2, <1>3, <1>7, <2>1, <2>2, <2>3
<1> QED
  BY <1>5, <1>6, <1>7 DEF QueueReceives, t

LEMMA JobsInServer ==
  ASSUME AppInv, NEW j \in Job, ServerReceives(j)
  PROVE  /\ \/ /\ j \notin late /\ Inside' = Inside /\ timedOut' = timedOut
            \/ /\ j \in late /\ Inside = Inside' \cup {j} /\ j \notin Inside'
               /\ timedOut' = timedOut \cup {j}
         /\ Distinct(inFlight') /\ Carried(inFlight') \cap ToSet(queue') = {}
         /\ running' \cap (Carried(inFlight') \cup ToSet(queue')) = {}
<1>1. /\ AppTypeOK /\ OrderInv
      /\ inFlight \in Seq(Message) /\ queue \in Seq(Job) /\ Distinct(inFlight)
      /\ Carried(inFlight) \cap ToSet(queue) = {}
      /\ running \cap (Carried(inFlight) \cup ToSet(queue)) = {}
  BY DEF AppInv, AppTypeOK, NoJobTwice, Distinct
<1>2. inFlight # <<>> /\ Head(inFlight) = <<"server", j>>
  BY DEF ServerReceives
<1> DEFINE t == Tail(inFlight)
<1>3. /\ t \in Seq(Message) /\ Distinct(t)
      /\ Carried(inFlight) = {j} \cup Carried(t) /\ j \notin Carried(t)
  BY <1>1, <1>2, CarriedConsumed
<1>4. \/ j \in late /\ timedOut' = timedOut \cup {j} /\ running' = running
      \/ j \notin late /\ timedOut' = timedOut /\ running' = running \cup {j}
  BY DEF ServerReceives
<1>5. \E r : Request(r, t)
  BY DEF ServerReceives
<1> HIDE DEF t
<1>6. Carried(inFlight') \cup ToSet(queue') = Carried(t) \cup ToSet(queue)
  BY <1>1, <1>3, <1>5, RequestMoves
<1>7. Distinct(inFlight') /\ Carried(inFlight') \cap ToSet(queue') = {}
  <2>1. Carried(t) \cap ToSet(queue) = {}
    BY <1>1, <1>3
  <2> QED
    BY <1>1, <1>3, <1>5, <2>1, RequestMoves
<1>8. Inside' = Carried(inFlight') \cup ToSet(queue') \cup running'
  BY DEF Inside, Carried
<1>9. j \notin Carried(inFlight') \cup ToSet(queue') /\ j \notin running
  BY <1>1, <1>3, <1>6
<1>10. running' \cap (Carried(inFlight') \cup ToSet(queue')) = {}
  BY <1>1, <1>3, <1>4, <1>6, <1>9
<1>11. Inside' \cup {j} = Inside
  BY <1>3, <1>4, <1>6, <1>8, WhereJobsAre
<1> QED
  BY <1>4, <1>7, <1>8, <1>9, <1>10, <1>11

LEMMA JobsEnd ==
  ASSUME AppInv, NEW S \in SUBSET Job, EndExecution(S)
  PROVE  /\ Inside = Inside' \cup S /\ Inside' \cap S = {}
         /\ Distinct(inFlight') /\ Carried(inFlight') \cap ToSet(queue') = {}
         /\ running' \cap (Carried(inFlight') \cup ToSet(queue')) = {}
<1>1. /\ AppTypeOK /\ OrderInv
      /\ inFlight \in Seq(Message) /\ queue \in Seq(Job) /\ Distinct(inFlight)
      /\ Carried(inFlight) \cap ToSet(queue) = {}
      /\ running \cap (Carried(inFlight) \cup ToSet(queue)) = {}
  BY DEF AppInv, AppTypeOK, NoJobTwice, Distinct
<1>2. S \subseteq running /\ running' = running \ S /\ Request(running', inFlight)
  BY DEF EndExecution
<1>3. Carried(inFlight') \cup ToSet(queue') = Carried(inFlight) \cup ToSet(queue)
  BY <1>1, <1>2, RequestMoves
<1>4. Distinct(inFlight') /\ Carried(inFlight') \cap ToSet(queue') = {}
  BY <1>1, <1>2, RequestMoves
<1>5. Inside' = Carried(inFlight') \cup ToSet(queue') \cup running'
  BY DEF Inside, Carried
<1> QED
  BY <1>1, <1>2, <1>3, <1>4, <1>5, WhereJobsAre

(* No job is lost on its way through the module.                           *)
LEMMA LostStep == ASSUME AppInv, [Next]_vars PROVE NoJobLost'
<1> DEFINE Gone == IF phase = "gone" THEN missed ELSE {}
<1>1. AppTypeOK /\ 1 .. arrived = Inside \cup Left \cup Gone /\ arrived \in Nat
  BY SizesAssumption DEF AppInv, AppTypeOK, NoJobLost
<1>2. CASE Arrive
  <2>1. arrived + 1 \in Job /\ arrived' = arrived + 1 /\ Gone' = Gone
    BY <1>1, <1>2, SizesAssumption DEF Arrive, Job
  <2>2. <<"queue", arrived + 1>> \in Message
    BY <2>1 DEF Message
  <2>3. Carried(inFlight') = Carried(inFlight) \cup {arrived + 1}
    BY <1>1, <1>2, <2>2, CarriedSent DEF Arrive, AppTypeOK
  <2>4. Inside' = Inside \cup {arrived + 1} /\ Left' = Left
    BY <1>2, <2>3 DEF Arrive, Inside, Carried, Left
  <2>5. 1 .. arrived + 1 = (1 .. arrived) \cup {arrived + 1}
    BY <1>1
  <2> QED
    BY <1>1, <2>1, <2>4, <2>5 DEF NoJobLost
<1>3. ASSUME NEW j \in Job, QueueReceives(j) PROVE NoJobLost'
  BY <1>1, <1>3, JobsInQueue DEF QueueReceives, NoJobLost, Left
<1>4. ASSUME NEW j \in Job, ServerReceives(j) PROVE NoJobLost'
  BY <1>1, <1>4, JobsInServer DEF ServerReceives, NoJobLost, Left
<1>5. ASSUME NEW S \in SUBSET Job, EndExecution(S) PROVE NoJobLost'
  <2>1. Gone' = Gone
    BY <1>5 DEF EndExecution, ReceiveIdleSignal
  <2> QED
    BY <1>1, <1>5, <2>1, JobsEnd DEF EndExecution, NoJobLost, Left
<1>6. CASE (\E j \in Job : Age(j)) \/ RemoveServer \/ UNCHANGED vars
  <2>1. UNCHANGED <<arrived, Inside, Left, Gone>>
    BY <1>6 DEF Age, RemoveServer, vars, Inside, Carried, Left
  <2> QED
    BY <1>1, <2>1 DEF NoJobLost
<1>7. CASE CompleteRemoval
  <2>1. Inside \subseteq missed /\ missed \subseteq Inside \cup Left /\ phase = "removing"
    BY <1>7 DEF CompleteRemoval, AppInv, EmptyInv
  <2>2. Inside' = {}
    BY <1>7 DEF CompleteRemoval, Inside, Carried, ToSet
  <2> QED
    BY <1>1, <1>7, <2>1, <2>2 DEF CompleteRemoval, NoJobLost, Left
<1> QED
  BY <1>2, <1>3, <1>4, <1>5, <1>6, <1>7 DEF Next

(* No job is doubled.                                                      *)
LEMMA TwiceStep == ASSUME AppInv, [Next]_vars PROVE NoJobTwice'
<1>1. /\ AppTypeOK /\ Inside \cap Left = {} /\ Inside \cup Left \subseteq 1 .. arrived
      /\ served \cap timedOut = {} /\ dropped \cap (served \cup timedOut) = {}
      /\ arrived \in Nat
  BY SizesAssumption DEF AppInv, AppTypeOK, NoJobTwice, NoJobLost
<1>2. /\ Distinct(inFlight) /\ Carried(inFlight) \cap ToSet(queue) = {}
      /\ running \cap (Carried(inFlight) \cup ToSet(queue)) = {}
  BY DEF AppInv, NoJobTwice, Distinct
<1>3. CASE Arrive
  <2> DEFINE n == arrived + 1
  <2>1. n \in Job /\ n \notin Inside \cup Left
    BY <1>1, <1>3, SizesAssumption DEF Arrive, Job
  <2>2. <<"queue", n>> \in Message /\ <<"queue", n>>[2] = n
    BY <2>1 DEF Message
  <2>3. n \notin Carried(inFlight) \cup ToSet(queue) \cup running
    BY <2>1, WhereJobsAre
  <2>4. inFlight \in Seq(Message) /\ inFlight' = Append(inFlight, <<"queue", n>>)
    BY <1>1, <1>3 DEF Arrive, AppTypeOK
  <2> HIDE DEF n
  <2>5. Carried(inFlight') = Carried(inFlight) \cup {n} /\ Distinct(inFlight')
    BY <1>2, <2>2, <2>3, <2>4, CarriedSent
  <2>6. Inside' = Inside \cup {n} /\ UNCHANGED <<queue, running, served, timedOut, dropped>>
    BY <1>3, <2>5 DEF Arrive, Inside, Carried
  <2> QED
    BY <1>1, <1>2, <2>1, <2>3, <2>5, <2>6 DEF NoJobTwice, Distinct, Left
<1>4. ASSUME NEW j \in Job, QueueReceives(j) PROVE NoJobTwice'
  <2>1. UNCHANGED <<served, timedOut>>
    BY <1>4 DEF QueueReceives
  <2>2. Inside' \cap Left' = {} /\ dropped' \cap (served \cup timedOut) = {}
    BY <1>1, <1>4, <2>1, JobsInQueue DEF Left
  <2> QED
    BY <1>1, <1>4, <2>1, <2>2, JobsInQueue DEF NoJobTwice, Distinct
<1>5. ASSUME NEW j \in Job, ServerReceives(j) PROVE NoJobTwice'
  <2>1. UNCHANGED <<served, dropped>>
    BY <1>5 DEF ServerReceives
  <2>2. /\ Inside' \cap Left' = {} /\ served \cap timedOut' = {}
        /\ dropped \cap (served \cup timedOut') = {}
    BY <1>1, <1>5, <2>1, JobsInServer DEF Left
  <2> QED
    BY <1>5, <2>1, <2>2, JobsInServer DEF NoJobTwice, Distinct
<1>6. ASSUME NEW S \in SUBSET Job, EndExecution(S) PROVE NoJobTwice'
  <2>1. UNCHANGED <<timedOut, dropped>> /\ served' = served \cup S
    BY <1>6 DEF EndExecution
  <2>2. /\ Inside' \cap Left' = {} /\ served' \cap timedOut = {}
        /\ dropped \cap (served' \cup timedOut) = {}
    BY <1>1, <1>6, <2>1, JobsEnd DEF Left
  <2> QED
    BY <1>6, <2>1, <2>2, JobsEnd DEF NoJobTwice, Distinct
<1>7. CASE (\E j \in Job : Age(j)) \/ RemoveServer \/ UNCHANGED vars
  BY <1>1, <1>2, <1>7 DEF Age, RemoveServer, vars, NoJobTwice, Distinct, Inside, Left, Carried
<1>8. CASE CompleteRemoval
  <2>1. Inside' = {} /\ DOMAIN inFlight' = {} /\ Carried(inFlight') = {} /\ running' = {}
    BY <1>8 DEF CompleteRemoval, Inside, ToSet, Carried
  <2> QED
    BY <1>1, <1>8, <2>1 DEF CompleteRemoval, NoJobTwice
<1> QED
  BY <1>3, <1>4, <1>5, <1>6, <1>7, <1>8 DEF Next

(* The last jobs of a module that drains make it empty.                    *)
LEMMA EndEmpties ==
  ASSUME AppInv, NEW S \in SUBSET Job, EndExecution(S)
  PROVE  IF running' = {} /\ queue = <<>> THEN Inside' = {} ELSE Inside' # {}
<1>1. inFlight = <<>> /\ Request(running', inFlight) /\ queue \in Seq(Job)
  BY DEF EndExecution, AppInv, AppTypeOK
<1>2. CASE running' = {} /\ queue = <<>>
  <2>1. inFlight' = <<>> /\ queue' = <<>>
    BY <1>1, <1>2 DEF Request
  <2> QED
    BY <1>2, <2>1 DEF Inside, Carried, ToSet
<1>3. CASE running' # {}
  BY <1>3 DEF Inside
<1>4. CASE running' = {} /\ queue # <<>>
  <2>1. IsIdle(running')
    BY <1>4, FS_EmptySet, SizesAssumption DEF IsIdle
  <2>2. inFlight' = Append(<<>>, <<"server", Head(queue)>>)
    BY <1>1, <1>4, <2>1 DEF Request
  <2>3. Head(queue) \in Job
    BY <1>1, <1>4
  <2>4. <<"server", Head(queue)>> \in Message /\ <<>> \in Seq(Message)
    BY <2>3, EmptySeq DEF Message
  <2>5. Carried(inFlight') # {}
    BY <2>2, <2>4, CarriedSent
  <2>6. Inside' # {}
    BY <2>5 DEF Inside, Carried
  <2> QED
    BY <1>4, <2>6
<1> QED
  BY <1>2, <1>3, <1>4

(* A module that is removed has only the jobs that were on their way.      *)
LEMMA EmptyStep == ASSUME AppInv, [Next]_vars PROVE EmptyInv'
<1>1. EmptyInv /\ AppTypeOK
  BY DEF AppInv
<1>2. CASE Arrive
  <2>1. /\ UNCHANGED <<late, phase, missed, Left>> /\ phase = "connected"
        /\ inFlight' = Append(inFlight, <<"queue", arrived + 1>>)
        /\ UNCHANGED <<queue, running>>
    BY <1>2 DEF Arrive, Left
  <2>2. arrived + 1 \in Job
    BY <1>1, <1>2, SizesAssumption DEF Arrive, AppTypeOK, Job
  <2>3. <<"queue", arrived + 1>> \in Message /\ inFlight \in Seq(Message)
    BY <1>1, <2>2 DEF Message, AppTypeOK
  <2>4. Carried(inFlight) \subseteq Carried(inFlight')
    BY <2>1, <2>3, CarriedSent
  <2>5. Inside \subseteq Inside'
    BY <2>1, <2>4 DEF Inside, Carried
  <2> QED
    BY <1>1, <2>1, <2>5 DEF EmptyInv
<1>3. ASSUME NEW j \in Job, QueueReceives(j) PROVE EmptyInv'
  <2>1. Inside # {}
    BY <1>1, <1>3, MessageInside DEF QueueReceives
  <2>2. UNCHANGED <<late, phase, missed, served, timedOut>>
    BY <1>3 DEF QueueReceives
  <2>3. Inside' \subseteq Inside /\ Inside' \cup Left' = Inside \cup Left
    BY <1>3, <2>2, JobsInQueue DEF Left
  <2> QED
    BY <1>1, <2>1, <2>2, <2>3 DEF EmptyInv
<1>4. ASSUME NEW j \in Job, ServerReceives(j) PROVE EmptyInv'
  <2>1. Inside # {}
    BY <1>1, <1>4, MessageInside DEF ServerReceives
  <2>2. UNCHANGED <<phase, missed, served, dropped>> /\ late' \subseteq late
    BY <1>4 DEF ServerReceives
  <2>3. Inside' \subseteq Inside /\ Inside' \cup Left' = Inside \cup Left
    BY <1>4, <2>2, JobsInServer DEF Left
  <2> QED
    BY <1>1, <2>1, <2>2, <2>3 DEF EmptyInv
<1>5. ASSUME NEW S \in SUBSET Job, EndExecution(S) PROVE EmptyInv'
  <2>1. /\ UNCHANGED <<late, missed, timedOut, dropped>> /\ served' = served \cup S
        /\ Inside # {} /\ phase # "removing"
    BY <1>5 DEF EndExecution, Inside
  <2>2. phase # "gone" /\ phase' # "gone"
    BY <1>1, <1>5, <2>1 DEF EndExecution, ReceiveIdleSignal, EmptyInv
  <2>3. phase' = "removing" => Inside' = {}
    <3>1. phase' = "removing" => running' = {} /\ queue = <<>>
      BY <1>5, <2>1 DEF EndExecution, ReceiveIdleSignal, IsEmpty
    <3> QED
      BY <1>5, <3>1, EndEmpties
  <2>4. Inside' \cup Left' = Inside \cup Left
    BY <1>5, <2>1, JobsEnd DEF Left, EndExecution
  <2> QED
    BY <1>1, <2>1, <2>2, <2>3, <2>4 DEF EmptyInv
<1>6. CASE \E j \in Job : Age(j)
  <2>1. JobTimeouts /\ UNCHANGED <<phase, missed, Inside, Left>>
    BY <1>6 DEF Age, Inside, Carried, Left
  <2> QED
    BY <1>1, <2>1 DEF EmptyInv
<1>7. CASE RemoveServer
  <2>1. UNCHANGED <<late, Inside, Left>> /\ phase = "connected" /\ phase' # "gone"
    BY <1>7 DEF RemoveServer, Inside, Carried, Left
  <2>2. CASE IsEmpty(running) /\ missed' = Carried(inFlight)
    <3>1. Inside = Carried(inFlight)
      BY <2>2 DEF IsEmpty, Inside, ToSet
    <3> QED
      BY <1>1, <2>1, <2>2, <3>1 DEF EmptyInv
  <2>3. CASE phase' = "draining" /\ missed' = missed
    BY <1>1, <2>1, <2>3 DEF EmptyInv
  <2> QED
    BY <1>7, <2>2, <2>3 DEF RemoveServer
<1>8. CASE CompleteRemoval
  BY <1>8 DEF CompleteRemoval, EmptyInv, Inside, Carried, ToSet
<1>9. CASE UNCHANGED vars
  BY <1>1, <1>9 DEF vars, EmptyInv, Inside, Carried, Left
<1> QED
  BY <1>2, <1>3, <1>4, <1>5, <1>6, <1>7, <1>8, <1>9 DEF Next

LEMMA AppStep == ASSUME AppInv, [Next]_vars PROVE AppInv'
<1>1. AppTypeOK'
  BY TypeStep DEF AppInv
<1> QED
  BY <1>1, ThreadStep, RequestStep, OrderStep, OvertakeStep, EmptyStep, LostStep, TwiceStep
  DEF AppInv

(***************************************************************************)
(* The theorems.                                                           *)
(***************************************************************************)

(* The inductive invariant of the queue, the threads and the removal.      *)
THEOREM AppInvariant == Spec => []AppInv
<1>1. AppInv /\ [Next]_vars => AppInv'
  BY AppStep
<1> QED
  BY InitApp, <1>1, PTL DEF Spec

(* Every job that arrives is in exactly one place or has left in exactly   *)
(* one way; the only ones that a module takes with it when it is deleted   *)
(* were on their way when it was taken for empty.                          *)
THEOREM JobsTheorem == Spec => [](NoJobLost /\ NoJobTwice /\ EmptyInv)
<1>1. AppInv => NoJobLost /\ NoJobTwice /\ EmptyInv
  BY DEF AppInv
<1> QED
  BY <1>1, AppInvariant, PTL

(* When nothing is left to do in an instant, jobs wait only if all threads *)
(* run, whatever arrives, ends or times out together.                      *)
THEOREM WorkTheorem == Spec => []WorkConserving
<1>1. ASSUME AppInv PROVE WorkConserving
  <2>1. running \in SUBSET Job /\ RequestInv
    BY <1>1 DEF AppInv, AppTypeOK
  <2>2. Cardinality(running) \in Nat
    BY <2>1, RunningFinite
  <2>3. inFlight = <<>> /\ queue # <<>> => ~IsIdle(running)
    BY <2>1 DEF RequestInv
  <2> QED
    BY <2>2, <2>3, SizesAssumption DEF WorkConserving, IsIdle
<1> QED
  BY <1>1, AppInvariant, PTL

(* No job overtakes another one in the queue, if no two messages reach the *)
(* queue in one instant or the queue holds one job at most.                *)
THEOREM FifoTheorem == ASSUME NoPassing PROVE Spec => FirstComeFirstServed
<1>1. ASSUME AppInv, [Next]_vars,
             NEW j \in (running' \ running) \cup (timedOut' \ timedOut), NEW i \in ToSet(queue)
      PROVE  i > j
  <2>1. j \in Job /\ ServerReceives(j)
    <3>1. ~Arrive /\ ~RemoveServer /\ ~CompleteRemoval /\ ~UNCHANGED vars
          /\ \A k \in Job : ~Age(k) /\ ~QueueReceives(k)
      BY <1>1 DEF Arrive, RemoveServer, CompleteRemoval, vars, Age, QueueReceives
    <3>2. \A S \in SUBSET Job : ~EndExecution(S)
      BY <1>1 DEF EndExecution
    <3>3. PICK k \in Job : ServerReceives(k)
      BY <1>1, <3>1, <3>2 DEF Next
    <3>4. j = k
      BY <1>1, <3>3 DEF ServerReceives
    <3> QED
      BY <3>3, <3>4
  <2>2. /\ inFlight \in Seq(Message) /\ queue \in Seq(Job) /\ ServerFirst(inFlight, queue)
        /\ inFlight # <<>> /\ Head(inFlight) = <<"server", j>>
    BY <1>1, <2>1 DEF AppInv, AppTypeOK, OvertakeInv, ServerReceives
  <2>3. 1 \in DOMAIN inFlight /\ inFlight[1][1] = "server" /\ inFlight[1][2] = j
    BY <2>2
  <2>4. PICK k \in DOMAIN queue : queue[k] = i
    BY <1>1 DEF ToSet
  <2>5. i \in Job /\ j < i
    BY <2>2, <2>3, <2>4 DEF ServerFirst, ToServer
  <2> QED
    BY <2>1, <2>5 DEF Job
<1>2. AppInv /\ [Next]_vars =>
        [\A j \in (running' \ running) \cup (timedOut' \ timedOut) :
           \A i \in ToSet(queue) : i > j]_vars
  BY <1>1
<1> QED
  BY <1>2, AppInvariant, PTL DEF Spec, FirstComeFirstServed

(* The server runs no more jobs than it has threads, but for the jobs that *)
(* arrive while others are on their way; if none does, never more.         *)
THEOREM ThreadTheorem == Spec => []ThreadLimit
<1>1. ASSUME AppInv PROVE ThreadLimit
  <2>1. /\ inFlight \in Seq(Message) /\ running \in SUBSET Job
        /\ Cardinality(running \cup Sent(inFlight)) <= Threads + Burst
    BY <1>1 DEF AppInv, AppTypeOK, ThreadInv
  <2>2. running \cup Sent(inFlight) \in SUBSET Job
    BY <2>1, SentBounded
  <2>3. /\ Cardinality(running) <= Cardinality(running \cup Sent(inFlight))
        /\ Cardinality(running) \in Nat /\ Cardinality(running \cup Sent(inFlight)) \in Nat
    BY <2>1, <2>2, RunningFinite, FS_Subset
  <2> QED
    BY <2>1, <2>3, SizesAssumption, OptionsAssumption DEF ThreadLimit
<1> QED
  BY <1>1, AppInvariant, PTL

(* Every step of the queue and the server is one of those the execution    *)
(* manager takes for the module, or leaves what it sees of it alone.       *)
LEMMA ViewStep ==
  ASSUME AppInv, AppInv', [Next]_vars
  PROVE  View!Next \/ UNCHANGED <<(Inside # {}), (queue # <<>> \/ running # {}), phase>>
<1> DEFINE Busy == Inside # {}
           Held == queue # <<>> \/ running # {}
<1>1. ASSUME Held PROVE Busy
  <2>1. queue # <<>> => ToSet(queue) # {}
    BY QueueTaken DEF AppInv, AppTypeOK
  <2> QED
    BY <1>1, <2>1 DEF Inside
<1>2. ASSUME Held' PROVE Busy'
  <2>1. queue' # <<>> => ToSet(queue') # {}
    BY QueueTaken DEF AppInv, AppTypeOK
  <2> QED
    BY <1>2, <2>1 DEF Inside
<1>3. CASE Arrive
  <2>1. /\ NoJobLost /\ NoJobLost' /\ Left' = Left /\ arrived \in Nat /\ arrived' = arrived + 1
        /\ phase = "connected" /\ phase' = "connected" /\ UNCHANGED <<queue, running>>
    BY <1>3, SizesAssumption DEF AppInv, AppTypeOK, Arrive, Left
  <2>2. arrived' \notin Left
    BY <2>1 DEF NoJobLost
  <2>3. Inside' # {}
    BY <2>1, <2>2 DEF NoJobLost
  <2> QED
    BY <2>1, <2>3 DEF View!JobArrives, View!Next
<1>4. ASSUME UNCHANGED phase, Busy, Busy' PROVE View!Next \/ UNCHANGED <<Busy, Held, phase>>
  BY <1>4 DEF View!JobEnters, View!JobRequested, View!Next
<1>5. ASSUME NEW j \in Job, QueueReceives(j) PROVE UNCHANGED phase /\ Busy /\ Busy'
  <2>1. UNCHANGED phase /\ Busy
    BY <1>5, MessageInside DEF QueueReceives, AppInv
  <2>2. CASE Inside' = Inside
    BY <2>1, <2>2
  <2>3. CASE queue' = queue /\ queue # <<>>
    BY <1>2, <2>1, <2>3
  <2> QED
    BY <1>5, <2>1, <2>2, <2>3, JobsInQueue
<1>6. ASSUME NEW j \in Job, ServerReceives(j)
      PROVE  View!Next \/ UNCHANGED <<Busy, Held, phase>>
  <2>1. UNCHANGED phase /\ Busy
    BY <1>6, MessageInside DEF ServerReceives, AppInv
  <2>2. CASE Busy'
    BY <1>4, <2>1, <2>2
  <2>3. CASE ~Busy'
    <3>1. ~Held'
      BY <1>2, <2>3
    <3>2. j \in late
      BY <1>6, <2>1, <2>3, JobsInServer
    <3>3. JobTimeouts
      BY <3>2 DEF AppInv, EmptyInv
    <3>4. CASE Held
      <4>1. running' = running
        BY <1>6, <3>2 DEF ServerReceives
      <4>2. queue # <<>> /\ running = {}
        BY <3>1, <3>4, <4>1
      <4>3. Tail(inFlight) \in Seq(Message) /\ Head(queue) \in Job
        BY <1>6, <4>2, TailConsumes DEF AppInv, AppTypeOK, ServerReceives, Consumed
      <4>4. Request(running, Tail(inFlight)) /\ IsIdle(running)
        BY <1>6, <3>2, <4>2, FS_EmptySet, SizesAssumption DEF ServerReceives, IsIdle
      <4>5. inFlight' = Append(Tail(inFlight), <<"server", Head(queue)>>)
        BY <4>2, <4>4 DEF Request
      <4>6. <<"server", Head(queue)>> \in Message
        BY <4>3 DEF Message
      <4>7. Carried(inFlight') # {}
        BY <4>3, <4>5, <4>6, CarriedSent
      <4> QED
        BY <2>3, <4>7 DEF Inside, Carried
    <3>5. CASE ~Held
      BY <2>1, <2>3, <3>1, <3>3, <3>5 DEF View!LastJobTimesOut, View!Next
    <3> QED
      BY <3>4, <3>5
  <2> QED
    BY <2>2, <2>3
<1>7. ASSUME NEW S \in SUBSET Job, EndExecution(S)
      PROVE  View!Next \/ UNCHANGED <<Busy, Held, phase>>
  <2>1. Held /\ Busy /\ phase # "removing"
    BY <1>1, <1>7 DEF EndExecution
  <2>2. CASE running' = {} /\ queue = <<>>
    <3>1. ~Busy'
      BY <1>7, <2>2, EndEmpties
    <3>2. ~Held'
      BY <1>2, <3>1
    <3>3. phase' = IF phase = "draining" THEN "removing" ELSE phase
      BY <1>7, <2>2 DEF EndExecution, ReceiveIdleSignal, IsEmpty
    <3> QED
      BY <2>1, <3>1, <3>2, <3>3 DEF View!LastJobEnds, View!Next
  <2>3. CASE ~(running' = {} /\ queue = <<>>)
    <3>1. Busy' /\ UNCHANGED phase
      BY <1>7, <2>3, EndEmpties DEF EndExecution, ReceiveIdleSignal, IsEmpty
    <3> QED
      BY <1>4, <2>1, <3>1
  <2> QED
    BY <2>2, <2>3
<1>8. CASE (\E j \in Job : Age(j)) \/ UNCHANGED vars
  BY <1>8 DEF Age, vars, Inside, Carried
<1>9. CASE RemoveServer
  <2>1. UNCHANGED <<Busy, Held>>
    BY <1>9 DEF RemoveServer, Inside, Carried
  <2>2. phase = "connected" /\ phase' = IF Held THEN "draining" ELSE "removing"
    BY <1>9 DEF RemoveServer, IsEmpty
  <2> QED
    BY <2>1, <2>2 DEF View!RemoveServer, View!Next
<1>10. CASE CompleteRemoval
  <2>1. ~Busy' /\ ~Held'
    BY <1>10 DEF CompleteRemoval, Inside, Carried, ToSet
  <2> QED
    BY <1>10, <2>1 DEF CompleteRemoval, View!CompleteRemoval, View!Next
<1> QED
  BY <1>3, <1>4, <1>5, <1>6, <1>7, <1>8, <1>9, <1>10 DEF Next

(* The server implements what the execution manager sees of it.            *)
THEOREM ViewTheorem == Spec => ImplementsView
<1>1. Init => View!Init
  BY DEF Init, View!Init, Inside, Carried, ToSet
<1>2. AppInv /\ AppInv' /\ [Next]_vars => [View!Next]_(View!viewVars)
  BY ViewStep DEF View!viewVars
<1> QED
  BY <1>1, <1>2, AppInvariant, PTL DEF Spec, ImplementsView, View!Spec

=============================================================================
