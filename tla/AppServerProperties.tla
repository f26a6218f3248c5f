------------------------- MODULE AppServerProperties -------------------------
(***************************************************************************)
(* Properties of one application server and of its removal.                *)
(***************************************************************************)
EXTENDS AppServer

(* The queue asks isIdle before it sends, and the job arrives later        *)
(* (PassiveQueue.cc:59-70; the check of MTServer.cc:110-111 is commented   *)
(* out): the server runs more jobs than it has threads, but only as many   *)
(* more as arrived while others were on their way.                         *)
ThreadLimit == Cardinality(running) <= Threads + Burst

(* When nothing is left to do in an instant, jobs wait only if all threads *)
(* run: the server asks for the next job after every job that ended or     *)
(* timed out (MTServer.cc:139-149), and nobody else would.                 *)
WorkConserving ==
  inFlight = <<>> /\ queue # <<>> => Cardinality(running) >= Threads

(* A job starts to run, or is passed on, before any job that came after it *)
(* (the fifo parameter of the queue): none overtakes it in the queue.      *)
FirstComeFirstServed ==
  [][\A j \in (running' \ running) \cup (timedOut' \ timedOut) :
       \A i \in ToSet(queue) : i > j]_vars

(* A job that arrives leaves the server, unless it was on its way when the *)
(* module was taken for empty.                                             *)
EveryJobLeaves ==
  \A j \in Job : j <= arrived ~> j \in served \cup timedOut \cup dropped \cup missed

(* A server whose removal has begun is removed in the end: "when all       *)
(* requests in the server have been processed, call this method, so that   *)
(* the server is removed from the model" (HPExecutionManagerModBase.h:97). *)
DrainCompletes == phase = "draining" ~> phase = "gone"

(* The same comment: a server that is removed has processed all requests.  *)
RemovedWhenProcessed == phase = "gone" => 1 .. arrived \subseteq served \cup timedOut \cup dropped

View == INSTANCE ServerView
          WITH busy <- Inside # {}, held <- queue # <<>> \/ running # {}

(* The steps that ExecutionManager takes for a module are those of the     *)
(* queue and the server in it.                                             *)
ImplementsView == View!Spec

(***************************************************************************)
(* The invariants behind these properties, in a form that every step of    *)
(* Spec preserves.  AppServerProofs proves them.                           *)
(***************************************************************************)

Message == {"queue", "server"} \X Job

ToQueue(flight, i) == flight[i][1] = "queue"
ToServer(flight, i) == flight[i][1] = "server"

AppTypeOK ==
  /\ arrived \in 0 .. Jobs
  /\ inFlight \in Seq(Message) /\ joined \in 0 .. Burst
  /\ queue \in Seq(Job)
  /\ running \in SUBSET Job
  /\ late \in SUBSET Job
  /\ served \in SUBSET Job /\ timedOut \in SUBSET Job /\ dropped \in SUBSET Job
  /\ phase \in {"connected", "draining", "removing", "gone"}
  /\ missed \in SUBSET Job

(* The jobs on their way to the server.                                    *)
Sent(flight) == {flight[i][2] : i \in {k \in DOMAIN flight : ToServer(flight, k)}}

(* A message that is handled sends one other at most, so that only jobs    *)
(* that join make them more; the jobs on their way to the server count     *)
(* with those that run.                                                    *)
ThreadInv ==
  /\ Len(inFlight) <= 1 + joined
  /\ Cardinality(running \cup Sent(inFlight)) <= Threads + Burst

(* While jobs wait for an idle server, a job is on its way to it: when the *)
(* server has handled it, it asks again.                                   *)
RequestInv ==
  queue # <<>> /\ IsIdle(running) => \E i \in DOMAIN inFlight : ToServer(inFlight, i)

(* The jobs in the queue are in the order of their arrival, those that     *)
(* have just arrived come after them, and a job on its way to the server   *)
(* comes before those that have just arrived.                              *)
Ordered(flight, q, newest) ==
  /\ \A i, k \in DOMAIN q : i < k => q[i] < q[k]
  /\ \A i, k \in DOMAIN flight :
       ToQueue(flight, i) /\ ToQueue(flight, k) /\ i < k => flight[i][2] < flight[k][2]
  /\ \A i \in DOMAIN flight, k \in DOMAIN q :
       ToQueue(flight, i) => q[k] < flight[i][2]
  /\ \A i, k \in DOMAIN flight :
       ToServer(flight, i) /\ ToQueue(flight, k) => flight[i][2] < flight[k][2]
  /\ \A i \in DOMAIN flight : flight[i][2] <= newest
  /\ \A k \in DOMAIN q : q[k] <= newest

OrderInv == Ordered(inFlight, queue, arrived)

(* No job passes by the queue while another one waits there: either the    *)
(* message that would is the only one, or the queue is full.               *)
NoPassing == Burst = 0 \/ Capacity = 1

(* Then a job on its way to the server comes before those in the queue.    *)
ServerFirst(flight, q) ==
  \A i \in DOMAIN flight, k \in DOMAIN q : ToServer(flight, i) => flight[i][2] < q[k]

OvertakeInv == NoPassing => ServerFirst(inFlight, queue)

Left == served \cup timedOut \cup dropped

(* A job is late only if jobs time out, and a module that is removed holds *)
(* no job but those that were on their way when it was taken for empty.    *)
EmptyInv ==
  /\ late # {} => JobTimeouts
  /\ phase \in {"removing", "gone"} => Inside \subseteq missed
  /\ phase = "gone" => Inside = {}
  /\ phase # "gone" => missed \subseteq Inside \cup Left

(* Every job that has arrived is in the module or has left it; a module    *)
(* that is deleted takes no job with it but those that were on their way   *)
(* when it was taken for empty.                                            *)
NoJobLost ==
  1 .. arrived = Inside \cup Left \cup (IF phase = "gone" THEN missed ELSE {})

(* No job is in two places of the module, and none leaves it twice, or in  *)
(* two ways.                                                               *)
NoJobTwice ==
  /\ \A i, k \in DOMAIN inFlight : inFlight[i][2] = inFlight[k][2] => i = k
  /\ Carried(inFlight) \cap ToSet(queue) = {}
  /\ running \cap (Carried(inFlight) \cup ToSet(queue)) = {}
  /\ Inside \cap Left = {}
  /\ served \cap timedOut = {} /\ dropped \cap (served \cup timedOut) = {}

AppInv ==
  /\ AppTypeOK
  /\ ThreadInv
  /\ RequestInv
  /\ OrderInv
  /\ OvertakeInv
  /\ EmptyInv
  /\ NoJobLost
  /\ NoJobTwice

=============================================================================
