------------------------- MODULE SchedulerProperties -------------------------
(***************************************************************************)
(* Properties of the real-time scheduler, and the inductive invariant      *)
(* behind the ones that are proved.                                        *)
(***************************************************************************)
EXTENDS SocketRTScheduler

(* Type correctness of the scheduler.                                      *)
TypeOK ==
  /\ clock \in Nat /\ base \in Int /\ simNow \in Int
  /\ fes \subseteq Int /\ notifyAt \in Int
  /\ pc \in {"run", "loop", "chunk", "rest", "take", "stopped"}
  /\ target \in Int /\ deadline \in Int
  /\ connSocket \in {"open", "none"} /\ client \in {"away", "dialing", "here", "left"}
  /\ wire \in Nat /\ received \in Nat
  /\ fault \in {"none", "bufferFull", "noConnection", "acceptFailed", "shutdownFailed"}

(* sendBytes never finds the connection gone and recv never finds the      *)
(* buffer full (the cRuntimeErrors of SocketRTScheduler.cc:132 and :254),  *)
(* however the client comes and goes between a command and its reply.      *)
(* Only the failure of a system call ends a run (:141, :166).              *)
NoRuntimeError == fault \notin {"bufferFull", "noConnection"}

(* What is received always goes into an empty buffer: the notification is  *)
(* never inserted into the FES a second time.                              *)
ReceivesIntoEmptyBuffer ==
  [][received' > received => received = 0 /\ notifyAt = Never]_vars

(* Nobody takes the place of a client whose commands are not yet answered: *)
(* the reply goes to the connection the commands came from.                *)
ReplyGoesToSender == [][notifyAt # Never => connSocket' = connSocket]_vars

(* An event runs before its wall-clock time only if the last select of     *)
(* receiveUntil ended early, so by less than two chunks.                   *)
AheadByLessThanTwoChunks == base + simNow < clock + 2 * Chunk

(* The run goes on, and the simulation keeps up with the wall clock: time  *)
(* and again there is an event to wait for.  One that stays behind never   *)
(* looks at the socket (:228-238).                                         *)
KeepsUp == []<>(Running /\ pc \in {"chunk", "rest"})

(* Then what a client has sent is received in the end, unless its          *)
(* connection fails, and what is received is handled, although each wait   *)
(* may end early and leave the socket alone.                               *)
RequestsHandled ==
  KeepsUp => /\ wire > 0 ~> (received > 0 \/ wire = 0)
             /\ received > 0 ~> received = 0

(***************************************************************************)
(* The inductive invariants.                                               *)
(***************************************************************************)

(* No event of the FES is beyond the bounds, and the simulation has not    *)
(* started after now.                                                      *)
TimesInv ==
  /\ clock <= MaxClock /\ base <= clock
  /\ simNow >= 0
  /\ fes \subseteq 0 .. MaxSimTime

(* While the notification is in the FES, its time has come and the         *)
(* scheduler does not wait; so nothing happens on the connection.          *)
NotificationInv ==
  /\ notifyAt # Never => /\ notifyAt >= 0 /\ base + notifyAt <= clock
                         /\ connSocket = "open" /\ pc \in {"run", "take"}
  /\ notifyAt = Never => received = 0

(* The scheduler waits for an event of the FES, and takes one whose time   *)
(* is less than two chunks away.                                           *)
WaitInv ==
  /\ pc \in {"loop", "chunk", "rest"} => target = LongMax \/ \E t \in fes : target = base + t
  /\ pc = "rest" => target < clock + 2 * Chunk
  /\ pc = "take" => \E t \in fes \cup {notifyAt} :
                      t # Never /\ base + t < clock + 2 * Chunk

SchedulerInv ==
  /\ TypeOK /\ NoRuntimeError /\ AheadByLessThanTwoChunks
  /\ TimesInv /\ NotificationInv /\ WaitInv

=============================================================================
