-------------------------- MODULE SocketRTScheduler --------------------------
(***************************************************************************)
(* The real-time scheduler (src/queueinglib/SocketRTScheduler.cc).  Before *)
(* an event of the future event set (FES) runs, takeNextEvent waits in     *)
(* select() until the wall clock has reached the time of the event, and    *)
(* meanwhile serves one TCP client: what it receives goes into the buffer  *)
(* of AdaptInterface, and a notification event is inserted for "now".      *)
(*                                                                         *)
(* The wall clock goes on at any moment, so the process may be late.  It   *)
(* may also be early: select returns when a client comes or goes, and the  *)
(* event that was waited for is handed out before its time.  What is       *)
(* received then has an earlier time than that event, and than the         *)
(* messages without delay that it has sent.                                *)
(***************************************************************************)
EXTENDS Integers

CONSTANTS
  Chunk,        \* the 100 ms of receiveUntil, in ticks of the clock
  BufferSize,   \* recvBufferSize, in the units in which the client sends
  Reconnects,   \* whether the client may leave and come back
  MaxClock,     \* bound on the wall clock
  MaxSimTime,   \* bound on the times at which events are scheduled
  MaxOnWire     \* bound on what is sent and not yet received

ASSUME SchedulerAssumption ==
  /\ Chunk \in Nat \ {0} /\ BufferSize \in Nat \ {0} /\ Reconnects \in BOOLEAN
  /\ MaxClock \in Nat /\ MaxSimTime \in Nat /\ MaxOnWire \in Nat

VARIABLES
  clock,     \* gettimeofday, from startRun on
  base,      \* baseTime
  simNow,    \* simTime()
  fes,       \* times of the events in the FES, the notification apart
  notifyAt,  \* arrival time of notificationMsg in the FES, or Never
  pc,        \* where takeNextEvent is: "run" between events, in the "loop" of
             \*   receiveUntil, in the select of a "chunk" or of the "rest" after
             \*   the loop, about to "take" an event, "stopped" by the user
  target,    \* targetTime of the wait
  deadline,  \* when the current select times out
  connSocket, \* whether it is a socket: "open", or "none"
  client,    \* the TCP client: "away", "dialing", "here", "left"
  wire,      \* what the client has sent and the scheduler has not received
  received,  \* numRecvBytes
  fault      \* the cRuntimeError that ended the run, or "none"

timeVars == <<clock, base, simNow>>
fesVars == <<fes, notifyAt>>
waitVars == <<pc, target, deadline>>
clientVars == <<connSocket, client, wire>>
vars == <<timeVars, fesVars, waitVars, clientVars, received, fault>>

Never == -1
Running == fault = "none"

Init ==
  /\ clock = 0 /\ base = 0 /\ simNow = 0
  /\ fes \in SUBSET (0 .. MaxSimTime) /\ notifyAt = Never
  /\ pc = "run" /\ target = 0 /\ deadline = 0
  /\ \/ Reconnects /\ connSocket = "none" /\ client = "away"
     \/ ~Reconnects /\ connSocket = "open" /\ client = "here"
  /\ wire = 0 /\ received = 0
  /\ fault = "none"

(* LONG_MAX, the target when there is no event: beyond any other target.   *)
LongMax == MaxClock + MaxSimTime + 2 * Chunk

(* The first event of the FES.  Events of the same time, a message without *)
(* delay among them, come in the order in which they were inserted, which  *)
(* the model leaves open.                                                  *)
IsFirst(e) == e \in fes /\ (\A f \in fes : e <= f) /\ (notifyAt = Never \/ e <= notifyAt)
NotificationIsFirst == notifyAt # Never /\ \A f \in fes : notifyAt <= f
FesEmpty == fes = {} /\ notifyAt = Never

(***************************************************************************)
(* takeNextEvent and receiveUntil                                          *)
(***************************************************************************)

(* Seeded fault: who is behind polls the socket without waiting.           *)
TakeNextEventPolling ==
  /\ Running /\ pc = "run"
  /\ \/ /\ FesEmpty
        /\ target' = LongMax /\ pc' = "loop"
        /\ UNCHANGED deadline
     \/ \E t \in fes \cup {notifyAt} :
          /\ IsFirst(t) \/ (NotificationIsFirst /\ t = notifyAt)
          /\ target' = base + t
          /\ IF base + t <= clock
             THEN pc' = "rest" /\ deadline' = clock
             ELSE pc' = "loop" /\ UNCHANGED deadline
  /\ UNCHANGED <<timeVars, fesVars, clientVars, received, fault>>

(* Who is behind the wall clock does not look at the socket.               *)
TakeNextEvent ==
  /\ Running /\ pc = "run"
  /\ \/ /\ FesEmpty
        /\ target' = LongMax /\ pc' = "loop"
     \/ \E t \in fes \cup {notifyAt} :
          /\ IsFirst(t) \/ (NotificationIsFirst /\ t = notifyAt)
          /\ target' = base + t
          /\ pc' = (IF base + t <= clock THEN "take" ELSE "loop")
  /\ UNCHANGED <<timeVars, fesVars, deadline, clientVars, received, fault>>

(* receiveUntil waits in chunks while two of them are left, then once.     *)
EnterSelect ==
  /\ Running /\ pc = "loop"
  /\ \/ /\ target - clock >= 2 * Chunk
        /\ pc' = "chunk" /\ deadline' = clock + Chunk
     \/ /\ target - clock < 2 * Chunk /\ clock < target
        /\ pc' = "rest" /\ deadline' = target
     \/ /\ target <= clock
        /\ pc' = "take" /\ UNCHANGED deadline
  /\ UNCHANGED <<timeVars, fesVars, target, clientVars, received, fault>>

(* Seeded fault: the loop ends as well when nothing was received.          *)
GiveUpWaiting ==
  /\ pc' = "take"
  /\ UNCHANGED <<timeVars, fesVars, target, deadline, received, fault>>

(* receiveWithTimeout has returned false.  Within the loop the user may    *)
(* interrupt (getEnvir()->idle()), and the wait goes on otherwise.         *)
NothingReceived ==
  /\ \/ pc = "rest" /\ pc' = "take"
     \/ pc = "chunk" /\ pc' \in {"loop", "stopped"}
  /\ UNCHANGED <<timeVars, fesVars, target, deadline, received, fault>>

(***************************************************************************)
(* receiveWithTimeout, by what select reports                              *)
(***************************************************************************)

(* The client has something on the wire of the accepted connection.        *)
DataReadable == connSocket = "open" /\ client \in {"here", "left"} /\ wire > 0
ConnReadable == DataReadable \/ (connSocket = "open" /\ client = "left")
ListenerReadable == connSocket = "none" /\ client = "dialing"
Selecting == Running /\ pc \in {"chunk", "rest"}

SelectTimesOut ==
  /\ Selecting /\ clock >= deadline
  /\ ~ConnReadable /\ ~ListenerReadable
  /\ NothingReceived
  /\ UNCHANGED clientVars

Accept ==
  /\ Selecting /\ ListenerReadable
  /\ connSocket' = "open" /\ client' = "here"
  /\ UNCHANGED wire
  /\ NothingReceived

(* accept() or shutdown() fails: the run ends with a cRuntimeError.        *)
AcceptFails ==
  /\ Selecting /\ ListenerReadable
  /\ fault' = "acceptFailed"
  /\ UNCHANGED <<timeVars, fesVars, waitVars, clientVars, received>>

ShutdownFails ==
  /\ Selecting /\ connSocket = "open" /\ client = "left" /\ wire = 0
  /\ fault' = "shutdownFailed"
  /\ UNCHANGED <<timeVars, fesVars, waitVars, clientVars, received>>

(* Seeded fault: the socket is closed but not forgotten.                   *)
ClosedByClientKeptOpen ==
  /\ Selecting /\ connSocket = "open" /\ client = "left" /\ wire = 0
  /\ client' = "away"
  /\ UNCHANGED <<connSocket, wire>>
  /\ NothingReceived

(* recv returns 0: the client has closed and everything has been read.     *)
ClosedByClient ==
  /\ Selecting /\ connSocket = "open" /\ client = "left" /\ wire = 0
  /\ connSocket' = "none" /\ client' = "away"
  /\ UNCHANGED wire
  /\ NothingReceived

(* recv fails: what is on the wire is lost.                                *)
SocketError ==
  /\ Selecting /\ connSocket = "open" /\ client = "left"
  /\ connSocket' = "none" /\ client' = "away" /\ wire' = 0
  /\ NothingReceived

(* recv returns n > 0: the notification is inserted for the current time.  *)
Receive(n) ==
  /\ Selecting /\ DataReadable
  /\ \/ /\ received < BufferSize
        /\ n <= wire /\ n <= BufferSize - received
        /\ received' = received + n
        /\ wire' = wire - n
        /\ notifyAt' = clock - base
        /\ pc' = "take"
        /\ UNCHANGED fault
     \/ /\ received >= BufferSize
        /\ fault' = "bufferFull"
        /\ UNCHANGED <<received, wire, notifyAt, pc>>
  /\ UNCHANGED <<timeVars, fes, target, deadline, connSocket, client>>

(***************************************************************************)
(* Events                                                                  *)
(***************************************************************************)

(* A handler may schedule events, at its own time or later.                *)
Schedules(e) == e .. MaxSimTime

RunEvent(e) ==
  /\ Running /\ pc = "take" /\ IsFirst(e)
  /\ simNow' = e
  /\ \E new \in SUBSET Schedules(e) : fes' = (fes \ {e}) \cup new
  /\ pc' = "run"
  /\ UNCHANGED <<clock, base, notifyAt, target, deadline, clientVars, received, fault>>

(* AdaptInterface::handleMessage empties the buffer and replies.           *)
RunNotification ==
  /\ Running /\ pc = "take" /\ NotificationIsFirst
  /\ simNow' = notifyAt /\ notifyAt' = Never
  /\ \E new \in SUBSET Schedules(notifyAt) : fes' = fes \cup new
  /\ received' = 0
  /\ pc' = "run"
  /\ fault' = (IF connSocket = "open" THEN "none" ELSE "noConnection")
  /\ UNCHANGED <<clock, base, target, deadline, clientVars>>

(* executionResumed, after the user has interrupted the run.               *)
ExecutionResumed ==
  /\ Running /\ pc = "stopped"
  /\ base' = clock - simNow
  /\ pc' = "run"
  /\ UNCHANGED <<clock, simNow, fesVars, target, deadline, clientVars, received, fault>>

(***************************************************************************)
(* The client and the wall clock                                           *)
(***************************************************************************)

Dial ==
  /\ client = "away"
  /\ client' = "dialing"
  /\ UNCHANGED <<timeVars, fesVars, waitVars, connSocket, wire, received, fault>>

ClientSends ==
  /\ client \in {"dialing", "here"} /\ wire < MaxOnWire
  /\ wire' = wire + 1
  /\ UNCHANGED <<timeVars, fesVars, waitVars, connSocket, client, received, fault>>

Leave ==
  /\ Reconnects /\ client = "here"
  /\ client' = "left"
  /\ UNCHANGED <<timeVars, fesVars, waitVars, connSocket, wire, received, fault>>

Tick ==
  /\ clock < MaxClock
  /\ clock' = clock + 1
  /\ UNCHANGED <<base, simNow, fesVars, waitVars, clientVars, received, fault>>

Next ==
  \/ TakeNextEvent \/ EnterSelect
  \/ SelectTimesOut \/ Accept \/ AcceptFails
  \/ ClosedByClient \/ ShutdownFails \/ SocketError
  \/ \E n \in 1 .. BufferSize : Receive(n)
  \/ \E e \in fes : RunEvent(e)
  \/ RunNotification
  \/ ExecutionResumed
  \/ Dial \/ ClientSends \/ Leave
  \/ Tick

Spec == Init /\ [][Next]_vars

(* The process goes on, select reports a readable socket, time passes, and *)
(* a user who has stopped the run resumes it.                              *)
Fairness ==
  /\ WF_vars(TakeNextEvent) /\ WF_vars(EnterSelect)
  /\ WF_vars(SelectTimesOut) /\ WF_vars(Accept) /\ WF_vars(ClosedByClient)
  /\ WF_vars(\E n \in 1 .. BufferSize : Receive(n))
  /\ WF_vars(\E e \in fes : RunEvent(e)) /\ WF_vars(RunNotification)
  /\ WF_vars(ExecutionResumed)
  /\ WF_vars(Tick)

FairSpec == Spec /\ Fairness

=============================================================================
