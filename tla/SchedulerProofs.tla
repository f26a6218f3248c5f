--------------------------- MODULE SchedulerProofs ---------------------------
(***************************************************************************)
(* Proofs about the real-time scheduler, for every length of a chunk, size *)
(* of the buffer and set of initial events.                                *)
(***************************************************************************)
EXTENDS SchedulerProperties, TLAPS

USE SchedulerAssumption DEF SchedulerAssumption, Never, Running

(* The inductive invariant holds at the start.                             *)
LEMMA SchedulerInit == Init => SchedulerInv
  BY DEF Init, SchedulerInv, TypeOK, NoRuntimeError, AheadByLessThanTwoChunks, TimesInv,
         NotificationInv, WaitInv, Never

(* Taking an event that is first keeps it: its time is not after that of   *)
(* the event the scheduler has waited for.                                 *)
LEMMA RunEventStep ==
  ASSUME SchedulerInv, NEW e \in fes, RunEvent(e)
  PROVE  SchedulerInv'
<1> USE DEF RunEvent, SchedulerInv, TypeOK, NoRuntimeError, clientVars
<1>1. e \in 0 .. MaxSimTime /\ e \in Int
  BY DEF TimesInv
<1>2. \A t \in fes \cup {notifyAt} : t # Never => e <= t
  BY DEF IsFirst
<1>3. base + e < clock + 2 * Chunk
  <2>1. PICK t \in fes \cup {notifyAt} : t # Never /\ base + t < clock + 2 * Chunk
    BY DEF WaitInv
  <2>2. t \in Int /\ e <= t
    BY <1>2, <2>1
  <2> QED BY <1>1, <2>1, <2>2
<1>4. fes' \subseteq 0 .. MaxSimTime
  BY <1>1 DEF TimesInv, Schedules
<1> QED
  BY <1>1, <1>3, <1>4 DEF AheadByLessThanTwoChunks, TimesInv, NotificationInv, WaitInv

(* The notification runs on the connection it came from.                   *)
LEMMA RunNotificationStep ==
  ASSUME SchedulerInv, RunNotification
  PROVE  SchedulerInv'
<1> USE DEF RunNotification, SchedulerInv, TypeOK, NoRuntimeError, clientVars
<1>1. notifyAt >= 0 /\ base + notifyAt <= clock /\ connSocket = "open"
  BY DEF NotificationInv, NotificationIsFirst
<1>2. fes' \subseteq 0 .. MaxSimTime
  BY <1>1 DEF TimesInv, Schedules
<1> QED
  BY <1>1, <1>2 DEF AheadByLessThanTwoChunks, TimesInv, NotificationInv, WaitInv

LEMMA TakeNextEventStep ==
  ASSUME SchedulerInv, TakeNextEvent
  PROVE  SchedulerInv'
<1> USE DEF TakeNextEvent, SchedulerInv, TypeOK, NoRuntimeError, clientVars, timeVars, fesVars
<1>1. CASE FesEmpty
  BY <1>1 DEF FesEmpty, LongMax, AheadByLessThanTwoChunks, TimesInv, NotificationInv, WaitInv,
              IsFirst, NotificationIsFirst
<1>2. CASE ~FesEmpty
  <2>1. PICK t \in fes \cup {notifyAt} :
          /\ IsFirst(t) \/ (NotificationIsFirst /\ t = notifyAt)
          /\ target' = base + t
          /\ pc' = (IF base + t <= clock THEN "take" ELSE "loop")
    BY <1>2
  <2>2. t # Never /\ t \in Int /\ (notifyAt # Never => t <= notifyAt)
    BY <2>1 DEF IsFirst, NotificationIsFirst, TimesInv, Never
  <2>3. CASE base + t <= clock
    BY <2>1, <2>2, <2>3 DEF AheadByLessThanTwoChunks, TimesInv, NotificationInv, WaitInv
  <2>4. CASE ~(base + t <= clock)
    <3>1. notifyAt = Never
      BY <2>2, <2>4 DEF NotificationInv
    <3> QED BY <2>1, <2>2, <2>4, <3>1
            DEF AheadByLessThanTwoChunks, TimesInv, NotificationInv, WaitInv
  <2> QED BY <2>3, <2>4
<1> QED BY <1>1, <1>2

LEMMA EnterSelectStep ==
  ASSUME SchedulerInv, EnterSelect
  PROVE  SchedulerInv'
<1> USE DEF EnterSelect, SchedulerInv, TypeOK, NoRuntimeError, clientVars, timeVars, fesVars
<1>1. target <= clock => \E t \in fes : target = base + t
  BY DEF WaitInv, TimesInv, LongMax
<1>2. \A t \in fes : t # Never
  BY DEF TimesInv, Never
<1> QED
  BY <1>1, <1>2 DEF AheadByLessThanTwoChunks, TimesInv, NotificationInv, WaitInv

(* The four ways in which receiveWithTimeout returns false.                *)
LEMMA NothingReceivedStep ==
  ASSUME SchedulerInv, Selecting, NothingReceived,
         connSocket' \in {"open", "none"}, client' \in {"away", "dialing", "here", "left"}, wire' \in Nat
  PROVE  SchedulerInv'
<1> USE DEF NothingReceived, Selecting, SchedulerInv, TypeOK, NoRuntimeError, timeVars, fesVars
<1>1. notifyAt = Never
  BY DEF NotificationInv
<1>2. pc = "rest" => \E t \in fes : t # Never /\ base + t < clock + 2 * Chunk
  BY DEF WaitInv, TimesInv, LongMax, Never
<1> QED
  BY <1>1, <1>2 DEF AheadByLessThanTwoChunks, TimesInv, NotificationInv, WaitInv

(* A system call fails, and the run ends there.                            *)
LEMMA FailureStep ==
  ASSUME SchedulerInv, AcceptFails \/ ShutdownFails
  PROVE  SchedulerInv'
  BY DEF AcceptFails, ShutdownFails, SchedulerInv, TypeOK, NoRuntimeError, AheadByLessThanTwoChunks,
         TimesInv, NotificationInv, WaitInv, LongMax, timeVars, fesVars, waitVars, clientVars

LEMMA ReceiveStep ==
  ASSUME SchedulerInv, NEW n \in 1 .. BufferSize, Receive(n)
  PROVE  SchedulerInv'
<1>1. notifyAt = Never /\ received = 0
  BY DEF Receive, Selecting, SchedulerInv, NotificationInv
<1>2. received < BufferSize /\ ~(received >= BufferSize)
  BY <1>1
<1>3. clock - base >= 0
  BY DEF SchedulerInv, TypeOK, TimesInv
<1> USE DEF Receive, Selecting, DataReadable, SchedulerInv, TypeOK, NoRuntimeError, timeVars
<1>4. notifyAt' = clock - base /\ pc' = "take" /\ fault' = fault
  BY <1>2
<1> QED
  BY <1>1, <1>3, <1>4 DEF AheadByLessThanTwoChunks, TimesInv, NotificationInv, WaitInv

(* The invariant is inductive.                                             *)
LEMMA SchedulerStep == SchedulerInv /\ [Next]_vars => SchedulerInv'
<1> SUFFICES ASSUME SchedulerInv, [Next]_vars PROVE SchedulerInv'
  OBVIOUS
<1>1. CASE TakeNextEvent BY <1>1, TakeNextEventStep
<1>2. CASE EnterSelect BY <1>2, EnterSelectStep
<1>3. CASE SelectTimesOut \/ Accept \/ ClosedByClient \/ SocketError
  BY <1>3, NothingReceivedStep
  DEF SelectTimesOut, Accept, ClosedByClient, SocketError, clientVars, SchedulerInv, TypeOK
<1>4. CASE \E n \in 1 .. BufferSize : Receive(n) BY <1>4, ReceiveStep
<1>5. CASE \E e \in fes : RunEvent(e) BY <1>5, RunEventStep
<1>6. CASE RunNotification BY <1>6, RunNotificationStep
<1>7. CASE ExecutionResumed
  <2>1. notifyAt = Never
    BY <1>7 DEF ExecutionResumed, SchedulerInv, NotificationInv
  <2> QED
    BY <1>7, <2>1 DEF ExecutionResumed, SchedulerInv, TypeOK, NoRuntimeError,
       AheadByLessThanTwoChunks, TimesInv, NotificationInv, WaitInv, clientVars, fesVars
<1>8. CASE Dial \/ ClientSends \/ Leave
  <2>1. /\ UNCHANGED <<timeVars, fesVars, waitVars, connSocket, received, fault>>
        /\ client' \in {"away", "dialing", "here", "left"} /\ wire' \in Nat
    BY <1>8 DEF Dial, ClientSends, Leave, SchedulerInv, TypeOK
  <2> QED
    BY <2>1 DEF SchedulerInv, TypeOK, NoRuntimeError, AheadByLessThanTwoChunks, TimesInv,
       NotificationInv, WaitInv, LongMax, timeVars, fesVars, waitVars
<1>9. CASE Tick
  <2>1. base' = base /\ simNow' = simNow /\ fes' = fes /\ notifyAt' = notifyAt /\ clock' = clock + 1
        /\ pc' = pc /\ target' = target /\ deadline' = deadline
        /\ connSocket' = connSocket /\ client' = client /\ wire' = wire /\ received' = received /\ fault' = fault
    BY <1>9 DEF Tick, fesVars, waitVars, clientVars
  <2>2. TimesInv' /\ TypeOK' /\ NoRuntimeError' /\ AheadByLessThanTwoChunks'
    BY <1>9, <2>1 DEF Tick, SchedulerInv, TypeOK, NoRuntimeError, AheadByLessThanTwoChunks, TimesInv
  <2>3. NotificationInv'
    BY <2>1 DEF SchedulerInv, TypeOK, NotificationInv
  <2>4. WaitInv'
    <3>1. pc = "take" => \E t \in fes \cup {notifyAt} : t # Never /\ base + t < clock + 1 + 2 * Chunk
      BY DEF SchedulerInv, TypeOK, TimesInv, WaitInv
    <3> QED BY <2>1, <3>1 DEF SchedulerInv, TypeOK, WaitInv, LongMax
  <2> QED BY <2>2, <2>3, <2>4 DEF SchedulerInv
<1>10. CASE UNCHANGED vars
  BY <1>10 DEF vars, timeVars, fesVars, waitVars, clientVars, SchedulerInv, TypeOK, NoRuntimeError,
     AheadByLessThanTwoChunks, TimesInv, NotificationInv, WaitInv
<1>11. CASE AcceptFails \/ ShutdownFails BY <1>11, FailureStep
<1> QED BY <1>1, <1>2, <1>3, <1>4, <1>5, <1>6, <1>7, <1>8, <1>9, <1>10, <1>11 DEF Next

(* The invariant of the scheduler, with the type invariant                 *)
(* (SocketRTScheduler.cc:107-258).                                         *)
THEOREM SchedulerInvariant == Spec => []SchedulerInv
  BY SchedulerInit, SchedulerStep, PTL DEF Spec

(* No run ends with a full buffer or a reply without connection: the       *)
(* cRuntimeErrors of SocketRTScheduler.cc:132 and :254 are never thrown.   *)
THEOREM SchedulerSafety == Spec => []NoRuntimeError
<1>1. SchedulerInv => NoRuntimeError
  BY DEF SchedulerInv
<1> QED BY <1>1, SchedulerInvariant, PTL

(* Whatever the length of a chunk, no event runs two chunks before its     *)
(* wall-clock time, though receiveUntil may return early.                  *)
THEOREM PaceTheorem == Spec => []AheadByLessThanTwoChunks
<1>1. SchedulerInv => AheadByLessThanTwoChunks
  BY DEF SchedulerInv
<1> QED BY <1>1, SchedulerInvariant, PTL

(* While the notification is in the FES, no step touches the connection,   *)
(* and the buffer is filled only when it is empty.                         *)
LEMMA ConnectionStep ==
  ASSUME SchedulerInv, [Next]_vars
  PROVE  /\ notifyAt # Never => connSocket' = connSocket
         /\ received' > received => received = 0 /\ notifyAt = Never
<1> USE DEF SchedulerInv, TypeOK, NotificationInv, timeVars, fesVars, waitVars, clientVars
<1>1. CASE TakeNextEvent BY <1>1 DEF TakeNextEvent
<1>2. CASE EnterSelect BY <1>2 DEF EnterSelect
<1>3. CASE SelectTimesOut \/ Accept \/ ClosedByClient \/ SocketError
  BY <1>3 DEF SelectTimesOut, Accept, ClosedByClient, SocketError, Selecting, NothingReceived
<1>4. CASE \E n \in 1 .. BufferSize : Receive(n)
  BY <1>4 DEF Receive, Selecting
<1>5. CASE \E e \in fes : RunEvent(e) BY <1>5 DEF RunEvent
<1>6. CASE RunNotification BY <1>6 DEF RunNotification
<1>7. CASE ExecutionResumed BY <1>7 DEF ExecutionResumed
<1>8. CASE Dial \/ ClientSends \/ Leave BY <1>8 DEF Dial, ClientSends, Leave
<1>9. CASE Tick BY <1>9 DEF Tick
<1>10. CASE UNCHANGED vars BY <1>10 DEF vars
<1>11. CASE AcceptFails \/ ShutdownFails BY <1>11 DEF AcceptFails, ShutdownFails
<1> QED BY <1>1, <1>2, <1>3, <1>4, <1>5, <1>6, <1>7, <1>8, <1>9, <1>10, <1>11 DEF Next

(* Replies go to the connection that sent the commands, and data is never  *)
(* received while earlier data waits in the buffer.                        *)
THEOREM ConnectionTheorem == Spec => ReplyGoesToSender /\ ReceivesIntoEmptyBuffer
<1>1. SchedulerInv /\ [Next]_vars => [notifyAt # Never => connSocket' = connSocket]_vars
  BY ConnectionStep
<1>2. SchedulerInv /\ [Next]_vars => [received' > received => received = 0 /\ notifyAt = Never]_vars
  BY ConnectionStep
<1> QED BY <1>1, <1>2, SchedulerInvariant, PTL DEF Spec, ReplyGoesToSender, ReceivesIntoEmptyBuffer

=============================================================================
