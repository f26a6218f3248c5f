----------------------------- MODULE ServerView ------------------------------
(***************************************************************************)
(* One application server as the execution manager sees it: whether it     *)
(* has a job, whether its queue or server holds one, or the job is on its  *)
(* way there, and how far its removal has come.  These are the steps       *)
(* that ExecutionManager takes for one module; AppServer shows that the    *)
(* queue and the threads inside the module take no other.                  *)
(***************************************************************************)

CONSTANT JobTimeouts

VARIABLES
  busy,       \* whether the module holds a job, or one is on its way to it
  held,       \* whether its queue or its server holds a job
  phase       \* "connected", "draining", "removing" or "gone"

viewVars == <<busy, held, phase>>

Init == busy = FALSE /\ held = FALSE /\ phase = "connected"

JobArrives == phase = "connected" /\ busy' = TRUE /\ UNCHANGED <<held, phase>>

JobEnters == busy /\ ~held /\ held' = TRUE /\ UNCHANGED <<busy, phase>>

JobRequested == held /\ held' = FALSE /\ UNCHANGED <<busy, phase>>

LastJobEnds ==
  /\ held
  /\ phase # "removing"
  /\ busy' = FALSE /\ held' = FALSE
  /\ phase' = IF phase = "draining" THEN "removing" ELSE phase

LastJobTimesOut ==
  /\ JobTimeouts
  /\ busy /\ ~held
  /\ busy' = FALSE
  /\ UNCHANGED <<held, phase>>

RemoveServer ==
  /\ phase = "connected"
  /\ phase' = IF held THEN "draining" ELSE "removing"
  /\ UNCHANGED <<busy, held>>

CompleteRemoval ==
  /\ phase = "removing"
  /\ phase' = "gone"
  /\ busy' = FALSE /\ held' = FALSE

Next ==
  \/ JobArrives
  \/ JobEnters
  \/ JobRequested
  \/ LastJobEnds
  \/ LastJobTimesOut
  \/ RemoveServer
  \/ CompleteRemoval

Spec == Init /\ [][Next]_viewVars

=============================================================================
