------------------------ MODULE AccountingProperties ------------------------
(***************************************************************************)
(* Properties of the accounting.  What has happened to each job is kept in *)
(* history variables, beside the bookkeeping of model and monitor.         *)
(***************************************************************************)
EXTENDS Accounting, FiniteSets

VARIABLES
  served,     \* what each served job got: [type, low], or Unserved
  finished,   \* when each job left
  paid,       \* jobs that have left since the revenue was last reset
  left        \* jobs that have left since the period began

accountHistoryVars == <<served, finished, paid, left>>

Unserved == [type |-> NoServingType, low |-> FALSE]

AccountInitH ==
  /\ AccountInit
  /\ served = [j \in Job |-> Unserved]
  /\ finished = [j \in Job |-> 0]
  /\ paid = {} /\ left = {}

Leaving == {j \in Job : place'[j] = "done" /\ place[j] # "done"}

AccountNextH ==
  /\ \/ /\ \E j \in Job, t \in ServingType, k \in {0, 1} :
             Serve(j, t, k) /\ served' = [served EXCEPT ![j] = [type |-> t, low |-> k = 1]]
        /\ UNCHANGED <<finished, paid, left>>
     \/ /\ \/ \E j \in Job : Create(j) \/ Complete(j) \/ TimeOut(j)
           \/ AccountTick
        /\ finished' = [j \in Job |-> IF j \in Leaving THEN accountClock ELSE finished[j]]
        /\ paid' = paid \cup Leaving /\ left' = left \cup Leaving
        /\ UNCHANGED served
     \/ AccountPeriodEvent /\ paid' = {} /\ left' = {} /\ UNCHANGED <<served, finished>>
     \/ ResetPeriodRevenue /\ paid' = {} /\ UNCHANGED <<served, finished, left>>

AccountSpecH == AccountInitH /\ [][AccountNextH]_<<accountVars, accountHistoryVars>>

Response(j) == finished[j] - created[j]

(* What a job is worth: the revenue of the type and the fidelity it was    *)
(* served with if it was in time, and the penalty if it was not, which     *)
(* includes every job that was passed on unserved.                         *)
Worth(j) ==
  IF served[j] = Unserved \/ Response(j) > Threshold THEN Penalty
  ELSE IF served[j].low THEN Revenue[served[j].type].low ELSE Revenue[served[j].type].normal

(* What the jobs of a set are worth together, and their response times.    *)
TotalWorth(jobs) == SumFunctionOnSet([j \in Job |-> Worth(j)], jobs)
TotalResponse(jobs) == SumFunctionOnSet([j \in Job |-> Response(j)], jobs)

(* Type correctness of the accounting.                                     *)
AccountTypeOK ==
  /\ accountClock \in Nat /\ accountEventAt \in Nat
  /\ place \in [Job -> {"none", "queue", "server", "done"}]
  /\ created \in [Job -> Nat] /\ started \in [Job -> Nat]
  /\ kind \in [Job -> {0, 1}]
  /\ jobServeInfo \in [Job -> ServingType \cup {NoServingType}]
  /\ latest \in Int /\ cumulative \in Int /\ count \in Nat
  /\ fault \in {"none", "assertion"}

(* The revenue a manager reads or a period reports is what the jobs that   *)
(* left since the last reset are worth (HPMonitor.cc:307-320): each counts *)
(* once, with its own response time, fidelity and type.                    *)
RevenueIsEarned == AccountRunning => revenue = TotalWorth(paid)

(* The average of a period covers the jobs that left in it, whoever reset  *)
(* the revenue meanwhile, and is 0 when there were none.                   *)
ReportsItsPeriod ==
  [][accountEventAt' # accountEventAt =>
       /\ avgResponse' = <<TotalResponse(left), Cardinality(left)>>
       /\ utility' = GetPeriodUtility(TotalWorth(paid))]_<<accountVars, accountHistoryVars>>

(* No job without a server type earns revenue: the assert of               *)
(* getRequestUtility (UtilityScorer.cc:240) holds, and so does the one of  *)
(* setJobServerInfo (HPModel.cc:798).                                      *)
NoFault == fault = "none"

(***************************************************************************)
(* The inductive invariant behind NoFault.                                 *)
(***************************************************************************)

(* The map knows a job from the start of its service on, and no job has    *)
(* been created in the future.                                             *)
JobInv ==
  \A j \in Job : /\ place[j] \in {"none", "queue"} => jobServeInfo[j] = NoServingType
                 /\ place[j] = "server" => jobServeInfo[j] \in ServingType
                 /\ created[j] <= accountClock

AccountingInv == AccountTypeOK /\ JobInv /\ NoFault

(***************************************************************************)
(* The inductive invariant behind RevenueIsEarned and ReportsItsPeriod.    *)
(***************************************************************************)

(* What the history says of a job agrees with what the map and the kind of *)
(* the job say while it is served.                                         *)
HistoryInv ==
  /\ served \in [Job -> {Unserved} \cup [type : ServingType, low : BOOLEAN]]
  /\ finished \in [Job -> Nat]
  /\ \A j \in Job :
       /\ place[j] \in {"none", "queue"} => served[j] = Unserved
       /\ place[j] = "server" => /\ served[j] = [type |-> jobServeInfo[j], low |-> kind[j] = 1]
                                 /\ created[j] <= started[j]

(* The sums of the monitor are those over the jobs that have left, which   *)
(* are finitely many and leave once.                                       *)
BooksInv ==
  /\ paid \subseteq Job /\ IsFiniteSet(paid) /\ left \subseteq Job /\ IsFiniteSet(left)
  /\ \A j \in paid \cup left : place[j] = "done"
  /\ revenue = TotalWorth(paid)
  /\ cumulative = TotalResponse(left) /\ count = Cardinality(left)

EarningsInv == AccountingInv /\ HistoryInv /\ BooksInv

=============================================================================
