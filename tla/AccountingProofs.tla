-------------------------- MODULE AccountingProofs --------------------------
(***************************************************************************)
(* Proofs about the accounting, for every set of jobs and types, all       *)
(* amounts, and every timeout that is longer than the threshold.           *)
(***************************************************************************)
EXTENDS AccountingProperties, FoldProofs, TLAPS

USE TypesAssumption, AccountTimesAssumption, TimeoutAssumption

(* The invariant holds at the start.                                       *)
LEMMA AccountingInit == AccountInitH => AccountingInv
  BY DEF AccountInitH, AccountInit, AccountingInv, AccountTypeOK, JobInv, NoFault


(* A job is created.                                                       *)
LEMMA CreateStep ==
  ASSUME AccountingInv, NEW j \in Job, Create(j)
  PROVE  AccountingInv'
<1> USE DEF Create, AccountingInv, AccountTypeOK, NoFault, periodVars
<1>1. AccountTypeOK' /\ NoFault'
  OBVIOUS
<1>2. JobInv'
  BY DEF JobInv
<1> QED BY <1>1, <1>2

(* A job that is being served for the first time is not in the map.        *)
LEMMA ServeStep ==
  ASSUME AccountingInv, NEW j \in Job, NEW t \in ServingType, NEW k \in {0, 1}, Serve(j, t, k)
  PROVE  AccountingInv'
<1> USE DEF Serve, AccountingInv, AccountTypeOK, NoFault, periodVars
<1>1. jobServeInfo[j] = NoServingType
  BY DEF JobInv
<1>2. AccountTypeOK' /\ NoFault'
  BY <1>1
<1>3. JobInv'
  BY DEF JobInv
<1> QED BY <1>2, <1>3

(* What the sink sends to the monitor passes the assert of the scorer, if  *)
(* the job has been served or is late.                                     *)
LEMMA SinkStep ==
  ASSUME AccountingInv, NEW j \in Job, SinkReceives(j),
         UNCHANGED <<accountClock, accountEventAt, created, started, kind, jobServeInfo, reportVars>>,
         jobServeInfo[j] \in ServingType \/ accountClock - created[j] > Threshold
  PROVE  AccountingInv'
<1> DEFINE rt == accountClock - created[j]
<1> USE DEF AccountingInv, AccountTypeOK, NoFault
<1>1. rt \in Int
  OBVIOUS
<1>2. ~ScorerAsserts(rt, GetJobServerInfo(j))
  BY <1>1 DEF ScorerAsserts, InTime, GetJobServerInfo
<1>3. latest' = rt /\ cumulative' = cumulative + rt /\ count' = count + 1 /\ fault' = fault
      /\ place' = [place EXCEPT ![j] = "done"]
  BY <1>2 DEF SinkReceives, JobCompletion
<1>4. AccountTypeOK' /\ NoFault'
  BY <1>1, <1>3
<1>5. JobInv'
  BY <1>3 DEF JobInv
<1> QED BY <1>4, <1>5

(* A job leaves a server.                                                  *)
LEMMA CompleteStep ==
  ASSUME AccountingInv, NEW j \in Job, Complete(j)
  PROVE  AccountingInv'
<1>1. jobServeInfo[j] \in ServingType
  BY DEF AccountingInv, JobInv, Complete
<1> QED BY <1>1, SinkStep DEF Complete

(* A job that has queued for Timeout has been in the system for more than  *)
(* the threshold.                                                          *)
LEMMA TimeOutStep ==
  ASSUME AccountingInv, NEW j \in Job, TimeOut(j)
  PROVE  AccountingInv'
<1>1. accountClock - created[j] > Threshold
  BY DEF AccountingInv, AccountTypeOK, TimeOut
<1> QED BY <1>1, SinkStep DEF TimeOut

(* Time passes, and a period ends.                                         *)
LEMMA OtherSteps ==
  ASSUME AccountingInv, AccountPeriodEvent \/ ResetPeriodRevenue \/ AccountTick
  PROVE  AccountingInv'
<1> USE DEF AccountingInv, AccountTypeOK, NoFault, JobInv, jobVars, periodVars
<1>1. CASE AccountPeriodEvent BY <1>1 DEF AccountPeriodEvent
<1>2. CASE ResetPeriodRevenue BY <1>2 DEF ResetPeriodRevenue
<1>3. CASE AccountTick BY <1>3 DEF AccountTick
<1> QED BY <1>1, <1>2, <1>3

(* The invariant is inductive.                                             *)
LEMMA AccountingStep == AccountingInv /\ [AccountNextH]_<<accountVars, accountHistoryVars>> => AccountingInv'
<1> SUFFICES ASSUME AccountingInv, [AccountNextH]_<<accountVars, accountHistoryVars>> PROVE AccountingInv'
  OBVIOUS
<1>1. CASE \E j \in Job, t \in ServingType, k \in {0, 1} : Serve(j, t, k) BY <1>1, ServeStep
<1>2. CASE \E j \in Job : Create(j) \/ Complete(j) \/ TimeOut(j)
  BY <1>2, CreateStep, CompleteStep, TimeOutStep
<1>3. CASE AccountPeriodEvent \/ ResetPeriodRevenue \/ AccountTick BY <1>3, OtherSteps
<1>4. CASE UNCHANGED <<accountVars, accountHistoryVars>>
  BY <1>4 DEF accountVars, jobVars, periodVars, AccountingInv, AccountTypeOK, NoFault, JobInv
<1> QED BY <1>1, <1>2, <1>3, <1>4 DEF AccountNextH

(* The invariant of the accounting, with the type invariant: the map knows *)
(* exactly the jobs whose service has begun (HPModel.cc:795-812).          *)
THEOREM AccountingInvariant == AccountSpecH => []AccountingInv
  BY AccountingInit, AccountingStep, PTL DEF AccountSpecH

(* No assert of setJobServerInfo or getRequestUtility fails                *)
(* (HPModel.cc:798, UtilityScorer.cc:240).                                 *)
THEOREM NoFaultTheorem == AccountSpecH => []NoFault
<1>1. AccountingInv => NoFault
  BY DEF AccountingInv
<1> QED BY <1>1, AccountingInvariant, PTL

(***************************************************************************)
(* The earnings: what the monitor has added up is the sum over the jobs    *)
(* that have left.                                                         *)
(***************************************************************************)

AmountsOK == \A j \in Job : Worth(j) \in Int /\ Response(j) \in Int

(* What a job earns and takes is a number.                                 *)
LEMMA WorthType ==
  AccountTypeOK /\ HistoryInv => AmountsOK
<1> SUFFICES ASSUME AccountTypeOK, HistoryInv, NEW j \in Job
             PROVE  Worth(j) \in Int /\ Response(j) \in Int
  BY DEF AmountsOK
<1>1. created[j] \in Nat /\ finished[j] \in Nat
  <2>1. created \in [Job -> Nat] BY DEF AccountTypeOK
  <2>2. finished \in [Job -> Nat] BY DEF HistoryInv
  <2> QED BY <2>1, <2>2
<1>2. Response(j) \in Int BY <1>1 DEF Response
<1>3. CASE served[j] = Unserved \/ Response(j) > Threshold
  BY <1>2, <1>3, MoneyAssumption DEF Worth
<1>4. CASE ~(served[j] = Unserved \/ Response(j) > Threshold)
  <2>1. served[j] \in [type : ServingType, low : BOOLEAN] BY <1>4 DEF HistoryInv
  <2>2. served[j].type \in ServingType BY <2>1
  <2>3. Revenue[served[j].type] \in [low : Int, normal : Int] BY <2>2, MoneyAssumption
  <2> QED BY <1>2, <1>4, <2>3 DEF Worth
<1> QED BY <1>3, <1>4

(* A step that changes nothing about the jobs of a set leaves their totals *)
(* as they are.                                                            *)
LEMMA SameTotals ==
  ASSUME NEW S \in SUBSET Job, IsFiniteSet(S),
         \A j \in S : Worth(j)' = Worth(j) /\ Response(j)' = Response(j)
  PROVE  /\ SumFunctionOnSet([j \in Job |-> Worth(j)'], S) = TotalWorth(S)
         /\ SumFunctionOnSet([j \in Job |-> Response(j)'], S) = TotalResponse(S)
<1>1. \A j \in S : [x \in Job |-> Worth(x)'][j] = [x \in Job |-> Worth(x)][j]
  OBVIOUS
<1>2. \A j \in S : [x \in Job |-> Response(x)'][j] = [x \in Job |-> Response(x)][j]
  OBVIOUS
<1> QED BY <1>1, <1>2, SumAgree DEF TotalWorth, TotalResponse

(* No job has earned anything.                                             *)
LEMMA EmptyTotals == TotalWorth({}) = 0 /\ TotalResponse({}) = 0
  BY SumEquation, FS_EmptySet DEF TotalWorth, TotalResponse

(* The invariant of the earnings holds at the start.                       *)
LEMMA EarningsInit == AccountInitH => EarningsInv
<1> SUFFICES ASSUME AccountInitH PROVE EarningsInv OBVIOUS
<1>1. AccountingInv BY AccountingInit
<1>2. HistoryInv BY DEF AccountInitH, AccountInit, HistoryInv
<1>3. BooksInv BY EmptyTotals, FS_EmptySet DEF AccountInitH, AccountInit, BooksInv
<1> QED BY <1>1, <1>2, <1>3 DEF EarningsInv

(* Which jobs leave in a step.                                             *)
LEMMA WhoLeaves ==
  ASSUME AccountTypeOK, NEW j \in Job
  PROVE  /\ Complete(j) \/ TimeOut(j) => Leaving = {j}
         /\ Create(j) => Leaving = {}
<1>1. ASSUME Complete(j) \/ TimeOut(j) PROVE Leaving = {j}
  <2>1. place' = [place EXCEPT ![j] = "done"] /\ place[j] # "done"
    BY <1>1 DEF Complete, TimeOut, SinkReceives
  <2> QED BY <2>1 DEF Leaving, AccountTypeOK
<1>2. ASSUME Create(j) PROVE Leaving = {}
  BY <1>2 DEF Create, Leaving, AccountTypeOK
<1> QED BY <1>1, <1>2

(* The jobs that have left stay as they were.                              *)
LEMMA HistoryStep ==
  ASSUME AccountingInv, HistoryInv, AccountNextH
  PROVE  HistoryInv'
<1> USE DEF HistoryInv
<1>1. AccountTypeOK BY DEF AccountingInv
<1>2. ASSUME NEW j \in Job, NEW t \in ServingType, NEW k \in {0, 1}, Serve(j, t, k),
             served' = [served EXCEPT ![j] = [type |-> t, low |-> k = 1]], UNCHANGED finished
      PROVE  HistoryInv'
  <2>1. created[j] <= accountClock BY DEF AccountingInv, JobInv
  <2>2. [type |-> t, low |-> k = 1] \in [type : ServingType, low : BOOLEAN] OBVIOUS
  <2>3. served' \in [Job -> {Unserved} \cup [type : ServingType, low : BOOLEAN]]
    BY <1>2, <2>2
  <2>4. ASSUME NEW x \in Job
        PROVE  /\ place'[x] \in {"none", "queue"} => served'[x] = Unserved
               /\ place'[x] = "server" => /\ served'[x] = [type |-> jobServeInfo'[x], low |-> kind'[x] = 1]
                                          /\ created'[x] <= started'[x]
    <3>1. CASE x = j BY <1>1, <1>2, <2>1, <3>1 DEF Serve, AccountTypeOK
    <3>2. CASE x # j BY <1>1, <1>2, <3>2 DEF Serve, AccountTypeOK
    <3> QED BY <3>1, <3>2
  <2> QED BY <1>2, <2>3, <2>4
<1>3. ASSUME NEW j \in Job, Create(j) \/ Complete(j) \/ TimeOut(j),
             finished' = [x \in Job |-> IF x \in Leaving THEN accountClock ELSE finished[x]],
             UNCHANGED served
      PROVE  HistoryInv'
  <2>1. finished' \in [Job -> Nat] BY <1>1, <1>3 DEF AccountTypeOK
  <2>2. place' \in {[place EXCEPT ![j] = "queue"], [place EXCEPT ![j] = "done"]}
        /\ UNCHANGED <<started, kind, jobServeInfo>>
    BY <1>3 DEF Create, Complete, TimeOut, SinkReceives
  <2>3. place'[j] = "queue" => place[j] = "none"
    BY <1>1, <1>3 DEF Create, Complete, TimeOut, SinkReceives, AccountTypeOK
  <2>4. \A x \in Job : x # j => created'[x] = created[x]
    BY <1>1, <1>3 DEF Create, Complete, TimeOut, AccountTypeOK
  <2>5. \A x \in Job : x # j => place'[x] = place[x]
    BY <1>1, <2>2 DEF AccountTypeOK
  <2>6. place'[j] \in {"queue", "done"} BY <1>1, <2>2 DEF AccountTypeOK
  <2> QED BY <1>3, <2>1, <2>2, <2>3, <2>4, <2>5, <2>6
<1>4. CASE UNCHANGED <<place, created, started, kind, jobServeInfo, served, finished>>
  BY <1>4
<1>5. ASSUME AccountTick, finished' = [x \in Job |-> IF x \in Leaving THEN accountClock ELSE finished[x]]
      PROVE  UNCHANGED finished
  BY <1>5 DEF AccountTick, Leaving, jobVars
<1> QED
  BY <1>2, <1>3, <1>4, <1>5
     DEF AccountNextH, AccountPeriodEvent, ResetPeriodRevenue, AccountTick, jobVars

(* The job that leaves is paid what it is worth: in time, as it was served;*)
(* unserved or late, the penalty.                                          *)
LEMMA PaidItsWorth ==
  ASSUME AccountingInv, HistoryInv, NEW j \in Job, Complete(j) \/ TimeOut(j),
         finished' = [x \in Job |-> IF x \in Leaving THEN accountClock ELSE finished[x]],
         UNCHANGED served
  PROVE  /\ Worth(j)' = GetRequestUtility(accountClock - created[j], Sink(j) = "sinkLow", GetJobServerInfo(j))
         /\ Response(j)' = accountClock - created[j]
<1> USE DEF AccountingInv
<1>1. created' = created BY DEF Complete, TimeOut
<1>2. finished'[j] = accountClock BY WhoLeaves
<1>3. Response(j)' = accountClock - created[j] BY <1>1, <1>2 DEF Response
<1>4. accountClock \in Nat /\ created[j] \in Nat /\ created[j] <= accountClock /\ started[j] \in Nat
  BY DEF AccountTypeOK, JobInv
<1>5. CASE TimeOut(j)
  <2>1. served[j] = Unserved BY <1>5 DEF TimeOut, HistoryInv
  <2>2. ~InTime(accountClock - created[j]) BY <1>4, <1>5 DEF TimeOut, InTime
  <2>3. Worth(j)' = Penalty BY <2>1 DEF Worth
  <2> QED BY <1>3, <2>2, <2>3 DEF GetRequestUtility
<1>6. CASE Complete(j)
  <2>1. served[j] = [type |-> jobServeInfo[j], low |-> kind[j] = 1] /\ created[j] < accountClock
    <3>1. place[j] = "server" /\ accountClock > started[j] BY <1>6 DEF Complete
    <3>2. served[j] = [type |-> jobServeInfo[j], low |-> kind[j] = 1] /\ created[j] <= started[j]
      BY <3>1 DEF HistoryInv
    <3> QED BY <1>4, <3>1, <3>2
  <2>2. jobServeInfo[j] \in ServingType BY <1>6 DEF Complete, JobInv
  <2>3. served[j] # Unserved
    <3>1. served[j].type \in ServingType BY <2>1, <2>2
    <3> QED BY <3>1 DEF Unserved
  <2>4. InTime(accountClock - created[j]) <=> ~(Response(j)' > Threshold)
    BY <1>3, <1>4, <2>1 DEF InTime
  <2>5. (Sink(j) = "sinkLow") <=> served[j].low
    <3>1. kind[j] \in {0, 1} BY DEF AccountTypeOK
    <3>2. served[j].low = (kind[j] = 1) BY <2>1
    <3>3. (Sink(j) = "sinkLow") <=> kind[j] # 0 BY DEF Sink
    <3>4. kind[j] # 0 <=> kind[j] = 1 BY <3>1
    <3> QED BY <3>2, <3>3, <3>4, Zenon
  <2>6. served[j].type = jobServeInfo[j] BY <2>1
  <2>7. Worth(j)' = IF Response(j)' > Threshold THEN Penalty
                    ELSE IF served[j].low THEN Revenue[jobServeInfo[j]].low
                         ELSE Revenue[jobServeInfo[j]].normal
    BY <2>3, <2>6 DEF Worth
  <2> QED BY <1>3, <2>4, <2>5, <2>7 DEF GetRequestUtility, GetJobServerInfo
<1> QED BY <1>5, <1>6

(* The monitor adds the same to its sums as the job adds to the totals.    *)
LEMMA LeaveStep ==
  ASSUME EarningsInv, AccountingInv', HistoryInv', NEW j \in Job, Complete(j) \/ TimeOut(j),
         finished' = [x \in Job |-> IF x \in Leaving THEN accountClock ELSE finished[x]],
         paid' = paid \cup Leaving, left' = left \cup Leaving, UNCHANGED served
  PROVE  BooksInv'
<1> DEFINE rt == accountClock - created[j]
           worth == [x \in Job |-> Worth(x)']
           response == [x \in Job |-> Response(x)']
<1>1. AccountingInv /\ HistoryInv /\ BooksInv /\ AccountTypeOK /\ AccountTypeOK'
  BY DEF EarningsInv, AccountingInv
<1>2. Leaving = {j} /\ place[j] # "done" /\ place' = [place EXCEPT ![j] = "done"]
      /\ created' = created
  BY <1>1, WhoLeaves DEF Complete, TimeOut, SinkReceives
<1>3. j \notin paid /\ j \notin left /\ paid' = paid \cup {j} /\ left' = left \cup {j}
  BY <1>1, <1>2 DEF BooksInv
<1>4. \A x \in Job : Worth(x)' \in Int /\ Response(x)' \in Int
  <2>1. (AccountTypeOK /\ HistoryInv => AmountsOK)'
    BY WorthType, PTL
  <2> QED BY <1>1, <2>1 DEF AmountsOK
<1>5. Worth(j)' = GetRequestUtility(rt, Sink(j) = "sinkLow", GetJobServerInfo(j)) /\ Response(j)' = rt
  BY <1>1, PaidItsWorth
<1>6. \A x \in Job \ {j} : Worth(x)' = Worth(x) /\ Response(x)' = Response(x)
  BY <1>2, <1>1 DEF Worth, Response, HistoryInv
<1>7. /\ revenue' = revenue + Worth(j)' /\ cumulative' = cumulative + Response(j)'
      /\ count' = count + 1
  <2>1. SinkReceives(j) BY DEF Complete, TimeOut
  <2>2. fault' = "none" /\ fault = "none" BY <1>1 DEF AccountingInv, NoFault
  <2>3. latest' = rt BY <2>1 DEF SinkReceives
  <2> QED BY <1>5, <2>1, <2>2, <2>3 DEF SinkReceives, JobCompletion
<1>8. /\ SumFunctionOnSet(worth, paid) = TotalWorth(paid)
      /\ SumFunctionOnSet(response, left) = TotalResponse(left)
  BY <1>1, <1>3, <1>6, SameTotals DEF BooksInv
<1>9. /\ worth[j] = Worth(j)' /\ response[j] = Response(j)'
      /\ \A x \in Job : worth[x] \in Int /\ response[x] \in Int
  BY <1>4
<1>10. TotalWorth(paid)' = SumFunctionOnSet(worth, paid \cup {j})
  BY <1>3 DEF TotalWorth
<1>11. TotalResponse(left)' = SumFunctionOnSet(response, left \cup {j})
  BY <1>3 DEF TotalResponse
<1> HIDE DEF worth, response, rt
<1>12. SumFunctionOnSet(worth, paid \cup {j}) = SumFunctionOnSet(worth, paid) + worth[j]
  BY <1>1, <1>3, <1>9, SumAdd DEF BooksInv
<1>13. SumFunctionOnSet(response, left \cup {j}) = SumFunctionOnSet(response, left) + response[j]
  BY <1>1, <1>3, <1>9, SumAdd DEF BooksInv
<1>14. Cardinality(left') = count + 1 /\ IsFiniteSet(left') /\ IsFiniteSet(paid')
  BY <1>1, <1>3, FS_AddElement DEF BooksInv
<1>15. \A x \in paid' \cup left' : place'[x] = "done"
  BY <1>1, <1>2, <1>3 DEF BooksInv, AccountTypeOK
<1>16. paid' \subseteq Job /\ left' \subseteq Job BY <1>1, <1>3 DEF BooksInv
<1>17. revenue' = TotalWorth(paid)' BY <1>1, <1>7, <1>8, <1>9, <1>10, <1>12 DEF BooksInv
<1>18. cumulative' = TotalResponse(left)' BY <1>1, <1>7, <1>8, <1>9, <1>11, <1>13 DEF BooksInv
<1>19. count' = Cardinality(left)' BY <1>7, <1>14
<1> QED BY <1>14, <1>15, <1>16, <1>17, <1>18, <1>19 DEF BooksInv

(* The other steps leave the totals of the jobs that have left as they are,*)
(* or begin anew.                                                          *)
LEMMA KeepStep ==
  ASSUME EarningsInv,
         paid' \in {paid, {}}, revenue' = IF paid' = paid THEN revenue ELSE 0,
         left' \in {left, {}}, cumulative' = IF left' = left THEN cumulative ELSE 0,
         count' = IF left' = left THEN count ELSE 0,
         \A x \in Job : place[x] = "done" =>
            /\ place'[x] = "done" /\ created'[x] = created[x]
            /\ finished'[x] = finished[x] /\ served'[x] = served[x]
  PROVE  BooksInv'
<1>1. BooksInv BY DEF EarningsInv
<1>2. \A x \in paid \cup left : Worth(x)' = Worth(x) /\ Response(x)' = Response(x)
  BY <1>1 DEF BooksInv, Worth, Response
<1>3. /\ SumFunctionOnSet([x \in Job |-> Worth(x)'], paid) = TotalWorth(paid)
      /\ SumFunctionOnSet([x \in Job |-> Response(x)'], left) = TotalResponse(left)
  BY <1>1, <1>2, SameTotals DEF BooksInv
<1>4. /\ SumFunctionOnSet([x \in Job |-> Worth(x)'], {}) = 0
      /\ SumFunctionOnSet([x \in Job |-> Response(x)'], {}) = 0
  BY SumEquation, FS_EmptySet
<1>5. revenue' = TotalWorth(paid)'
  <2>1. TotalWorth(paid)' = SumFunctionOnSet([x \in Job |-> Worth(x)'], paid') BY DEF TotalWorth
  <2>2. CASE paid' = paid BY <1>1, <1>3, <2>1, <2>2 DEF BooksInv
  <2>3. CASE paid' # paid BY <1>4, <2>1, <2>3
  <2> QED BY <2>2, <2>3
<1>6. cumulative' = TotalResponse(left)' /\ count' = Cardinality(left)'
  <2>1. TotalResponse(left)' = SumFunctionOnSet([x \in Job |-> Response(x)'], left')
    BY DEF TotalResponse
  <2>2. CASE left' = left BY <1>1, <1>3, <2>1, <2>2 DEF BooksInv
  <2>3. CASE left' # left BY <1>4, <2>1, <2>3, FS_EmptySet
  <2> QED BY <2>2, <2>3
<1>7. \A x \in paid' \cup left' : place'[x] = "done"
  BY <1>1 DEF BooksInv
<1>8. paid' \subseteq Job /\ left' \subseteq Job /\ IsFiniteSet(paid') /\ IsFiniteSet(left')
  BY <1>1, FS_EmptySet DEF BooksInv
<1> QED BY <1>5, <1>6, <1>7, <1>8 DEF BooksInv


(* The invariant of the earnings is inductive.                             *)
LEMMA EarningsStep == EarningsInv /\ [AccountNextH]_<<accountVars, accountHistoryVars>> => EarningsInv'
<1> SUFFICES ASSUME EarningsInv, [AccountNextH]_<<accountVars, accountHistoryVars>> PROVE EarningsInv'
  OBVIOUS
<1>1. AccountingInv /\ HistoryInv /\ BooksInv /\ AccountingInv' /\ AccountTypeOK
  BY AccountingStep DEF EarningsInv, AccountingInv
<1>2. CASE UNCHANGED <<accountVars, accountHistoryVars>>
  <2> USE DEF accountVars, jobVars, periodVars, accountHistoryVars
  <2>1. HistoryInv' BY <1>1, <1>2 DEF HistoryInv
  <2>2. BooksInv' BY <1>2, KeepStep
  <2> QED BY <1>1, <2>1, <2>2 DEF EarningsInv
<1>3. CASE AccountNextH
  <2>1. HistoryInv' BY <1>1, <1>3, HistoryStep
  <2> DEFINE Kept == \A x \in Job : place[x] = "done" =>
                       /\ place'[x] = "done" /\ created'[x] = created[x]
                       /\ finished'[x] = finished[x] /\ served'[x] = served[x]
  <2>2. ASSUME NEW j \in Job, NEW t \in ServingType, NEW k \in {0, 1}, Serve(j, t, k),
               served' = [served EXCEPT ![j] = [type |-> t, low |-> k = 1]],
               UNCHANGED <<finished, paid, left>>
        PROVE  BooksInv'
    <3>1. Kept BY <1>1, <2>2 DEF Serve, AccountTypeOK, HistoryInv
    <3>2. UNCHANGED <<revenue, cumulative, count>> BY <2>2 DEF Serve, periodVars
    <3> HIDE DEF Kept
    <3> QED BY <2>2, <3>1, <3>2, KeepStep DEF Kept
  <2>3. ASSUME NEW j \in Job, Complete(j) \/ TimeOut(j),
               finished' = [x \in Job |-> IF x \in Leaving THEN accountClock ELSE finished[x]],
               paid' = paid \cup Leaving, left' = left \cup Leaving, UNCHANGED served
        PROVE  BooksInv'
    BY <1>1, <2>1, <2>3, LeaveStep
  <2>4. ASSUME AccountTick \/ \E j \in Job : Create(j),
               finished' = [x \in Job |-> IF x \in Leaving THEN accountClock ELSE finished[x]],
               paid' = paid \cup Leaving, left' = left \cup Leaving, UNCHANGED served
        PROVE  BooksInv'
    <3>1. Leaving = {} BY <1>1, <2>4, WhoLeaves DEF AccountTick, Leaving, jobVars
    <3>2. UNCHANGED <<finished, paid, left>> BY <1>1, <2>4, <3>1 DEF HistoryInv
    <3>3. Kept BY <1>1, <2>4, <3>2 DEF AccountTick, Create, jobVars, AccountTypeOK
    <3>4. UNCHANGED <<revenue, cumulative, count>> BY <2>4 DEF AccountTick, Create, periodVars
    <3> HIDE DEF Kept
    <3> QED BY <2>4, <3>2, <3>3, <3>4, KeepStep DEF Kept
  <2>5. ASSUME AccountPeriodEvent, paid' = {}, left' = {}, UNCHANGED <<served, finished>>
        PROVE  BooksInv'
    <3>1. Kept BY <2>5 DEF AccountPeriodEvent, jobVars
    <3>2. paid = {} => revenue = 0 BY <1>1, EmptyTotals DEF BooksInv
    <3>3. left = {} => cumulative = 0 /\ count = 0 BY <1>1, EmptyTotals, FS_EmptySet DEF BooksInv
    <3>4. revenue' = 0 /\ cumulative' = 0 /\ count' = 0 BY <2>5 DEF AccountPeriodEvent
    <3> HIDE DEF Kept
    <3> QED BY <2>5, <3>1, <3>2, <3>3, <3>4, KeepStep DEF Kept
  <2>6. ASSUME ResetPeriodRevenue, paid' = {}, UNCHANGED <<served, finished, left>>
        PROVE  BooksInv'
    <3>1. Kept BY <2>6 DEF ResetPeriodRevenue, jobVars
    <3>2. paid = {} => revenue = 0 BY <1>1, EmptyTotals DEF BooksInv
    <3>3. revenue' = 0 /\ cumulative' = cumulative /\ count' = count BY <2>6 DEF ResetPeriodRevenue
    <3> HIDE DEF Kept
    <3> QED BY <2>6, <3>1, <3>2, <3>3, KeepStep DEF Kept
  <2>7. BooksInv' BY <1>3, <2>2, <2>3, <2>4, <2>5, <2>6 DEF AccountNextH
  <2> QED BY <1>1, <2>1, <2>7 DEF EarningsInv
<1> QED BY <1>2, <1>3

(* The sums of the monitor, whatever the jobs, their types and amounts.    *)
LEMMA EarningsInvariant == AccountSpecH => []EarningsInv
  BY EarningsInit, EarningsStep, PTL DEF AccountSpecH

(* The revenue of the period is what the jobs that left since it was last  *)
(* reset are worth (HPMonitor.cc:307-320, UtilityScorer.cc:232-246).       *)
THEOREM RevenueTheorem == AccountSpecH => []RevenueIsEarned
<1>1. EarningsInv => RevenueIsEarned
  BY DEF EarningsInv, BooksInv, RevenueIsEarned
<1> QED BY <1>1, EarningsInvariant, PTL

(* A period ends with the average and the utility of the jobs that left in *)
(* it (HPMonitor.cc:237-266).                                              *)
THEOREM ReportTheorem == AccountSpecH => ReportsItsPeriod
<1> DEFINE Reports == accountEventAt' # accountEventAt =>
                        /\ avgResponse' = <<TotalResponse(left), Cardinality(left)>>
                        /\ utility' = GetPeriodUtility(TotalWorth(paid))
<1>1. ASSUME EarningsInv, [AccountNextH]_<<accountVars, accountHistoryVars>> PROVE Reports
  <2> SUFFICES ASSUME accountEventAt' # accountEventAt PROVE Reports
    OBVIOUS
  <2>1. AccountPeriodEvent
    BY <1>1
       DEF AccountNextH, accountVars, Create, Serve, Complete, TimeOut, ResetPeriodRevenue,
             AccountTick
  <2>2. revenue = TotalWorth(paid) /\ cumulative = TotalResponse(left) /\ count = Cardinality(left)
        /\ IsFiniteSet(left)
    BY <1>1 DEF EarningsInv, BooksInv
  <2>3. utility' = GetPeriodUtility(TotalWorth(paid)) BY <2>1, <2>2 DEF AccountPeriodEvent
  <2>4. CASE count > 0 BY <2>1, <2>2, <2>3, <2>4 DEF AccountPeriodEvent
  <2>5. CASE ~(count > 0)
    <3>1. left = {} BY <2>2, <2>5, FS_EmptySet, FS_CardinalityType
    <3>2. cumulative = 0 /\ count = 0 BY <2>2, <3>1, EmptyTotals, FS_EmptySet
    <3> QED BY <2>1, <2>2, <2>3, <2>5, <3>2 DEF AccountPeriodEvent
  <2> QED BY <2>4, <2>5
<1>2. EarningsInv /\ [AccountNextH]_<<accountVars, accountHistoryVars>> => [Reports]_<<accountVars, accountHistoryVars>>
  BY <1>1
<1> QED BY <1>2, EarningsInvariant, PTL DEF AccountSpecH, ReportsItsPeriod

=============================================================================
