----------------------------- MODULE PartsProofs -----------------------------
(***************************************************************************)
(* Proofs about parts of the system that are checked one at a time.  A     *)
(* step of another part leaves the state of a part alone, so each has its  *)
(* own inductive invariant.                                                *)
(***************************************************************************)
EXTENDS MCParts, FoldProofs, SequenceTheorems

(***************************************************************************)
(* The times of a job                                                      *)
(***************************************************************************)

USE DEF TimeKind

LEMMA FieldsAreNumbers ==
  TimesTypeOK =>
    /\ lifeClock \in Int /\ stamp \in Int /\ sendingTime \in Int
    /\ totals["queueing"] \in Int /\ totals["service"] \in Int /\ totals["delay"] \in Int
    /\ spent["queueing"] \in Int /\ spent["service"] \in Int /\ spent["delay"] \in Int
    /\ spent["forked"] \in Int
  BY DEF TimesTypeOK

LEMMA TotalsInit == JobTimesInit => TotalsInv
<1> SUFFICES ASSUME JobTimesInit PROVE TotalsInv
  OBVIOUS
<1>1. TimesTypeOK
  BY DEF JobTimesInit, TimesTypeOK
<1>2. Balanced
  BY DEF JobTimesInit, Balanced
<1> QED
  BY <1>1, <1>2 DEF TotalsInv

(* A job leaves a queue, a server, a delay or an Allocate, whose time is   *)
(* added to the total of its kind.                                         *)
LEMMA LeavesStep ==
  ASSUME TotalsInv,
         StartService \/ EndServiceInQueue \/ PassiveRequested \/ ServerEnds \/ DelayEnds
           \/ AllocateDequeues
  PROVE  TotalsInv'
<1>0. TimesTypeOK /\ Balanced
  BY DEF TotalsInv
<1>1. CASE StartService
  <2>1. /\ station = "queued" /\ station' = "served" /\ UNCHANGED <<lifeClock, spent>>
        /\ stamp' = lifeClock /\ UNCHANGED sendingTime
    BY <1>1 DEF StartService, Moves
  <2>2. /\ totals' \in [TimeKind -> Int] /\ totals'["queueing"] = totals["queueing"] + (lifeClock - stamp)
        /\ totals'["service"] = totals["service"]
        /\ totals'["delay"] = totals["delay"]
    BY <1>0, <1>1 DEF StartService, AddTotal, TimesTypeOK
  <2>3. TimesTypeOK'
    BY <1>0, <2>1, <2>2 DEF TimesTypeOK
  <2>4. Balanced'
    BY <1>0, <2>1, <2>2, <2>3, FieldsAreNumbers DEF Balanced
  <2> QED
    BY <2>3, <2>4 DEF TotalsInv
<1>2. CASE EndServiceInQueue
  <2>1. /\ station = "served" /\ station' = "onTheWay" /\ UNCHANGED <<lifeClock, spent>>
        /\ UNCHANGED <<stamp, sendingTime>>
    BY <1>2 DEF EndServiceInQueue, Moves
  <2>2. /\ totals' \in [TimeKind -> Int] /\ totals'["queueing"] = totals["queueing"]
        /\ totals'["service"] = totals["service"] + (lifeClock - stamp)
        /\ totals'["delay"] = totals["delay"]
    BY <1>0, <1>2 DEF EndServiceInQueue, AddTotal, TimesTypeOK
  <2>3. TimesTypeOK'
    BY <1>0, <2>1, <2>2 DEF TimesTypeOK
  <2>4. Balanced'
    BY <1>0, <2>1, <2>2, <2>3, FieldsAreNumbers DEF Balanced
  <2> QED
    BY <2>3, <2>4 DEF TotalsInv
<1>3. CASE PassiveRequested
  <2>1. /\ station = "inPassiveQueue" /\ station' = "inServer" /\ UNCHANGED <<lifeClock, spent>>
        /\ stamp' = stamp
        /\ sendingTime' = lifeClock
    BY <1>3 DEF PassiveRequested, Moves
  <2>2. /\ totals' \in [TimeKind -> Int] /\ totals'["queueing"] = totals["queueing"] + (lifeClock - stamp)
        /\ totals'["service"] = totals["service"]
        /\ totals'["delay"] = totals["delay"]
    BY <1>0, <1>3 DEF PassiveRequested, AddTotal, TimesTypeOK
  <2>3. TimesTypeOK'
    BY <1>0, <2>1, <2>2 DEF TimesTypeOK
  <2>4. Balanced'
    BY <1>0, <2>1, <2>2, <2>3, FieldsAreNumbers DEF Balanced
  <2> QED
    BY <2>3, <2>4 DEF TotalsInv
<1>4. CASE ServerEnds
  <2>1. /\ station = "inServer" /\ station' = "onTheWay" /\ UNCHANGED <<lifeClock, spent>>
        /\ UNCHANGED <<stamp, sendingTime>>
    BY <1>4 DEF ServerEnds, Moves
  <2>2. /\ totals' \in [TimeKind -> Int] /\ totals'["queueing"] = totals["queueing"]
        /\ totals'["service"] = totals["service"] + (lifeClock - sendingTime)
        /\ totals'["delay"] = totals["delay"]
    BY <1>0, <1>4 DEF ServerEnds, AddTotal, TimesTypeOK
  <2>3. TimesTypeOK'
    BY <1>0, <2>1, <2>2 DEF TimesTypeOK
  <2>4. Balanced'
    BY <1>0, <2>1, <2>2, <2>3, FieldsAreNumbers DEF Balanced
  <2> QED
    BY <2>3, <2>4 DEF TotalsInv
<1>5. CASE DelayEnds
  <2>1. /\ station = "delayed" /\ station' = "onTheWay" /\ UNCHANGED <<lifeClock, spent>>
        /\ UNCHANGED <<stamp, sendingTime>>
    BY <1>5 DEF DelayEnds, Moves
  <2>2. /\ totals' \in [TimeKind -> Int] /\ totals'["queueing"] = totals["queueing"]
        /\ totals'["service"] = totals["service"]
        /\ totals'["delay"] = totals["delay"] + (lifeClock - sendingTime)
    BY <1>0, <1>5 DEF DelayEnds, AddTotal, TimesTypeOK
  <2>3. TimesTypeOK'
    BY <1>0, <2>1, <2>2 DEF TimesTypeOK
  <2>4. Balanced'
    BY <1>0, <2>1, <2>2, <2>3, FieldsAreNumbers DEF Balanced
  <2> QED
    BY <2>3, <2>4 DEF TotalsInv
<1>6. CASE AllocateDequeues
  <2>1. /\ station = "allocating" /\ station' = "onTheWay" /\ UNCHANGED <<lifeClock, spent>>
        /\ UNCHANGED <<stamp, sendingTime>>
    BY <1>6 DEF AllocateDequeues, Moves
  <2>2. /\ totals' \in [TimeKind -> Int] /\ totals'["queueing"] = totals["queueing"] + (lifeClock - stamp)
        /\ totals'["service"] = totals["service"]
        /\ totals'["delay"] = totals["delay"]
    BY <1>0, <1>6 DEF AllocateDequeues, AddTotal, TimesTypeOK
  <2>3. TimesTypeOK'
    BY <1>0, <2>1, <2>2 DEF TimesTypeOK
  <2>4. Balanced'
    BY <1>0, <2>1, <2>2, <2>3, FieldsAreNumbers DEF Balanced
  <2> QED
    BY <2>3, <2>4 DEF TotalsInv
<1> QED
  BY <1>1, <1>2, <1>3, <1>4, <1>5, <1>6

(* A job begins to wait in a queue.                                        *)
LEMMA InsertsStep ==
  ASSUME TotalsInv, QueueInserts \/ PassiveInserts PROVE TotalsInv'
<1>0. TimesTypeOK /\ Balanced
  BY DEF TotalsInv
<1>1. station = "onTheWay" /\ station' \in {"queued", "inPassiveQueue"} /\ stamp' = lifeClock
      /\ UNCHANGED <<lifeClock, sendingTime, totals, spent>>
  BY DEF QueueInserts, PassiveInserts, EntersQueue, Enters, Moves
<1>2. TimesTypeOK'
  BY <1>0, <1>1 DEF TimesTypeOK
<1>3. Balanced'
  BY <1>0, <1>1, <1>2, FieldsAreNumbers DEF Balanced
<1> QED
  BY <1>2, <1>3 DEF TotalsInv

(* A tick is spent on something.                                           *)
LEMMA JobTickStep ==
  ASSUME TotalsInv, JobTick PROVE TotalsInv'
<1>0. TimesTypeOK /\ Balanced
  BY DEF TotalsInv
<1>1. /\ lifeClock' = lifeClock + 1
      /\ UNCHANGED <<station, stamp, sendingTime, totals>>
  BY DEF JobTick
<1>2. CASE station \in {"queued", "inPassiveQueue", "allocating"} /\ SpendsOn("queueing")
  <2>1. /\ spent' \in [TimeKind \cup {"forked"} -> Int]
        /\ spent'["queueing"] = spent["queueing"] + 1 /\ spent'["service"] = spent["service"]
        /\ spent'["delay"] = spent["delay"] /\ spent'["forked"] = spent["forked"]
    BY <1>0, <1>2 DEF SpendsOn, TimesTypeOK
  <2>2. TimesTypeOK'
    BY <1>0, <1>1, <2>1 DEF TimesTypeOK
  <2>3. Balanced'
    <3>1. lifeClock' = spent'["queueing"] + spent'["service"] + spent'["delay"] + spent'["forked"]
      BY <1>0, <1>1, <2>1, FieldsAreNumbers DEF Balanced
    <3> QED
      BY <1>0, <1>1, <1>2, <2>1, <2>2, <3>1, FieldsAreNumbers DEF Balanced
  <2> QED
    BY <2>2, <2>3 DEF TotalsInv
<1>3. CASE station \in {"served", "inServer"} /\ SpendsOn("service")
  <2>1. /\ spent' \in [TimeKind \cup {"forked"} -> Int]
        /\ spent'["queueing"] = spent["queueing"] /\ spent'["service"] = spent["service"] + 1
        /\ spent'["delay"] = spent["delay"] /\ spent'["forked"] = spent["forked"]
    BY <1>0, <1>3 DEF SpendsOn, TimesTypeOK
  <2>2. TimesTypeOK'
    BY <1>0, <1>1, <2>1 DEF TimesTypeOK
  <2>3. Balanced'
    BY <1>0, <1>1, <1>3, <2>1, <2>2, FieldsAreNumbers DEF Balanced
  <2> QED
    BY <2>2, <2>3 DEF TotalsInv
<1>4. CASE station = "delayed" /\ SpendsOn("delay")
  <2>1. /\ spent' \in [TimeKind \cup {"forked"} -> Int]
        /\ spent'["queueing"] = spent["queueing"] /\ spent'["service"] = spent["service"]
        /\ spent'["delay"] = spent["delay"] + 1 /\ spent'["forked"] = spent["forked"]
    BY <1>0, <1>4 DEF SpendsOn, TimesTypeOK
  <2>2. TimesTypeOK'
    BY <1>0, <1>1, <2>1 DEF TimesTypeOK
  <2>3. Balanced'
    BY <1>0, <1>1, <1>4, <2>1, <2>2, FieldsAreNumbers DEF Balanced
  <2> QED
    BY <2>2, <2>3 DEF TotalsInv
<1>5. CASE station = "forked" /\ SpendsOn("forked")
  <2>1. /\ spent' \in [TimeKind \cup {"forked"} -> Int]
        /\ spent'["queueing"] = spent["queueing"] /\ spent'["service"] = spent["service"]
        /\ spent'["delay"] = spent["delay"] /\ spent'["forked"] = spent["forked"] + 1
    BY <1>0, <1>5 DEF SpendsOn, TimesTypeOK
  <2>2. TimesTypeOK'
    BY <1>0, <1>1, <2>1 DEF TimesTypeOK
  <2>3. Balanced'
    BY <1>0, <1>1, <1>5, <2>1, <2>2, FieldsAreNumbers DEF Balanced
  <2> QED
    BY <2>2, <2>3 DEF TotalsInv
<1> QED
  BY <1>2, <1>3, <1>4, <1>5 DEF JobTick

(* Every way into a module and out of it, and every tick, keeps account of *)
(* the time that is still to be added.                                     *)
LEMMA TotalsStep ==
  ASSUME TotalsInv, JobTimesNext \/ UNCHANGED timesVars PROVE TotalsInv'
<1> USE DEF TotalsInv, TimesTypeOK, Balanced, EntersQueue, Enters, Moves
<1>1. CASE QueueServesAtOnce \/ PassiveSendsThrough \/ DelayBegins \/ AllocateEnqueues
  BY <1>1 DEF QueueServesAtOnce, PassiveSendsThrough, DelayBegins, AllocateEnqueues
<1>2. CASE QueueInserts \/ PassiveInserts
  BY <1>2, InsertsStep
<1>3. CASE StartService \/ EndServiceInQueue \/ PassiveRequested \/ ServerEnds \/ DelayEnds
             \/ AllocateDequeues
  BY <1>3, LeavesStep
<1>4. CASE ForkKeeps \/ CopyGoesOn \/ JobDropped \/ JoinSendsOn \/ SinkReports
  BY <1>4 DEF ForkKeeps, CopyGoesOn, JobDropped, JoinSendsOn, SinkReports
<1>5. CASE JobTick
  BY <1>5, JobTickStep
<1>6. CASE UNCHANGED timesVars
  BY <1>6 DEF timesVars
<1> QED
  BY <1>1, <1>2, <1>3, <1>4, <1>5, <1>6 DEF JobTimesNext

(* The totals that a job reports at the Sink are the times it has spent    *)
(* (Queue.cc, PassiveQueue.cc, Server.cc, Delay.cc, Allocate.cc, Sink.cc), *)
(* whatever modules it has visited, however often and in what order.       *)
THEOREM TimesTheorem == PartsSpec => []TimesAddUp
<1>1. PartsInit => TotalsInv
  BY TotalsInit DEF PartsInit
<1>2. TotalsInv /\ [PartsNext]_partsVars => TotalsInv'
  <2>1. [PartsNext]_partsVars => JobTimesNext \/ UNCHANGED timesVars
    BY DEF PartsNext, partsVars, OnlyPart
  <2> QED
    BY <2>1, TotalsStep
<1>3. TotalsInv => TimesAddUp
  BY FieldsAreNumbers DEF TotalsInv, Balanced, TimesAddUp
<1> QED
  BY <1>1, <1>2, <1>3, PTL DEF PartsSpec
(***************************************************************************)
(* The samples of planning problems                                        *)
(***************************************************************************)

LEMMA LinesDomain ==
  SampleTypeOK => DOMAIN lines = 1 .. Len(lines) /\ Len(lines) \in Nat
                  /\ DOMAIN directories = 1 .. Len(directories) /\ Len(directories) \in Nat
  BY LenProperties DEF SampleTypeOK

LEMMA RowTypes ==
  ASSUME SampleTypeOK, NEW i \in Rows PROVE i \in DOMAIN lines /\ lines[i] \in Row
<1>1. i \in DOMAIN lines /\ lines[i] \in Header \cup Row
  BY LinesDomain, ElementOfSeq DEF Rows, SampleTypeOK
<1> QED
  BY <1>1 DEF Rows, Header

LEMMA DirectoryTypes ==
  ASSUME SampleTypeOK, NEW d \in DOMAIN directories PROVE directories[d] \in Directory
  BY LinesDomain, ElementOfSeq DEF SampleTypeOK

LEMMA SampleInitial == SampleInit => SampleInv
<1> SUFFICES ASSUME SampleInit PROVE SampleInv
  OBVIOUS
<1>1. directories \in Seq(Directory) /\ lines \in Seq(Header \cup Row) /\ Rows = {}
  BY EmptySeq DEF SampleInit, Rows
<1>2. planner \in [Process -> [plan: Nat, files: SUBSET FastFiles]]
  BY DEF SampleInit
<1>3. SampleTypeOK
  BY <1>1, <1>2 DEF SampleInit, SampleTypeOK
<1> QED
  BY <1>1, <1>3 DEF SampleInit, SampleInv, FillsItsOwn, Fills, RowsHaveDirectories, PlansHaveSpec,
                    HeadersAreThere, SamplesAreWhole

(* A step of p, that writes no row and changes no directory but that p     *)
(* works on, leaves the rows whole; the others still fill their own.       *)
LEMMA StepOfOne ==
  ASSUME SampleInv, SampleTypeOK', NEW p \in Process, lines' = lines,
         \A q \in Process \ {p} : /\ step'[q] = step[q] /\ path'[q] = path[q]
                                  /\ planner'[q] = planner[q],
         \A d \in DOMAIN directories :
           \/ d \in DOMAIN directories' /\ directories'[d] = directories[d]
           \/ Fills(p) /\ d = path[p] /\ d \in DOMAIN directories',
         Fills(p)' => HasFilled(p)' /\ path'[p] \notin {lines[i].directory : i \in Rows}
                      /\ \A q \in Process \ {p} : Fills(q) => path'[p] # path[q]
  PROVE  FillsItsOwn' /\ RowsHaveDirectories' /\ SamplesAreWhole'
<1>1. SampleTypeOK /\ FillsItsOwn /\ RowsHaveDirectories /\ SamplesAreWhole
  BY DEF SampleInv
<1>2. Rows' = Rows
  BY DEF Rows
<1>3. \A i \in Rows : /\ lines[i].directory \in DOMAIN directories'
                      /\ directories'[lines[i].directory] = directories[lines[i].directory]
  BY <1>1 DEF FillsItsOwn, FillsAlone, RowsHaveDirectories
<1>4. RowsHaveDirectories'
  BY <1>2, <1>3 DEF RowsHaveDirectories
<1>5. SamplesAreWhole'
  BY <1>1, <1>2, <1>3 DEF SamplesAreWhole
<1>6. ASSUME NEW q \in Process \ {p}, Fills(q)' PROVE HasFilled(q)' /\ FillsAlone(q)'
  <2>1. Fills(q) /\ HasFilled(q) /\ FillsAlone(q)
    BY <1>1, <1>6 DEF Fills, FillsItsOwn
  <2>2. /\ path'[q] = path[q] /\ path[q] \in DOMAIN directories'
        /\ directories'[path[q]] = directories[path[q]]
    BY <1>1, <2>1 DEF FillsItsOwn, FillsAlone, HasFilled
  <2>3. CopyFileFromFast(q)' = CopyFileFromFast(q) /\ CopyFileFromSlow(q)' = CopyFileFromSlow(q)
    BY DEF CopyFileFromFast, CopyFileFromSlow, CopyFile
  <2>4. HasFilled(q)'
    BY <2>1, <2>2, <2>3 DEF HasFilled
  <2>5. \A i \in Rows' : lines'[i].directory # path'[q]
    BY <1>2, <2>1, <2>2 DEF FillsAlone
  <2>6. \A r \in Process \ {q} : Fills(r)' => path'[r] # path'[q]
    BY <2>1, <2>2 DEF FillsAlone, Fills
  <2> QED
    BY <2>4, <2>5, <2>6 DEF FillsAlone
<1>7. Fills(p)' => FillsAlone(p)'
  BY <1>2 DEF FillsAlone, Fills
<1>8. FillsItsOwn'
  BY <1>6, <1>7 DEF FillsItsOwn
<1> QED
  BY <1>4, <1>5, <1>8

(* The run of p stops, or begins with the next problem.                    *)
LEMMA OutOfDirectory ==
  ASSUME SampleInv, NEW p \in Process, UNCHANGED <<lines, directories, path>>,
         step' \in {[step EXCEPT ![p] = "none"], [step EXCEPT ![p] = "parent"]},
         planner' \in [Process -> [plan: Nat, files: SUBSET FastFiles]],
         \A q \in Process \ {p} : planner'[q] = planner[q],
         step'[p] # "none" => SpecFile \in planner'[p].files,
         plans' \in Nat, headerWritten' \in [Process -> BOOLEAN],
         \A q \in Process : headerWritten'[q] => headerWritten[q]
  PROVE  SampleInv'
<1>1. /\ step' \in [Process -> {"none", "parent", "fast", "slow", "copyFast", "copySlow", "data"}]
      /\ \A q \in Process \ {p} : step'[q] = step[q]
      /\ step'[p] \in {"none", "parent"}
  BY DEF SampleInv, SampleTypeOK
<1>2. SampleTypeOK'
  BY <1>1 DEF SampleInv, SampleTypeOK
<1>3. ~Fills(p)'
  BY <1>1 DEF Fills
<1>4. FillsItsOwn' /\ RowsHaveDirectories' /\ SamplesAreWhole'
  BY <1>1, <1>2, <1>3, StepOfOne
<1>5. PlansHaveSpec'
  BY <1>1 DEF SampleInv, PlansHaveSpec
<1>6. HeadersAreThere'
  BY DEF SampleInv, HeadersAreThere
<1> QED
  BY <1>2, <1>4, <1>5, <1>6 DEF SampleInv

LEMMA CopySampleProblemsStep ==
  ASSUME SampleInv, NEW p \in Process, NEW files \in {FastFiles, FastFiles \ {"result.lab"}},
         CopySampleProblems(p, files)
  PROVE  SampleInv'
<1>1. SpecFile \in files /\ files \subseteq FastFiles
  BY Zenon DEF SpecFile, FastFiles
<1>2. /\ planner' = [planner EXCEPT ![p] = [plan |-> plans', files |-> files]]
      /\ plans' = plans + 1 /\ step' = [step EXCEPT ![p] = "parent"]
      /\ UNCHANGED <<path, headerWritten, directories, lines>>
  BY DEF CopySampleProblems, Goes
<1>3. plans' \in Nat /\ planner \in [Process -> [plan: Nat, files: SUBSET FastFiles]]
      /\ headerWritten \in [Process -> BOOLEAN]
  BY <1>2 DEF SampleInv, SampleTypeOK
<1>4. [plan |-> plans', files |-> files] \in [plan: Nat, files: SUBSET FastFiles]
  BY <1>1, <1>3
<1>5. /\ planner' \in [Process -> [plan: Nat, files: SUBSET FastFiles]]
      /\ \A q \in Process \ {p} : planner'[q] = planner[q]
      /\ planner'[p].files = files
  BY <1>2, <1>3, <1>4
<1> QED
  BY <1>1, <1>2, <1>3, <1>5, OutOfDirectory

LEMMA StopsStep ==
  ASSUME SampleInv, NEW p \in Process, CannotCreate(p) \/ ProcessRestarts(p)
  PROVE  SampleInv'
<1>1. /\ planner \in [Process -> [plan: Nat, files: SUBSET FastFiles]] /\ plans \in Nat
      /\ headerWritten \in [Process -> BOOLEAN]
      /\ step \in [Process -> {"none", "parent", "fast", "slow", "copyFast", "copySlow", "data"}]
  BY DEF SampleInv, SampleTypeOK
<1>2. /\ step' = [step EXCEPT ![p] = "none"] /\ UNCHANGED <<lines, directories, path, planner, plans>>
      /\ headerWritten' \in {headerWritten, [headerWritten EXCEPT ![p] = FALSE]}
  BY DEF CannotCreate, ProcessRestarts
<1>3. /\ headerWritten' \in [Process -> BOOLEAN]
      /\ \A q \in Process : headerWritten'[q] => headerWritten[q]
  BY <1>1, <1>2
<1>4. step'[p] = "none"
  BY <1>1, <1>2
<1> QED
  BY <1>1, <1>2, <1>3, <1>4, OutOfDirectory
LEMMA CreateTempDirectoryStep ==
  ASSUME SampleInv, NEW p \in Process, CreateTempDirectory(p) PROVE SampleInv'
<1> DEFINE new == [made |-> {}, fast |-> <<>>, slow |-> <<>>]
<1>0. SampleTypeOK /\ DOMAIN directories = 1 .. Len(directories) /\ Len(directories) \in Nat
  BY LinesDomain DEF SampleInv
<1>1. /\ directories' = Append(directories, new) /\ path' = [path EXCEPT ![p] = Len(directories')]
      /\ step[p] = "parent" /\ step' = [step EXCEPT ![p] = "fast"]
      /\ UNCHANGED <<planner, plans, headerWritten, lines>>
  BY DEF CreateTempDirectory, Goes
<1>2. new \in Directory
  BY DEF Directory
<1>3. /\ directories' \in Seq(Directory) /\ Len(directories') = Len(directories) + 1
      /\ \A d \in DOMAIN directories : directories'[d] = directories[d]
      /\ directories'[Len(directories')] = new
  <2> HIDE DEF new
  <2> QED
    BY <1>0, <1>1, <1>2, AppendProperties DEF SampleTypeOK
<1>4. DOMAIN directories' = 1 .. Len(directories')
  BY <1>3, LenProperties
<1>5. /\ path' \in [Process -> Nat] /\ path'[p] = Len(directories')
      /\ step' \in [Process -> {"none", "parent", "fast", "slow", "copyFast", "copySlow", "data"}]
      /\ step'[p] = "fast"
      /\ \A q \in Process \ {p} : step'[q] = step[q] /\ path'[q] = path[q]
  BY <1>0, <1>1, <1>3 DEF SampleTypeOK
<1>6. SampleTypeOK'
  BY <1>0, <1>1, <1>3, <1>5 DEF SampleTypeOK
<1>7. HasFilled(p)'
  BY <1>0, <1>3, <1>4, <1>5 DEF HasFilled
<1>8. path'[p] \notin DOMAIN directories
  BY <1>0, <1>3, <1>5
<1>9. /\ path'[p] \notin {lines[i].directory : i \in Rows}
      /\ \A q \in Process \ {p} : Fills(q) => path'[p] # path[q]
  BY <1>8 DEF SampleInv, RowsHaveDirectories, FillsItsOwn, HasFilled
<1>10. \A d \in DOMAIN directories : d \in DOMAIN directories' /\ directories'[d] = directories[d]
  BY <1>0, <1>3, <1>4
<1>11. FillsItsOwn' /\ RowsHaveDirectories' /\ SamplesAreWhole'
  BY <1>1, <1>5, <1>6, <1>7, <1>9, <1>10, StepOfOne
<1>12. PlansHaveSpec'
  BY <1>1, <1>5 DEF SampleInv, PlansHaveSpec
<1>13. HeadersAreThere'
  BY <1>1 DEF SampleInv, HeadersAreThere
<1> QED
  BY <1>6, <1>11, <1>12, <1>13 DEF SampleInv

(* p changes its own directory and goes to its next step.                  *)
LEMMA WorksOnDirectory ==
  ASSUME SampleInv, NEW p \in Process, Fills(p), NEW d \in Directory,
         directories' = [directories EXCEPT ![path[p]] = d],
         step'[p] \in {"slow", "copyFast", "copySlow", "data"},
         step' \in [Process -> {"none", "parent", "fast", "slow", "copyFast", "copySlow", "data"}],
         \A q \in Process \ {p} : step'[q] = step[q],
         UNCHANGED <<planner, plans, path, headerWritten, lines>>,
         step'[p] = "slow" => d.made = {"fast"},
         step'[p] # "slow" => d.made = {"fast", "slow"},
         step'[p] \in {"copySlow", "data"} => d.fast = CopyFileFromFast(p),
         step'[p] = "data" => d.slow = CopyFileFromSlow(p)
  PROVE  SampleInv'
<1>0. /\ SampleTypeOK /\ DOMAIN directories = 1 .. Len(directories) /\ Len(directories) \in Nat
      /\ HasFilled(p) /\ FillsAlone(p)
  BY LinesDomain DEF SampleInv, FillsItsOwn
<1>1. path[p] \in 1 .. Len(directories)
  BY <1>0 DEF HasFilled
<1>2. /\ directories' \in Seq(Directory) /\ DOMAIN directories' = DOMAIN directories
      /\ directories'[path[p]] = d
      /\ \A e \in DOMAIN directories \ {path[p]} : directories'[e] = directories[e]
  BY <1>0, <1>1, ExceptSeq DEF SampleTypeOK
<1>3. SampleTypeOK'
  BY <1>0, <1>2 DEF SampleTypeOK
<1>4. CopyFileFromFast(p)' = CopyFileFromFast(p) /\ CopyFileFromSlow(p)' = CopyFileFromSlow(p)
  BY DEF CopyFileFromFast, CopyFileFromSlow, CopyFile
<1>5. HasFilled(p)'
  BY <1>0, <1>1, <1>2, <1>4 DEF HasFilled
<1>6. /\ path'[p] \notin {lines[i].directory : i \in Rows}
      /\ \A q \in Process \ {p} : Fills(q) => path'[p] # path[q]
  BY <1>0 DEF FillsAlone
<1>7. FillsItsOwn' /\ RowsHaveDirectories' /\ SamplesAreWhole'
  BY <1>2, <1>3, <1>5, <1>6, StepOfOne
<1>8. PlansHaveSpec'
  BY DEF SampleInv, PlansHaveSpec, Fills
<1>9. HeadersAreThere'
  BY DEF SampleInv, HeadersAreThere
<1> QED
  BY <1>3, <1>7, <1>8, <1>9 DEF SampleInv

LEMMA CreateDirectoryStep ==
  ASSUME SampleInv, NEW p \in Process,
         CreateDirectory(p, "fast", "slow") \/ CreateDirectory(p, "slow", "copyFast")
  PROVE  SampleInv'
<1>1. PICK name \in {"fast", "slow"}, next \in {"slow", "copyFast"} :
        /\ CreateDirectory(p, name, next)
        /\ name = "fast" <=> next = "slow"
  OBVIOUS
<1> DEFINE old == directories[path[p]]
           d == [old EXCEPT !.made = @ \cup {name}]
<1>2. /\ directories' = [directories EXCEPT ![path[p]] = d]
      /\ step[p] = name /\ step' = [step EXCEPT ![p] = next]
      /\ UNCHANGED <<planner, plans, path, headerWritten, lines>>
  BY <1>1 DEF CreateDirectory, Goes
<1>3. SampleTypeOK /\ Fills(p) /\ HasFilled(p)
  BY <1>2 DEF SampleInv, Fills, FillsItsOwn
<1>4. old \in Directory
  BY <1>3, DirectoryTypes DEF HasFilled
<1>5. d \in Directory /\ d.made = old.made \cup {name}
  BY <1>4 DEF Directory
<1>6. old.made = IF name = "fast" THEN {} ELSE {"fast"}
  BY <1>2, <1>3 DEF HasFilled
<1>7. /\ step' \in [Process -> {"none", "parent", "fast", "slow", "copyFast", "copySlow", "data"}]
      /\ step'[p] = next /\ \A q \in Process \ {p} : step'[q] = step[q]
  BY <1>2, <1>3 DEF SampleTypeOK
<1>8. /\ next = "slow" => d.made = {"fast"}
      /\ next # "slow" => d.made = {"fast", "slow"}
  BY <1>1, <1>5, <1>6
<1> HIDE DEF d
<1> QED
  BY <1>1, <1>2, <1>3, <1>5, <1>7, <1>8, WorksOnDirectory

LEMMA CopyFastStep ==
  ASSUME SampleInv, NEW p \in Process, CopyFast(p, "copySlow") PROVE SampleInv'
<1> DEFINE old == directories[path[p]]
           d == [old EXCEPT !.fast = CopyFileFromFast(p)]
<1>2. /\ directories' = [directories EXCEPT ![path[p]] = d]
      /\ step[p] = "copyFast" /\ step' = [step EXCEPT ![p] = "copySlow"]
      /\ UNCHANGED <<planner, plans, path, headerWritten, lines>>
  BY DEF CopyFast, Goes
<1>3. SampleTypeOK /\ Fills(p) /\ HasFilled(p)
  BY <1>2 DEF SampleInv, Fills, FillsItsOwn
<1>4. old \in Directory /\ old.made = {"fast", "slow"}
  BY <1>2, <1>3, DirectoryTypes DEF HasFilled
<1>5. CopyFileFromFast(p) \in [FastFiles -> Nat]
  BY <1>3 DEF SampleTypeOK, CopyFileFromFast, CopyFile, Empty
<1>6. d \in Directory /\ d.made = old.made /\ d.fast = CopyFileFromFast(p)
  BY <1>4, <1>5 DEF Directory
<1>7. /\ step' \in [Process -> {"none", "parent", "fast", "slow", "copyFast", "copySlow", "data"}]
      /\ step'[p] = "copySlow" /\ \A q \in Process \ {p} : step'[q] = step[q]
  BY <1>2, <1>3 DEF SampleTypeOK
<1> HIDE DEF d
<1> QED
  BY <1>2, <1>3, <1>4, <1>6, <1>7, WorksOnDirectory

LEMMA CopySlowStep ==
  ASSUME SampleInv, NEW p \in Process, CopySlow(p, "data") PROVE SampleInv'
<1> DEFINE old == directories[path[p]]
           d == [old EXCEPT !.slow = CopyFileFromSlow(p)]
<1>2. /\ directories' = [directories EXCEPT ![path[p]] = d]
      /\ step[p] = "copySlow" /\ step' = [step EXCEPT ![p] = "data"]
      /\ UNCHANGED <<planner, plans, path, headerWritten, lines>>
  BY DEF CopySlow, Goes
<1>3. SampleTypeOK /\ Fills(p) /\ HasFilled(p)
  BY <1>2 DEF SampleInv, Fills, FillsItsOwn
<1>4. old \in Directory /\ old.made = {"fast", "slow"} /\ old.fast = CopyFileFromFast(p)
  BY <1>2, <1>3, DirectoryTypes DEF HasFilled
<1>5. CopyFileFromSlow(p) \in [{SpecFile} -> Nat]
  BY <1>3 DEF SampleTypeOK, CopyFileFromSlow, CopyFile, Empty
<1>6. d \in Directory /\ d.made = old.made /\ d.fast = old.fast /\ d.slow = CopyFileFromSlow(p)
  BY <1>4, <1>5 DEF Directory
<1>7. /\ step' \in [Process -> {"none", "parent", "fast", "slow", "copyFast", "copySlow", "data"}]
      /\ step'[p] = "data" /\ \A q \in Process \ {p} : step'[q] = step[q]
  BY <1>2, <1>3 DEF SampleTypeOK
<1> HIDE DEF d
<1> QED
  BY <1>2, <1>3, <1>4, <1>6, <1>7, WorksOnDirectory
(* A row is written for a directory that is full, after the header of its  *)
(* run.                                                                    *)
LEMMA WriteDataStep ==
  ASSUME SampleInv, NEW p \in Process, NEW length \in RateCount, WriteData(p, length, "none")
  PROVE  SampleInv'
<1> DEFINE row == [by |-> p, directory |-> path[p], plan |-> planner[p].plan,
                   files |-> planner[p].files, columns |-> 4 + StateColumns + length + 1]
           header == [by |-> p, directory |-> 0, columns |-> HeaderColumns]
           added == IF headerWritten[p] THEN <<row>> ELSE <<header, row>>
           n == Len(lines)
           m == Len(lines')
<1>1. /\ lines' = lines \o added /\ step[p] = "data" /\ step' = [step EXCEPT ![p] = "none"]
      /\ headerWritten' = [headerWritten EXCEPT ![p] = TRUE]
      /\ UNCHANGED <<planner, plans, path, directories>>
  BY DEF WriteData, Goes
<1>2. /\ SampleTypeOK /\ HasFilled(p) /\ FillsAlone(p) /\ n \in Nat /\ DOMAIN lines = 1 .. n
      /\ DOMAIN directories = 1 .. Len(directories) /\ Len(directories) \in Nat
  BY <1>1, LinesDomain DEF SampleInv, FillsItsOwn, Fills
<1>3. /\ planner[p].plan \in Nat /\ planner[p].files \in SUBSET FastFiles /\ length \in Nat
      /\ path[p] \in Nat \ {0}
  <2>1. planner[p] \in [plan: Nat, files: SUBSET FastFiles]
    BY <1>2 DEF SampleTypeOK
  <2>2. length \in Nat
    BY SampleAssumption
  <2>3. path[p] \in 1 .. Len(directories)
    BY <1>2 DEF HasFilled
  <2> QED
    BY <1>2, <2>1, <2>2, <2>3
<1>4. header \in Header /\ header.directory = 0 /\ header.by = p
  BY DEF Header, HeaderColumns
<1>5. row \in Row /\ row.by = p /\ row.directory = path[p] /\ row.plan = planner[p].plan
      /\ row.files = planner[p].files /\ row.columns - HeaderColumns = length - 21
  BY <1>3 DEF Row, HeaderColumns, StateColumns
<1> HIDE DEF row, header
<1>6. /\ lines' \in Seq(Header \cup Row) /\ m \in Nat /\ m > n /\ lines'[m] = row
      /\ \A i \in 1 .. n : lines'[i] = lines[i]
      /\ headerWritten[p] => m = n + 1
      /\ ~headerWritten[p] => m = n + 2 /\ lines'[n + 1] = header
  <2>0. /\ lines \in Seq(Header \cup Row)
        /\ <<row>> \in Seq(Header \cup Row) /\ <<header, row>> \in Seq(Header \cup Row)
    <3>1. lines \in Seq(Header \cup Row)
      BY <1>2 DEF SampleTypeOK
    <3> QED
      BY <1>4, <1>5, <3>1
  <2>1. lines \in Seq(Header \cup Row) /\ added \in Seq(Header \cup Row)
    BY <2>0
  <2>2. /\ headerWritten[p] => Len(added) = 1 /\ added[1] = row
        /\ ~headerWritten[p] => Len(added) = 2 /\ added[1] = header /\ added[2] = row
    OBVIOUS
  <2> HIDE DEF added
  <2>3. /\ lines' \in Seq(Header \cup Row) /\ m = n + Len(added)
        /\ \A i \in 1 .. m : lines'[i] = IF i <= n THEN lines[i] ELSE added[i - n]
    BY <1>1, <2>1, ConcatProperties
  <2> QED
    BY <1>2, <2>2, <2>3
<1> HIDE DEF added
<1>7. DOMAIN lines' = 1 .. m /\ 1 .. n \subseteq 1 .. m /\ 1 .. m - 1 \subseteq 1 .. m
  <2>1. DOMAIN lines' = 1 .. m
    BY <1>6, LenProperties
  <2>2. n \in Nat /\ m \in Nat /\ m > n
    BY <1>2, <1>6
  <2> HIDE DEF n, m
  <2> QED
    BY <2>1, <2>2
<1>8. /\ headerWritten' \in [Process -> BOOLEAN]
      /\ step' \in [Process -> {"none", "parent", "fast", "slow", "copyFast", "copySlow", "data"}]
      /\ step'[p] = "none" /\ \A q \in Process \ {p} : step'[q] = step[q]
      /\ \A q \in Process \ {p} : headerWritten'[q] = headerWritten[q]
  BY <1>1, <1>2 DEF SampleTypeOK
<1>9. SampleTypeOK'
  BY <1>1, <1>2, <1>6, <1>8 DEF SampleTypeOK
<1>10. \A i \in Rows' : (i \in Rows /\ lines'[i] = lines[i]) \/ i = m
  <2> SUFFICES ASSUME NEW i \in 1 .. m, lines'[i].directory # 0
               PROVE  (i \in Rows /\ lines'[i] = lines[i]) \/ i = m
    BY <1>7 DEF Rows
  <2>1. CASE i \in 1 .. n
    BY <1>2, <1>6, <2>1 DEF Rows
  <2>2. i = n + 1 \/ i = n + 2 \/ i \in 1 .. n
    BY <1>2, <1>6
  <2> QED
    BY <1>2, <1>4, <1>6, <2>1, <2>2
<1>11. \E j \in 1 .. m - 1 : lines'[j].directory = 0 /\ lines'[j].by = p
  <2>1. CASE headerWritten[p]
    BY <1>2, <1>6, <2>1 DEF SampleInv, HeadersAreThere
  <2>2. CASE ~headerWritten[p]
    BY <1>2, <1>4, <1>6, <2>2
  <2> QED
    BY <2>1, <2>2
<1>12. FillsItsOwn'
  <2> SUFFICES ASSUME NEW q \in Process, Fills(q)' PROVE HasFilled(q)' /\ FillsAlone(q)'
    BY DEF FillsItsOwn
  <2>1. q # p /\ Fills(q) /\ HasFilled(q) /\ FillsAlone(q) /\ path[q] # path[p]
    BY <1>1, <1>8 DEF Fills, SampleInv, FillsItsOwn, FillsAlone
  <2>2. CopyFileFromFast(q)' = CopyFileFromFast(q) /\ CopyFileFromSlow(q)' = CopyFileFromSlow(q)
    BY <1>1 DEF CopyFileFromFast, CopyFileFromSlow, CopyFile
  <2>3. HasFilled(q)'
    BY <1>1, <1>8, <2>1, <2>2 DEF HasFilled
  <2>4. \A i \in Rows' : lines'[i].directory # path'[q]
    BY <1>1, <1>5, <1>6, <1>10, <2>1 DEF FillsAlone
  <2>5. \A r \in Process \ {q} : Fills(r)' => path'[r] # path'[q]
    BY <1>1, <1>8, <2>1 DEF FillsAlone, Fills
  <2> QED
    BY <2>3, <2>4, <2>5 DEF FillsAlone
<1>13. RowsHaveDirectories'
  BY <1>1, <1>2, <1>5, <1>6, <1>10 DEF SampleInv, RowsHaveDirectories, HasFilled
<1>14. PlansHaveSpec'
  BY <1>1, <1>8 DEF SampleInv, PlansHaveSpec
<1>15. HeadersAreThere'
  <2>1. \A q \in Process \ {p} : headerWritten'[q] =>
          \E j \in DOMAIN lines' : lines'[j].directory = 0 /\ lines'[j].by = q
    <3> SUFFICES ASSUME NEW q \in Process \ {p}, headerWritten'[q]
                 PROVE  \E j \in DOMAIN lines' : lines'[j].directory = 0 /\ lines'[j].by = q
      OBVIOUS
    <3>1. PICK j \in 1 .. n : lines[j].directory = 0 /\ lines[j].by = q
      BY <1>2, <1>8 DEF SampleInv, HeadersAreThere
    <3>2. j \in DOMAIN lines' /\ lines'[j] = lines[j]
      BY <1>2, <1>6, <1>7
    <3> QED
      BY <3>1, <3>2
  <2>2. \E j \in DOMAIN lines' : lines'[j].directory = 0 /\ lines'[j].by = p
    BY <1>7, <1>11
  <2> QED
    BY <2>1, <2>2 DEF HeadersAreThere
<1>16. SamplesAreWhole'
  <2>1. \A j \in Rows : lines[j].directory # path[p]
    BY <1>2 DEF FillsAlone
  <2>2. ASSUME NEW i \in Rows', i = m
        PROVE  LET kept == directories[lines'[i].directory]
               IN  /\ kept.made = {"fast", "slow"}
                   /\ DOMAIN kept.fast = FastFiles /\ DOMAIN kept.slow = {SpecFile}
                   /\ \A file \in FastFiles :
                        kept.fast[file] = IF file \in lines'[i].files THEN lines'[i].plan ELSE Empty
                   /\ kept.slow[SpecFile] = lines'[i].plan
    <3>1. /\ directories[path[p]].made = {"fast", "slow"}
          /\ directories[path[p]].fast = CopyFileFromFast(p)
          /\ directories[path[p]].slow = CopyFileFromSlow(p)
      BY <1>1, <1>2 DEF HasFilled
    <3>2. SpecFile \in planner[p].files
      BY <1>1 DEF SampleInv, PlansHaveSpec
    <3> QED
      BY <1>5, <1>6, <2>2, <3>1, <3>2 DEF CopyFileFromFast, CopyFileFromSlow, CopyFile
  <2>3. ASSUME NEW i \in Rows'
        PROVE  LET kept == directories[lines'[i].directory]
               IN  /\ kept.made = {"fast", "slow"}
                   /\ DOMAIN kept.fast = FastFiles /\ DOMAIN kept.slow = {SpecFile}
                   /\ \A file \in FastFiles :
                        kept.fast[file] = IF file \in lines'[i].files THEN lines'[i].plan ELSE Empty
                   /\ kept.slow[SpecFile] = lines'[i].plan
    <3>1. CASE i \in Rows /\ lines'[i] = lines[i]
      BY <3>1 DEF SampleInv, SamplesAreWhole
    <3> QED
      BY <1>10, <2>2, <3>1
  <2>4. \A i, j \in Rows' : lines'[j].directory = lines'[i].directory => i = j
    <3>1. \A i, j \in Rows : lines[j].directory = lines[i].directory => i = j
      BY DEF SampleInv, SamplesAreWhole
    <3>2. lines'[m].directory = path[p]
      BY <1>5, <1>6
    <3> QED
      BY <1>10, <2>1, <3>1, <3>2
  <2>5. \A i \in Rows' : \E j \in 1 .. i - 1 : lines'[j].directory = 0 /\ lines'[j].by = lines'[i].by
    <3>1. \A i \in Rows : i \in 1 .. n
            /\ \E j \in 1 .. i - 1 : lines[j].directory = 0 /\ lines[j].by = lines[i].by
      BY <1>2 DEF SampleInv, SamplesAreWhole, Rows
    <3>2. \A i \in Rows : \E j \in 1 .. i - 1 : lines'[j].directory = 0 /\ lines'[j].by = lines[i].by
      BY <1>2, <1>6, <3>1
    <3> QED
      BY <1>5, <1>6, <1>10, <1>11, <3>2
  <2>6. \A i \in Rows' : lines'[i].columns - HeaderColumns \in {k - 21 : k \in RateCount}
    BY <1>5, <1>6, <1>10 DEF SampleInv, SamplesAreWhole
  <2> QED
    BY <1>1, <2>3, <2>4, <2>5, <2>6 DEF SamplesAreWhole
<1> QED
  BY <1>9, <1>12, <1>13, <1>14, <1>15, <1>16 DEF SampleInv

LEMMA SampleFrame == SampleInv /\ UNCHANGED sampleVars => SampleInv'
<1> SUFFICES ASSUME SampleInv, UNCHANGED sampleVars PROVE SampleInv'
  OBVIOUS
<1>1. UNCHANGED <<planner, plans, step, path, headerWritten, directories, lines, restarts>>
  BY DEF sampleVars
<1>2. SampleTypeOK'
  BY <1>1 DEF SampleInv, SampleTypeOK
<1>3. \A q \in Process : CopyFileFromFast(q)' = CopyFileFromFast(q)
                         /\ CopyFileFromSlow(q)' = CopyFileFromSlow(q)
  BY <1>1 DEF CopyFileFromFast, CopyFileFromSlow, CopyFile
<1>4. \A q \in Process : Fills(q) => HasFilled(q)' /\ FillsAlone(q)'
  BY <1>1, <1>3 DEF SampleInv, FillsItsOwn, HasFilled, FillsAlone, Fills, Rows
<1>5. FillsItsOwn'
  BY <1>1, <1>4 DEF FillsItsOwn, Fills
<1>6. RowsHaveDirectories' /\ PlansHaveSpec' /\ HeadersAreThere' /\ SamplesAreWhole'
  BY <1>1 DEF SampleInv, RowsHaveDirectories, PlansHaveSpec, HeadersAreThere, SamplesAreWhole, Rows
<1> QED
  BY <1>2, <1>5, <1>6 DEF SampleInv

(* Whatever runs fail, end or get between each other, each row of the      *)
(* table of samples (copySampleProblems in Utils.cc) names a directory of  *)
(* its own with all the files of its problem, after a header of its run,   *)
(* for any number of runs, problems and restarts.                          *)
THEOREM SamplesTheorem == PartsSpec => []SamplesAreWhole
<1>1. PartsInit => SampleInv
  BY SampleInitial DEF PartsInit
<1>2. SampleInv /\ [PartsNext]_partsVars => SampleInv'
  <2> SUFFICES ASSUME SampleInv, [PartsNext]_partsVars PROVE SampleInv'
    OBVIOUS
  <2>1. SampleNext \/ UNCHANGED sampleVars
    BY DEF PartsNext, partsVars, OnlyPart
  <2>2. ASSUME NEW p \in Process, SampleStep(p) PROVE SampleInv'
    BY <2>2, CreateTempDirectoryStep, CreateDirectoryStep, CopyFastStep, CopySlowStep,
       WriteDataStep DEF SampleStep
  <2> QED
    BY <2>1, <2>2, CopySampleProblemsStep, StopsStep, SampleFrame DEF SampleNext
<1>3. SampleInv => SamplesAreWhole
  BY DEF SampleInv
<1> QED
  BY <1>1, <1>2, <1>3, PTL DEF PartsSpec
(***************************************************************************)
(* The run-time model and its clock                                        *)
(***************************************************************************)

LEMMA Quotient ==
  ASSUME NEW P \in Nat \ {0}, NEW x \in Int
  PROVE  x \div P \in Int /\ P * (x \div P) <= x /\ x < P * (x \div P) + P
  OBVIOUS

LEMMA NextMultiple ==
  ASSUME NEW P \in Nat \ {0}, NEW a \in Int, NEW b \in Int, a < b
  PROVE  P * a + P <= P * b
<1>1. P * (b - a - 1) >= 0
  OBVIOUS
<1>2. P * (b - a - 1) = P * b - P * a - P
  OBVIOUS
<1>3. P * a \in Int /\ P * b \in Int
  OBVIOUS
<1> QED
  BY <1>1, <1>2, <1>3

LEMMA QuotientIs ==
  ASSUME NEW P \in Nat \ {0}, NEW x \in Int, NEW a \in Int, P * a <= x, x < P * a + P
  PROVE  x \div P = a
<1> DEFINE b == x \div P
<1>1. b \in Int /\ P * b <= x /\ x < P * b + P
  BY Quotient
<1> HIDE DEF b
<1>2. P * a \in Int /\ P * b \in Int
  BY <1>1
<1>3. ~(a < b) /\ ~(b < a)
  BY <1>1, <1>2, NextMultiple
<1>4. a = b
  BY <1>1, <1>3
<1> QED
  BY <1>4 DEF b

(* Whole multiples can be taken out of a quotient.                         *)
LEMMA QuotientOfSum ==
  ASSUME NEW P \in Nat \ {0}, NEW q \in Int, NEW x \in Int
  PROVE  (P * q + x) \div P = q + (x \div P)
<1> DEFINE b == x \div P
           y == P * q + x
<1>1. b \in Int /\ P * b <= x /\ x < P * b + P
  BY Quotient
<1>2. y \in Int /\ P * q \in Int
  OBVIOUS
<1> HIDE DEF b
<1>3. P * b \in Int /\ P * (q + b) = P * q + P * b
  BY <1>1
<1>4. q + b \in Int /\ P * (q + b) <= y /\ y < P * (q + b) + P
  BY <1>1, <1>2, <1>3
<1> HIDE DEF y
<1>5. y \div P = q + b
  BY <1>2, <1>4, QuotientIs
<1> QED
  BY <1>5 DEF b, y

LEMMA MaxOfTwo ==
  ASSUME NEW a \in Int, NEW b \in Int
  PROVE  Max({a, b}) \in {a, b} /\ Max({a, b}) >= a /\ Max({a, b}) >= b
<1>1. \E x \in {a, b} : \A y \in {a, b} : x >= y
  OBVIOUS
<1> QED
  BY <1>1 DEF Max

LEMMA MinOfTwo ==
  ASSUME NEW a \in Int, NEW b \in Int
  PROVE  Min({a, b}) \in {a, b} /\ Min({a, b}) <= a /\ Min({a, b}) <= b
<1>1. \E x \in {a, b} : \A y \in {a, b} : x =< y
  OBVIOUS
<1> QED
  BY <1>1 DEF Min

(* The periods that a boot of D has passed, when r is left of it.          *)
LEMMA PeriodsPassed ==
  ASSUME NEW D \in Nat, NEW P \in Nat \ {0}, NEW r \in 0 .. D
  PROVE  Min({D \div P - Max({1, CeilDiv(r, P)}), D \div P})
           = Min({((D - r) - (D % P)) \div P, D \div P - 1})
<1> DEFINE q == D \div P
           c == (-r) \div P
<1>1. q \in Int /\ c \in Int /\ D % P = D - P * q
  BY Quotient
<1>2. P * q \in Int /\ (D - r) - (D % P) = P * q + (-r)
  BY <1>1
<1>3. ((D - r) - (D % P)) \div P = q + c
  BY <1>1, <1>2, QuotientOfSum
<1>4. CeilDiv(r, P) = -c
  BY DEF CeilDiv
<1> HIDE DEF q, c
<1> DEFINE m == Max({1, -c})
<1>5. m \in {1, -c} /\ m >= 1 /\ m >= -c
  <2>1. 1 \in Int /\ -c \in Int
    BY <1>1
  <2> QED
    BY <2>1, MaxOfTwo, Zenon
<1> HIDE DEF m
<1>6. Min({q - m, q}) = q - m
  <2>1. q - m \in Int /\ q - m <= q /\ ~(q <= q - m)
    BY <1>1, <1>5
  <2>2. Min({q - m, q}) \in {q - m, q} /\ Min({q - m, q}) <= q - m
    BY <1>1, <2>1, MinOfTwo, Zenon
  <2> QED
    BY <2>1, <2>2
<1>7. Min({q + c, q - 1}) = q - m
  <2>1. q + c \in Int /\ q - 1 \in Int /\ q - m <= q + c /\ q - m <= q - 1
        /\ q - m \in {q + c, q - 1}
    BY <1>1, <1>5
  <2>2. /\ Min({q + c, q - 1}) \in {q + c, q - 1}
        /\ Min({q + c, q - 1}) <= q + c /\ Min({q + c, q - 1}) <= q - 1
    BY <2>1, MinOfTwo, Zenon
  <2> QED
    BY <1>1, <1>5, <2>1, <2>2
<1>8. Min({q - m, q}) = Min({q + c, q - 1})
  BY <1>6, <1>7
<1> QED
  BY <1>3, <1>4, <1>8 DEF q, m

LEMMA CeilOfPositive ==
  ASSUME NEW a \in Int, NEW P \in Nat \ {0}
  PROVE  CeilDiv(a, P) \in Int /\ (a > 0 => CeilDiv(a, P) > 0)
<1> DEFINE c == (-a) \div P
<1>1. c \in Int /\ P * c <= -a
  BY Quotient
<1>2. CeilDiv(a, P) = -c
  BY DEF CeilDiv
<1> HIDE DEF c
<1>3. c >= 0 => P * c >= 0
  BY <1>1
<1>4. P * c \in Int
  BY <1>1
<1> QED
  BY <1>1, <1>2, <1>3, <1>4

LEMMA RemainingType ==
  ASSUME ClockTypeOK
  PROVE  RemainingPeriods \in Nat /\ (RemainingPeriods > 0 <=> IsServerBooting)
<1> DEFINE c == CeilDiv(eventTime - modelClock, EvaluationPeriod)
<1>1. c \in Int
  BY CeilOfPositive, BootClockAssumption DEF ClockTypeOK
<1> HIDE DEF c
<1>2. Max({1, c}) \in Nat /\ Max({1, c}) > 0
  <2>1. 1 \in Int
    OBVIOUS
  <2>2. Max({1, c}) \in {1, c} /\ Max({1, c}) >= 1
    BY <1>1, <2>1, MaxOfTwo, Zenon
  <2> QED
    BY <1>1, <2>2
<1>3. RemainingPeriods = IF IsServerBooting THEN Max({1, c}) ELSE 0
  BY DEF RemainingPeriods, c
<1> QED
  BY <1>2, <1>3

LEMMA ForesightInit == BootClockInit => ForesightInv
<1> SUFFICES ASSUME BootClockInit PROVE ForesightInv
  OBVIOUS
<1>1. /\ active = [t \in Type |-> 0] /\ before = [t \in Type |-> 0]
      /\ countLast = [t \in Type |-> 0] /\ events = {} /\ bootType = NoType
      /\ modelClock = 0 /\ eventTime = 0 /\ bootRemain = 0 /\ timeCountLast = 0
      /\ bootComplete = NoType /\ changes = <<>>
  BY DEF BootClockInit, ModelInit
<1>2. changes \in Seq(Type) /\ Len(changes) = 0
  BY <1>1, EmptySeq
<1>3. ClockTypeOK
  BY <1>1, <1>2 DEF ClockTypeOK
<1> QED
  BY <1>1, <1>2, <1>3 DEF ForesightInv, OneBoot, Remembers, IsServerBooting

(* What a change of the active servers remembers.                          *)
LEMMA CountedStep ==
  ASSUME ClockTypeOK, Remembers, NEW t \in Type, NEW n \in Int, CountChanges(t),
         active' = [active EXCEPT ![t] = n], UNCHANGED <<modelClock, before>>
  PROVE  /\ active' \in [Type -> Int] /\ before' \in [Type -> Int]
         /\ countLast' \in [Type -> Int] /\ timeCountLast' \in 0 .. modelClock'
         /\ changes' \in Seq(Type) /\ Remembers'
<1>1. /\ changes' \in Seq(Type) /\ Len(changes') = Len(changes) + 1 /\ changes' # <<>>
      /\ Len(changes') = 1 => changes = <<>> /\ changes'[1] = t
  <2>1. changes \in Seq(Type) /\ changes' = Append(changes, t)
    BY DEF ClockTypeOK, CountChanges
  <2>2. /\ changes' \in Seq(Type) /\ Len(changes') = Len(changes) + 1 /\ changes' # <<>>
        /\ changes'[Len(changes) + 1] = t
    BY <2>1, AppendProperties
  <2>3. Len(changes) \in Nat
    BY <2>1, LenProperties
  <2>4. Len(changes) = 0 => changes = <<>>
    BY <2>1, EmptySeq
  <2>5. Len(changes') = 1 => Len(changes) = 0
    <3> DEFINE old == Len(changes)
               new == Len(changes')
    <3>1. old \in Nat /\ new = old + 1
      BY <2>2, <2>3
    <3> HIDE DEF old, new
    <3>2. new = 1 => old = 0
      BY <3>1
    <3> QED
      BY <3>2 DEF old, new
  <2> QED
    BY <2>2, <2>4, <2>5
<1>2. /\ active' \in [Type -> Int] /\ before' \in [Type -> Int]
      /\ countLast' \in [Type -> Int] /\ timeCountLast' = modelClock
      /\ countLast'[t] = active[t]
  BY DEF ClockTypeOK, CountChanges
<1>3. Len(changes') = 1 => countLast'[changes'[1]] = before'[changes'[1]]
  <2> SUFFICES ASSUME Len(changes') = 1 PROVE countLast'[changes'[1]] = before'[changes'[1]]
    OBVIOUS
  <2>1. changes = <<>> /\ changes'[1] = t
    BY <1>1
  <2> QED
    BY <1>2, <2>1 DEF Remembers
<1>4. Remembers'
  <2>1. changes' # <<>> /\ timeCountLast' = modelClock'
    BY <1>1, <1>2
  <2> QED
    BY <1>3, <2>1 DEF Remembers
<1>5. timeCountLast' \in 0 .. modelClock'
  BY <1>2 DEF ClockTypeOK
<1> QED
  BY <1>1, <1>2, <1>4, <1>5

(* Initial servers, BootComplete, and the removal of an active server.     *)
LEMMA ChangeStep ==
  ASSUME ForesightInv,
         \/ \E t \in Type : AddInitialServer(t) \/ RemoveActiveServer(t)
         \/ ServerBecameActive
  PROVE  ForesightInv'
<1>0. ClockTypeOK /\ OneBoot /\ Remembers
  BY DEF ForesightInv
<1>1. PICK t \in Type, n \in Int :
        /\ CountChanges(t) /\ active' = [active EXCEPT ![t] = n]
        /\ UNCHANGED <<modelClock, before>> /\ bootRemain' = 0 /\ bootType' = NoType
        /\ events' = {} /\ bootComplete' = NoType /\ eventTime' \in Nat
  <2>1. ASSUME NEW t \in Type, AddInitialServer(t) \/ RemoveActiveServer(t)
        PROVE  \E n \in Int :
                 /\ CountChanges(t) /\ active' = [active EXCEPT ![t] = n]
                 /\ UNCHANGED <<modelClock, before>> /\ bootRemain' = 0 /\ bootType' = NoType
                 /\ events' = {} /\ bootComplete' = NoType /\ eventTime' \in Nat
    <3>1. /\ CountChanges(t) /\ events = {} /\ UNCHANGED <<events, eventTime, bootComplete>>
          /\ UNCHANGED <<modelClock, before>> /\ bootRemain' = 0 /\ bootType' = NoType
      BY <2>1 DEF AddInitialServer, RemoveActiveServer, SetActiveServers, IsServerBooting
    <3>2. bootComplete = NoType /\ eventTime \in Nat
      BY <1>0, <3>1 DEF OneBoot, ClockTypeOK
    <3>3. /\ active[t] + 1 \in Int /\ active[t] - 1 \in Int
          /\ \/ active' = [active EXCEPT ![t] = active[t] + 1]
             \/ active' = [active EXCEPT ![t] = active[t] - 1]
      BY <1>0, <2>1 DEF AddInitialServer, RemoveActiveServer, SetActiveServers, ClockTypeOK
    <3> QED
      BY <3>1, <3>2, <3>3
  <2>2. ASSUME ServerBecameActive
        PROVE  \E t \in Type, n \in Int :
                 /\ CountChanges(t) /\ active' = [active EXCEPT ![t] = n]
                 /\ UNCHANGED <<modelClock, before>> /\ bootRemain' = 0 /\ bootType' = NoType
                 /\ events' = {} /\ bootComplete' = NoType /\ eventTime' \in Nat
    <3>1. bootComplete \in Type /\ active[bootComplete] + 1 \in Int
      BY <1>0, <2>2 DEF ServerBecameActive, ClockTypeOK
    <3> QED
      BY <2>2, <3>1 DEF ServerBecameActive, SetActiveServers, RemoveExpectedChange
  <2> QED
    BY <2>1, <2>2
<1>2. /\ active' \in [Type -> Int] /\ before' \in [Type -> Int]
      /\ countLast' \in [Type -> Int] /\ timeCountLast' \in 0 .. modelClock'
      /\ changes' \in Seq(Type) /\ Remembers'
  BY <1>0, <1>1, CountedStep
<1>3. ClockTypeOK'
  BY <1>0, <1>1, <1>2 DEF ClockTypeOK
<1>4. OneBoot'
  BY <1>1 DEF OneBoot, IsServerBooting
<1> QED
  BY <1>2, <1>3, <1>4 DEF ForesightInv

(* A boot begins, ends without a server or is brought up to date.          *)
LEMMA BootStep ==
  ASSUME ForesightInv,
         \/ \E t \in Type : AddServer(t)
         \/ CancelBoot \/ RemoveBootingServer \/ GetConfiguration
  PROVE  ForesightInv'
<1>0. ClockTypeOK /\ OneBoot /\ Remembers
  BY DEF ForesightInv
<1>1. UNCHANGED <<active, modelClock, countLast, timeCountLast, before, changes>>
  BY DEF AddServer, CancelBoot, RemoveBootingServer, GetConfiguration, modelVars
<1>2. Remembers'
  BY <1>0, <1>1 DEF Remembers
<1>3. CASE \E t \in Type : AddServer(t)
  <2>1. PICK t \in Type : AddServer(t)
    BY <1>3
  <2>2. CeilDiv(BootDelay, EvaluationPeriod) \in Nat \ {0}
    BY CeilOfPositive, BootClockAssumption
  <2>3. /\ events' = {t} /\ bootRemain' \in Nat \ {0} /\ bootType' = t /\ bootComplete' = t
        /\ eventTime' = modelClock + BootDelay
    BY <2>1, <2>2 DEF AddServer, IsServerBooting, AddExpectedChange, SetBootRemain, Type, NoType
  <2>4. ClockTypeOK'
    BY <1>0, <1>1, <2>3, BootClockAssumption DEF ClockTypeOK
  <2>5. OneBoot'
    BY <1>0, <1>1, <2>3, BootClockAssumption DEF OneBoot, IsServerBooting, ClockTypeOK, Type, NoType
  <2> QED
    BY <1>2, <2>4, <2>5 DEF ForesightInv
<1>4. CASE CancelBoot
  <2>1. UNCHANGED <<events, bootType, bootRemain, eventTime>> /\ bootComplete' = NoType
    BY <1>4 DEF CancelBoot, modelVars
  <2>2. ClockTypeOK' /\ OneBoot'
    BY <1>0, <1>1, <2>1 DEF ClockTypeOK, OneBoot, IsServerBooting
  <2> QED
    BY <1>2, <2>2 DEF ForesightInv
<1>5. CASE RemoveBootingServer
  <2>1. /\ events' = {} /\ bootType' = NoType /\ bootRemain' = 0 /\ eventTime' = 0
        /\ bootComplete' = NoType
    BY <1>5 DEF RemoveBootingServer, RemoveExpectedChange, SetBootRemain
  <2>2. ClockTypeOK' /\ OneBoot'
    BY <1>0, <1>1, <2>1 DEF ClockTypeOK, OneBoot, IsServerBooting
  <2> QED
    BY <1>2, <2>2 DEF ForesightInv
<1>6. CASE GetConfiguration
  <2>1. /\ UNCHANGED <<events, eventTime, bootComplete>> /\ bootRemain' = RemainingPeriods
        /\ bootType' = IF RemainingPeriods = 0 THEN NoType ELSE bootType
    BY <1>6 DEF GetConfiguration, SetBootRemain
  <2>2. bootRemain' \in Nat /\ (bootRemain' > 0 <=> IsServerBooting)
    BY <1>0, <2>1, RemainingType
  <2>3. bootType' = IF bootRemain' = 0 THEN NoType ELSE bootType
    BY <2>1
  <2>4. bootType' = bootType
    BY <1>0, <2>2, <2>3 DEF OneBoot
  <2>5. ClockTypeOK' /\ OneBoot'
    BY <1>0, <1>1, <2>1, <2>2, <2>4 DEF ClockTypeOK, OneBoot, IsServerBooting
  <2> QED
    BY <1>2, <2>5 DEF ForesightInv
<1> QED
  BY <1>3, <1>4, <1>5, <1>6

LEMMA AdvanceStep ==
  ASSUME ForesightInv, Advance PROVE ForesightInv'
<1>0. ClockTypeOK /\ OneBoot /\ Remembers
  BY DEF ForesightInv
<1>1. /\ IsServerBooting => bootComplete # NoType /\ eventTime > modelClock
      /\ modelClock' = modelClock + 1 /\ before' = active /\ changes' = <<>>
      /\ UNCHANGED <<active, bootType, events, eventTime, bootRemain, countLast, timeCountLast,
                     bootComplete>>
  BY DEF Advance, modelVars
<1>2. changes' \in Seq(Type) /\ Len(changes') = 0
  BY <1>1, EmptySeq
<1>3. ClockTypeOK'
  BY <1>0, <1>1, <1>2 DEF ClockTypeOK
<1>4. OneBoot'
  <2>1. bootComplete # NoType => /\ events = {bootComplete} /\ bootType = bootComplete
                                 /\ eventTime \in modelClock + 1 .. modelClock + 1 + BootDelay
    BY <1>0, <1>1, BootClockAssumption DEF OneBoot, IsServerBooting, ClockTypeOK
  <2> QED
    BY <1>0, <1>1, <2>1 DEF OneBoot, IsServerBooting
<1>5. Remembers'
  BY <1>0, <1>1, <1>2 DEF Remembers, ClockTypeOK
<1> QED
  BY <1>3, <1>4, <1>5 DEF ForesightInv

LEMMA Foresight == ForesightInv => BootIsForeseen
<1> SUFFICES ASSUME ForesightInv PROVE BootIsForeseen
  OBVIOUS
<1>0. ClockTypeOK /\ OneBoot /\ Remembers
  BY DEF ForesightInv
<1>1. ASSUME bootComplete # NoType, NEW delta \in 0 .. BootDelay, eventTime > modelClock
      PROVE  GetActiveServerCountIn(delta, bootComplete) > active[bootComplete]
               <=> modelClock + delta >= eventTime
  <2>1. /\ bootComplete \in events /\ active[bootComplete] \in Int /\ delta \in Int /\ ~(delta < 0)
        /\ modelClock \in Int /\ eventTime \in Int
    BY <1>0, <1>1, BootClockAssumption DEF OneBoot, ClockTypeOK
  <2>2. CASE eventTime <= modelClock + delta
    <3>1. GetActiveServerCountIn(delta, bootComplete) = active[bootComplete] + 1
      BY <1>1, <2>1, <2>2 DEF GetActiveServerCountIn, NotExpired
    <3> QED
      BY <2>1, <2>2, <3>1
  <2>3. CASE ~(eventTime <= modelClock + delta)
    <3>1. GetActiveServerCountIn(delta, bootComplete) = active[bootComplete] + 0
      BY <1>1, <2>1, <2>3 DEF GetActiveServerCountIn, NotExpired
    <3> QED
      BY <2>1, <2>3, <3>1
  <2> QED
    BY <2>2, <2>3
<1>2. ASSUME bootComplete # NoType
      PROVE  /\ InitialStateVariables.adding[bootComplete]
                  = Min({((BootDelay - (eventTime - modelClock)) - (BootDelay % EvaluationPeriod))
                            \div EvaluationPeriod, BootDelay \div EvaluationPeriod - 1})
             /\ \A t \in Type \ {bootComplete} : InitialStateVariables.adding[t] = 0
  <2>1. /\ IsServerBooting /\ bootType = bootComplete /\ bootComplete \in Type
        /\ eventTime - modelClock \in 0 .. BootDelay
    BY <1>0, <1>2, BootClockAssumption DEF OneBoot, ClockTypeOK, IsServerBooting
  <2>2. RemainingPeriods > 0
    BY <1>0, <2>1, RemainingType
  <2>3. RemainingPeriods = Max({1, CeilDiv(eventTime - modelClock, EvaluationPeriod)})
    BY <2>1 DEF RemainingPeriods
  <2>4. InitialStateVariables.adding
          = [t \in Type |-> IF t = bootComplete
                            THEN Min({BootDelay \div EvaluationPeriod - RemainingPeriods,
                                      BootDelay \div EvaluationPeriod}) ELSE 0]
    BY <2>1, <2>2 DEF InitialStateVariables
  <2>5. Min({BootDelay \div EvaluationPeriod - RemainingPeriods, BootDelay \div EvaluationPeriod})
          = Min({((BootDelay - (eventTime - modelClock)) - (BootDelay % EvaluationPeriod))
                    \div EvaluationPeriod, BootDelay \div EvaluationPeriod - 1})
    BY <2>1, <2>3, PeriodsPassed, BootClockAssumption
  <2> QED
    BY <2>1, <2>4, <2>5
<1>3. ASSUME Len(changes) <= 1, NEW t \in Type, changes = <<>> \/ t = changes[1]
      PROVE  GetActiveServerCountIn(-1, t) = before[t]
  <2>1. GetActiveServerCountIn(-1, t) = IF timeCountLast < modelClock THEN active[t] ELSE countLast[t]
    BY DEF GetActiveServerCountIn
  <2>2. timeCountLast \in Int /\ modelClock \in Int /\ timeCountLast <= modelClock
    BY <1>0 DEF ClockTypeOK
  <2>3. CASE changes = <<>>
    BY <1>0, <2>1, <2>2, <2>3 DEF Remembers
  <2>4. CASE changes # <<>>
    <3>1. Len(changes) = 1
      <4>1. changes \in Seq(Type) /\ Len(changes) \in Nat
        BY <1>0, LenProperties DEF ClockTypeOK
      <4>2. Len(changes) # 0
        BY <2>4, <4>1, EmptySeq
      <4> QED
        BY <1>3, <4>1, <4>2
    <3> QED
      BY <1>0, <1>3, <2>1, <2>2, <2>4, <3>1 DEF Remembers
  <2> QED
    BY <2>3, <2>4
<1> QED
  BY <1>0, <1>1, <1>2, <1>3 DEF BootIsForeseen, OneBoot

(* While a server boots, for any boot delay and evaluation period, the     *)
(* model (HPModel.cc) knows its boot, foresees when it is active, recalls  *)
(* the counts of an instant ago, and encodes in a sample the whole periods *)
(* that have passed (Utils.cc), whatever is added, removed or read when.   *)
THEOREM ForesightTheorem == PartsSpec => []ClockForeseesBoot
<1> DEFINE BootInv == part = "boot" => ForesightInv
<1>1. PartsInit => BootInv
  BY ForesightInit DEF PartsInit
<1>2. BootInv /\ [PartsNext]_partsVars => BootInv'
  <2> SUFFICES ASSUME BootInv, [PartsNext]_partsVars, part' = "boot" PROVE ForesightInv'
    OBVIOUS
  <2>1. part = "boot" /\ (BootClockNext \/ UNCHANGED clockVars)
    BY DEF PartsNext, partsVars, OnlyPart
  <2>2. CASE UNCHANGED clockVars
    BY <2>1, <2>2 DEF clockVars, modelVars, bootVars, ForesightInv, ClockTypeOK, OneBoot,
         Remembers, IsServerBooting
  <2>3. CASE BootClockNext
    BY <2>1, <2>3, ChangeStep, BootStep, AdvanceStep DEF BootClockNext
  <2> QED
    BY <2>1, <2>2, <2>3
<1>3. BootInv => ClockForeseesBoot
  BY Foresight DEF ClockForeseesBoot
<1> QED
  BY <1>1, <1>2, <1>3, PTL DEF PartsSpec

(***************************************************************************)
(* The example manager                                                     *)
(***************************************************************************)

(* Where the answers stand in what a handler has read.                     *)
LEMMA AnswersStand ==
  ASSUME NEW r
  PROVE  /\ Servers(r, "A") = r[1] /\ Servers(r, "B") = r[2] /\ Servers(r, "C") = r[3]
         /\ ActiveServers(r, "A") = r[5] /\ ActiveServers(r, "B") = r[6]
         /\ ActiveServers(r, "C") = r[7]
<1>1. /\ (CHOOSE i \in 1 .. 3 : AMTypes[i] = "A") = 1
      /\ (CHOOSE i \in 1 .. 3 : AMTypes[i] = "B") = 2
      /\ (CHOOSE i \in 1 .. 3 : AMTypes[i] = "C") = 3
  BY DEF AMTypes
<1>2. 4 + 1 = 5 /\ 4 + 2 = 6 /\ 4 + 3 = 7
  OBVIOUS
<1> QED
  BY <1>1, <1>2, Zenon DEF Servers, ActiveServers

LEMMA ReverseTypes == Reverse(AMTypes) = <<"C", "B", "A">>
<1>1. Len(AMTypes) = 3 /\ AMTypes[1] = "A" /\ AMTypes[2] = "B" /\ AMTypes[3] = "C"
  BY DEF AMTypes
<1>2. Reverse(AMTypes) = [i \in 1 .. 3 |-> AMTypes[(3 - i) + 1]]
  BY <1>1 DEF Reverse
<1>3. <<"C", "B", "A">> = [i \in 1 .. 3 |-> IF i = 1 THEN "C" ELSE IF i = 2 THEN "B" ELSE "A"]
  OBVIOUS
<1>4. \A i \in 1 .. 3 : AMTypes[(3 - i) + 1] = IF i = 1 THEN "C" ELSE IF i = 2 THEN "B" ELSE "A"
  BY <1>1
<1> QED
  BY <1>2, <1>3, <1>4

(* The first of some types, in an order of all, is one of them.            *)
LEMMA FirstIsOne ==
  ASSUME NEW order \in {AMTypes, Reverse(AMTypes)}, NEW types \in SUBSET Type, types # {}
  PROVE  FirstOf(order, types) \in types
<1> DEFINE P == {i \in 1 .. 3 : order[i] \in types}
<1>1. \A t \in Type : \E i \in 1 .. 3 : order[i] = t
  BY ReverseTypes DEF AMTypes, Type
<1>2. P # {}
  BY <1>1
<1>3. \E i \in P : \A j \in P : i <= j
  <2>1. CASE 1 \in P
    BY <2>1
  <2>2. CASE 1 \notin P /\ 2 \in P
    BY <2>2
  <2>3. CASE 1 \notin P /\ 2 \notin P
    BY <1>2, <2>3
  <2> QED
    BY <2>1, <2>2, <2>3
<1>4. Min(P) \in P
  BY <1>3 DEF Min
<1> QED
  BY <1>4 DEF FirstOf

(* The traffic is diverted to all of the given types and to no other.      *)
LEMMA DivertsToAll ==
  ASSUME NEW types \in SUBSET Type
  PROVE  /\ DivertTrafficCommand(types) \in [Type -> Nat]
         /\ \A t \in Type : DivertTrafficCommand(types)[t] > 0 <=> t \in types
         /\ types = {} <=> DivertTrafficCommand(types) = NoDiversion
<1>1. IsFiniteSet(Type) /\ Cardinality(Type) <= 3
  <2>1. /\ IsFiniteSet({}) /\ Cardinality({}) = 0
    BY FS_EmptySet
  <2>2. /\ IsFiniteSet({"A"}) /\ Cardinality({"A"}) = 1
    BY FS_Singleton
  <2>3. /\ IsFiniteSet({"A", "B"}) /\ Cardinality({"A", "B"}) = 2
    <3>1. {"A", "B"} = {"A"} \cup {"B"} /\ "B" \notin {"A"}
      OBVIOUS
    <3> QED
      BY <2>2, <3>1, FS_AddElement
  <2>4. Type = {"A", "B"} \cup {"C"} /\ "C" \notin {"A", "B"}
    BY DEF Type
  <2>5. IsFiniteSet(Type) /\ Cardinality(Type) = 3
    BY <2>3, <2>4, FS_AddElement
  <2> QED
    BY <2>5
<1>2. IsFiniteSet(types) /\ Cardinality(types) \in Nat /\ Cardinality(types) <= 3
  BY <1>1, FS_Subset, FS_CardinalityType
<1>3. types # {} => Cardinality(types) \in 1 .. 3
  BY <1>2, FS_EmptySet
<1>4. types # {} /\ Cardinality(types) # 3
        => 4 \div Cardinality(types) = 4 \/ 4 \div Cardinality(types) = 2
  <2>1. 4 \div 1 = 4 /\ 4 \div 2 = 2
    OBVIOUS
  <2> QED
    BY <1>3, <2>1
<1>5. ASSUME NEW t \in Type
      PROVE  /\ DivertTrafficCommand(types)[t] \in Nat
             /\ DivertTrafficCommand(types)[t] > 0 <=> t \in types
  BY <1>4 DEF DivertTrafficCommand
<1>6. DivertTrafficCommand(types) \in [Type -> Nat]
  BY <1>5 DEF DivertTrafficCommand
<1>7. types = {} <=> DivertTrafficCommand(types) = NoDiversion
  BY <1>5, <1>6 DEF NoDiversion
<1> QED
  BY <1>5, <1>6, <1>7

LEMMA CommandFields ==
  /\ \A c \in AMCommand :
       /\ c.name \in {"divert", "add", "remove", "dec_dimmer", "inc_dimmer"}
       /\ c.name = "divert" => c.load \in [Type -> Nat]
       /\ c.name \in {"add", "remove"} => c.type \in Type
  /\ \A load \in [Type -> Nat] : [name |-> "divert", load |-> load] \in AMCommand
  /\ \A t \in Type : /\ [name |-> "add", type |-> t] \in AMCommand
                     /\ [name |-> "remove", type |-> t] \in AMCommand
  /\ [name |-> "dec_dimmer"] \in AMCommand /\ [name |-> "inc_dimmer"] \in AMCommand
  BY DEF AMCommand

LEMMA AMInvInit == AMInit => AMInv
<1> SUFFICES ASSUME AMInit PROVE AMInv
  OBVIOUS
<1>1. /\ active = [t \in Type |-> 0] /\ bootType = NoType /\ events = {} /\ brownout = 0
      /\ traffic = [t \in Type |-> IF t = "A" THEN 4 ELSE 0] /\ handler = "start"
      /\ reading = <<>> /\ toSend = <<>> /\ drained = NoType /\ amQuit = FALSE /\ aborted = FALSE
  BY DEF AMInit, ModelInit
<1>2. /\ <<>> \in Seq(Nat) /\ <<>> \in Seq(AMCommand) /\ Len(reading) = 0 /\ Len(toSend) = 0
  BY <1>1, EmptySeq
<1>3. AMTypeOK
  <2>1. active \in [Type -> Nat] /\ traffic \in [Type -> Nat] /\ brownout \in 0 .. DimmerSteps
    BY <1>1, DimmerAssumption
  <2>2. /\ reading \in Seq(Nat) /\ Len(reading) <= 7 /\ toSend \in Seq(AMCommand)
    BY <1>1, <1>2
  <2> QED
    BY <1>1, <2>1, <2>2 DEF AMTypeOK
<1>4. TrafficServed
  BY <1>1 DEF TrafficServed
<1> QED
  BY <1>1, <1>2, <1>3, <1>4 DEF AMInv, ReadingHolds, PlanIsSafe, QuitsIdle

(* Between the commands: a boot or a drain ends, the servers are set up, a *)
(* handler is called.                                                      *)
LEMMA BootEndsStep ==
  ASSUME AMInv, BootEnds PROVE AMInv'
<1>0. AMTypeOK /\ TrafficServed /\ ReadingHolds /\ PlanIsSafe /\ QuitsIdle
  BY DEF AMInv
<1>1. /\ bootType \in Type /\ drained = NoType /\ events = {bootType}
      /\ active' = [active EXCEPT ![bootType] = active[bootType] + 1]
      /\ bootType' = NoType /\ events' = {}
      /\ UNCHANGED <<brownout, traffic, handler, reading, toSend, drained, amQuit, aborted>>
  BY <1>0 DEF AMTypeOK, BootEnds, ModelServerBecameActive, amVars
<1>2. /\ active' \in [Type -> Nat]
      /\ \A t \in Type : /\ active[t] \in Nat /\ active'[t] \in Nat /\ active'[t] >= active[t]
                         /\ active'[t] = IF t = bootType THEN active[t] + 1 ELSE active[t]
  BY <1>0, <1>1 DEF AMTypeOK
<1>3. AMTypeOK'
  BY <1>0, <1>1, <1>2 DEF AMTypeOK
<1>4. TrafficServed'
  BY <1>0, <1>1, <1>2 DEF TrafficServed, Stays, NoType, Type
<1>5. ReadingHolds'
  <2>1. \A t \in Type : GetServers(t)' = GetServers(t)
    BY <1>1, <1>2 DEF GetServers, Type, NoType
  <2>2. ASSUME NEW i \in 1 .. Len(reading), i > 3, i # 4 PROVE AMTypes[i - 4] \in Type
    <3>1. reading \in Seq(Nat) /\ Len(reading) <= 7
      BY <1>0 DEF AMTypeOK
    <3>2. Len(reading) \in Nat
      BY <3>1, LenProperties
    <3>3. i - 4 \in 1 .. 3
      BY <2>2, <3>1, <3>2
    <3> QED
      BY <3>3 DEF AMTypes, Type
  <2>3. ASSUME NEW i \in 1 .. Len(reading), i <= 3 PROVE AMTypes[i] \in Type
    BY <1>0, <2>3 DEF AMTypeOK, AMTypes, Type
  <2>4. reading \in Seq(Nat)
    BY <1>0 DEF AMTypeOK
  <2>5. ASSUME NEW i \in 1 .. Len(reading) PROVE reading[i] \in Nat
    BY <2>4, ElementOfSeq
  <2> QED
    BY <1>0, <1>1, <1>2, <2>1, <2>2, <2>3, <2>5 DEF ReadingHolds
<1>6. PlanIsSafe'
  <2>1. ASSUME NEW i \in 1 .. Len(toSend) PROVE CommandIsSafe(i)'
    <3>1. CommandIsSafe(i)
      BY <1>0 DEF PlanIsSafe
    <3>2. toSend[i].name \notin {"add", "remove"}
      BY <1>1, <3>1 DEF CommandIsSafe, AddIsSafe, RemoveIsSafe, Type, NoType
    <3>3. ASSUME toSend[i].name = "divert" PROVE DivertIsSafe(i)'
      <4>1. DivertIsSafe(i)
        BY <3>1, <3>3 DEF CommandIsSafe
      <4>2. toSend[i].load # NoDiversion
        BY <1>1, <4>1 DEF DivertIsSafe, Type, NoType
      <4> QED
        BY <1>1, <1>2, <4>1, <4>2 DEF DivertIsSafe
    <3> QED
      BY <1>1, <3>1, <3>2, <3>3 DEF CommandIsSafe
  <2> QED
    BY <1>0, <1>1, <2>1 DEF PlanIsSafe
<1>7. QuitsIdle'
  BY <1>0, <1>1 DEF QuitsIdle, Type, NoType
<1> QED
  BY <1>3, <1>4, <1>5, <1>6, <1>7 DEF AMInv

LEMMA DrainEndsStep ==
  ASSUME AMInv, DrainEnds PROVE AMInv'
<1>0. AMTypeOK /\ TrafficServed /\ ReadingHolds /\ PlanIsSafe /\ QuitsIdle
  BY DEF AMInv
<1>1. /\ drained \in Type /\ bootType = NoType /\ events = {} /\ handler # "start"
      /\ active' = [active EXCEPT ![drained] = active[drained] - 1] /\ drained' = NoType
      /\ UNCHANGED <<bootType, events, brownout, traffic, handler, reading, toSend, amQuit, aborted>>
  BY <1>0 DEF AMTypeOK, TrafficServed, DrainEnds, ModelRemoveServer, IsServerBooting
<1>2. /\ active' \in [Type -> Nat]
      /\ \A t \in Type : /\ active[t] \in Nat /\ active'[t] \in Nat
                         /\ active'[t] = IF t = drained THEN active[t] - 1 ELSE active[t]
  <2>1. active \in [Type -> Nat] /\ active[drained] - 1 \in Nat
    BY <1>0, <1>1 DEF AMTypeOK, TrafficServed, Type, NoType
  <2> QED
    BY <1>1, <2>1
<1>3. AMTypeOK'
  BY <1>0, <1>1, <1>2 DEF AMTypeOK
<1>4. TrafficServed'
  BY <1>0, <1>1, <1>2 DEF TrafficServed, Stays, NoType, Type
<1>5. ReadingHolds'
  <2>1. handler \notin {"high", "low"} /\ reading = <<>> /\ Len(reading) = 0
    BY <1>0, <1>1, EmptySeq DEF ReadingHolds, Type, NoType
  <2> QED
    BY <1>1, <2>1 DEF ReadingHolds
<1>6. PlanIsSafe'
  <2>1. ASSUME NEW i \in 1 .. Len(toSend) PROVE CommandIsSafe(i)'
    <3>1. CommandIsSafe(i)
      BY <1>0 DEF PlanIsSafe
    <3>2. toSend[i].name \notin {"divert", "add", "remove"}
      BY <1>1, <3>1 DEF CommandIsSafe, DivertIsSafe, AddIsSafe, RemoveIsSafe, Type, NoType
    <3> QED
      BY <1>1, <3>1, <3>2 DEF CommandIsSafe
  <2> QED
    BY <1>0, <1>1, <2>1 DEF PlanIsSafe
<1>7. QuitsIdle'
  BY <1>0, <1>1 DEF QuitsIdle, Type, NoType
<1> QED
  BY <1>3, <1>4, <1>5, <1>6, <1>7 DEF AMInv

LEMMA CallStep ==
  ASSUME AMInv,
         (\E n \in InitialChoice : AddInitialServers(n)) \/ CallHandler("high") \/ CallHandler("low")
  PROVE  AMInv'
<1>0. AMTypeOK /\ TrafficServed /\ ReadingHolds /\ PlanIsSafe /\ QuitsIdle
  BY DEF AMInv
<1>1. CASE \E n \in InitialChoice : AddInitialServers(n)
  <2>1. PICK n \in InitialChoice : AddInitialServers(n)
    BY <1>1
  <2>2. /\ handler = "start" /\ handler' = "none" /\ active' = n /\ drained = NoType
        /\ UNCHANGED <<bootType, events, brownout, traffic, reading, toSend, drained, amQuit, aborted>>
    BY <1>0, <2>1 DEF AddInitialServers, TrafficServed
  <2>3. /\ n \in [Type -> 0 .. Max({MaxServers[t] : t \in Type})] /\ n["A"] > 0
    BY DEF InitialChoice
  <2>4. n \in [Type -> Nat]
    <3>1. ASSUME NEW m PROVE [Type -> 0 .. m] \subseteq [Type -> Nat]
      OBVIOUS
    <3> QED
      BY <2>3, <3>1, Zenon
  <2>5. toSend = <<>> /\ reading = <<>> /\ Len(toSend) = 0 /\ Len(reading) = 0 /\ ~amQuit
    BY <1>0, <2>2, EmptySeq DEF ReadingHolds, PlanIsSafe, QuitsIdle, AMTypeOK
  <2>6. AMTypeOK'
    BY <1>0, <2>2, <2>4 DEF AMTypeOK
  <2>7. TrafficServed'
    <3>1. \A t \in Type : traffic[t] > 0 <=> t = "A"
      BY <1>0, <2>2 DEF TrafficServed
    <3>2. "A" \in Type /\ \A t \in Type : n[t] \in Nat /\ NoType # t
      BY <2>4 DEF Type, NoType
    <3> QED
      BY <2>2, <2>3, <3>1, <3>2 DEF TrafficServed, Stays
  <2> QED
    BY <2>2, <2>5, <2>6, <2>7 DEF AMInv, ReadingHolds, PlanIsSafe, QuitsIdle
<1>2. CASE CallHandler("high") \/ CallHandler("low")
  <2>1. /\ handler = "none" /\ ~amQuit /\ drained = NoType /\ handler' \in {"high", "low"}
        /\ UNCHANGED <<active, bootType, events, brownout, traffic, reading, toSend, drained, amQuit,
                       aborted>>
    BY <1>2 DEF CallHandler, modelVars
  <2>2. toSend = <<>> /\ reading = <<>> /\ Len(toSend) = 0 /\ Len(reading) = 0
    BY <1>0, <2>1, EmptySeq DEF ReadingHolds, PlanIsSafe
  <2>3. AMTypeOK'
    BY <1>0, <2>1 DEF AMTypeOK
  <2>4. TrafficServed'
    BY <1>0, <2>1 DEF TrafficServed, Stays
  <2> QED
    BY <2>1, <2>2, <2>3, <2>4 DEF AMInv, ReadingHolds, PlanIsSafe, QuitsIdle
<1> QED
  BY <1>1, <1>2

(* A handler reads its next answer.                                        *)
LEMMA ReadStep ==
  ASSUME AMInv, ReadCounter PROVE AMInv'
<1>0. AMTypeOK /\ TrafficServed /\ ReadingHolds /\ PlanIsSafe /\ QuitsIdle
  BY DEF AMInv
<1> DEFINE k == Len(reading)
<1>1. /\ handler \in {"high", "low"} /\ k < 7 /\ toSend = <<>> /\ drained = NoType /\ ~amQuit
      /\ reading' = Append(reading, Answer(k + 1))
      /\ UNCHANGED <<active, bootType, events, brownout, traffic, handler, toSend, drained, amQuit,
                     aborted>>
  BY <1>0 DEF ReadCounter, modelVars, ReadingHolds, QuitsIdle
<1>2. reading \in Seq(Nat) /\ k \in Nat /\ k < 7
  <2>1. reading \in Seq(Nat)
    BY <1>0 DEF AMTypeOK
  <2>2. Len(reading) \in Nat
    BY <2>1, LenProperties
  <2>3. k \in Nat /\ k < 7
    BY <1>1, <2>2
  <2> QED
    BY <2>1, <2>3
<1> HIDE DEF k
<1>3. /\ \A i \in 1 .. 3 : AMTypes[i] \in Type /\ GetServers(AMTypes[i]) \in Nat
      /\ DimmerSteps - brownout \in Nat
      /\ \A i \in 5 .. 7 : AMTypes[i - 4] \in Type /\ active[AMTypes[i - 4]] \in Nat
  <2>1. \A i \in 1 .. 3 : AMTypes[i] \in Type
    BY DEF AMTypes, Type
  <2>2. \A t \in Type : active[t] \in Nat
    BY <1>0 DEF AMTypeOK
  <2>3. \A i \in 5 .. 7 : i - 4 \in 1 .. 3
    OBVIOUS
  <2>4. DimmerSteps - brownout \in Nat
    BY <1>0, DimmerAssumption DEF AMTypeOK
  <2>5. \A t \in Type : GetServers(t) \in Nat
    BY <2>2 DEF GetServers
  <2> QED
    BY <2>1, <2>2, <2>3, <2>4, <2>5
<1>4. /\ k + 1 <= 3 => Answer(k + 1) = GetServers(AMTypes[k + 1])
      /\ k + 1 = 4 => Answer(k + 1) = DimmerSteps - brownout
      /\ k + 1 > 3 /\ k + 1 # 4 => Answer(k + 1) = active[AMTypes[(k + 1) - 4]]
  BY <1>2 DEF Answer
<1>5. Answer(k + 1) \in Nat
  <2>1. k \in Nat /\ k < 7
    BY <1>2
  <2> QED
    BY <1>3, <1>4, <2>1
<1>6. /\ reading' \in Seq(Nat) /\ Len(reading') = k + 1 /\ reading' # <<>>
      /\ \A i \in 1 .. k : reading'[i] = reading[i]
      /\ reading'[k + 1] = Answer(k + 1)
  BY <1>1, <1>2, <1>5, AppendProperties DEF k
<1>7. AMTypeOK'
  BY <1>0, <1>1, <1>2, <1>6 DEF AMTypeOK
<1>8. TrafficServed'
  BY <1>0, <1>1 DEF TrafficServed, Stays
<1>9. ReadingHolds'
  <2> DEFINE Holds(i, a) ==
        CASE i <= 3 -> a = GetServers(AMTypes[i])
          [] i = 4 -> a = DimmerSteps - brownout
          [] OTHER -> /\ a <= active[AMTypes[i - 4]]
                      /\ traffic[AMTypes[i - 4]] > 0 => a > 0
  <2>1. \A i \in 1 .. k : Holds(i, reading[i])
    BY <1>0 DEF ReadingHolds, k
  <2>2. Holds(k + 1, Answer(k + 1))
    <3>1. CASE k + 1 <= 4
      BY <1>2, <1>4, <3>1
    <3>2. CASE ~(k + 1 <= 4)
      <4>1. /\ k + 1 \in 5 .. 7 /\ k + 1 > 3 /\ k + 1 # 4 /\ ~(k + 1 <= 3)
        <5>1. k \in Nat /\ k < 7
          BY <1>2
        <5> QED
          BY <3>2, <5>1
      <4>2. \A t \in Type : traffic[t] > 0 => active[t] > 0
        BY <1>0, <1>1 DEF TrafficServed, Stays, Type, NoType, AMTypeOK
      <4>3. /\ Answer(k + 1) = active[AMTypes[(k + 1) - 4]] /\ active[AMTypes[(k + 1) - 4]] \in Nat
            /\ AMTypes[(k + 1) - 4] \in Type
        BY <1>3, <1>4, <4>1
      <4> QED
        BY <4>1, <4>2, <4>3
    <3> QED
      BY <3>1, <3>2
  <2>3. \A i \in 1 .. k + 1 : Holds(i, reading'[i])
    <3> HIDE DEF Holds
    <3>1. \A i \in 1 .. k + 1 : i \in 1 .. k \/ i = k + 1
      <4>1. k \in Nat
        BY <1>2
      <4> QED
        BY <4>1
    <3> QED
      BY <1>6, <2>1, <2>2, <3>1
  <2>4. \A i \in 1 .. k + 1 : GetServers(AMTypes[i])' = GetServers(AMTypes[i])
    BY <1>1 DEF GetServers
  <2> QED
    BY <1>1, <1>6, <2>3, <2>4 DEF ReadingHolds
<1>10. PlanIsSafe'
  <2>1. Len(toSend) = 0
    BY <1>1, EmptySeq
  <2> QED
    BY <1>1, <2>1 DEF PlanIsSafe
<1>11. QuitsIdle'
  BY <1>0, <1>1 DEF QuitsIdle
<1> QED
  BY <1>7, <1>8, <1>9, <1>10, <1>11 DEF AMInv

(* What a handler knows when it has read everything.                       *)
LEMMA KnowsEnough ==
  ASSUME AMInv, Len(reading) = 7
  PROVE  /\ handler \in {"high", "low"} /\ drained = NoType /\ toSend = <<>> /\ ~amQuit
         /\ reading[4] = DimmerSteps - brownout
         /\ \A t \in Type : /\ Servers(reading, t) = GetServers(t)
                            /\ ActiveServers(reading, t) \in 0 .. active[t]
         /\ ActiveTypes(reading) # {}
         /\ ~SeesBoot(reading) => /\ bootType = NoType
                                  /\ \A t \in Type : ActiveServers(reading, t) = active[t]
<1>0. AMTypeOK /\ TrafficServed /\ ReadingHolds /\ PlanIsSafe /\ QuitsIdle
  BY DEF AMInv
<1>1. handler \in {"high", "low"} /\ drained = NoType /\ toSend = <<>> /\ ~amQuit
  <2>1. reading # <<>>
    BY EmptySeq
  <2> QED
    BY <1>0, <2>1 DEF ReadingHolds, QuitsIdle
<1>2. \A i \in 1 .. 7 : reading[i] \in Nat
  <2>1. reading \in Seq(Nat)
    BY <1>0 DEF AMTypeOK
  <2> QED
    BY <2>1, ElementOfSeq
<1>3. /\ reading[1] = GetServers("A") /\ reading[2] = GetServers("B") /\ reading[3] = GetServers("C")
      /\ reading[4] = DimmerSteps - brownout
      /\ reading[5] <= active["A"] /\ reading[6] <= active["B"] /\ reading[7] <= active["C"]
      /\ traffic["A"] > 0 => reading[5] > 0
      /\ traffic["B"] > 0 => reading[6] > 0
      /\ traffic["C"] > 0 => reading[7] > 0
  <2>1. \A i \in 1 .. 7 :
          CASE i <= 3 -> reading[i] = GetServers(AMTypes[i])
            [] i = 4 -> reading[i] = DimmerSteps - brownout
            [] OTHER -> /\ reading[i] <= active[AMTypes[i - 4]]
                        /\ traffic[AMTypes[i - 4]] > 0 => reading[i] > 0
    BY <1>0 DEF ReadingHolds
  <2>2. /\ reading[1] = GetServers(AMTypes[1]) /\ reading[2] = GetServers(AMTypes[2])
        /\ reading[3] = GetServers(AMTypes[3]) /\ reading[4] = DimmerSteps - brownout
    BY <2>1
  <2>3. /\ reading[5] <= active[AMTypes[1]] /\ reading[6] <= active[AMTypes[2]]
        /\ reading[7] <= active[AMTypes[3]]
        /\ traffic[AMTypes[1]] > 0 => reading[5] > 0
        /\ traffic[AMTypes[2]] > 0 => reading[6] > 0
        /\ traffic[AMTypes[3]] > 0 => reading[7] > 0
    BY <2>1
  <2>4. AMTypes[1] = "A" /\ AMTypes[2] = "B" /\ AMTypes[3] = "C"
    BY DEF AMTypes
  <2> QED
    BY <2>2, <2>3, <2>4
<1>4. active["A"] \in Nat /\ active["B"] \in Nat /\ active["C"] \in Nat
  BY <1>0 DEF AMTypeOK, Type
<1>5. \A t \in Type : /\ Servers(reading, t) = GetServers(t)
                      /\ ActiveServers(reading, t) \in 0 .. active[t]
                      /\ traffic[t] > 0 => ActiveServers(reading, t) > 0
  BY <1>2, <1>3, <1>4, AnswersStand DEF Type
<1>6. ActiveTypes(reading) # {}
  <2>1. PICK t \in Type : traffic[t] > 0
    BY <1>0, <1>1 DEF TrafficServed
  <2> QED
    BY <1>5, <2>1 DEF ActiveTypes
<1>7. ASSUME ~SeesBoot(reading)
      PROVE  bootType = NoType /\ \A t \in Type : ActiveServers(reading, t) = active[t]
  <2> DEFINE b(t) == IF bootType = t THEN 1 ELSE 0
  <2>1. /\ reading[1] = active["A"] + b("A") /\ reading[2] = active["B"] + b("B")
        /\ reading[3] = active["C"] + b("C")
    BY <1>3 DEF GetServers
  <2>2. b("A") \in {0, 1} /\ b("B") \in {0, 1} /\ b("C") \in {0, 1}
    OBVIOUS
  <2>3. ~(reading[1] + reading[2] + reading[3] > reading[5] + reading[6] + reading[7])
    BY <1>7 DEF SeesBoot
  <2> HIDE DEF b
  <2>4. /\ b("A") = 0 /\ b("B") = 0 /\ b("C") = 0
        /\ reading[5] = active["A"] /\ reading[6] = active["B"] /\ reading[7] = active["C"]
    BY <1>2, <1>3, <1>4, <2>1, <2>2, <2>3
  <2>5. bootType # "A" /\ bootType # "B" /\ bootType # "C"
    BY <2>4 DEF b
  <2> QED
    BY <1>0, <2>4, <2>5, AnswersStand DEF AMTypeOK, Type
<1> QED
  BY <1>1, <1>3, <1>5, <1>6, <1>7

(* The commands of a handler: at most two, and perhaps one for the dimmer. *)
LEMMA TwoParts ==
  ASSUME NEW S, NEW s \in Seq(S), NEW u, NEW x \in S, u \in {<<>>, <<x>>}
  PROVE  /\ s \o u \in Seq(S) /\ Len(s \o u) \in {Len(s), Len(s) + 1} /\ Len(s) \in Nat
         /\ \A i \in 1 .. Len(s) : (s \o u)[i] = s[i]
         /\ Len(s \o u) = Len(s) + 1 => u = <<x>> /\ (s \o u)[Len(s) + 1] = x
<1>1. u \in Seq(S) /\ Len(s) \in Nat
  <2>1. <<>> \in Seq(S) /\ <<x>> \in Seq(S)
    BY EmptySeq
  <2>2. Len(s) \in Nat
    BY LenProperties
  <2> QED
    BY <2>1, <2>2
<1>2. CASE u = <<>>
  <2>1. s \o u = s /\ Len(s) # Len(s) + 1
    BY <1>1, <1>2, ConcatEmptySeq
  <2> QED
    BY <1>1, <2>1
<1>3. CASE u = <<x>>
  <2>1. Len(u) = 1 /\ u[1] = x
    BY <1>3
  <2>2. /\ s \o u \in Seq(S) /\ Len(s \o u) = Len(s) + 1
        /\ \A i \in 1 .. Len(s) + 1 : (s \o u)[i] = IF i <= Len(s) THEN s[i] ELSE u[i - Len(s)]
    BY <1>1, <2>1, ConcatProperties
  <2> QED
    BY <1>1, <1>3, <2>1, <2>2
<1> QED
  BY <1>2, <1>3

LEMMA HighPlan ==
  ASSUME NEW r, ActiveTypes(r) # {}
  PROVE  LET free == {t \in Type : Servers(r, t) < MaxServers[t]}
             load == DivertTrafficCommand(ActiveTypes(r))
             plan == HighCommands(r)
         IN  /\ plan \in Seq(AMCommand) /\ Len(plan) \in Nat \ {0}
             /\ \A i \in 1 .. Len(plan) :
                  \/ i = 1 /\ plan[i] = [name |-> "divert", load |-> load]
                  \/ /\ ~SeesBoot(r) /\ \E t \in free : plan[i] = [name |-> "add", type |-> t]
                     /\ \A j \in i + 1 .. Len(plan) : plan[j].name = "dec_dimmer"
                  \/ i = Len(plan) /\ r[4] > 0 /\ plan[i] = [name |-> "dec_dimmer"]
<1> DEFINE free == {t \in Type : Servers(r, t) < MaxServers[t]}
           load == DivertTrafficCommand(ActiveTypes(r))
           divert == [name |-> "divert", load |-> load]
           adds == IF SeesBoot(r) \/ free = {} THEN <<>>
                   ELSE <<[name |-> "add", type |-> FirstOf(Reverse(AMTypes), free)]>>
           dims == IF r[4] > 0 THEN <<[name |-> "dec_dimmer"]>> ELSE <<>>
<1>1. HighCommands(r) = (<<divert>> \o adds) \o dims
  BY DEF HighCommands
<1>2. divert \in AMCommand
  BY DivertsToAll, CommandFields DEF ActiveTypes
<1>3. PICK a \in AMCommand : /\ adds \in {<<>>, <<a>>}
                             /\ adds = <<a>> => /\ ~SeesBoot(r)
                                                /\ \E t \in free : a = [name |-> "add", type |-> t]
  <2>1. CASE SeesBoot(r) \/ free = {}
    <3>1. adds = <<>> /\ \A a : <<a>> # <<>>
      BY <2>1
    <3> QED
      BY <1>2, <3>1
  <2>2. CASE ~(SeesBoot(r) \/ free = {})
    <3>1. FirstOf(Reverse(AMTypes), free) \in free
      BY <2>2, FirstIsOne
    <3>2. [name |-> "add", type |-> FirstOf(Reverse(AMTypes), free)] \in AMCommand
      BY <3>1, CommandFields
    <3> QED
      BY <2>2, <3>1, <3>2
  <2> QED
    BY <2>1, <2>2
<1>4. /\ [name |-> "dec_dimmer"] \in AMCommand /\ dims \in {<<>>, <<[name |-> "dec_dimmer"]>>}
      /\ dims = <<[name |-> "dec_dimmer"]>> => r[4] > 0
  <2>1. <<[name |-> "dec_dimmer"]>> # <<>>
    OBVIOUS
  <2> QED
    BY <2>1, CommandFields
<1>5. <<divert>> \in Seq(AMCommand) /\ Len(<<divert>>) = 1 /\ <<divert>>[1] = divert
  BY <1>2
<1> DEFINE both == <<divert>> \o adds
           plan == both \o dims
<1> HIDE DEF free, adds, dims, divert
<1>6. /\ both \in Seq(AMCommand) /\ Len(both) \in {1, 2} /\ both[1] = divert
      /\ Len(both) = 2 => adds = <<a>> /\ both[2] = a
  <2> DEFINE s == <<divert>>
  <2>1. s \in Seq(AMCommand) /\ Len(s) = 1 /\ s[1] = divert /\ both = s \o adds
    BY <1>5
  <2> HIDE DEF s, both
  <2>2. /\ s \o adds \in Seq(AMCommand) /\ Len(s \o adds) \in {Len(s), Len(s) + 1}
        /\ \A i \in 1 .. Len(s) : (s \o adds)[i] = s[i]
        /\ Len(s \o adds) = Len(s) + 1 => adds = <<a>> /\ (s \o adds)[Len(s) + 1] = a
    BY <1>3, <2>1, TwoParts
  <2> QED
    BY <2>1, <2>2
<1> HIDE DEF both
<1>7. /\ plan \in Seq(AMCommand) /\ Len(plan) \in {Len(both), Len(both) + 1}
      /\ \A i \in 1 .. Len(both) : plan[i] = both[i]
      /\ Len(plan) = Len(both) + 1 => /\ dims = <<[name |-> "dec_dimmer"]>>
                                      /\ plan[Len(both) + 1] = [name |-> "dec_dimmer"]
  BY <1>4, <1>6, TwoParts
<1> HIDE DEF plan
<1>8. ASSUME NEW i \in 1 .. Len(plan)
      PROVE  \/ i = 1 /\ plan[i] = divert
             \/ /\ ~SeesBoot(r) /\ \E t \in free : plan[i] = [name |-> "add", type |-> t]
                /\ \A j \in i + 1 .. Len(plan) : plan[j].name = "dec_dimmer"
             \/ i = Len(plan) /\ r[4] > 0 /\ plan[i] = [name |-> "dec_dimmer"]
  <2>1. CASE i = 1
    BY <1>6, <1>7, <2>1
  <2>2. CASE i = 2 /\ Len(both) = 2
    BY <1>3, <1>6, <1>7, <2>2
  <2>3. CASE i = Len(both) + 1
    BY <1>4, <1>6, <1>7, <2>3
  <2>4. i = 1 \/ (i = 2 /\ Len(both) = 2) \/ i = Len(both) + 1
    BY <1>6, <1>7
  <2> QED
    BY <2>1, <2>2, <2>3, <2>4
<1>9. HighCommands(r) = plan /\ Len(plan) \in Nat \ {0}
  <2>1. HighCommands(r) = plan
    BY <1>1 DEF plan, both
  <2> QED
    BY <1>6, <1>7, <2>1
<1> QED
  BY <1>7, <1>8, <1>9 DEF free, divert

LEMMA LowPlan ==
  ASSUME NEW r, ActiveTypes(r) # {}
  PROVE  LET plan == LowCommands(r)
         IN  \E victim \in ActiveTypes(r) :
               /\ plan \in Seq(AMCommand) /\ Len(plan) \in Nat
               /\ \A i \in 1 .. Len(plan) :
                    \/ /\ ~SeesBoot(r) /\ i = 1
                       /\ plan[i] = [name |-> "divert",
                                     load |-> DivertTrafficCommand(ActiveTypes(r) \ {victim})]
                    \/ /\ ~SeesBoot(r) /\ i = 2
                       /\ plan[1] = [name |-> "divert",
                                     load |-> DivertTrafficCommand(ActiveTypes(r) \ {victim})]
                       /\ plan[i] = [name |-> "remove", type |-> victim]
                       /\ \A j \in i + 1 .. Len(plan) : plan[j].name = "inc_dimmer"
                    \/ i = Len(plan) /\ r[4] < DimmerSteps /\ plan[i] = [name |-> "inc_dimmer"]
<1> DEFINE victim == FirstOf(AMTypes, ActiveTypes(r))
           divert == [name |-> "divert",
                      load |-> DivertTrafficCommand(ActiveTypes(r) \ {victim})]
           remove == [name |-> "remove", type |-> victim]
           both == IF SeesBoot(r) THEN <<>> ELSE <<divert, remove>>
           dims == IF r[4] < DimmerSteps THEN <<[name |-> "inc_dimmer"]>> ELSE <<>>
           plan == both \o dims
<1>1. LowCommands(r) = plan
  BY DEF LowCommands
<1>2. victim \in ActiveTypes(r)
  BY FirstIsOne DEF ActiveTypes
<1>3. divert \in AMCommand /\ remove \in AMCommand
  BY <1>2, DivertsToAll, CommandFields DEF ActiveTypes
<1>4. /\ [name |-> "inc_dimmer"] \in AMCommand /\ dims \in {<<>>, <<[name |-> "inc_dimmer"]>>}
      /\ dims = <<[name |-> "inc_dimmer"]>> => r[4] < DimmerSteps
  <2>1. <<[name |-> "inc_dimmer"]>> # <<>>
    OBVIOUS
  <2> QED
    BY <2>1, CommandFields
<1> HIDE DEF divert, remove, dims, victim
<1>5. /\ both \in Seq(AMCommand) /\ Len(both) \in {0, 2}
      /\ Len(both) = 2 => ~SeesBoot(r) /\ both[1] = divert /\ both[2] = remove
  BY <1>3, EmptySeq
<1> HIDE DEF both
<1>6. /\ plan \in Seq(AMCommand) /\ Len(plan) \in {Len(both), Len(both) + 1}
      /\ \A i \in 1 .. Len(both) : plan[i] = both[i]
      /\ Len(plan) = Len(both) + 1 => /\ dims = <<[name |-> "inc_dimmer"]>>
                                      /\ plan[Len(both) + 1] = [name |-> "inc_dimmer"]
  BY <1>4, <1>5, TwoParts
<1> HIDE DEF plan
<1>7. ASSUME NEW i \in 1 .. Len(plan)
      PROVE  \/ ~SeesBoot(r) /\ i = 1 /\ plan[i] = divert
             \/ /\ ~SeesBoot(r) /\ i = 2 /\ plan[1] = divert /\ plan[i] = remove
                /\ \A j \in i + 1 .. Len(plan) : plan[j].name = "inc_dimmer"
             \/ i = Len(plan) /\ r[4] < DimmerSteps /\ plan[i] = [name |-> "inc_dimmer"]
  <2>1. CASE i = 1 /\ Len(both) = 2
    BY <1>5, <1>6, <2>1
  <2>2. CASE i = 2 /\ Len(both) = 2
    BY <1>5, <1>6, <2>2
  <2>3. CASE i = Len(both) + 1
    BY <1>4, <1>5, <1>6, <2>3
  <2>4. (i = 1 /\ Len(both) = 2) \/ (i = 2 /\ Len(both) = 2) \/ i = Len(both) + 1
    BY <1>5, <1>6
  <2> QED
    BY <2>1, <2>2, <2>3, <2>4
<1>8. Len(plan) \in Nat
  BY <1>5, <1>6
<1> QED
  BY <1>1, <1>2, <1>6, <1>7, <1>8 DEF divert, remove

(* A handler decides: each command it means to send is safe in its turn.   *)
LEMMA DecideStep ==
  ASSUME AMInv, Decide PROVE AMInv'
<1>0. AMTypeOK /\ TrafficServed /\ ReadingHolds /\ PlanIsSafe /\ QuitsIdle
  BY DEF AMInv
<1>1. Len(reading) = 7
  BY DEF Decide
<1>2. /\ handler \in {"high", "low"} /\ drained = NoType /\ toSend = <<>> /\ ~amQuit
      /\ reading[4] = DimmerSteps - brownout
      /\ \A t \in Type : /\ Servers(reading, t) = GetServers(t)
                         /\ ActiveServers(reading, t) \in 0 .. active[t]
      /\ ActiveTypes(reading) # {}
      /\ ~SeesBoot(reading) => /\ bootType = NoType
                               /\ \A t \in Type : ActiveServers(reading, t) = active[t]
  BY <1>1, KnowsEnough
<1>3. /\ toSend' = IF handler = "high" THEN HighCommands(reading) ELSE LowCommands(reading)
      /\ handler' = IF toSend' = <<>> THEN "none" ELSE "sending"
      /\ reading' = <<>>
      /\ UNCHANGED <<active, bootType, events, brownout, traffic, drained, amQuit, aborted>>
  BY DEF Decide, modelVars
<1>4. \A t \in Type : active[t] \in Nat
  BY <1>0 DEF AMTypeOK
<1>5. \A S \in SUBSET ActiveTypes(reading), t \in Type :
        DivertTrafficCommand(S)[t] > 0 => active[t] > 0
  BY <1>2, <1>4, DivertsToAll DEF ActiveTypes
<1>6. ASSUME handler = "high"
      PROVE  toSend' \in Seq(AMCommand) /\ \A i \in 1 .. Len(toSend') : CommandIsSafe(i)'
  <2> DEFINE free == {t \in Type : Servers(reading, t) < MaxServers[t]}
             load == DivertTrafficCommand(ActiveTypes(reading))
  <2>1. /\ toSend' \in Seq(AMCommand)
        /\ \A i \in 1 .. Len(toSend') :
             \/ i = 1 /\ toSend'[i] = [name |-> "divert", load |-> load]
             \/ /\ ~SeesBoot(reading) /\ \E t \in free : toSend'[i] = [name |-> "add", type |-> t]
                /\ \A j \in i + 1 .. Len(toSend') : toSend'[j].name = "dec_dimmer"
             \/ i = Len(toSend') /\ reading[4] > 0 /\ toSend'[i] = [name |-> "dec_dimmer"]
    BY <1>2, <1>3, <1>6, HighPlan
  <2>2. load # NoDiversion /\ \A t \in Type : load[t] > 0 => active[t] > 0
    BY <1>2, <1>5, DivertsToAll DEF ActiveTypes
  <2>3. \E t \in Type : load[t] > 0
    BY <1>2, DivertsToAll DEF ActiveTypes
  <2>4. brownout < DimmerSteps \/ ~(reading[4] > 0)
    BY <1>0, <1>2, DimmerAssumption DEF AMTypeOK
  <2> HIDE DEF load
  <2>5. ASSUME NEW i \in 1 .. Len(toSend') PROVE CommandIsSafe(i)'
    <3>1. CASE i = 1 /\ toSend'[i] = [name |-> "divert", load |-> load]
      <4>1. toSend'[i].name = "divert" /\ toSend'[i].load = load
        BY <3>1
      <4>2. DivertIsSafe(i)'
        BY <1>2, <1>3, <2>2, <2>3, <3>1, <4>1 DEF DivertIsSafe
      <4> QED
        BY <4>1, <4>2 DEF CommandIsSafe
    <3>2. CASE /\ ~SeesBoot(reading) /\ \E t \in free : toSend'[i] = [name |-> "add", type |-> t]
               /\ \A j \in i + 1 .. Len(toSend') : toSend'[j].name = "dec_dimmer"
      <4>1. PICK t \in free : toSend'[i] = [name |-> "add", type |-> t]
        BY <3>2
      <4>2. toSend'[i].name = "add" /\ toSend'[i].type = t /\ t \in Type
        BY <4>1
      <4>3. AddIsSafe(t)'
        BY <1>2, <1>3, <3>2, <4>1 DEF AddIsSafe, GetServers
      <4> QED
        BY <3>2, <4>2, <4>3 DEF CommandIsSafe
    <3>3. CASE i = Len(toSend') /\ reading[4] > 0 /\ toSend'[i] = [name |-> "dec_dimmer"]
      <4>1. toSend'[i].name = "dec_dimmer"
        BY <3>3
      <4> QED
        BY <1>3, <2>4, <3>3, <4>1 DEF CommandIsSafe
    <3> QED
      BY <2>1, <3>1, <3>2, <3>3
  <2> QED
    BY <2>1, <2>5
<1>7. ASSUME handler = "low"
      PROVE  toSend' \in Seq(AMCommand) /\ \A i \in 1 .. Len(toSend') : CommandIsSafe(i)'
  <2>0. toSend' = LowCommands(reading) /\ ActiveTypes(reading) # {}
    BY <1>2, <1>3, <1>7
  <2>1. PICK victim \in ActiveTypes(reading) :
          /\ toSend' \in Seq(AMCommand)
          /\ \A i \in 1 .. Len(toSend') :
               \/ /\ ~SeesBoot(reading) /\ i = 1
                  /\ toSend'[i] = [name |-> "divert",
                                   load |-> DivertTrafficCommand(ActiveTypes(reading) \ {victim})]
               \/ /\ ~SeesBoot(reading) /\ i = 2
                  /\ toSend'[1] = [name |-> "divert",
                                   load |-> DivertTrafficCommand(ActiveTypes(reading) \ {victim})]
                  /\ toSend'[i] = [name |-> "remove", type |-> victim]
                  /\ \A j \in i + 1 .. Len(toSend') : toSend'[j].name = "inc_dimmer"
               \/ /\ i = Len(toSend') /\ reading[4] < DimmerSteps
                  /\ toSend'[i] = [name |-> "inc_dimmer"]
    BY <2>0, LowPlan, Zenon
  <2> DEFINE others == ActiveTypes(reading) \ {victim}
             load == DivertTrafficCommand(others)
  <2>2. /\ others \subseteq Type /\ victim \in Type /\ ActiveServers(reading, victim) > 0
        /\ \A t \in Type : load[t] > 0 <=> t \in others
        /\ others = {} <=> load = NoDiversion
    BY DivertsToAll DEF ActiveTypes
  <2>3. brownout > 0 \/ ~(reading[4] < DimmerSteps)
    BY <1>0, <1>2, DimmerAssumption DEF AMTypeOK
  <2>4. /\ \A t \in Type : load[t] > 0 => active[t] > 0
        /\ load # NoDiversion => \E t \in Type : load[t] > 0
        /\ load[victim] = 0
    <3>1. load[victim] \in Nat /\ ~(load[victim] > 0)
      BY <2>2, DivertsToAll
    <3> QED
      BY <1>5, <2>2, <3>1
  <2>5. ASSUME ~SeesBoot(reading)
        PROVE  /\ bootType = NoType /\ active[victim] > 0
               /\ load = NoDiversion => OnlyTypeIs(victim)
               /\ load # NoDiversion => GetTotalActiveServers > 1
    <3>1. /\ bootType = NoType /\ active[victim] > 0
          /\ \A t \in Type : t \in ActiveTypes(reading) <=> active[t] > 0
      BY <1>2, <2>2, <2>5 DEF ActiveTypes
    <3>2. load = NoDiversion => OnlyTypeIs(victim)
      BY <1>4, <2>2, <3>1 DEF OnlyTypeIs
    <3>3. ASSUME load # NoDiversion PROVE GetTotalActiveServers > 1
      <4>1. PICK u \in others : TRUE
        BY <2>2, <3>3
      <4>2. u \in Type /\ u # victim /\ active[u] > 0 /\ active[victim] > 0
        BY <2>2, <3>1
      <4> QED
        BY <1>4, <2>2, <4>2 DEF GetTotalActiveServers, Type
    <3> QED
      BY <2>2, <3>1, <3>2, <3>3
  <2> HIDE DEF load, others
  <2>6. ASSUME NEW i \in 1 .. Len(toSend') PROVE CommandIsSafe(i)'
    <3>1. CASE ~SeesBoot(reading) /\ i = 1 /\ toSend'[i] = [name |-> "divert", load |-> load]
      <4>1. toSend'[i].name = "divert" /\ toSend'[i].load = load
        BY <3>1
      <4>2. load = NoDiversion => OnlyTypeIs(victim)'
        BY <1>3, <2>5, <3>1 DEF OnlyTypeIs
      <4>3. DivertIsSafe(i)'
        BY <1>2, <1>3, <2>2, <2>4, <2>5, <3>1, <4>1, <4>2 DEF DivertIsSafe
      <4> QED
        BY <4>1, <4>3 DEF CommandIsSafe
    <3>2. CASE /\ ~SeesBoot(reading) /\ i = 2 /\ toSend'[1] = [name |-> "divert", load |-> load]
               /\ toSend'[i] = [name |-> "remove", type |-> victim]
               /\ \A j \in i + 1 .. Len(toSend') : toSend'[j].name = "inc_dimmer"
      <4>1. /\ toSend'[i].name = "remove" /\ toSend'[i].type = victim
            /\ toSend'[1].name = "divert" /\ toSend'[1].load = load
        BY <3>2
      <4>2. RemoveIsSafe(i)'
        BY <1>2, <1>3, <2>2, <2>4, <2>5, <3>2, <4>1 DEF RemoveIsSafe, GetTotalActiveServers
      <4> QED
        BY <3>2, <4>1, <4>2 DEF CommandIsSafe
    <3>3. CASE i = Len(toSend') /\ reading[4] < DimmerSteps /\ toSend'[i] = [name |-> "inc_dimmer"]
      <4>1. toSend'[i].name = "inc_dimmer"
        BY <3>3
      <4> QED
        BY <1>3, <2>3, <3>3, <4>1 DEF CommandIsSafe
    <3> QED
      BY <2>1, <3>1, <3>2, <3>3 DEF load, others
  <2> QED
    BY <2>1, <2>6
<1>8. toSend' \in Seq(AMCommand) /\ \A i \in 1 .. Len(toSend') : CommandIsSafe(i)'
  BY <1>2, <1>6, <1>7
<1>9. <<>> \in Seq(Nat) /\ Len(reading') = 0
  BY <1>3, EmptySeq
<1>10. handler' \in {"none", "sending"} /\ (toSend' # <<>> => handler' = "sending")
  BY <1>3
<1>11. AMTypeOK'
  BY <1>0, <1>3, <1>8, <1>9, <1>10 DEF AMTypeOK
<1>12. TrafficServed'
  BY <1>0, <1>2, <1>3, <1>10 DEF TrafficServed, Stays
<1>13. ReadingHolds' /\ PlanIsSafe' /\ QuitsIdle'
  <2>1. ~amQuit'
    BY <1>2, <1>3
  <2> QED
    BY <1>3, <1>8, <1>9, <1>10, <2>1 DEF ReadingHolds, PlanIsSafe, QuitsIdle
<1> QED
  BY <1>11, <1>12, <1>13 DEF AMInv

(* A command is sent: the ones behind it move up.                          *)
LEMMA NextMovesUp ==
  ASSUME AMInv, toSend # <<>>, toSend' = Tail(toSend)
  PROVE  /\ Len(toSend) \in Nat \ {0} /\ Head(toSend) = toSend[1] /\ Head(toSend) \in AMCommand
         /\ handler = "sending" /\ reading = <<>> /\ ~amQuit /\ CommandIsSafe(1)
         /\ toSend' \in Seq(AMCommand) /\ Len(toSend') = Len(toSend) - 1
         /\ \A i \in 1 .. Len(toSend') : /\ toSend'[i] = toSend[i + 1] /\ i + 1 \in 2 .. Len(toSend)
                                         /\ CommandIsSafe(i + 1)
<1>0. AMTypeOK /\ ReadingHolds /\ PlanIsSafe /\ QuitsIdle
  BY DEF AMInv
<1>1. toSend \in Seq(AMCommand)
  BY <1>0 DEF AMTypeOK
<1>2. /\ Head(toSend) \in AMCommand /\ toSend' \in Seq(AMCommand) /\ Len(toSend') = Len(toSend) - 1
      /\ \A i \in 1 .. Len(toSend') : toSend'[i] = toSend[i + 1]
  BY <1>1, HeadTailProperties
<1>3. Len(toSend) \in Nat \ {0}
  BY <1>1, EmptySeq
<1>4. Head(toSend) = toSend[1]
  BY <1>1, <1>3
<1>5. handler = "sending" /\ reading = <<>> /\ ~amQuit
  BY <1>0 DEF PlanIsSafe, ReadingHolds, QuitsIdle
<1>6. \A i \in 1 .. Len(toSend') : i + 1 \in 2 .. Len(toSend)
  BY <1>2, <1>3
<1>7. \A i \in 1 .. Len(toSend) : CommandIsSafe(i)
  BY <1>0 DEF PlanIsSafe
<1>8. 1 \in 1 .. Len(toSend) /\ \A i \in 2 .. Len(toSend) : i \in 1 .. Len(toSend)
  BY <1>3
<1> QED
  BY <1>2, <1>3, <1>4, <1>5, <1>6, <1>7, <1>8

(* What a sent command leaves of the invariant, when what is left to send  *)
(* is still safe.                                                          *)
LEMMA SentStep ==
  ASSUME AMInv, toSend # <<>>, toSend' = Tail(toSend),
         handler' = IF toSend' = <<>> THEN "none" ELSE handler,
         UNCHANGED <<active, reading, amQuit>>,
         traffic' \in [Type -> Nat], brownout' \in 0 .. DimmerSteps,
         bootType' \in Type \cup {NoType}, drained' \in Type \cup {NoType},
         events' = IF bootType' = NoType THEN {} ELSE {bootType'},
         bootType' # NoType => drained' = NoType, ~aborted',
         \E t \in Type : traffic'[t] > 0,
         \A t \in Type : traffic'[t] > 0 => Stays(t)' > 0,
         drained' # NoType => active[drained'] > 0,
         \A i \in 1 .. Len(toSend') : CommandIsSafe(i)'
  PROVE  AMInv'
<1>0. AMTypeOK /\ ReadingHolds
  BY DEF AMInv
<1>1. /\ handler = "sending" /\ reading = <<>> /\ ~amQuit /\ toSend' \in Seq(AMCommand)
  BY NextMovesUp
<1>2. Len(reading) = 0
  BY <1>1, EmptySeq
<1>3. AMTypeOK'
  BY <1>0, <1>1 DEF AMTypeOK
<1>4. TrafficServed'
  BY <1>1 DEF TrafficServed
<1>5. ReadingHolds' /\ PlanIsSafe' /\ QuitsIdle'
  BY <1>1, <1>2 DEF ReadingHolds, PlanIsSafe, QuitsIdle
<1> QED
  BY <1>3, <1>4, <1>5 DEF AMInv

LEMMA SendsStep ==
  ASSUME AMInv, SendDivertTraffic \/ SendAddServer \/ SendRemoveServer
                  \/ SendDecreaseDimmer \/ SendIncreaseDimmer
  PROVE  AMInv'
<1>0. AMTypeOK /\ TrafficServed /\ PlanIsSafe
  BY DEF AMInv
<1>1. /\ toSend # <<>> /\ toSend' = Tail(toSend) /\ UNCHANGED reading
      /\ handler' = IF toSend' = <<>> THEN "none" ELSE handler
  BY DEF SendDivertTraffic, SendAddServer, SendRemoveServer, SendDecreaseDimmer,
         SendIncreaseDimmer, Sends
<1>2. /\ Len(toSend) \in Nat \ {0} /\ Head(toSend) = toSend[1] /\ Head(toSend) \in AMCommand
      /\ handler = "sending" /\ reading = <<>> /\ ~amQuit /\ CommandIsSafe(1)
      /\ toSend' \in Seq(AMCommand) /\ Len(toSend') = Len(toSend) - 1
      /\ \A i \in 1 .. Len(toSend') : /\ toSend'[i] = toSend[i + 1] /\ i + 1 \in 2 .. Len(toSend)
                                      /\ CommandIsSafe(i + 1)
  BY <1>1, NextMovesUp
<1>3. /\ active \in [Type -> Nat] /\ traffic \in [Type -> Nat] /\ brownout \in 0 .. DimmerSteps
      /\ bootType \in Type \cup {NoType} /\ drained \in Type \cup {NoType}
      /\ events = IF bootType = NoType THEN {} ELSE {bootType}
      /\ bootType # NoType => drained = NoType
      /\ ~aborted
  BY <1>0 DEF AMTypeOK
<1>4. /\ \E t \in Type : traffic[t] > 0
      /\ \A t \in Type : traffic[t] > 0 => Stays(t) > 0
      /\ drained # NoType => active[drained] > 0
  BY <1>0, <1>2 DEF TrafficServed
<1>5. \A t \in Type : active[t] \in Nat /\ t # NoType
  BY <1>3 DEF Type, NoType
<1>6. ASSUME SendDivertTraffic PROVE AMInv'
  <2> DEFINE load == Head(toSend).load
  <2>1. /\ Head(toSend).name = "divert" /\ load # NoDiversion /\ traffic' = load
        /\ UNCHANGED <<active, bootType, events, brownout, drained, amQuit, aborted>>
    BY <1>6 DEF SendDivertTraffic, Sends, ModelSetTrafficLoad
  <2>2. /\ drained = NoType /\ load \in [Type -> Nat]
        /\ \A t \in Type : load[t] > 0 => active[t] > 0
        /\ \E t \in Type : load[t] > 0
    BY <1>2, <2>1, CommandFields DEF CommandIsSafe, DivertIsSafe
  <2>3. \A t \in Type : traffic'[t] > 0 => Stays(t)' > 0
    BY <1>5, <2>1, <2>2 DEF Stays
  <2>4. ASSUME NEW i \in 1 .. Len(toSend') PROVE CommandIsSafe(i)'
    <3>1. toSend'[i] = toSend[i + 1] /\ i + 1 \in 2 .. Len(toSend) /\ CommandIsSafe(i + 1)
      BY <1>2
    <3>2. toSend[i + 1].name # "divert"
      BY <3>1 DEF CommandIsSafe, DivertIsSafe
    <3>3. toSend[i + 1].name = "add" => AddIsSafe(toSend[i].type)'
      BY <2>1, <3>1 DEF CommandIsSafe, AddIsSafe, GetServers
    <3>4. toSend[i + 1].name = "remove" => RemoveIsSafe(i)'
      <4>1. SUFFICES ASSUME toSend[i + 1].name = "remove" PROVE RemoveIsSafe(i)'
        OBVIOUS
      <4>2. RemoveIsSafe(i + 1)
        BY <3>1, <4>1 DEF CommandIsSafe
      <4>3. i = 1 /\ i + 1 = 2
        BY <3>1, <4>2 DEF RemoveIsSafe
      <4>4. /\ traffic'[toSend'[i].type] = 0 /\ GetTotalActiveServers > 1
        BY <1>2, <2>1, <3>1, <4>2, <4>3 DEF RemoveIsSafe
      <4> QED
        BY <2>1, <3>1, <4>2, <4>3, <4>4 DEF RemoveIsSafe, GetTotalActiveServers
    <3>5. \A j \in i + 1 .. Len(toSend') : toSend'[j] = toSend[j + 1] /\ j + 1 \in i + 2 .. Len(toSend)
      BY <1>2
    <3>6. (i + 1) + 1 = i + 2 /\ (i + 1 = Len(toSend) => i = Len(toSend'))
      BY <1>2
    <3>7. ASSUME toSend[i + 1].name \in {"add", "remove"}, NEW j \in i + 1 .. Len(toSend')
          PROVE  toSend'[j].name \in {"dec_dimmer", "inc_dimmer"}
      <4>1. \A m \in i + 2 .. Len(toSend) : toSend[m].name \in {"dec_dimmer", "inc_dimmer"}
        BY <3>1, <3>6, <3>7 DEF CommandIsSafe
      <4> QED
        BY <3>5, <4>1
    <3>8. /\ toSend[i + 1].name = "dec_dimmer" => i + 1 = Len(toSend) /\ brownout < DimmerSteps
          /\ toSend[i + 1].name = "inc_dimmer" => i + 1 = Len(toSend) /\ brownout > 0
      BY <3>1 DEF CommandIsSafe
    <3> QED
      BY <2>1, <3>1, <3>2, <3>3, <3>4, <3>6, <3>7, <3>8 DEF CommandIsSafe
  <2> QED
    BY <1>1, <1>3, <2>1, <2>2, <2>3, <2>4, SentStep
<1>7. ASSUME \A i \in 1 .. Len(toSend') : toSend'[i].name \in {"dec_dimmer", "inc_dimmer"},
             UNCHANGED brownout
      PROVE  \A i \in 1 .. Len(toSend') : CommandIsSafe(i)'
  <2>1. ASSUME NEW i \in 1 .. Len(toSend') PROVE CommandIsSafe(i)'
    <3>1. toSend'[i] = toSend[i + 1] /\ i + 1 \in 2 .. Len(toSend) /\ CommandIsSafe(i + 1)
      BY <1>2
    <3>2. i + 1 = Len(toSend) => i = Len(toSend')
      BY <1>2
    <3> QED
      BY <1>7, <3>1, <3>2 DEF CommandIsSafe
  <2> QED
    BY <2>1
<1>8. ASSUME Head(toSend).name \in {"add", "remove"}
      PROVE  \A i \in 1 .. Len(toSend') : toSend'[i].name \in {"dec_dimmer", "inc_dimmer"}
  <2>1. \A j \in 1 + 1 .. Len(toSend) : toSend[j].name \in {"dec_dimmer", "inc_dimmer"}
    BY <1>2, <1>8 DEF CommandIsSafe
  <2> QED
    BY <1>2, <2>1
<1>9. ASSUME SendAddServer PROVE AMInv'
  <2> DEFINE t == Head(toSend).type
  <2>1. Head(toSend).name = "add" /\ UNCHANGED <<brownout, traffic, drained, amQuit>>
    BY <1>9 DEF SendAddServer, Sends
  <2>2. /\ t \in Type /\ GetServers(t) < MaxServers[t] /\ bootType = NoType /\ drained = NoType
    BY <1>2, <2>1, CommandFields DEF CommandIsSafe, AddIsSafe
  <2>3. /\ events = {} /\ ~aborted' /\ events' = {t} /\ bootType' = t /\ UNCHANGED active
    BY <1>3, <1>9, <2>2 DEF SendAddServer, ModelAddServer, IsServerBooting
  <2>4. \A u \in Type : traffic'[u] > 0 => Stays(u)' > 0
    BY <1>4, <2>1, <2>3 DEF Stays
  <2>5. \A i \in 1 .. Len(toSend') : CommandIsSafe(i)'
    BY <1>7, <1>8, <2>1
  <2> QED
    BY <1>1, <1>3, <1>4, <1>5, <2>1, <2>2, <2>3, <2>4, <2>5, SentStep
<1>10. ASSUME SendRemoveServer PROVE AMInv'
  <2> DEFINE t == Head(toSend).type
  <2>1. /\ Head(toSend).name = "remove"
        /\ UNCHANGED <<active, bootType, events, brownout, traffic, amQuit>>
    BY <1>10 DEF SendRemoveServer, Sends, modelVars
  <2>2. /\ t \in Type /\ active[t] > 0 /\ bootType = NoType /\ drained = NoType /\ traffic[t] = 0
        /\ GetTotalActiveServers > 1
    BY <1>2, <2>1, CommandFields DEF CommandIsSafe, RemoveIsSafe
  <2>3. drained' = t /\ ~aborted'
    BY <1>10, <2>2 DEF SendRemoveServer
  <2>4. \A u \in Type : traffic'[u] > 0 => Stays(u)' > 0
    BY <1>4, <1>5, <2>1, <2>2, <2>3 DEF Stays
  <2>5. \A i \in 1 .. Len(toSend') : CommandIsSafe(i)'
    BY <1>7, <1>8, <2>1
  <2> QED
    BY <1>1, <1>3, <1>4, <2>1, <2>2, <2>3, <2>4, <2>5, SentStep
<1>11. ASSUME SendDecreaseDimmer \/ SendIncreaseDimmer PROVE AMInv'
  <2>1. /\ \/ Head(toSend).name = "dec_dimmer" /\ brownout' = brownout + 1
           \/ Head(toSend).name = "inc_dimmer" /\ brownout' = brownout - 1
        /\ UNCHANGED <<active, bootType, events, traffic, drained, amQuit, aborted>>
    BY <1>11 DEF SendDecreaseDimmer, SendIncreaseDimmer, Sends, ModelSetBrownoutFactor
  <2>2. 1 = Len(toSend) /\ brownout' \in 0 .. DimmerSteps
    BY <1>2, <1>3, <2>1, DimmerAssumption DEF CommandIsSafe
  <2>3. \A i \in 1 .. Len(toSend') : CommandIsSafe(i)'
    <3>1. Len(toSend) = 1 /\ Len(toSend') = Len(toSend) - 1
      BY <1>2, <2>2
    <3>2. Len(toSend') = 0
      BY <3>1
    <3> QED
      BY <3>2
  <2>4. \A u \in Type : traffic'[u] > 0 => Stays(u)' > 0
    BY <1>4, <2>1 DEF Stays
  <2> QED
    BY <1>1, <1>3, <1>4, <2>1, <2>2, <2>3, <2>4, SentStep
<1> QED
  BY <1>6, <1>9, <1>10, <1>11

(* The empty diversion ends the client before it could remove a server.    *)
LEMMA QuitStep ==
  ASSUME AMInv, SendNoDiversion PROVE AMInv'
<1>0. AMTypeOK /\ TrafficServed /\ ReadingHolds /\ PlanIsSafe
  BY DEF AMInv
<1>1. /\ toSend # <<>> /\ Head(toSend).name = "divert" /\ Head(toSend).load = NoDiversion
      /\ amQuit' = TRUE /\ toSend' = <<>> /\ handler' = "none"
      /\ UNCHANGED <<active, bootType, events, brownout, traffic, reading, drained, aborted>>
  BY DEF SendNoDiversion, modelVars
<1>2. /\ toSend \in Seq(AMCommand) /\ Len(toSend) \in Nat \ {0}
      /\ <<>> \in Seq(AMCommand) /\ Len(toSend') = 0
  BY <1>0, <1>1, EmptySeq DEF AMTypeOK
<1>3. Head(toSend) = toSend[1] /\ CommandIsSafe(1)
  BY <1>0, <1>1, <1>2 DEF PlanIsSafe
<1>4. drained = NoType /\ bootType = NoType /\ \E t \in Type : OnlyTypeIs(t)
  BY <1>1, <1>3 DEF CommandIsSafe, DivertIsSafe
<1>5. handler = "sending" /\ reading = <<>> /\ Len(reading) = 0
  BY <1>0, <1>1, EmptySeq DEF PlanIsSafe, ReadingHolds
<1>6. AMTypeOK'
  BY <1>0, <1>1, <1>2 DEF AMTypeOK
<1>7. TrafficServed'
  BY <1>0, <1>1, <1>5 DEF TrafficServed, Stays
<1>8. QuitsIdle'
  BY <1>1, <1>4 DEF QuitsIdle, OnlyTypeIs
<1> QED
  BY <1>1, <1>2, <1>5, <1>6, <1>7, <1>8 DEF AMInv, ReadingHolds, PlanIsSafe

LEMMA AMStep ==
  ASSUME AMInv, AMNext PROVE AMInv'
  BY CallStep, ReadStep, DecideStep, SendsStep, QuitStep, BootEndsStep, DrainEndsStep DEF AMNext

LEMMA AdaptsSafe == AMInv => AdaptsSafely
<1> SUFFICES ASSUME AMInv PROVE AdaptsSafely
  OBVIOUS
<1>0. AMTypeOK /\ TrafficServed /\ QuitsIdle
  BY DEF AMInv
<1>1. ASSUME NEW t \in Type, OnlyTypeIs(t) PROVE Cardinality({u \in Type : active[u] > 0}) = 1
  <2>1. {u \in Type : active[u] > 0} = {t}
    BY <1>0, <1>1 DEF OnlyTypeIs
  <2> QED
    BY <2>1, FS_Singleton
<1> QED
  BY <1>0, <1>1 DEF AdaptsSafely, AMTypeOK, TrafficServed, QuitsIdle, Stays

(* The example manager (examples/simple_am) asks for no server it may not  *)
(* have, removes no last server, starves no traffic, keeps the dimmer in   *)
(* its range and gives up in one case only, for any maximum of servers and *)
(* any number of brownout levels, whatever boots between its commands.     *)
THEOREM AdaptsTheorem == PartsSpec => []AdaptsSafely
<1> DEFINE Unstarted ==
             handler = "start" /\ amQuit = FALSE /\ aborted = FALSE /\ brownout = 0
           ManagerInv == IF part = "am" THEN AMInv ELSE Unstarted
<1>1. PartsInit => ManagerInv
  BY AMInvInit DEF PartsInit, AMInit, ModelInit
<1>2. ManagerInv /\ [PartsNext]_partsVars => ManagerInv'
  <2> SUFFICES ASSUME ManagerInv, [PartsNext]_partsVars PROVE ManagerInv'
    OBVIOUS
  <2>1. CASE part = "am"
    <3>1. part' = "am" /\ AMInv /\ (AMNext \/ UNCHANGED <<modelVars, amVars>>)
      BY <2>1 DEF PartsNext, partsVars, OnlyPart, clockVars
    <3>2. CASE UNCHANGED <<modelVars, amVars>>
      BY <3>1, <3>2 DEF modelVars, amVars, AMInv, AMTypeOK, TrafficServed, Stays, ReadingHolds,
           GetServers, PlanIsSafe, CommandIsSafe, DivertIsSafe, AddIsSafe, RemoveIsSafe,
           GetTotalActiveServers, QuitsIdle, OnlyTypeIs
    <3> QED
      BY <3>1, <3>2, AMStep
  <2>2. CASE part # "am"
    <3>1. part' = part /\ UNCHANGED amVars /\ (BootClockNext \/ UNCHANGED clockVars)
      BY <2>2 DEF PartsNext, partsVars, OnlyPart, clockVars
    <3>2. UNCHANGED brownout
      <4>1. CASE UNCHANGED clockVars
        BY <4>1 DEF clockVars, modelVars
      <4>2. CASE BootClockNext
        BY <4>2 DEF BootClockNext, AddInitialServer, AddServer, RemoveActiveServer,
             ServerBecameActive, CancelBoot, RemoveBootingServer, GetConfiguration, Advance, modelVars
      <4> QED
        BY <3>1, <4>1, <4>2
    <3> QED
      BY <2>2, <3>1, <3>2 DEF amVars
  <2> QED
    BY <2>1, <2>2
<1>3. ManagerInv => AdaptsSafely
  <2>1. Unstarted => AdaptsSafely
    BY DimmerAssumption DEF AdaptsSafely
  <2> QED
    BY <2>1, AdaptsSafe
<1> QED
  BY <1>1, <1>2, <1>3, PTL DEF PartsSpec

(***************************************************************************)
(* The conversation of a manager with the simulation: what is handled is   *)
(* in order and executed once (InOrder), each command the client waits for *)
(* has one reply to come (Paired), and the parts on their way and in the   *)
(* buffer are those of the commands sent (WellCut).                        *)
(***************************************************************************)

(* What a client may send, and what a line may hold of it.                 *)
AnyCommand ==
  ClientCommand \cup {[c EXCEPT !.arg = a] : c \in ClientCommand, a \in {NoArg, Half}}
  \cup {Unknown, Blank}
AnyShares == {<<4, 0, 0>>} \cup {c.arg : c \in AnyCommand}
Kind == {"none", "error", "invalid", "number", "OK"}
Reply == [kind : Kind, of : Nat,
          value : {0} \cup {Probed(c, l, d) : c \in AnyCommand, l \in Int, d \in AnyShares}]
Part == [id : Nat, part : {"head", "tail", "whole"}, cut : Cut \cup {"none"}]

(* A part of a command that was sent, cut where a command can be cut.      *)
OfCommand(l, cs) ==
  /\ l \in Part /\ l.id \in 1 .. Len(cs)
  /\ l.part # "whole" => l.cut # "none"
  /\ l.cut = "arg" => cs[l.id].arg # NoArg

(* What a line holds is a command, or what is left of one.                 *)
LEMMA CommandIs ==
  ASSUME sent \in Seq(ClientCommand), NEW l, OfCommand(l, sent)
  PROVE  CommandIn(l) \in AnyCommand
<1> DEFINE c == sent[l.id]
<1>1. c \in ClientCommand BY DEF OfCommand
<1>2. CommandIn(l) \in {c, Blank, Unknown, [c EXCEPT !.arg = NoArg], [c EXCEPT !.arg = Half]}
  BY DEF CommandIn
<1> HIDE DEF c
<1> QED BY <1>1, <1>2 DEF AnyCommand

(* The kinds of replies: a whole command has one, and of a command that is *)
(* cut the first part or the second has.                                   *)
KindsOf(l, r) ==
  /\ r \in Kind
  /\ l.part = "whole" \/ (l.part = "head" /\ l.cut = "end") => r # "none"
  /\ l.part = "head" /\ l.cut # "end" => r = "error"
  /\ l.part = "tail" => r = IF l.cut = "end" THEN "none" ELSE "error"

(* What is replied to a line.                                              *)
LEMMA KindIs ==
  ASSUME sent \in Seq(ClientCommand), NEW l, OfCommand(l, sent), "within" \notin Cut
  PROVE  KindsOf(l, ReplyKind(CommandIn(l)))
<1> DEFINE c == CommandIn(l)
           d == sent[l.id]
<1>1. d \in ClientCommand BY DEF OfCommand
<1>2. d \in [name : STRING, arg : Seq(Nat)] /\ d.name # "" /\ (d.arg # NoArg => d.name \in WithArgument)
  BY <1>1, CommandAssumption
<1>3. l.part \in {"head", "tail", "whole"} /\ l.cut \in {"name", "arg", "end", "none"}
      /\ (l.part # "whole" => l.cut # "none") /\ (l.cut = "arg" => d.arg # NoArg)
  BY InterfaceAssumption DEF OfCommand, Part
<1>9. /\ l.part = "whole" \/ (l.part = "head" /\ l.cut = "end") => c = d
      /\ l.part = "tail" /\ l.cut = "end" => c = Blank
      /\ l.part = "head" /\ l.cut = "arg" => c = [d EXCEPT !.arg = NoArg]
      /\ l.part = "head" /\ l.cut = "name" => c = Unknown
      /\ l.part = "tail" /\ l.cut # "end" => c = Unknown
  BY <1>3 DEF CommandIn
<1> HIDE DEF c, d
<1>4. ReplyKind(c) \in Kind BY DEF ReplyKind, Kind
<1>5. c = d => ReplyKind(c) # "none"
  <2>0. Blank.name = "" BY DEF Blank
  <2>1. d # Blank BY <1>2, <2>0, Zenon
  <2> QED BY <2>1 DEF ReplyKind
<1>6. c = Unknown => ReplyKind(c) = "error"
  <2>1. Unknown # Blank /\ Unknown.name \notin Known
    BY DEF Unknown, Blank, Known, WithArgument, EffectorsOfType, ProbesOfType, Effectors, Probes
  <2> QED BY <2>1 DEF ReplyKind
<1>7. c = Blank => ReplyKind(c) = "none" BY DEF ReplyKind
<1>8. c = [d EXCEPT !.arg = NoArg] /\ d.arg # NoArg => ReplyKind(c) = "error"
  <2> SUFFICES ASSUME c = [d EXCEPT !.arg = NoArg], d.arg # NoArg PROVE ReplyKind(c) = "error"
    OBVIOUS
  <2>1. c.name = d.name /\ c.arg = NoArg BY <1>2
  <2>2. c.name \in WithArgument BY <1>2, <2>1
  <2>3. c.name # "" BY <1>2, <2>1
  <2>0. Blank.name = "" BY DEF Blank
  <2>4. c # Blank BY <2>0, <2>3, Zenon
  <2> QED BY <2>1, <2>2, <2>4 DEF ReplyKind
<1>10. KindsOf(l, ReplyKind(c)) BY <1>3, <1>4, <1>5, <1>6, <1>7, <1>8, <1>9 DEF KindsOf
<1> QED BY <1>10 DEF c

HandlerState ==
  [level : Int, diversion : AnyShares, executed : Seq(Nat), replies : Seq(Reply)]

Erred(rs) == \E i \in DOMAIN rs : rs[i].kind = "error"

(* The commands up to D have been handled: they were executed once and in  *)
(* order, and a success says so.                                           *)
InOrder(s, D) ==
  /\ s \in HandlerState
  /\ \A i, k \in DOMAIN s.executed : i < k => s.executed[i] < s.executed[k]
  /\ \A i \in DOMAIN s.executed : s.executed[i] <= D
  /\ \A i \in DOMAIN s.replies :
       /\ s.replies[i].of <= D
       /\ s.replies[i].kind \in {"OK", "number"} => Contains(s.executed, s.replies[i].of)

(* With A replies taken, there is one for each command up to D, in order,  *)
(* as far as none of them is an error.                                     *)
Paired(rs, A, D) ==
  /\ \A i \in DOMAIN rs : (\A h \in 1 .. i - 1 : rs[h].kind # "error") => rs[i].of = A + i
  /\ ~Erred(rs) => A + Len(rs) = D

(* Line l is next: a new command, or the rest of the last.  What was before*)
(* the rest was an error, or all of the command but its end.               *)
IsNext(l, s, D, A) ==
  /\ l.part # "tail" => l.id = D + 1
  /\ l.part = "tail" => l.id = D /\ (l.cut # "end" /\ Paired(s.replies, A, D) => Erred(s.replies))

(* A line that does not fit is an error, unless only its end is missing.   *)
FirstPartErred(l, s) == l.part = "head" /\ l.cut # "end" => Erred(s.replies)

(* A sequence with one element more.                                       *)
LEMMA AppendIs ==
  ASSUME NEW S, NEW q \in Seq(S), NEW x \in S, NEW r, r = Append(q, x)
  PROVE  /\ r \in Seq(S) /\ Len(q) \in Nat /\ Len(r) = Len(q) + 1
         /\ DOMAIN q = 1 .. Len(q) /\ DOMAIN r = 1 .. Len(q) + 1
         /\ r[Len(q) + 1] = x /\ \A i \in 1 .. Len(q) : r[i] = q[i]
         /\ \A i \in DOMAIN r : i \in 1 .. Len(q) \/ i = Len(q) + 1
<1>1. r \in Seq(S) /\ Len(q) \in Nat /\ Len(r) = Len(q) + 1 /\ DOMAIN q = 1 .. Len(q)
  BY AppendProperties
<1>2. DOMAIN r = 1 .. Len(q) + 1 BY <1>1
<1>3. r[Len(q) + 1] = x /\ \A i \in 1 .. Len(q) : r[i] = q[i] BY AppendProperties
<1>4. \A i \in 1 .. Len(q) + 1 : i \in 1 .. Len(q) \/ i = Len(q) + 1 BY <1>1
<1> QED BY <1>1, <1>2, <1>3, <1>4

(* One line.                                                               *)
LEMMA LineParts ==
  ASSUME sent \in Seq(ClientCommand), NEW l, OfCommand(l, sent),
         NEW s \in HandlerState, NEW t, t = HandleLine(s, l), NEW r, r = ReplyKind(CommandIn(l))
  PROVE  /\ t \in HandlerState
         /\ t.executed = IF r \in {"OK", "number"} THEN Append(s.executed, l.id) ELSE s.executed
         /\ IF r = "none" THEN t.replies = s.replies
            ELSE \E y \in Reply : y.kind = r /\ y.of = l.id /\ t.replies = Append(s.replies, y)
<1> DEFINE c == CommandIn(l)
           v == IF r = "number" THEN Probed(c, s.level, s.diversion) ELSE 0
           y == [kind |-> r, of |-> l.id, value |-> v]
<1>1. c \in AnyCommand BY CommandIs
<1>2. t = [level |-> IF r = "OK" THEN LevelAfter(c, s.level) ELSE s.level,
           diversion |-> IF r = "OK" /\ c.name = "divert_traffic" THEN c.arg ELSE s.diversion,
           executed |-> IF r \in {"OK", "number"} THEN Append(s.executed, l.id) ELSE s.executed,
           replies |-> IF r = "none" THEN s.replies ELSE Append(s.replies, y)]
  BY DEF HandleLine
<1>3. r \in Kind BY DEF ReplyKind, Kind
<1> HIDE DEF c
<1>4. s.level \in Int /\ s.diversion \in AnyShares /\ s.executed \in Seq(Nat) /\ s.replies \in Seq(Reply)
  BY DEF HandlerState
<1>5. l.id \in Nat BY DEF OfCommand, Part
<1>6. y \in Reply
  <2>1. v \in {0} \cup {Probed(a, b, d) : a \in AnyCommand, b \in Int, d \in AnyShares}
    BY <1>1, <1>4
  <2> HIDE DEF v
  <2> QED BY <1>3, <1>5, <2>1 DEF Reply
<1>7. y.kind = r /\ y.of = l.id OBVIOUS
<1> HIDE DEF y, v
<1>8. t.level \in Int
  <2>1. LevelAfter(c, s.level) \in Int BY <1>4 DEF LevelAfter
  <2> QED BY <1>2, <1>4, <2>1
<1>9. t.diversion \in AnyShares
  <2>1. c.arg \in AnyShares BY <1>1 DEF AnyShares
  <2> QED BY <1>2, <1>4, <2>1
<1>10. t.executed \in Seq(Nat) /\ t.replies \in Seq(Reply)
  <2>1. Append(s.executed, l.id) \in Seq(Nat) BY <1>4, <1>5
  <2>2. Append(s.replies, y) \in Seq(Reply) BY <1>4, <1>6
  <2> QED BY <1>2, <1>4, <2>1, <2>2
<1>11. t = [level |-> t.level, diversion |-> t.diversion, executed |-> t.executed, replies |-> t.replies]
  BY <1>2
<1>12. t \in HandlerState BY <1>8, <1>9, <1>10, <1>11 DEF HandlerState
<1>13. t.executed = IF r \in {"OK", "number"} THEN Append(s.executed, l.id) ELSE s.executed BY <1>2
<1>14. t.replies = IF r = "none" THEN s.replies ELSE Append(s.replies, y) BY <1>2
<1> QED BY <1>6, <1>7, <1>12, <1>13, <1>14

Handled(s, D, t, E, A) ==
  /\ InOrder(t, E)
  /\ Erred(s.replies) => Erred(t.replies)
  /\ \A y : Contains(s.executed, y) => Contains(t.executed, y)
  /\ Paired(s.replies, A, D) => Paired(t.replies, A, E)

(* One line, with what was handled before it.                              *)
LEMMA LineRound ==
  ASSUME sent \in Seq(ClientCommand), NEW l, OfCommand(l, sent), "within" \notin Cut,
         NEW D \in Nat, NEW A \in Nat, NEW s, InOrder(s, D), IsNext(l, s, D, A),
         NEW t, t = HandleLine(s, l)
  PROVE  Handled(s, D, t, l.id, A) /\ FirstPartErred(l, t)
<1> DEFINE r == ReplyKind(CommandIn(l))
           ex == s.executed
           rs == s.replies
           ex2 == t.executed
           rs2 == t.replies
<1>1. KindsOf(l, r) BY KindIs
<1>2. /\ t \in HandlerState
      /\ ex2 = IF r \in {"OK", "number"} THEN Append(ex, l.id) ELSE ex
      /\ IF r = "none" THEN rs2 = rs
         ELSE \E y \in Reply : y.kind = r /\ y.of = l.id /\ rs2 = Append(rs, y)
  <2>1. r = ReplyKind(CommandIn(l)) /\ s \in HandlerState BY DEF InOrder
  <2> HIDE DEF r
  <2> QED BY ONLY <2>1, LineParts, sent \in Seq(ClientCommand), OfCommand(l, sent), t = HandleLine(s, l)
<1> HIDE DEF r
<1>3. l.id \in Nat /\ l.part \in {"head", "tail", "whole"} BY DEF OfCommand, Part
<1>4. ex \in Seq(Nat) /\ rs \in Seq(Reply) /\ ex2 \in Seq(Nat) /\ rs2 \in Seq(Reply)
  BY <1>2 DEF InOrder, HandlerState
<1>5. D <= l.id /\ (l.part = "tail" => l.id = D) /\ (l.part # "tail" => l.id = D + 1)
  BY <1>3 DEF IsNext
<1> HIDE DEF ex, ex2, rs, rs2
<1>6. /\ \A i, k \in DOMAIN ex : i < k => ex[i] < ex[k]
      /\ \A i \in DOMAIN ex : ex[i] <= D
      /\ \A i \in DOMAIN rs : rs[i].of <= D /\ (rs[i].kind \in {"OK", "number"} => Contains(ex, rs[i].of))
  BY DEF InOrder, ex, rs
<1>7. /\ \A i, k \in DOMAIN ex2 : i < k => ex2[i] < ex2[k]
      /\ \A i \in DOMAIN ex2 : ex2[i] <= l.id
      /\ \A y : Contains(ex, y) => Contains(ex2, y)
      /\ r \in {"OK", "number"} => Contains(ex2, l.id)
  <2>1. CASE r \notin {"OK", "number"}
    <3>1. ex2 = ex BY <1>2, <2>1
    <3>2. \A i \in DOMAIN ex : ex[i] \in Nat BY <1>4
    <3>3. \A i \in DOMAIN ex : ex[i] <= l.id BY <1>3, <1>5, <1>6, <3>2
    <3> QED BY <1>6, <2>1, <3>1, <3>3
  <2>2. CASE r \in {"OK", "number"}
    <3>1. ex2 = Append(ex, l.id) BY <1>2, <2>2
    <3>2. l.id = D + 1
      <4>1. l.part # "tail" BY <1>1, <2>2 DEF KindsOf
      <4> QED BY <1>5, <4>1
    <3>3. /\ Len(ex) \in Nat /\ DOMAIN ex = 1 .. Len(ex) /\ DOMAIN ex2 = 1 .. Len(ex) + 1
          /\ ex2[Len(ex) + 1] = l.id /\ (\A i \in 1 .. Len(ex) : ex2[i] = ex[i])
          /\ \A i \in DOMAIN ex2 : i \in 1 .. Len(ex) \/ i = Len(ex) + 1
      BY <1>3, <1>4, <3>1, AppendIs
    <3>4. \A i \in 1 .. Len(ex) : ex[i] \in Nat BY <1>4
    <3>5. ASSUME NEW i \in DOMAIN ex2, NEW k \in DOMAIN ex2, i < k PROVE ex2[i] < ex2[k]
      <4>1. i \in 1 .. Len(ex) BY <3>3, <3>5
      <4>2. CASE k \in 1 .. Len(ex) BY <1>6, <3>3, <3>5, <4>1, <4>2
      <4>3. CASE k = Len(ex) + 1
        <5>1. ex2[i] = ex[i] /\ ex[i] <= D /\ ex[i] \in Nat BY <1>6, <3>3, <3>4, <4>1
        <5> QED BY <3>2, <3>3, <4>3, <5>1
      <4> QED BY <3>3, <4>2, <4>3
    <3>6. ASSUME NEW i \in DOMAIN ex2 PROVE ex2[i] <= l.id
      <4>1. CASE i \in 1 .. Len(ex)
        <5>1. ex2[i] = ex[i] /\ ex[i] <= D /\ ex[i] \in Nat BY <1>6, <3>3, <3>4, <4>1
        <5> QED BY <3>2, <5>1
      <4>2. CASE i = Len(ex) + 1 BY <1>3, <3>3, <4>2
      <4> QED BY <3>3, <4>1, <4>2
    <3>7. ASSUME NEW y, Contains(ex, y) PROVE Contains(ex2, y)
      <4>1. PICK i \in 1 .. Len(ex) : ex[i] = y BY <3>7 DEF Contains
      <4>2. Len(ex2) = Len(ex) + 1 BY <1>3, <1>4, <3>1, AppendIs
      <4>3. i \in 1 .. Len(ex2) /\ ex2[i] = y BY <3>3, <4>1, <4>2
      <4> QED BY <4>3 DEF Contains
    <3>8. Contains(ex2, l.id)
      <4>1. Len(ex2) = Len(ex) + 1 BY <1>3, <1>4, <3>1, AppendIs
      <4>2. Len(ex) + 1 \in 1 .. Len(ex2) BY <3>3, <4>1
      <4> QED BY <3>3, <4>2 DEF Contains
    <3> QED BY <3>5, <3>6, <3>7, <3>8
  <2> QED BY <2>1, <2>2
<1>8. CASE r = "none"
  <2>1. rs2 = rs BY <1>2, <1>8
  <2>2. l.part = "tail" /\ l.id = D /\ l.cut = "end" BY <1>1, <1>3, <1>5, <1>8 DEF KindsOf
  <2>3. InOrder(t, l.id) BY <1>2, <1>6, <1>7, <2>1, <2>2 DEF InOrder, ex2, rs2
  <2>4. FirstPartErred(l, t) BY <2>2 DEF FirstPartErred
  <2> QED BY <1>7, <2>1, <2>2, <2>3, <2>4 DEF Handled, ex, ex2, rs, rs2
<1>9. CASE r # "none"
  <2>1. PICK y \in Reply : y.kind = r /\ y.of = l.id /\ rs2 = Append(rs, y) BY <1>2, <1>9
  <2>2. /\ Len(rs) \in Nat /\ Len(rs2) = Len(rs) + 1
        /\ DOMAIN rs = 1 .. Len(rs) /\ DOMAIN rs2 = 1 .. Len(rs) + 1
        /\ rs2[Len(rs) + 1] = y /\ (\A i \in 1 .. Len(rs) : rs2[i] = rs[i])
        /\ \A i \in DOMAIN rs2 : i \in 1 .. Len(rs) \/ i = Len(rs) + 1
    BY <1>4, <2>1, AppendIs
  <2>3. Len(rs) + 1 \in DOMAIN rs2 /\ \A i \in 1 .. Len(rs) : i \in DOMAIN rs2 BY <2>2
  <2>4. Erred(rs) => Erred(rs2) BY <2>2, <2>3 DEF Erred
  <2>5. r = "error" => Erred(rs2) BY <2>1, <2>2, <2>3 DEF Erred
  <2>6. ASSUME NEW i \in DOMAIN rs2
        PROVE  rs2[i].of <= l.id /\ (rs2[i].kind \in {"OK", "number"} => Contains(ex2, rs2[i].of))
    <3>1. CASE i \in 1 .. Len(rs)
      <4>1. rs2[i] = rs[i] /\ rs[i].of <= D /\ (rs[i].kind \in {"OK", "number"} => Contains(ex, rs[i].of))
        BY <1>6, <2>2, <3>1
      <4>2. rs[i].of \in Nat
        <5>1. rs[i] \in Reply BY <1>4, <2>2, <3>1
        <5> QED BY <5>1 DEF Reply
      <4>3. rs[i].of <= l.id BY <1>3, <1>5, <4>1, <4>2
      <4> QED BY <1>7, <4>1, <4>3
    <3>2. CASE i = Len(rs) + 1 BY <1>3, <1>7, <2>1, <2>2, <3>2
    <3> QED BY <2>2, <3>1, <3>2
  <2>7. InOrder(t, l.id) BY <1>2, <1>7, <2>6 DEF InOrder, ex2, rs2
  <2>8. FirstPartErred(l, t)
    <3>1. l.part = "head" /\ l.cut # "end" => r = "error" BY <1>1 DEF KindsOf
    <3> QED BY <2>5, <3>1 DEF FirstPartErred, rs2
  <2>9. ASSUME Paired(rs, A, D) PROVE Paired(rs2, A, l.id)
    <3>1. l.part = "tail" => Erred(rs)
      <4>1. l.part = "tail" => l.cut # "end" BY <1>1, <1>9 DEF KindsOf
      <4> QED BY <2>9, <4>1 DEF IsNext, rs
    <3>2. ~Erred(rs) => A + Len(rs) + 1 = l.id BY <1>5, <2>9, <3>1 DEF Paired
    <3>3. ASSUME NEW i \in DOMAIN rs2, \A h \in 1 .. i - 1 : rs2[h].kind # "error"
          PROVE  rs2[i].of = A + i
      <4>1. CASE i \in 1 .. Len(rs)
        <5>1. \A h \in 1 .. i - 1 : h \in 1 .. Len(rs) BY <2>2, <4>1
        <5>2. \A h \in 1 .. i - 1 : rs[h].kind # "error" BY <2>2, <3>3, <5>1
        <5> QED BY <2>2, <2>9, <4>1, <5>2 DEF Paired
      <4>2. CASE i = Len(rs) + 1
        <5>1. \A h \in 1 .. Len(rs) : h \in 1 .. i - 1 BY <2>2, <4>2
        <5>2. ~Erred(rs) BY <2>2, <3>3, <5>1 DEF Erred
        <5> QED BY <2>1, <2>2, <3>2, <4>2, <5>2
      <4> QED BY <2>2, <4>1, <4>2
    <3>4. ~Erred(rs2) => A + Len(rs2) = l.id BY <2>2, <2>4, <3>2
    <3> QED BY <3>3, <3>4 DEF Paired
  <2> QED BY <1>7, <2>4, <2>7, <2>8, <2>9 DEF Handled, ex, ex2, rs, rs2
<1> QED BY <1>8, <1>9

(* Part y comes right behind part x.                                       *)
Follows(y, x) == IF y.part = "tail" THEN x.part = "head" /\ y.id = x.id ELSE y.id = x.id + 1
RestOf(y, x) == y.part = "tail" /\ y.cut = x.cut

(* The parts on their way and in the buffer: each command whole, or its    *)
(* two parts one behind the other, in the order of the commands.           *)
CutTo(P, n, cs) ==
  /\ \A i \in 1 .. n : OfCommand(P[i], cs)
  /\ \A i \in 1 .. n : P[i].part = "head" => i + 1 \in 1 .. n /\ RestOf(P[i + 1], P[i])
  /\ \A i \in 1 .. n - 1 : Follows(P[i + 1], P[i])
  /\ n # 0 => P[n].id = Len(cs)
WellCut(P, cs) == P \in Seq(Part) /\ CutTo(P, Len(P), cs)

(* The last command of which nothing but a rest is still to come.          *)
DoneUpTo(P, cs) ==
  IF P = <<>> THEN Len(cs) ELSE IF P[1].part = "tail" THEN P[1].id ELSE P[1].id - 1

Starts(b, i) == i = 1 \/ b[i].part # "tail"
StartsUpTo(b, i) == Cardinality({h \in 1 .. i : Starts(b, h)})
LineOf(b, i) == IF b[i].part = "head" /\ i < Len(b) THEN [b[i] EXCEPT !.part = "whole"] ELSE b[i]
StartOf(b, k) == CHOOSE i \in DOMAIN b : Starts(b, i) /\ StartsUpTo(b, i) = k

(* The lines of a buffer are a function of their numbers.                  *)
LEMMA LinesIs ==
  ASSUME NEW b \in Seq(Part)
  PROVE  Lines(b) = [k \in 1 .. StartsUpTo(b, Len(b)) |-> LineOf(b, StartOf(b, k))]
<1>1. DOMAIN b = 1 .. Len(b) OBVIOUS
<1>2. Lines(b) = [k \in 1 .. Cardinality({i \in DOMAIN b : Starts(b, i)}) |-> LineOf(b, StartOf(b, k))]
  BY Zenon DEF Lines, LineOf, StartOf, StartsUpTo, Starts
<1> QED BY <1>1, <1>2 DEF StartsUpTo

(* How the number of lines grows with the buffer.                          *)
LEMMA StartsGrow ==
  ASSUME NEW b, NEW i \in Nat
  PROVE  /\ StartsUpTo(b, i) \in Nat /\ StartsUpTo(b, 0) = 0
         /\ StartsUpTo(b, i + 1) = StartsUpTo(b, i) + (IF Starts(b, i + 1) THEN 1 ELSE 0)
         /\ \A j \in Nat : i < j /\ Starts(b, j) => StartsUpTo(b, i) < StartsUpTo(b, j)
<1> DEFINE T(j) == {h \in 1 .. j : Starts(b, h)}
<1>1. \A j \in Nat : IsFiniteSet(T(j)) /\ Cardinality(T(j)) \in Nat
  <2> SUFFICES ASSUME NEW j \in Nat PROVE IsFiniteSet(T(j)) /\ Cardinality(T(j)) \in Nat OBVIOUS
  <2>1. IsFiniteSet(1 .. j) BY FS_Interval
  <2>2. T(j) \in SUBSET (1 .. j) OBVIOUS
  <2> HIDE DEF T
  <2>3. IsFiniteSet(T(j)) BY <2>1, <2>2, FS_Subset
  <2> QED BY <2>3, FS_CardinalityType
<1>2. T(0) = {} OBVIOUS
<1>3. T(i + 1) = IF Starts(b, i + 1) THEN (T(i) \cup {i + 1}) ELSE T(i) OBVIOUS
<1>4. i + 1 \notin T(i) OBVIOUS
<1>5. \A j \in Nat : i < j /\ Starts(b, j) => (T(i) \cup {j}) \subseteq T(j) /\ j \notin T(i) OBVIOUS
<1>6. \A j : StartsUpTo(b, j) = Cardinality(T(j)) BY DEF StartsUpTo
<1> HIDE DEF T
<1>7. Cardinality(T(0)) = 0 BY <1>2, FS_EmptySet
<1>8. Cardinality(T(i) \cup {i + 1}) = Cardinality(T(i)) + 1 BY <1>1, <1>4, FS_AddElement
<1>9. ASSUME NEW j \in Nat, i < j, Starts(b, j) PROVE Cardinality(T(i)) < Cardinality(T(j))
  <2>1. Cardinality(T(i) \cup {j}) = Cardinality(T(i)) + 1 BY <1>1, <1>5, <1>9, FS_AddElement
  <2>2. (T(i) \cup {j}) \in SUBSET T(j) BY <1>5, <1>9
  <2>3. Cardinality(T(i) \cup {j}) <= Cardinality(T(j)) BY <1>1, <2>2, FS_Subset
  <2>4. Cardinality(T(i)) \in Nat /\ Cardinality(T(j)) \in Nat BY <1>1
  <2> QED BY <2>1, <2>3, <2>4
<1> QED BY <1>1, <1>3, <1>6, <1>7, <1>8, <1>9

(* The k-th line starts somewhere.                                         *)
LEMMA StartExists ==
  ASSUME NEW b, NEW n \in Nat, NEW k \in 1 .. StartsUpTo(b, n)
  PROVE  \E i \in 1 .. n : Starts(b, i) /\ StartsUpTo(b, i) = k
<1> DEFINE G == {m \in Nat : \A x \in 1 .. StartsUpTo(b, m) :
                               \E i \in 1 .. m : Starts(b, i) /\ StartsUpTo(b, i) = x}
<1>1. 0 \in G
  <2>1. StartsUpTo(b, 0) = 0 BY StartsGrow
  <2> QED BY <2>1
<1>2. ASSUME NEW m \in Nat, m \in G PROVE m + 1 \in G
  <2> SUFFICES ASSUME NEW x \in 1 .. StartsUpTo(b, m + 1)
               PROVE  \E i \in 1 .. m + 1 : Starts(b, i) /\ StartsUpTo(b, i) = x
    OBVIOUS
  <2>1. /\ StartsUpTo(b, m) \in Nat
        /\ StartsUpTo(b, m + 1) = StartsUpTo(b, m) + (IF Starts(b, m + 1) THEN 1 ELSE 0)
    BY StartsGrow
  <2>2. CASE x \in 1 .. StartsUpTo(b, m)
    <3>1. \E i \in 1 .. m : Starts(b, i) /\ StartsUpTo(b, i) = x BY <1>2, <2>2
    <3> QED BY <3>1
  <2>3. CASE x \notin 1 .. StartsUpTo(b, m)
    <3>1. Starts(b, m + 1) /\ x = StartsUpTo(b, m + 1) BY <2>1, <2>3
    <3> QED BY <3>1
  <2> QED BY <2>2, <2>3
<1> HIDE DEF G
<1>3. \A m \in Nat : m \in G BY <1>1, <1>2, NatInd
<1> QED BY <1>3 DEF G

(* A longer buffer has no fewer lines.                                     *)
LEMMA StartsMonotone ==
  ASSUME NEW b, NEW i \in Nat, NEW j \in Nat, i <= j
  PROVE  StartsUpTo(b, i) <= StartsUpTo(b, j)
<1> DEFINE T(x) == {h \in 1 .. x : Starts(b, h)}
<1>1. IsFiniteSet(1 .. j) /\ T(j) \in SUBSET (1 .. j) BY FS_Interval
<1>2. T(i) \in SUBSET T(j) OBVIOUS
<1>3. StartsUpTo(b, i) = Cardinality(T(i)) /\ StartsUpTo(b, j) = Cardinality(T(j)) BY DEF StartsUpTo
<1> HIDE DEF T
<1>4. IsFiniteSet(T(j)) BY <1>1, FS_Subset
<1> QED BY <1>2, <1>3, <1>4, FS_Subset

(* What the lines of a buffer are, where commands are cut in two at most:  *)
(* each line holds the next command, the first may hold the rest of one.   *)
LinesOf(ls, b, cs) ==
  /\ ls \in Seq(Part) /\ Len(ls) \in Nat \ {0}
  /\ \A k \in 1 .. Len(ls) : OfCommand(ls[k], cs)
  /\ ls[1].id = b[1].id /\ (ls[1].part = "tail" <=> b[1].part = "tail") /\ ls[1].cut = b[1].cut
  /\ \A k \in 1 .. Len(ls) - 1 : ls[k + 1].id = ls[k].id + 1 /\ ls[k + 1].part # "tail"
  /\ ls[Len(ls)].id = b[Len(b)].id
  /\ b[Len(b)].part = "head" => ls[Len(ls)].part = "head" /\ ls[Len(ls)].cut = b[Len(b)].cut

BufferCut(b, cs) ==
  /\ b \in Seq(Part) /\ Len(b) \in Nat \ {0}
  /\ \A i \in 1 .. Len(b) : OfCommand(b[i], cs)
  /\ \A i \in 1 .. Len(b) - 1 : Follows(b[i + 1], b[i])

(* The lines of a buffer that is well cut.                                 *)
LEMMA LinesAre ==
  ASSUME NEW b, NEW cs, BufferCut(b, cs), NEW ls, ls = Lines(b)
  PROVE  LinesOf(ls, b, cs)
<1> DEFINE L == Len(b)
           N == StartsUpTo(b, L)
           S(k) == StartOf(b, k)
           C(i) == StartsUpTo(b, i)
<1>1. /\ b \in Seq(Part) /\ L \in Nat \ {0} /\ DOMAIN b = 1 .. L
      /\ \A i \in 1 .. L : OfCommand(b[i], cs) /\ b[i] \in Part
      /\ \A i \in 1 .. L - 1 : IF b[i + 1].part = "tail" THEN b[i].part = "head" /\ b[i + 1].id = b[i].id
                               ELSE b[i + 1].id = b[i].id + 1
  BY DEF BufferCut, Follows
<1>2. ls = [k \in 1 .. N |-> LineOf(b, S(k))] BY <1>1, LinesIs
<1>3. \A i \in Nat : C(i) \in Nat /\ C(0) = 0 /\ C(i + 1) = C(i) + (IF Starts(b, i + 1) THEN 1 ELSE 0)
  BY StartsGrow
<1>4. \A i, j \in Nat : i < j /\ Starts(b, j) => C(i) < C(j) BY StartsGrow
<1>5. \A i, j \in Nat : i <= j => C(i) <= C(j) BY StartsMonotone
<1>6. \A k \in 1 .. N : S(k) \in 1 .. L /\ Starts(b, S(k)) /\ C(S(k)) = k
  <2> SUFFICES ASSUME NEW k \in 1 .. N PROVE S(k) \in 1 .. L /\ Starts(b, S(k)) /\ C(S(k)) = k
    OBVIOUS
  <2>1. \E i \in 1 .. L : Starts(b, i) /\ StartsUpTo(b, i) = k BY <1>1, StartExists
  <2>2. \E i \in DOMAIN b : Starts(b, i) /\ StartsUpTo(b, i) = k BY <1>1, <2>1
  <2> QED BY <1>1, <2>2 DEF StartOf
<1> HIDE DEF S, C, N, L
<1>7. \A i, j \in 1 .. L : Starts(b, i) /\ Starts(b, j) /\ C(i) = C(j) => i = j
  <2> SUFFICES ASSUME NEW i \in 1 .. L, NEW j \in 1 .. L, Starts(b, i), Starts(b, j), C(i) = C(j) PROVE i = j
    OBVIOUS
  <2>1. i \in Nat /\ j \in Nat /\ C(i) \in Nat /\ C(j) \in Nat BY <1>1, <1>3
  <2>2. ~(i < j) BY <1>4, <2>1
  <2>3. ~(j < i) BY <1>4, <2>1
  <2> QED BY <2>1, <2>2, <2>3
<1>8. Starts(b, 1) /\ C(1) = 1
  <2>1. Starts(b, 1) BY DEF Starts
  <2>2. 0 \in Nat /\ 0 + 1 = 1 OBVIOUS
  <2>3. C(0 + 1) = C(0) + (IF Starts(b, 0 + 1) THEN 1 ELSE 0) /\ C(0) = 0 BY <1>3, <2>2
  <2> QED BY <2>1, <2>3
<1>9. N \in Nat \ {0}
  <2>1. C(1) <= C(L) /\ C(L) \in Nat BY <1>1, <1>3, <1>5
  <2>2. C(L) = N BY DEF C, N
  <2> QED BY <1>8, <2>1, <2>2
<1>10. S(1) = 1
  <2>1. S(1) \in 1 .. L /\ Starts(b, S(1)) /\ C(S(1)) = 1 /\ 1 \in 1 .. L BY <1>1, <1>6, <1>9
  <2> QED BY <1>7, <1>8, <2>1
<1>11. ASSUME NEW i \in 1 .. L - 1, ~Starts(b, i + 1), i + 2 <= L
       PROVE  Starts(b, i + 2) /\ C(i + 2) = C(i) + 1 /\ b[i + 2].id = b[i].id + 1
  <2>1. b[i + 1].part = "tail" /\ b[i + 1].id = b[i].id BY <1>1, <1>11 DEF Starts
  <2>2. i + 1 \in 1 .. L - 1 /\ (i + 1) + 1 = i + 2 /\ i + 1 \in Nat /\ i \in Nat BY <1>1, <1>11
  <2>3. b[i + 2].part # "tail" /\ b[i + 2].id = b[i + 1].id + 1
    <3>1. IF b[i + 2].part = "tail" THEN b[i + 1].part = "head" /\ b[i + 2].id = b[i + 1].id
          ELSE b[i + 2].id = b[i + 1].id + 1
      BY <1>1, <2>2
    <3> QED BY <2>1, <3>1
  <2>4. Starts(b, i + 2) BY <2>3 DEF Starts
  <2>5. C(i + 1) = C(i) BY <1>3, <1>11, <2>2
  <2>6. C(i + 2) = C(i + 1) + 1 BY <1>3, <2>2, <2>4
  <2> QED BY <2>1, <2>3, <2>4, <2>5, <2>6
<1>12. ASSUME NEW k \in 1 .. N - 1
       PROVE  b[S(k + 1)].id = b[S(k)].id + 1 /\ b[S(k + 1)].part # "tail"
  <2> DEFINE i == S(k)
             j == S(k + 1)
  <2>1. /\ i \in 1 .. L /\ C(i) = k /\ Starts(b, i)
        /\ j \in 1 .. L /\ C(j) = k + 1 /\ Starts(b, j)
    BY <1>6, <1>9
  <2> HIDE DEF i, j
  <2>2. i < j
    <3>1. i # j BY <2>1
    <3>2. ~(j < i)
      <4>1. j < i => C(j) < C(i) BY <1>1, <1>4, <2>1
      <4> QED BY <2>1, <4>1
    <3> QED BY <1>1, <2>1, <3>1, <3>2
  <2>3. i \in 1 .. L - 1 /\ i \in Nat /\ i + 1 \in 1 .. L /\ i + 1 # 1 BY <1>1, <2>1, <2>2
  <2>4. CASE Starts(b, i + 1)
    <3>1. C(i + 1) = k + 1 BY <1>3, <2>1, <2>3, <2>4
    <3>2. j = i + 1 BY <1>7, <2>1, <2>3, <2>4, <3>1
    <3>3. b[i + 1].part # "tail" BY <2>3, <2>4 DEF Starts
    <3>4. b[i + 1].id = b[i].id + 1 BY <1>1, <2>3, <3>3
    <3> QED BY <3>2, <3>3, <3>4 DEF i, j
  <2>5. CASE ~Starts(b, i + 1)
    <3>1. j # i + 1 BY <2>1, <2>5
    <3>2. i + 2 <= L /\ i + 2 \in 1 .. L /\ i + 2 # 1 BY <1>1, <2>1, <2>2, <2>3, <3>1
    <3>3. Starts(b, i + 2) /\ C(i + 2) = C(i) + 1 /\ b[i + 2].id = b[i].id + 1 BY <1>11, <2>3, <2>5, <3>2
    <3>4. j = i + 2
      <4>1. C(i + 2) = C(j) BY <2>1, <3>3
      <4> QED BY <1>7, <2>1, <3>2, <3>3, <4>1
    <3>5. b[i + 2].part # "tail" BY <3>2, <3>3 DEF Starts
    <3> QED BY <3>3, <3>4, <3>5 DEF i, j
  <2> QED BY <2>4, <2>5
<1>13. S(N) = L \/ (b[S(N)].id = b[L].id /\ b[L].part = "tail")
  <2> DEFINE i == S(N)
  <2>1. i \in 1 .. L /\ C(i) = N /\ Starts(b, i) BY <1>6, <1>9
  <2> HIDE DEF i
  <2>2. C(L) = N BY DEF C, N
  <2> SUFFICES ASSUME i # L PROVE b[i].id = b[L].id /\ b[L].part = "tail" BY DEF i
  <2>3. i \in 1 .. L - 1 /\ i \in Nat /\ i + 1 <= L /\ i + 1 \in Nat /\ L \in Nat /\ i + 1 # 1 BY <1>1, <2>1
  <2>4. ~Starts(b, i + 1)
    <3> SUFFICES ASSUME Starts(b, i + 1) PROVE FALSE OBVIOUS
    <3>1. C(i + 1) = N + 1 BY <1>3, <2>1, <2>3
    <3>2. C(i + 1) <= C(L) BY <1>5, <2>3
    <3> QED BY <1>9, <2>2, <3>1, <3>2
  <2>5. ~(i + 2 <= L)
    <3> SUFFICES ASSUME i + 2 <= L PROVE FALSE OBVIOUS
    <3>1. C(i + 2) = N + 1 BY <1>11, <2>1, <2>3, <2>4
    <3>2. C(i + 2) <= C(L) BY <1>5, <2>3
    <3> QED BY <1>9, <2>2, <3>1, <3>2
  <2>6. i + 1 = L BY <2>3, <2>5
  <2>7. b[i + 1].part = "tail" /\ b[i + 1].id = b[i].id BY <1>1, <2>3, <2>4 DEF Starts
  <2> QED BY <2>6, <2>7
<1>14. \A i \in 1 .. L : /\ LineOf(b, i) \in Part /\ OfCommand(LineOf(b, i), cs)
                         /\ LineOf(b, i).id = b[i].id /\ LineOf(b, i).cut = b[i].cut
                         /\ LineOf(b, i).part = "tail" <=> b[i].part = "tail"
                         /\ i = L => LineOf(b, i) = b[i]
  <2> SUFFICES ASSUME NEW i \in 1 .. L, NEW x, x = LineOf(b, i)
               PROVE  /\ x \in Part /\ OfCommand(x, cs) /\ x.id = b[i].id /\ x.cut = b[i].cut
                      /\ x.part = "tail" <=> b[i].part = "tail"
                      /\ i = L => x = b[i]
    OBVIOUS
  <2>1. b[i] \in Part /\ OfCommand(b[i], cs) BY <1>1
  <2>2. CASE b[i].part = "head" /\ i < L
    <3>1. x = [b[i] EXCEPT !.part = "whole"] BY <2>2 DEF LineOf, L
    <3>2. x \in Part /\ x.id = b[i].id /\ x.cut = b[i].cut /\ x.part = "whole" BY <2>1, <3>1 DEF Part
    <3>3. OfCommand(x, cs) BY <2>1, <3>2 DEF OfCommand
    <3> QED BY <1>1, <2>2, <3>2, <3>3
  <2>3. CASE ~(b[i].part = "head" /\ i < L)
    <3>1. x = b[i] BY <2>3 DEF LineOf, L
    <3> QED BY <2>1, <3>1
  <2> QED BY <2>2, <2>3
<1>15. ls \in Seq(Part) /\ Len(ls) = N /\ \A k \in 1 .. N : ls[k] = LineOf(b, S(k))
  <2>1. \A k \in 1 .. N : LineOf(b, S(k)) \in Part BY <1>6, <1>14
  <2>2. N \in Nat BY <1>9
  <2> QED BY <1>2, <2>1, <2>2
<1>16. \A k \in 1 .. N : OfCommand(ls[k], cs) BY <1>6, <1>14, <1>15
<1>17. ls[1].id = b[1].id /\ (ls[1].part = "tail" <=> b[1].part = "tail") /\ ls[1].cut = b[1].cut
  BY <1>1, <1>9, <1>10, <1>14, <1>15
<1>18. \A k \in 1 .. N - 1 : ls[k + 1].id = ls[k].id + 1 /\ ls[k + 1].part # "tail"
  <2> SUFFICES ASSUME NEW k \in 1 .. N - 1 PROVE ls[k + 1].id = ls[k].id + 1 /\ ls[k + 1].part # "tail"
    OBVIOUS
  <2>1. k \in 1 .. N /\ k + 1 \in 1 .. N BY <1>9
  <2>2. ls[k] = LineOf(b, S(k)) /\ ls[k + 1] = LineOf(b, S(k + 1)) /\ S(k) \in 1 .. L /\ S(k + 1) \in 1 .. L
    BY <1>6, <1>15, <2>1
  <2> QED BY <1>12, <1>14, <2>2
<1>19. N \in 1 .. N /\ S(N) \in 1 .. L BY <1>6, <1>9
<1>20. ls[N].id = b[L].id BY <1>13, <1>14, <1>15, <1>19
<1>21. b[L].part = "head" => ls[N].part = "head" /\ ls[N].cut = b[L].cut BY <1>13, <1>14, <1>15, <1>19
<1> QED BY <1>9, <1>15, <1>16, <1>17, <1>18, <1>20, <1>21 DEF LinesOf, L

HandleFrom(ls, s, U, g) == IF U = {} THEN s ELSE HandleLine(g[U \ {Max(U)}], ls[Max(U)])
HandleFold(s, ls) == FoldLeft(HandleLine, s, ls)

(* The loop of handleMessage is a recursive function.                      *)
LEMMA HandleFoldIs ==
  ASSUME NEW ls, NEW s
  PROVE  HandleFold(s, ls) =
           (CHOOSE g : g = [U \in SUBSET (DOMAIN ls) |-> HandleFrom(ls, s, U, g)])[DOMAIN ls]
  BY Zenon DEF HandleFold, FoldLeft, MapThenFoldSet, HandleFrom

(* The commands up to line k of the buffer, after D.                       *)
LineEnd(ls, k, D) == IF k = 0 THEN D ELSE ls[k].id

(* The lines up to k have been handled.                                    *)
LinesHandled(s, D, ls, k, A, t) ==
  /\ Handled(s, D, t, LineEnd(ls, k, D), A)
  /\ k > 0 => FirstPartErred(ls[k], t)

(* The next line.                                                          *)
LEMMA HandleRound ==
  ASSUME sent \in Seq(ClientCommand), "within" \notin Cut, NEW b, NEW ls, LinesOf(ls, b, sent),
         NEW D \in Nat, NEW A \in Nat, NEW s, IsNext(ls[1], s, D, A),
         NEW k \in 1 .. Len(ls), NEW x, LinesHandled(s, D, ls, k - 1, A, x),
         k = 1 => x = s,
         NEW t, t = HandleLine(x, ls[k])
  PROVE  LinesHandled(s, D, ls, k, A, t)
<1> DEFINE E == LineEnd(ls, k - 1, D)
           l == ls[k]
<1>1. /\ Len(ls) \in Nat /\ OfCommand(l, sent) /\ l \in Part
      /\ k # 1 => l.id = ls[k - 1].id + 1 /\ l.part # "tail" /\ ls[k - 1] \in Part
  <2>1. Len(ls) \in Nat /\ OfCommand(l, sent) /\ ls \in Seq(Part) BY DEF LinesOf
  <2>2. \A j \in 1 .. Len(ls) : ls[j] \in Part BY <2>1
  <2>3. ASSUME k # 1 PROVE l.id = ls[k - 1].id + 1 /\ l.part # "tail" /\ ls[k - 1] \in Part
    <3>1. k - 1 \in 1 .. Len(ls) - 1 /\ k - 1 \in 1 .. Len(ls) /\ (k - 1) + 1 = k BY <2>1, <2>3
    <3>2. \A j \in 1 .. Len(ls) - 1 : ls[j + 1].id = ls[j].id + 1 /\ ls[j + 1].part # "tail"
      BY DEF LinesOf
    <3> QED BY <2>2, <3>1, <3>2
  <2> QED BY <2>1, <2>2, <2>3
<1>2. E \in Nat /\ IsNext(l, x, E, A)
  <2>1. CASE k = 1
    <3>1. E = D BY <2>1 DEF LineEnd
    <3> QED BY <2>1, <3>1
  <2>2. CASE k # 1
    <3>1. E = ls[k - 1].id BY <2>2 DEF LineEnd
    <3> QED BY <1>1, <2>2, <3>1 DEF IsNext, Part
  <2> QED BY <2>1, <2>2
<1>3. Handled(s, D, x, E, A) BY DEF LinesHandled
<1>4. InOrder(x, E) BY <1>3 DEF Handled
<1> HIDE DEF E, l
<1>5. t = HandleLine(x, l) BY DEF l
<1>6. Handled(x, E, t, l.id, A) /\ FirstPartErred(l, t) BY <1>1, <1>2, <1>4, <1>5, LineRound
<1>7. Handled(s, D, t, l.id, A) BY <1>3, <1>6 DEF Handled
<1>8. LineEnd(ls, k, D) = l.id BY DEF LineEnd, l
<1> QED BY <1>6, <1>7, <1>8 DEF LinesHandled, l

(* All lines of the buffer.                                                *)
LEMMA HandleLoop ==
  ASSUME sent \in Seq(ClientCommand), "within" \notin Cut, NEW b, NEW ls, LinesOf(ls, b, sent),
         NEW D \in Nat, NEW A \in Nat, NEW s, InOrder(s, D), IsNext(ls[1], s, D, A)
  PROVE  LinesHandled(s, D, ls, Len(ls), A, HandleFold(s, ls))
<1> DEFINE n == Len(ls)
           F == [i \in 1 .. n |-> [x \in HandlerState |-> HandleLine(x, ls[i])]]
           OK(U, x) == \A k \in 0 .. n : U = 1 .. k => LinesHandled(s, D, ls, k, A, x) /\ (k = 0 => x = s)
           R == {w \in (SUBSET (1 .. n)) \X HandlerState : OK(w[1], w[2])}
<1>0. /\ n \in Nat \ {0} /\ DOMAIN ls = 1 .. n /\ s \in HandlerState
      /\ \A i \in 1 .. n : OfCommand(ls[i], sent)
  BY DEF LinesOf, InOrder
<1> HIDE DEF n
<1>1. \A U \in SUBSET (1 .. n), x \in HandlerState : <<U, x>> \in R <=> OK(U, x)
  OBVIOUS
<1>2. \A i \in 1 .. n, x \in HandlerState : F[i][x] = HandleLine(x, ls[i]) OBVIOUS
<1> HIDE DEF F, R
<1>3. <<{}, s>> \in R
  <2>1. ASSUME NEW k \in 0 .. n, {} = 1 .. k PROVE LinesHandled(s, D, ls, k, A, s) /\ (k = 0 => s = s)
    <3>1. k = 0 BY <1>0, <2>1
    <3>2. LineEnd(ls, k, D) = D BY <3>1 DEF LineEnd
    <3>3. Handled(s, D, s, D, A) BY DEF Handled
    <3> QED BY <3>1, <3>2, <3>3 DEF LinesHandled
  <2>2. OK({}, s) BY <2>1
  <2> QED BY <1>0, <1>1, <2>2
<1>4. ASSUME NEW U \in SUBSET (1 .. n), NEW x \in HandlerState, U # {}, <<U \ {Max(U)}, x>> \in R
      PROVE  F[Max(U)][x] \in HandlerState /\ <<U, F[Max(U)][x]>> \in R
  <2> DEFINE m == Max(U)
             V == U \ {m}
             y == HandleLine(x, ls[m])
  <2>1. m \in U /\ V \in SUBSET (1 .. n) BY <1>0, <1>4, LastOf
  <2>2. OK(V, x) BY <1>1, <1>4, <2>1
  <2>3. m \in 1 .. n /\ OfCommand(ls[m], sent) BY <1>0, <2>1
  <2>4. y = HandleLine(x, ls[m]) OBVIOUS
  <2>5. F[m][x] = y BY <1>2, <2>3
  <2>6. y \in HandlerState
    <3> HIDE DEF y, m
    <3>1. \E r : r = ReplyKind(CommandIn(ls[m])) OBVIOUS
    <3>2. PICK r : r = ReplyKind(CommandIn(ls[m])) BY <3>1
    <3> QED BY <2>3, <2>4, <3>2, LineParts
  <2>7. ASSUME NEW k \in 0 .. n, U = 1 .. k PROVE LinesHandled(s, D, ls, k, A, y) /\ (k = 0 => y = s)
    <3>1. k \in 1 .. n /\ k \in Nat \ {0} BY <1>0, <1>4, <2>7
    <3>2. m = k /\ V = 1 .. k - 1
      <4>1. Max(1 .. k) = k /\ (1 .. k) \ {k} = 1 .. k - 1 BY <3>1, Segment
      <4> QED BY <2>7, <4>1
    <3>3. k - 1 \in 0 .. n /\ (k - 1 = 0 <=> k = 1) BY <1>0, <3>1
    <3> HIDE DEF y, m, V
    <3>4. LinesHandled(s, D, ls, k - 1, A, x) /\ (k = 1 => x = s)
      <4>1. V = 1 .. k - 1 => LinesHandled(s, D, ls, k - 1, A, x) /\ (k - 1 = 0 => x = s)
        BY <2>2, <3>3
      <4> QED BY <3>2, <3>3, <4>1
    <3>5. y = HandleLine(x, ls[k]) BY <2>4, <3>2
    <3>6. k \in 1 .. Len(ls) BY <3>1 DEF n
    <3>7. LinesHandled(s, D, ls, k, A, y) BY <3>4, <3>5, <3>6, HandleRound
    <3> QED BY <3>1, <3>7
  <2>8. OK(U, y) BY <2>7
  <2> HIDE DEF y, OK
  <2>9. <<U, y>> \in R BY <1>1, <2>6, <2>8
  <2> QED BY <2>5, <2>6, <2>9 DEF m
<1> HIDE DEF OK
<1>5. PICK h : Reaches(F, s, n, HandlerState, R, h)
  <2>1. \A U \in SUBSET (1 .. n), x \in HandlerState :
          U # {} /\ <<U \ {Max(U)}, x>> \in R => F[Max(U)][x] \in HandlerState /\ <<U, F[Max(U)][x]>> \in R
    BY <1>4
  <2> QED BY <1>0, <1>3, <2>1, FoldReaches
<1>6. h \in [SUBSET (1 .. n) -> HandlerState] /\ h[{}] = s
      /\ \A U \in SUBSET (1 .. n) : <<U, h[U]>> \in R /\ (U # {} => h[U] = F[Max(U)][h[U \ {Max(U)}]])
  BY <1>5 DEF Reaches
<1>7. \A U \in SUBSET (1 .. n) : U # {} => h[U] = HandleLine(h[U \ {Max(U)}], ls[Max(U)])
  <2> SUFFICES ASSUME NEW U \in SUBSET (1 .. n), U # {}
               PROVE  h[U] = HandleLine(h[U \ {Max(U)}], ls[Max(U)])
    OBVIOUS
  <2>1. Max(U) \in 1 .. n BY <1>0, LastOf
  <2>2. h[U \ {Max(U)}] \in HandlerState BY <1>6
  <2> QED BY <1>2, <1>6, <2>1, <2>2
<1>8. h = [U \in SUBSET (1 .. n) |-> HandleFrom(ls, s, U, h)]
  <2>1. \A U \in SUBSET (1 .. n) : h[U] = HandleFrom(ls, s, U, h) BY <1>6, <1>7 DEF HandleFrom
  <2> QED BY <1>6, <2>1
<1> DEFINE g == CHOOSE g : g = [U \in SUBSET (1 .. n) |-> HandleFrom(ls, s, U, g)]
<1>9. g = [U \in SUBSET (1 .. n) |-> HandleFrom(ls, s, U, g)] BY <1>8
<1>10. HandleFold(s, ls) = g[1 .. n] BY <1>0, HandleFoldIs
<1> HIDE DEF g
<1>11. \A U \in SUBSET (1 .. n) : g[U] = HandleFrom(ls, s, U, g) BY <1>9
<1>12. g[1 .. n] = h[1 .. n]
  <2>1. g[{}] = h[{}] BY <1>6, <1>11 DEF HandleFrom
  <2>2. \A U \in SUBSET (1 .. n) : U # {} /\ g[U \ {Max(U)}] = h[U \ {Max(U)}] => g[U] = h[U]
    BY <1>7, <1>11 DEF HandleFrom
  <2> QED BY <1>0, <2>1, <2>2, SameFold
<1>13. LinesHandled(s, D, ls, n, A, h[1 .. n])
  <2>1. 1 .. n \in SUBSET (1 .. n) OBVIOUS
  <2>2. <<1 .. n, h[1 .. n]>> \in R /\ h[1 .. n] \in HandlerState BY <1>6, <2>1
  <2>3. OK(1 .. n, h[1 .. n]) BY <1>1, <2>1, <2>2
  <2>4. n \in 0 .. n BY <1>0
  <2> QED BY <2>3, <2>4 DEF OK
<1> QED BY <1>10, <1>12, <1>13 DEF n

(* What the elements of a concatenation are.                               *)
LEMMA ConcatIs ==
  ASSUME NEW S, NEW s \in Seq(S), NEW t \in Seq(S), NEW P, P = s \o t, NEW m, m = Len(s)
  PROVE  /\ P \in Seq(S) /\ Len(P) = m + Len(t) /\ m \in Nat /\ Len(t) \in Nat
         /\ \A i \in 1 .. m : P[i] = s[i]
         /\ \A i \in 1 .. Len(t) : P[m + i] = t[i]
<1>1. /\ P \in Seq(S) /\ Len(P) = m + Len(t) /\ m \in Nat /\ Len(t) \in Nat
      /\ \A i \in 1 .. m + Len(t) : P[i] = IF i <= m THEN s[i] ELSE t[i - m]
  BY ConcatProperties
<1>2. \A i \in 1 .. m : i \in 1 .. m + Len(t) /\ i <= m BY <1>1
<1>3. \A i \in 1 .. Len(t) : m + i \in 1 .. m + Len(t) /\ ~(m + i <= m) /\ (m + i) - m = i BY <1>1
<1> QED BY <1>1, <1>2, <1>3

(* One more command has been sent.                                         *)
OneMoreSent(cs, ds) ==
  /\ ds \in Seq(ClientCommand) /\ Len(ds) = Len(cs) + 1
  /\ \A l : OfCommand(l, cs) => OfCommand(l, ds)

(* The parts of one command, the next to be sent.                          *)
LEMMA PartsAre ==
  ASSUME NEW cs \in Seq(ClientCommand), NEW c \in ClientCommand, NEW cut \in Cut \cup {"none"},
         cut = "arg" => c.arg # NoArg, NEW ds, ds = Append(cs, c), NEW q, q = Parts(Len(ds), cut)
  PROVE  /\ WellCut(q, ds) /\ q # <<>> /\ q[1].part # "tail" /\ q[1].id = Len(cs) + 1
         /\ OneMoreSent(cs, ds)
<1> DEFINE n == Len(ds)
<1>1. /\ ds \in Seq(ClientCommand) /\ Len(cs) \in Nat /\ n = Len(cs) + 1 /\ n \in 1 .. n
      /\ ds[n] = c /\ \A i \in 1 .. Len(cs) : ds[i] = cs[i]
  BY AppendProperties
<1> HIDE DEF n
<1>2. ASSUME NEW l, OfCommand(l, cs) PROVE OfCommand(l, ds)
  <2>1. l \in Part /\ l.id \in 1 .. Len(cs) BY <1>2 DEF OfCommand
  <2>2. l.id \in 1 .. n /\ ds[l.id] = cs[l.id] BY <1>1, <2>1
  <2> QED BY <1>2, <2>2 DEF OfCommand, n
<1>6. OneMoreSent(cs, ds) BY <1>1, <1>2 DEF OneMoreSent, n
<1>3. ASSUME NEW p \in {"head", "tail", "whole"}, p # "whole" => cut # "none",
             NEW x, x = [id |-> n, part |-> p, cut |-> cut]
      PROVE  x \in Part /\ OfCommand(x, ds) /\ x.id = n /\ x.part = p /\ x.cut = cut
  <2>1. x \in Part /\ x.id = n /\ x.part = p /\ x.cut = cut BY <1>1, <1>3 DEF Part
  <2> QED BY <1>1, <1>3, <2>1 DEF OfCommand, n
<1>4. CASE cut = "none"
  <2> DEFINE x == [id |-> n, part |-> "whole", cut |-> cut]
  <2>1. x \in Part /\ OfCommand(x, ds) /\ x.id = n /\ x.part = "whole" BY <1>3
  <2>2. q = <<x>> BY <1>4 DEF Parts, n
  <2> HIDE DEF x
  <2>3. q \in Seq(Part) /\ Len(q) = 1 /\ q[1] = x /\ q # <<>> BY <2>1, <2>2
  <2>4. WellCut(q, ds) BY <2>1, <2>3 DEF WellCut, CutTo, n
  <2> QED BY <1>1, <1>6, <2>1, <2>3, <2>4
<1>5. CASE cut # "none"
  <2> DEFINE x == [id |-> n, part |-> "head", cut |-> cut]
             y == [id |-> n, part |-> "tail", cut |-> cut]
  <2>1. x \in Part /\ OfCommand(x, ds) /\ x.id = n /\ x.part = "head" /\ x.cut = cut BY <1>3, <1>5
  <2>2. y \in Part /\ OfCommand(y, ds) /\ y.id = n /\ y.part = "tail" /\ y.cut = cut BY <1>3, <1>5
  <2>3. q = <<x, y>> BY <1>5 DEF Parts, n
  <2> HIDE DEF x, y
  <2>4. q \in Seq(Part) /\ Len(q) = 2 /\ q[1] = x /\ q[2] = y /\ q # <<>> BY <2>1, <2>2, <2>3
  <2>5. WellCut(q, ds)
    <3>1. \A i \in 1 .. Len(q) : OfCommand(q[i], ds)
      <4>1. \A i \in 1 .. Len(q) : i = 1 \/ i = 2 BY <2>4
      <4> QED BY <2>1, <2>2, <2>4, <4>1
    <3>2. \A i \in 1 .. Len(q) : q[i].part = "head" => i + 1 \in 1 .. Len(q) /\ RestOf(q[i + 1], q[i])
      <4> SUFFICES ASSUME NEW i \in 1 .. Len(q), q[i].part = "head"
                   PROVE  i + 1 \in 1 .. Len(q) /\ RestOf(q[i + 1], q[i])
        OBVIOUS
      <4>1. i = 1 \/ i = 2 BY <2>4
      <4>2. i # 2 BY <2>2, <2>4
      <4>3. i = 1 /\ i + 1 = 2 /\ i + 1 \in 1 .. Len(q) BY <2>4, <4>1, <4>2
      <4> QED BY <2>1, <2>2, <2>4, <4>3 DEF RestOf
    <3>3. \A i \in 1 .. Len(q) - 1 : Follows(q[i + 1], q[i])
      <4>1. \A i \in 1 .. Len(q) - 1 : i = 1 /\ i + 1 = 2 BY <2>4
      <4> QED BY <2>1, <2>2, <2>4, <4>1 DEF Follows
    <3>4. q[Len(q)].id = Len(ds) BY <2>2, <2>4 DEF n
    <3> QED BY <2>4, <3>1, <3>2, <3>3, <3>4 DEF WellCut, CutTo
  <2> QED BY <1>1, <1>6, <2>1, <2>4, <2>5
<1> QED BY <1>4, <1>5

(* Another command behind those on their way: the same is done.            *)
OneMoreToCome(P, cs, Q, ds) ==
  /\ WellCut(Q, ds) /\ Q # <<>> /\ DoneUpTo(Q, ds) = DoneUpTo(P, cs)
  /\ Q[1].part = "tail" => P # <<>> /\ P[1] = Q[1]

(* The parts of the next command come behind those on their way.           *)
LEMMA CutAppended ==
  ASSUME NEW cs \in Seq(ClientCommand), NEW P, WellCut(P, cs), NEW ds, OneMoreSent(cs, ds),
         NEW q, WellCut(q, ds), q # <<>>, q[1].part # "tail", q[1].id = Len(cs) + 1,
         NEW Q, Q = P \o q
  PROVE  OneMoreToCome(P, cs, Q, ds)
<1> DEFINE m == Len(P)
           k == Len(q)
<1>d. Len(ds) = Len(cs) + 1 /\ \A l : OfCommand(l, cs) => OfCommand(l, ds) BY DEF OneMoreSent
<1>1. /\ P \in Seq(Part) /\ q \in Seq(Part)
      /\ \A i \in 1 .. m : OfCommand(P[i], cs)
      /\ \A i \in 1 .. k : OfCommand(q[i], ds)
      /\ \A i \in 1 .. m : P[i].part = "head" => i + 1 \in 1 .. m /\ RestOf(P[i + 1], P[i])
      /\ \A i \in 1 .. k : q[i].part = "head" => i + 1 \in 1 .. k /\ RestOf(q[i + 1], q[i])
      /\ \A i \in 1 .. m - 1 : Follows(P[i + 1], P[i])
      /\ \A i \in 1 .. k - 1 : Follows(q[i + 1], q[i])
      /\ m # 0 => P[m].id = Len(cs)
      /\ k # 0 => q[k].id = Len(ds)
  BY DEF WellCut, CutTo
<1>2. /\ Q \in Seq(Part) /\ Len(Q) = m + k /\ m \in Nat /\ k \in Nat \ {0}
      /\ \A i \in 1 .. m : Q[i] = P[i]
      /\ \A i \in 1 .. k : Q[m + i] = q[i]
  <2>1. k \in Nat \ {0} BY <1>1, EmptySeq
  <2>2. m = Len(P) OBVIOUS
  <2> HIDE DEF m
  <2> QED BY <1>1, <2>1, <2>2, ConcatIs
<1>3. (P = <<>> <=> m = 0) /\ Q # <<>>
  <2>1. Len(Q) # 0 BY <1>2
  <2>2. P = <<>> => m = 0 OBVIOUS
  <2>3. P # <<>> => m \in Nat \ {0} BY <1>1, EmptySeq
  <2>4. Q # <<>> BY <2>1
  <2> QED BY <2>2, <2>3, <2>4
<1> HIDE DEF m, k
<1>a. m \in Nat /\ k \in Nat \ {0} BY <1>2
<1>b. \A i \in 1 .. m : Q[i] = P[i] BY <1>2
<1>c. \A i \in 1 .. k : Q[m + i] = q[i] BY <1>2
<1>4. \A i \in 1 .. m + k : i \in 1 .. m \/ \E j \in 1 .. k : i = m + j
  <2> SUFFICES ASSUME NEW i \in 1 .. m + k, i \notin 1 .. m PROVE \E j \in 1 .. k : i = m + j OBVIOUS
  <2>1. i - m \in 1 .. k /\ i = m + (i - m) BY <1>a
  <2> QED BY <2>1
<1>5. ASSUME NEW i \in 1 .. m + k PROVE OfCommand(Q[i], ds)
  <2>1. CASE i \in 1 .. m BY <1>1, <1>b, <1>d, <2>1
  <2>2. ASSUME NEW j \in 1 .. k, i = m + j PROVE OfCommand(Q[i], ds) BY <1>1, <1>c, <2>2
  <2> QED BY <1>4, <2>1, <2>2
<1>6. ASSUME NEW i \in 1 .. m + k, Q[i].part = "head"
      PROVE  i + 1 \in 1 .. m + k /\ RestOf(Q[i + 1], Q[i])
  <2>1. CASE i \in 1 .. m
    <3>1. i + 1 \in 1 .. m /\ RestOf(P[i + 1], P[i]) BY <1>1, <1>b, <1>6, <2>1
    <3>2. i + 1 \in 1 .. m + k BY <1>a, <3>1
    <3> QED BY <1>b, <2>1, <3>1, <3>2
  <2>2. ASSUME NEW j \in 1 .. k, i = m + j
        PROVE  i + 1 \in 1 .. m + k /\ RestOf(Q[i + 1], Q[i])
    <3>1. Q[i] = q[j] BY <1>c, <2>2
    <3>2. j + 1 \in 1 .. k /\ RestOf(q[j + 1], q[j]) BY <1>1, <1>6, <3>1
    <3>3. i + 1 = m + (j + 1) /\ i + 1 \in 1 .. m + k
      <4>1. j + 1 \in 1 .. k BY <3>2
      <4> QED BY <1>a, <2>2, <4>1
    <3>4. Q[i + 1] = q[j + 1] BY <1>c, <3>2, <3>3
    <3> QED BY <3>1, <3>2, <3>3, <3>4
  <2> QED BY <1>4, <2>1, <2>2
<1>7. ASSUME NEW i \in 1 .. (m + k) - 1 PROVE Follows(Q[i + 1], Q[i])
  <2>1. i \in 1 .. m + k BY <1>a
  <2>2. CASE i \in 1 .. m - 1
    <3>1. i \in 1 .. m /\ i + 1 \in 1 .. m BY <1>a, <2>2
    <3>2. Follows(P[i + 1], P[i]) BY <1>1, <2>2
    <3>3. Q[i] = P[i] /\ Q[i + 1] = P[i + 1] BY <1>b, <3>1
    <3> QED BY <3>2, <3>3
  <2>3. CASE i = m
    <3>1. i \in 1 .. m /\ m # 0 BY <1>a, <2>3
    <3>2. Q[i].id = Len(cs) BY <1>1, <1>b, <1>3, <2>3, <3>1
    <3>3. 1 \in 1 .. k BY <1>a
    <3>4. Q[i + 1] = q[1] BY <1>c, <2>3, <3>3
    <3> QED BY <3>2, <3>4 DEF Follows
  <2>4. ASSUME NEW j \in 1 .. k, i = m + j PROVE Follows(Q[i + 1], Q[i])
    <3>1. j \in 1 .. k - 1 /\ j + 1 \in 1 .. k /\ i + 1 = m + (j + 1) BY <1>a, <2>4
    <3>2. Q[i] = q[j] BY <1>c, <2>4
    <3>3. Q[i + 1] = q[j + 1] BY <1>c, <3>1
    <3>4. Follows(q[j + 1], q[j]) BY <1>1, <3>1
    <3> QED BY <3>2, <3>3, <3>4
  <2>5. i \in 1 .. m => i \in 1 .. m - 1 \/ i = m BY <1>a
  <2> QED BY <1>4, <2>1, <2>2, <2>3, <2>4, <2>5
<1>8. Q[m + k].id = Len(ds)
  <2>1. k \in 1 .. k BY <1>a
  <2>2. q[k].id = Len(ds) BY <1>1, <1>a
  <2>3. Q[m + k] = q[k] BY <1>c, <2>1
  <2> QED BY <2>2, <2>3
<1>9. WellCut(Q, ds)
  <2> DEFINE n == m + k
  <2>1. CutTo(Q, n, ds)
    <3>1. \A i \in 1 .. n : OfCommand(Q[i], ds) BY <1>5
    <3>2. \A i \in 1 .. n : Q[i].part = "head" => i + 1 \in 1 .. n /\ RestOf(Q[i + 1], Q[i]) BY <1>6
    <3>3. \A i \in 1 .. n - 1 : Follows(Q[i + 1], Q[i]) BY <1>7
    <3>4. Q[n].id = Len(ds) BY <1>8
    <3> HIDE DEF n
    <3> QED BY <3>1, <3>2, <3>3, <3>4 DEF CutTo
  <2> HIDE DEF n
  <2>2. Len(Q) = n BY <1>2 DEF n
  <2> QED BY <1>2, <2>1, <2>2 DEF WellCut
<1>10. CASE P = <<>>
  <2>1. Q[1] = q[1]
    <3>1. m = 0 /\ 1 \in 1 .. k BY <1>2, <1>3, <1>10
    <3>2. Q[m + 1] = q[1] BY <1>2, <3>1
    <3> QED BY <3>1, <3>2
  <2>2. DoneUpTo(Q, ds) = q[1].id - 1 BY <1>3, <2>1 DEF DoneUpTo
  <2>3. DoneUpTo(P, cs) = Len(cs) /\ Len(cs) \in Nat BY <1>10 DEF DoneUpTo
  <2> QED BY <1>3, <1>9, <2>1, <2>2, <2>3 DEF OneMoreToCome
<1>11. CASE P # <<>>
  <2>1. Q[1] = P[1]
    <3>1. 1 \in 1 .. m BY <1>2, <1>3, <1>11
    <3> QED BY <1>2, <3>1
  <2>2. DoneUpTo(Q, ds) = DoneUpTo(P, cs) BY <1>3, <1>11, <2>1 DEF DoneUpTo
  <2> QED BY <1>3, <1>9, <1>11, <2>1, <2>2 DEF OneMoreToCome
<1> QED BY <1>10, <1>11

(* What is left when the buffer has been handled.                          *)
Splits(P, b, w, cs) ==
  /\ BufferCut(b, cs) /\ WellCut(w, cs) /\ DoneUpTo(w, cs) = b[Len(b)].id
  /\ b[1] = P[1] /\ P # <<>>
  /\ w # <<>> /\ w[1].part = "tail" => b[Len(b)].part = "head" /\ b[Len(b)].cut = w[1].cut

LEMMA CutRest ==
  ASSUME NEW cs \in Seq(ClientCommand), NEW b \in Seq(Part), b # <<>>, NEW w \in Seq(Part),
         NEW P, P = b \o w, WellCut(P, cs)
  PROVE  Splits(P, b, w, cs)
<1> DEFINE m == Len(b)
           k == Len(w)
<1>1. m \in Nat \ {0} BY EmptySeq
<1>2. /\ Len(P) = m + k /\ k \in Nat
      /\ \A i \in 1 .. m : P[i] = b[i]
      /\ \A i \in 1 .. k : P[m + i] = w[i]
  <2>1. m = Len(b) OBVIOUS
  <2> HIDE DEF m
  <2> QED BY <2>1, ConcatIs
<1>3. (w = <<>> <=> k = 0) /\ P # <<>>
  <2>1. Len(P) # 0 BY <1>1, <1>2
  <2>2. w = <<>> => k = 0 OBVIOUS
  <2>3. w # <<>> => k \in Nat \ {0} BY EmptySeq
  <2>4. P # <<>> BY <2>1
  <2> QED BY <2>2, <2>3, <2>4
<1>4. /\ \A i \in 1 .. m + k : OfCommand(P[i], cs)
      /\ \A i \in 1 .. m + k : P[i].part = "head" => i + 1 \in 1 .. m + k /\ RestOf(P[i + 1], P[i])
      /\ \A i \in 1 .. (m + k) - 1 : Follows(P[i + 1], P[i])
      /\ P[m + k].id = Len(cs)
  <2> DEFINE n == m + k
  <2>1. n = Len(P) /\ n # 0 BY <1>1, <1>2
  <2> HIDE DEF n
  <2>2. CutTo(P, n, cs) BY <2>1 DEF WellCut
  <2>3. /\ \A i \in 1 .. n : OfCommand(P[i], cs)
        /\ \A i \in 1 .. n : P[i].part = "head" => i + 1 \in 1 .. n /\ RestOf(P[i + 1], P[i])
        /\ \A i \in 1 .. n - 1 : Follows(P[i + 1], P[i])
        /\ P[n].id = Len(cs)
    BY <2>1, <2>2 DEF CutTo
  <2> QED BY <2>3 DEF n
<1> HIDE DEF m, k
<1>a. m \in Nat \ {0} /\ k \in Nat BY <1>1, <1>2
<1>b. \A i \in 1 .. m : P[i] = b[i] BY <1>2
<1>c. \A i \in 1 .. k : P[m + i] = w[i] BY <1>2
<1>5. BufferCut(b, cs)
  <2>1. \A i \in 1 .. m : i \in 1 .. m + k BY <1>a
  <2>2. \A i \in 1 .. m : OfCommand(b[i], cs) BY <1>b, <1>4, <2>1
  <2>3. ASSUME NEW i \in 1 .. m - 1 PROVE Follows(b[i + 1], b[i])
    <3>1. i \in 1 .. m /\ i + 1 \in 1 .. m /\ i \in 1 .. (m + k) - 1 BY <1>a
    <3>2. Follows(P[i + 1], P[i]) BY <1>4, <3>1
    <3>3. P[i] = b[i] /\ P[i + 1] = b[i + 1] BY <1>b, <3>1
    <3> QED BY <3>2, <3>3
  <2> QED BY <1>a, <2>2, <2>3 DEF BufferCut, m
<1>6. \A j \in 1 .. k : m + j \in 1 .. m + k BY <1>a
<1>7. \A j \in 1 .. k : OfCommand(w[j], cs) BY <1>c, <1>4, <1>6
<1>8. ASSUME NEW j \in 1 .. k, w[j].part = "head" PROVE j + 1 \in 1 .. k /\ RestOf(w[j + 1], w[j])
  <2>1. P[m + j] = w[j] /\ m + j \in 1 .. m + k BY <1>c, <1>6
  <2>2. (m + j) + 1 \in 1 .. m + k /\ RestOf(P[(m + j) + 1], P[m + j]) BY <1>4, <1>8, <2>1
  <2>3. j + 1 \in 1 .. k /\ (m + j) + 1 = m + (j + 1) BY <1>a, <2>2
  <2>4. P[(m + j) + 1] = w[j + 1] BY <1>c, <2>3
  <2> QED BY <2>1, <2>2, <2>3, <2>4
<1>9. ASSUME NEW j \in 1 .. k - 1 PROVE Follows(w[j + 1], w[j])
  <2>1. j \in 1 .. k /\ j + 1 \in 1 .. k /\ m + j \in 1 .. (m + k) - 1 /\ (m + j) + 1 = m + (j + 1)
    BY <1>a
  <2>2. P[m + j] = w[j] /\ P[(m + j) + 1] = w[j + 1] BY <1>c, <2>1
  <2>3. Follows(P[(m + j) + 1], P[m + j]) BY <1>4, <2>1
  <2> QED BY <2>2, <2>3
<1>10. w # <<>> => w[k].id = Len(cs)
  <2>1. ASSUME w # <<>> PROVE P[m + k] = w[k]
    <3>1. k \in 1 .. k BY <1>2, <1>3, <2>1
    <3> QED BY <1>c, <3>1
  <2> QED BY <1>4, <2>1
<1>11. WellCut(w, cs) BY <1>3, <1>7, <1>8, <1>9, <1>10 DEF WellCut, CutTo, k
<1>12. b[1] = P[1]
  <2>1. 1 \in 1 .. m BY <1>1
  <2> QED BY <1>2, <2>1
<1>13. P[m] = b[m] /\ b[m] \in Part /\ b[m].id \in Nat
  <2>1. m \in 1 .. m BY <1>1
  <2>2. b[m] \in Part BY <2>1 DEF m
  <2> QED BY <1>2, <2>1, <2>2 DEF Part
<1>14. CASE w = <<>>
  <2>1. k = 0 /\ m + k = m BY <1>1, <1>3, <1>14
  <2>2. b[m].id = Len(cs) BY <1>4, <1>13, <2>1
  <2>3. DoneUpTo(w, cs) = b[m].id BY <1>14, <2>2 DEF DoneUpTo
  <2> QED BY <1>3, <1>5, <1>11, <1>12, <1>14, <2>3 DEF m, Splits
<1>15. CASE w # <<>>
  <2>1. m \in 1 .. (m + k) - 1 /\ m \in 1 .. m + k /\ 1 \in 1 .. k BY <1>a, <1>3, <1>15
  <2>2. P[m + 1] = w[1] BY <1>c, <2>1
  <2>3. Follows(w[1], b[m])
    <3>1. Follows(P[m + 1], P[m]) BY <1>4, <2>1
    <3> QED BY <1>13, <2>2, <3>1
  <2>4. w[1].part = "tail" => b[m].part = "head" /\ w[1].cut = b[m].cut
    <3>1. w[1].part = "tail" => b[m].part = "head" BY <2>3 DEF Follows
    <3>2. P[m].part = "head" => RestOf(P[m + 1], P[m]) BY <1>4, <2>1
    <3> QED BY <1>13, <2>2, <3>1, <3>2 DEF RestOf
  <2>5. DoneUpTo(w, cs) = b[m].id BY <1>13, <1>15, <2>3 DEF DoneUpTo, Follows
  <2> QED BY <1>3, <1>5, <1>11, <1>12, <2>3, <2>4, <2>5 DEF m, Splits
<1> QED BY <1>14, <1>15

(* What is still to be handled, and what the handlers work on.             *)
ToHandle == recvBuffer \o wire
Handler == [level |-> level, diversion |-> diversion, executed |-> executed, replies |-> replies]

(* The rest of a command comes next only where its first part was refused, *)
(* or was all of the command but its end.                                  *)
RestRefused(P, rs) == P # <<>> /\ P[1].part = "tail" /\ P[1].cut # "end" => Erred(rs)

(* The replies the client has taken.                                       *)
Taken(as, ex) ==
  \A i \in 1 .. Len(as) : /\ as[i].of = i
                          /\ as[i].kind \in {"OK", "number"} => Contains(ex, as[i].of)

(* While the client goes on, each command it waits for has one reply to    *)
(* come, until one is refused.                                             *)
Conversing ==
  quit = "no" => /\ Paired(replies, Len(answered), DoneUpTo(ToHandle, sent))
                 /\ RestRefused(ToHandle, replies)
                 /\ Len(waiting) + Len(answered) = Len(sent) /\ Len(waiting) <= Window

InterfaceInv ==
  /\ sent \in Seq(ClientCommand) /\ recvBuffer \in Seq(Part) /\ wire \in Seq(Part)
  /\ waiting \in Seq(Nat) /\ answered \in Seq(Reply) /\ quit \in {"yes", "no"}
  /\ WellCut(ToHandle, sent)
  /\ InOrder(Handler, DoneUpTo(ToHandle, sent))
  /\ Taken(answered, executed)
  /\ Conversing

(* How far the commands are done.                                          *)
LEMMA DoneIs ==
  ASSUME NEW cs \in Seq(ClientCommand), NEW P, WellCut(P, cs), NEW D, D = DoneUpTo(P, cs)
  PROVE  D \in Nat /\ D <= Len(cs)
<1>1. Len(cs) \in Nat OBVIOUS
<1>2. CASE P = <<>> BY <1>1, <1>2 DEF DoneUpTo
<1>3. CASE P # <<>>
  <2>1. P \in Seq(Part) /\ CutTo(P, Len(P), cs) BY DEF WellCut
  <2>2. Len(P) \in Nat \ {0} BY <1>3, <2>1, EmptySeq
  <2>3. 1 \in 1 .. Len(P) BY <2>2
  <2>4. P[1].id \in 1 .. Len(cs) BY <2>1, <2>3 DEF CutTo, OfCommand
  <2>5. D = P[1].id \/ D = P[1].id - 1 BY <1>3 DEF DoneUpTo
  <2> QED BY <1>1, <2>4, <2>5
<1> QED BY <1>2, <1>3

(* The invariant holds at the start.                                       *)
LEMMA InterfaceInitially == ASSUME InterfaceInit PROVE InterfaceInv
<1>1. /\ sent \in Seq(ClientCommand) /\ recvBuffer \in Seq(Part) /\ wire \in Seq(Part)
      /\ waiting \in Seq(Nat) /\ answered \in Seq(Reply) /\ quit \in {"yes", "no"}
  BY EmptySeq DEF InterfaceInit
<1>2. ToHandle = <<>> BY <1>1, ConcatEmptySeq DEF InterfaceInit, ToHandle
<1>3. Len(sent) = 0 /\ Len(answered) = 0 /\ Len(waiting) = 0 /\ Len(replies) = 0 BY DEF InterfaceInit
<1>4. WellCut(ToHandle, sent) BY <1>2 DEF WellCut, CutTo
<1>5. DoneUpTo(ToHandle, sent) = 0 BY <1>2, <1>3 DEF DoneUpTo
<1>6. Handler \in HandlerState
  <2>1. level \in Int /\ executed \in Seq(Nat) /\ replies \in Seq(Reply) BY EmptySeq DEF InterfaceInit
  <2>2. diversion \in AnyShares BY DEF InterfaceInit, AnyShares
  <2> QED BY <2>1, <2>2 DEF Handler, HandlerState
<1>7. DOMAIN Handler.executed = {} /\ DOMAIN Handler.replies = {} BY DEF InterfaceInit, Handler
<1>8. InOrder(Handler, 0) BY <1>6, <1>7 DEF InOrder
<1>9. Paired(replies, Len(answered), 0) BY <1>3, <1>7 DEF Paired, Handler
<1>10. Conversing
  <2>1. RestRefused(ToHandle, replies) BY <1>2 DEF RestRefused
  <2>2. 0 <= Window BY InterfaceAssumption
  <2> QED BY <1>3, <1>5, <1>9, <2>1, <2>2 DEF Conversing
<1>11. Taken(answered, executed) BY <1>3 DEF Taken
<1> QED BY <1>1, <1>4, <1>5, <1>8, <1>10, <1>11 DEF InterfaceInv

(* The simulation handles its buffer.                                      *)
LEMMA HandleStep ==
  ASSUME InterfaceInv, "within" \notin Cut, HandleMessage
  PROVE  InterfaceInv'
<1> DEFINE ls == Lines(recvBuffer)
           h == HandleFold(Handler, ls)
           D == DoneUpTo(ToHandle, sent)
           E == DoneUpTo(wire, sent)
           A == IF quit = "no" THEN Len(answered) ELSE D + 1
<1>1. /\ sent \in Seq(ClientCommand) /\ recvBuffer \in Seq(Part) /\ wire \in Seq(Part)
      /\ waiting \in Seq(Nat) /\ answered \in Seq(Reply) /\ quit \in {"yes", "no"}
      /\ WellCut(ToHandle, sent) /\ InOrder(Handler, D) /\ Taken(answered, executed)
      /\ recvBuffer # <<>>
  BY DEF InterfaceInv, HandleMessage
<1>2. /\ level' = h.level /\ diversion' = h.diversion /\ executed' = h.executed /\ replies' = h.replies
      /\ recvBuffer' = <<>> /\ wire' = wire /\ sent' = sent /\ waiting' = waiting /\ answered' = answered
      /\ quit' = quit
  BY DEF HandleMessage, HandleFold, Handler, clientVars
<1>3. ToHandle' = wire
  <2>1. ToHandle' = recvBuffer' \o wire' BY DEF ToHandle
  <2>2. ToHandle' = <<>> \o wire BY ONLY <2>1, <1>2
  <2>3. wire \in Seq(Part) BY <1>1
  <2>4. <<>> \o wire = wire BY ONLY <2>3, ConcatEmptySeq
  <2> QED BY ONLY <2>2, <2>4
<1>4. D \in Nat BY <1>1, DoneIs
<1>5. Handler.replies = replies /\ Handler.executed = executed BY DEF Handler
<1>6. ls = Lines(recvBuffer) /\ h = HandleFold(Handler, ls) OBVIOUS
<1> HIDE DEF ls, h
<1>7. /\ BufferCut(recvBuffer, sent) /\ WellCut(wire, sent) /\ E = recvBuffer[Len(recvBuffer)].id
      /\ recvBuffer[1] = ToHandle[1] /\ ToHandle # <<>>
      /\ wire # <<>> /\ wire[1].part = "tail" =>
           recvBuffer[Len(recvBuffer)].part = "head" /\ recvBuffer[Len(recvBuffer)].cut = wire[1].cut
  <2>1. sent \in Seq(ClientCommand) /\ recvBuffer \in Seq(Part) /\ wire \in Seq(Part) /\ recvBuffer # <<>>
        /\ WellCut(ToHandle, sent)
    BY ONLY <1>1
  <2>2. ToHandle = recvBuffer \o wire BY DEF ToHandle
  <2>3. E = DoneUpTo(wire, sent) OBVIOUS
  <2> HIDE DEF D, E, A
  <2>4. Splits(ToHandle, recvBuffer, wire, sent) BY ONLY <2>1, <2>2, CutRest, Zenon
  <2> QED BY ONLY <2>3, <2>4 DEF Splits
<1>8. LinesOf(ls, recvBuffer, sent) BY <1>6, <1>7, LinesAre
<1>9. /\ Len(ls) \in Nat \ {0}
      /\ ls[1].id = ToHandle[1].id /\ (ls[1].part = "tail" <=> ToHandle[1].part = "tail")
      /\ ls[1].cut = ToHandle[1].cut
      /\ ls[Len(ls)].id = E
      /\ recvBuffer[Len(recvBuffer)].part = "head" =>
           ls[Len(ls)].part = "head" /\ ls[Len(ls)].cut = recvBuffer[Len(recvBuffer)].cut
  BY <1>7, <1>8 DEF LinesOf
<1>10. A \in Nat BY <1>1, <1>4
<1>11. IsNext(ls[1], Handler, D, A)
  <2>1. ToHandle[1].id \in Nat
    <3>1. ToHandle \in Seq(Part) BY <1>1 DEF WellCut
    <3>2. Len(ToHandle) \in Nat \ {0} BY <1>7, <3>1, EmptySeq
    <3>3. ToHandle[1] \in Part BY <3>1, <3>2
    <3> QED BY <3>3 DEF Part
  <2>2. IF ToHandle[1].part = "tail" THEN D = ToHandle[1].id ELSE D = ToHandle[1].id - 1
    BY <1>7 DEF DoneUpTo
  <2>3. ASSUME ls[1].part = "tail", ls[1].cut # "end", Paired(replies, A, D) PROVE Erred(replies)
    <3>1. CASE quit = "no"
      <4>1. RestRefused(ToHandle, replies) BY <3>1 DEF InterfaceInv, Conversing
      <4> QED BY <1>7, <1>9, <2>3, <4>1 DEF RestRefused
    <3>2. CASE quit # "no"
      <4>1. A = D + 1 BY <3>2
      <4>2. replies \in Seq(Reply) BY <1>1, <1>5 DEF InOrder, HandlerState
      <4>3. Len(replies) \in Nat BY <4>2
      <4>4. A + Len(replies) # D BY <1>4, <4>1, <4>3
      <4> QED BY <2>3, <4>4 DEF Paired
    <3> QED BY <3>1, <3>2
  <2> HIDE DEF A, D
  <2> QED BY <1>4, <1>5, <1>9, <2>1, <2>2, <2>3 DEF IsNext
<1> HIDE DEF A, D, E
<1>12. LinesHandled(Handler, D, ls, Len(ls), A, h)
  BY <1>1, <1>4, <1>6, <1>8, <1>10, <1>11, HandleLoop
<1>13. LineEnd(ls, Len(ls), D) = E BY <1>9 DEF LineEnd
<1>14. Handled(Handler, D, h, E, A) /\ FirstPartErred(ls[Len(ls)], h)
  BY <1>9, <1>12, <1>13 DEF LinesHandled
<1>15. /\ InOrder(h, E) /\ h \in HandlerState
       /\ \A y : Contains(executed, y) => Contains(executed', y)
       /\ Paired(replies, A, D) => Paired(replies', A, E)
  BY <1>2, <1>5, <1>14 DEF Handled, InOrder
<1>16. Handler' = h
  <2>1. h = [level |-> h.level, diversion |-> h.diversion, executed |-> h.executed, replies |-> h.replies]
    BY <1>15 DEF HandlerState
  <2> QED BY <1>2, <2>1 DEF Handler
<1>17. DoneUpTo(ToHandle, sent)' = E BY <1>2, <1>3 DEF E
<1>18. InOrder(Handler, DoneUpTo(ToHandle, sent))' BY <1>15, <1>16, <1>17 DEF InOrder
<1>19. Taken(answered', executed') BY <1>1, <1>2, <1>15 DEF Taken
<1>20. RestRefused(wire, replies')
  BY <1>2, <1>7, <1>9, <1>14 DEF RestRefused, FirstPartErred
<1>21. Conversing'
  <2> SUFFICES ASSUME quit = "no"
               PROVE  /\ Paired(replies', Len(answered), E) /\ RestRefused(wire, replies')
                      /\ Len(waiting) + Len(answered) = Len(sent) /\ Len(waiting) <= Window
    BY <1>2, <1>3, <1>17 DEF Conversing
  <2>1. /\ Paired(replies, Len(answered), D)
        /\ Len(waiting) + Len(answered) = Len(sent) /\ Len(waiting) <= Window
    BY DEF InterfaceInv, Conversing, D
  <2>2. A = Len(answered) BY DEF A
  <2> QED BY <1>15, <1>20, <2>1, <2>2
<1>22. recvBuffer' \in Seq(Part) BY <1>2
<1>23. WellCut(ToHandle, sent)' BY <1>2, <1>3, <1>7
<1> QED BY <1>1, <1>2, <1>18, <1>19, <1>21, <1>22, <1>23 DEF InterfaceInv

(* The scheduler receives.                                                 *)
LEMMA ReceiveStep ==
  ASSUME InterfaceInv, NEW n \in Nat \ {0}, ReceiveParts(n)
  PROVE  InterfaceInv'
<1>1. /\ wire \in Seq(Part) /\ recvBuffer = <<>> /\ n <= Len(wire)
      /\ recvBuffer' = SubSeq(wire, 1, n) /\ wire' = SubSeq(wire, n + 1, Len(wire))
      /\ sent' = sent /\ waiting' = waiting /\ answered' = answered /\ quit' = quit
      /\ level' = level /\ diversion' = diversion /\ executed' = executed /\ replies' = replies
  BY DEF InterfaceInv, ReceiveParts, clientVars
<1> DEFINE m == Len(wire)
<1>2. m \in Nat /\ \A i \in 1 .. m : wire[i] \in Part BY <1>1
<1>3. recvBuffer' \in Seq(Part)
  <2>1. \A i \in 1 .. n : wire[i] \in Part BY <1>1, <1>2
  <2> QED BY <1>1, <2>1, SubSeqProperties
<1>4. wire' \in Seq(Part)
  <2>1. \A i \in n + 1 .. m : wire[i] \in Part BY <1>2
  <2> HIDE DEF m
  <2>2. n + 1 \in Int /\ m \in Int BY <1>2
  <2>3. SubSeq(wire, n + 1, m) \in Seq(Part) BY <2>1, <2>2, SubSeqProperties
  <2> QED BY <1>1, <2>3 DEF m
<1>5. ToHandle = wire BY <1>1, ConcatEmptySeq DEF ToHandle
<1>6. ToHandle' = wire
  <2>1. SubSeq(wire, 1, n) \o SubSeq(wire, n + 1, Len(wire)) = SubSeq(wire, 1, Len(wire))
    <3>1. 1 \in 1 .. Len(wire) + 1 /\ n \in 1 - 1 .. Len(wire) /\ Len(wire) \in n .. Len(wire)
      BY <1>1, <1>2
    <3> QED BY <1>1, <3>1, ConcatAdjacentSubSeq
  <2>2. SubSeq(wire, 1, Len(wire)) = wire BY <1>1, SubSeqFull
  <2> QED BY <1>1, <2>1, <2>2 DEF ToHandle
<1>7. Handler' = Handler BY <1>1 DEF Handler
<1>8. DoneUpTo(ToHandle, sent)' = DoneUpTo(ToHandle, sent) BY <1>1, <1>5, <1>6
<1>9. InOrder(Handler, DoneUpTo(ToHandle, sent))' BY <1>7, <1>8 DEF InterfaceInv, InOrder
<1>10. WellCut(ToHandle, sent)' BY <1>1, <1>5, <1>6 DEF InterfaceInv
<1>11. Conversing' BY <1>1, <1>5, <1>6, <1>8 DEF InterfaceInv, Conversing
<1> QED BY <1>1, <1>3, <1>4, <1>9, <1>10, <1>11 DEF InterfaceInv

(* The client sends a command.                                             *)
LEMMA SendStep ==
  ASSUME InterfaceInv, NEW c \in ClientCommand, NEW cut \in Cut \cup {"none"}, SendCommand(c, cut)
  PROVE  InterfaceInv'
<1> DEFINE q == Parts(Len(sent'), cut)
<1>1. /\ sent \in Seq(ClientCommand) /\ recvBuffer \in Seq(Part) /\ wire \in Seq(Part)
      /\ waiting \in Seq(Nat) /\ answered \in Seq(Reply)
      /\ WellCut(ToHandle, sent) /\ InOrder(Handler, DoneUpTo(ToHandle, sent))
      /\ Taken(answered, executed) /\ Conversing
  BY DEF InterfaceInv
<1>2. /\ quit = "no" /\ Len(waiting) < Window /\ (cut = "arg" => c.arg # NoArg)
      /\ sent' = Append(sent, c) /\ wire' = wire \o q /\ waiting' = Append(waiting, Len(sent'))
      /\ recvBuffer' = recvBuffer /\ level' = level /\ diversion' = diversion
      /\ executed' = executed /\ replies' = replies /\ answered' = answered /\ quit' = quit
  BY DEF SendCommand, serverVars
<1>3. q = Parts(Len(sent'), cut) OBVIOUS
<1> HIDE DEF q
<1>a. (cut = "arg" => c.arg # NoArg) /\ sent' = Append(sent, c) BY <1>2
<1>4. /\ WellCut(q, sent') /\ q # <<>> /\ q[1].part # "tail" /\ q[1].id = Len(sent) + 1
      /\ OneMoreSent(sent, sent')
  <2>1. sent \in Seq(ClientCommand) BY <1>1
  <2>2. PICK ds : ds = sent' OBVIOUS
  <2>3. ds = Append(sent, c) /\ q = Parts(Len(ds), cut) BY <1>3, <1>a, <2>2
  <2>4. /\ WellCut(q, ds) /\ q # <<>> /\ q[1].part # "tail" /\ q[1].id = Len(sent) + 1
        /\ OneMoreSent(sent, ds)
    BY ONLY <1>a, <2>1, <2>3, PartsAre, c \in ClientCommand, cut \in Cut \cup {"none"}
  <2> QED BY <2>2, <2>4
<1>b. sent' \in Seq(ClientCommand) /\ Len(sent') = Len(sent) + 1 /\ Len(sent) \in Nat
  BY <1>1, <1>4 DEF OneMoreSent
<1>5. q \in Seq(Part) BY <1>4 DEF WellCut
<1>6. ToHandle' = ToHandle \o q
  <2>1. (recvBuffer \o wire) \o q = recvBuffer \o (wire \o q) BY <1>1, <1>5, ConcatAssociative
  <2> QED BY <1>2, <2>1 DEF ToHandle
<1>7. /\ WellCut(ToHandle', sent') /\ ToHandle' # <<>>
      /\ DoneUpTo(ToHandle', sent') = DoneUpTo(ToHandle, sent)
      /\ ToHandle'[1].part = "tail" => ToHandle # <<>> /\ ToHandle[1] = ToHandle'[1]
  <2>1. sent \in Seq(ClientCommand) /\ WellCut(ToHandle, sent) BY <1>1
  <2>2. PICK ds, Q : ds = sent' /\ Q = ToHandle' OBVIOUS
  <2>3. /\ WellCut(q, ds) /\ q # <<>> /\ q[1].part # "tail" /\ q[1].id = Len(sent) + 1
        /\ OneMoreSent(sent, ds)
    BY <1>4, <2>2
  <2>4. Q = ToHandle \o q BY <1>6, <2>2
  <2>5. OneMoreToCome(ToHandle, sent, Q, ds) BY ONLY <2>1, <2>3, <2>4, CutAppended
  <2> QED BY <2>2, <2>5 DEF OneMoreToCome
<1>8. wire' \in Seq(Part) BY <1>1, <1>2, <1>5, ConcatProperties
<1>9. waiting' \in Seq(Nat) /\ Len(waiting') = Len(waiting) + 1 /\ Len(waiting) \in Nat
  BY <1>1, <1>2, <1>b, AppendProperties
<1>10. Handler' = Handler BY <1>2 DEF Handler
<1>11. Conversing'
  <2>1. RestRefused(ToHandle, replies)' BY <1>1, <1>2, <1>7 DEF RestRefused, Conversing
  <2>2. Paired(replies', Len(answered'), DoneUpTo(ToHandle', sent')) BY <1>1, <1>2, <1>7 DEF Conversing
  <2>3. Len(waiting) + Len(answered) = Len(sent) BY <1>1, <1>2 DEF Conversing
  <2>4. Len(answered) \in Nat BY <1>1
  <2>5. Len(waiting') + Len(answered') = Len(sent') BY <1>2, <1>b, <1>9, <2>3, <2>4
  <2>6. Len(waiting') <= Window BY <1>2, <1>9, InterfaceAssumption
  <2> QED BY <2>1, <2>2, <2>5, <2>6 DEF Conversing
<1>12. InOrder(Handler, DoneUpTo(ToHandle, sent))' BY <1>1, <1>7, <1>10 DEF InOrder
<1> QED BY <1>1, <1>2, <1>b, <1>7, <1>8, <1>9, <1>11, <1>12 DEF InterfaceInv

(* The client takes a reply.                                               *)
LEMMA ReadReplyStep ==
  ASSUME InterfaceInv, NEW n \in Nat \ {0}, ReadReply(n)
  PROVE  InterfaceInv'
<1> DEFINE A == Len(answered)
           L == Len(replies)
           D == DoneUpTo(ToHandle, sent)
           r == replies[1]
<1>1. /\ sent \in Seq(ClientCommand) /\ recvBuffer \in Seq(Part) /\ wire \in Seq(Part)
      /\ waiting \in Seq(Nat) /\ answered \in Seq(Reply)
      /\ WellCut(ToHandle, sent) /\ InOrder(Handler, D)
      /\ Taken(answered, executed) /\ Conversing
  BY DEF InterfaceInv
<1>2. /\ quit = "no" /\ waiting # <<>> /\ n <= L /\ (Window > 1 => n = 1)
      /\ answered' = Append(answered, Head(replies))
      /\ quit' = (IF Head(replies).kind = "error" THEN "yes" ELSE "no")
      /\ replies' = SubSeq(replies, n + 1, L) /\ waiting' = Tail(waiting)
      /\ wire' = wire /\ recvBuffer' = recvBuffer /\ level' = level /\ diversion' = diversion
      /\ executed' = executed /\ sent' = sent
  BY DEF ReadReply, serverVars
<1>3. /\ Handler.replies = replies /\ Handler.executed = executed
      /\ replies \in Seq(Reply) /\ executed \in Seq(Nat) /\ level \in Int /\ diversion \in AnyShares
  BY <1>1 DEF Handler, InOrder, HandlerState
<1>4. L \in Nat /\ DOMAIN replies = 1 .. L /\ A \in Nat /\ \A i \in 1 .. L : replies[i] \in Reply
  BY <1>1, <1>3
<1>5. Head(replies) = r /\ r \in Reply /\ 1 \in 1 .. L
  <2>1. 1 \in 1 .. L BY <1>2, <1>4
  <2>2. Head(replies) = r BY <1>3 DEF r
  <2> QED BY <1>4, <2>1, <2>2
<1>6. D \in Nat /\ D <= Len(sent) BY <1>1, DoneIs
<1>7. /\ Paired(replies, A, D) /\ RestRefused(ToHandle, replies)
      /\ Len(waiting) + A = Len(sent) /\ Len(waiting) <= Window
  BY <1>1, <1>2 DEF Conversing
<1> HIDE DEF A, L, D, r
<1>8. r.of = A + 1
  <2>1. \A k \in 1 .. 1 - 1 : replies[k].kind # "error" OBVIOUS
  <2> QED BY <1>4, <1>5, <1>7, <2>1 DEF Paired, r
<1>9. \A i \in 1 .. L : /\ replies[i].of <= D
                        /\ replies[i].kind \in {"OK", "number"} => Contains(executed, replies[i].of)
  BY <1>1, <1>3, <1>4 DEF InOrder
<1>10. /\ answered' \in Seq(Reply) /\ Len(answered') = A + 1 /\ answered'[A + 1] = r
       /\ \A i \in 1 .. A : answered'[i] = answered[i]
  BY <1>1, <1>2, <1>5, AppendProperties DEF A
<1>11. Taken(answered', executed')
  <2> SUFFICES ASSUME NEW i \in 1 .. A + 1
               PROVE  /\ answered'[i].of = i
                      /\ answered'[i].kind \in {"OK", "number"} => Contains(executed, answered'[i].of)
    BY <1>2, <1>10 DEF Taken
  <2>1. CASE i \in 1 .. A BY <1>1, <1>10, <2>1 DEF Taken, A
  <2>2. CASE i = A + 1
    <3>1. answered'[i] = r BY <1>10, <2>2
    <3>2. r.kind \in {"OK", "number"} => Contains(executed, r.of) BY <1>5, <1>9 DEF r
    <3> QED BY <1>8, <2>2, <3>1, <3>2
  <2>3. i \in 1 .. A \/ i = A + 1 BY <1>4
  <2> QED BY <2>1, <2>2, <2>3
<1>12. /\ replies' \in Seq(Reply) /\ Len(replies') = L - n /\ L - n \in Nat /\ DOMAIN replies' = 1 .. L - n
       /\ \A i \in 1 .. L - n : replies'[i] = replies[n + i] /\ n + i \in 1 .. L
  <2>1. \A i \in n + 1 .. L : replies[i] \in Reply BY <1>4
  <2>2. n + 1 \in Int /\ L \in Int BY <1>4
  <2>3. /\ SubSeq(replies, n + 1, L) \in Seq(Reply)
        /\ Len(SubSeq(replies, n + 1, L)) = IF n + 1 <= L THEN L - (n + 1) + 1 ELSE 0
        /\ \A i \in 1 .. L - (n + 1) + 1 : SubSeq(replies, n + 1, L)[i] = replies[(n + 1) + i - 1]
    BY <2>1, <2>2, SubSeqProperties
  <2>4. (IF n + 1 <= L THEN L - (n + 1) + 1 ELSE 0) = L - n /\ L - (n + 1) + 1 = L - n /\ L - n \in Nat
    BY <1>2, <1>4
  <2>5. \A i \in 1 .. L - n : (n + 1) + i - 1 = n + i /\ n + i \in 1 .. L BY <1>4
  <2>6. replies' \in Seq(Reply) /\ Len(replies') = L - n BY <1>2, <2>3, <2>4
  <2>7. \A i \in 1 .. L - n : replies'[i] = replies[n + i] BY <1>2, <2>3, <2>4, <2>5
  <2> QED BY <2>4, <2>5, <2>6, <2>7
<1>13. ToHandle' = ToHandle /\ DoneUpTo(ToHandle, sent)' = D BY <1>2 DEF ToHandle, D
<1>14. InOrder(Handler', D)
  <2> DEFINE t == Handler'
  <2>1. t = [level |-> level, diversion |-> diversion, executed |-> executed, replies |-> replies']
    BY <1>2 DEF Handler
  <2> HIDE DEF t
  <2>2. t \in HandlerState BY <1>3, <1>12, <2>1 DEF HandlerState
  <2>3. t.executed = executed /\ t.replies = replies' BY <2>1
  <2>4. \A i \in DOMAIN replies' :
          /\ replies'[i].of <= D
          /\ replies'[i].kind \in {"OK", "number"} => Contains(executed, replies'[i].of)
    BY <1>9, <1>12
  <2>5. /\ \A i, k \in DOMAIN executed : i < k => executed[i] < executed[k]
        /\ \A i \in DOMAIN executed : executed[i] <= D
    BY <1>1, <1>3 DEF InOrder
  <2>6. InOrder(t, D) BY <2>2, <2>3, <2>4, <2>5 DEF InOrder
  <2> QED BY <2>6 DEF t
<1>15. waiting' \in Seq(Nat) /\ Len(waiting') = Len(waiting) - 1 /\ Len(waiting) \in Nat
  BY <1>1, <1>2, HeadTailProperties
<1>16. ASSUME quit' = "no"
       PROVE  /\ Paired(replies', A + 1, D) /\ RestRefused(ToHandle, replies')
              /\ Len(waiting') + (A + 1) = Len(sent) /\ Len(waiting') <= Window
  <2>1. r.kind # "error" BY <1>2, <1>5, <1>16
  <2>2. n = 1
    <3> SUFFICES ASSUME n # 1 PROVE FALSE OBVIOUS
    <3>1. 2 \in 1 .. L /\ Window = 1 BY <1>2, <1>4, InterfaceAssumption
    <3>2. replies[2].of = A + 2
      <4>1. \A k \in 1 .. 2 - 1 : k = 1 OBVIOUS
      <4>2. \A k \in 1 .. 2 - 1 : replies[k].kind # "error" BY <2>1, <4>1 DEF r
      <4> QED BY <1>4, <1>7, <3>1, <4>2 DEF Paired
    <3>3. A + 2 <= D BY <1>9, <3>1, <3>2
    <3>4. Len(sent) \in Nat /\ Len(sent) <= A + 1 BY <1>1, <1>4, <1>7, <1>15, <3>1
    <3> QED BY <1>4, <1>6, <3>3, <3>4
  <2>3. Erred(replies) => Erred(replies')
    <3> SUFFICES ASSUME NEW i \in 1 .. L, replies[i].kind = "error" PROVE Erred(replies')
      BY <1>4 DEF Erred
    <3>1. i # 1 BY <2>1 DEF r
    <3>2. i - 1 \in 1 .. L - n /\ n + (i - 1) = i BY <1>4, <2>2, <3>1
    <3>3. replies'[i - 1] = replies[i] BY <1>12, <3>2
    <3> QED BY <1>12, <3>2, <3>3 DEF Erred
  <2>4. ASSUME NEW i \in 1 .. L - n, \A k \in 1 .. i - 1 : replies'[k].kind # "error"
        PROVE  replies'[i].of = (A + 1) + i
    <3>1. ASSUME NEW k \in 1 .. (n + i) - 1 PROVE replies[k].kind # "error"
      <4>1. CASE k = 1 BY <2>1, <4>1 DEF r
      <4>2. CASE k # 1
        <5>1. k - 1 \in 1 .. i - 1 /\ k - 1 \in 1 .. L - n /\ n + (k - 1) = k BY <1>4, <2>2, <4>2
        <5>2. replies'[k - 1] = replies[k] BY <1>12, <5>1
        <5> QED BY <2>4, <5>1, <5>2
      <4> QED BY <4>1, <4>2
    <3>2. n + i \in DOMAIN replies /\ replies'[i] = replies[n + i] BY <1>4, <1>12
    <3>3. replies[n + i].of = A + (n + i) BY <1>7, <3>1, <3>2 DEF Paired
    <3>4. A + (n + i) = (A + 1) + i BY <1>4, <2>2
    <3> QED BY <3>2, <3>3, <3>4
  <2>5. ~Erred(replies') => (A + 1) + Len(replies') = D
    <3>1. ~Erred(replies) => A + L = D BY <1>7 DEF Paired, L
    <3>2. (A + 1) + Len(replies') = A + L BY <1>4, <1>12, <2>2
    <3> QED BY <2>3, <3>1, <3>2
  <2>6. Paired(replies', A + 1, D) BY <1>12, <2>4, <2>5 DEF Paired
  <2>7. RestRefused(ToHandle, replies') BY <1>7, <2>3 DEF RestRefused
  <2>8. Len(waiting') + (A + 1) = Len(sent) /\ Len(waiting') <= Window
    BY <1>4, <1>7, <1>15, InterfaceAssumption
  <2> QED BY <2>6, <2>7, <2>8
<1>17. Conversing' BY <1>2, <1>10, <1>13, <1>16 DEF Conversing
<1>18. quit' \in {"yes", "no"} BY <1>2
<1>19. WellCut(ToHandle, sent)' BY <1>1, <1>2, <1>13
<1>20. InOrder(Handler, DoneUpTo(ToHandle, sent))' BY <1>13, <1>14 DEF InOrder
<1> QED BY <1>1, <1>2, <1>10, <1>11, <1>15, <1>17, <1>18, <1>19, <1>20 DEF InterfaceInv

(* The invariant is inductive.                                             *)
LEMMA InterfaceStep ==
  ASSUME InterfaceInv, "within" \notin Cut, InterfaceNext \/ UNCHANGED interfaceVars
  PROVE  InterfaceInv'
<1>1. ASSUME NEW c \in ClientCommand, NEW cut \in Cut \cup {"none"}, SendCommand(c, cut)
      PROVE  InterfaceInv'
  BY <1>1, SendStep
<1>2. \A n \in 1 .. 2 * MaxCommands : n \in Nat \ {0} BY InterfaceAssumption
<1>3. ASSUME NEW n \in 1 .. 2 * MaxCommands, ReceiveParts(n) PROVE InterfaceInv'
  BY <1>2, <1>3, ReceiveStep
<1>4. CASE HandleMessage BY <1>4, HandleStep
<1>5. ASSUME NEW n \in 1 .. 2 * MaxCommands, ReadReply(n) PROVE InterfaceInv'
  BY <1>2, <1>5, ReadReplyStep
<1>6. CASE UNCHANGED interfaceVars
  <2>1. /\ sent' = sent /\ recvBuffer' = recvBuffer /\ wire' = wire /\ waiting' = waiting
        /\ answered' = answered /\ quit' = quit /\ level' = level /\ diversion' = diversion
        /\ executed' = executed /\ replies' = replies
    BY <1>6 DEF interfaceVars, serverVars, clientVars
  <2>2. ToHandle' = ToHandle /\ Handler' = Handler BY <2>1 DEF ToHandle, Handler
  <2>3. Conversing' BY <2>1, <2>2 DEF InterfaceInv, Conversing
  <2>4. InOrder(Handler, DoneUpTo(ToHandle, sent))' BY <2>1, <2>2 DEF InterfaceInv, InOrder
  <2> QED BY <2>1, <2>2, <2>3, <2>4 DEF InterfaceInv
<1> QED BY <1>1, <1>3, <1>4, <1>5, <1>6 DEF InterfaceNext

(* The invariant is as strong as the property.                             *)
LEMMA InterfaceInvExecutes == ASSUME InterfaceInv PROVE ExecutesOnceInOrder
<1>1. answered \in Seq(Reply) /\ Taken(answered, executed) /\ InOrder(Handler, DoneUpTo(ToHandle, sent))
  BY DEF InterfaceInv
<1>2. DOMAIN answered = 1 .. Len(answered) BY <1>1
<1>3. \A i, k \in DOMAIN executed : i < k => executed[i] < executed[k] BY <1>1 DEF InOrder, Handler
<1> QED BY <1>1, <1>2, <1>3 DEF Taken, ExecutesOnceInOrder

(* Whatever commands the client sends, however many before it reads a      *)
(* reply, and however the connection cuts them and joins them in a buffer: *)
(* a reply belongs to the command it is taken for, commands are executed   *)
(* once and in order, and no reply says so of one that was not.  A command *)
(* cut within its argument is another command to the parser: that no       *)
(* segment ends there is assumed (AdaptInterface::handleMessage).          *)
THEOREM InterfaceTheorem ==
  ASSUME "within" \notin Cut
  PROVE  PartsSpec => []ExecutesOnceInOrder
<1>1. PartsInit => InterfaceInv
  BY InterfaceInitially DEF PartsInit
<1>2. InterfaceInv /\ [PartsNext]_partsVars => InterfaceInv'
  <2>1. [PartsNext]_partsVars => InterfaceNext \/ UNCHANGED interfaceVars
    BY DEF PartsNext, partsVars, OnlyPart
  <2> QED BY <2>1, InterfaceStep
<1>3. InterfaceInv => ExecutesOnceInOrder
  BY InterfaceInvExecutes
<1> QED
  BY <1>1, <1>2, <1>3, PTL DEF PartsSpec

(***************************************************************************)
(* Arrivals and their prediction.  The times of a trace are sums of its    *)
(* gaps (IsTrace), a source only goes on with its trace (Prolongs), and the    *)
(* invariant says from which entry on the period was predicted (BeganAt).  *)
(***************************************************************************)

(* The arrival times are the sums of the inter-arrival times.              *)
IsTrace(gaps, times) ==
  /\ gaps \in Seq(Nat) /\ times \in Seq(Nat) /\ Len(times) = Len(gaps)
  /\ \A i \in 1 .. Len(gaps) : times[i] = SumFunctionOnSet(gaps, 1 .. i)
  /\ gaps # <<>> => times[1] = gaps[1]
  /\ \A i \in 2 .. Len(gaps) : times[i] = times[i - 1] + gaps[i]
  /\ \A i, j \in 1 .. Len(gaps) : i <= j => times[i] <= times[j]

(* A source is one with a trace, and has more of it than another.          *)
IsSource(src) == IsTrace(src.gaps, src.times)
Prolongs(gaps, times, more, moreTimes) ==
  /\ Len(gaps) <= Len(more)
  /\ \A i \in 1 .. Len(gaps) : more[i] = gaps[i] /\ moreTimes[i] = times[i]
KeepsOn(src, after) == Prolongs(src.gaps, src.times, after.gaps, after.times)

(* The sums of the first entries.                                          *)
LEMMA SumOfFirst ==
  ASSUME NEW gaps \in Seq(Nat)
  PROVE  /\ \A i \in 1 .. Len(gaps) : SumFunctionOnSet(gaps, 1 .. i) \in Int
         /\ gaps # <<>> => SumFunctionOnSet(gaps, 1 .. 1) = gaps[1]
         /\ \A i \in 2 .. Len(gaps) :
              SumFunctionOnSet(gaps, 1 .. i) = SumFunctionOnSet(gaps, 1 .. (i - 1)) + gaps[i]
<1> DEFINE n == Len(gaps)
<1>0. n \in Nat /\ \A i \in 1 .. n : gaps[i] \in Nat OBVIOUS
<1> HIDE DEF n
<1>1. IsFiniteSet(1 .. n) /\ \A x \in 1 .. n : gaps[x] \in Int BY <1>0, FS_Interval
<1>2. \A U \in SUBSET (1 .. n) : SumFunctionOnSet(gaps, U) \in Int BY <1>1, SumType
<1>3. \A i \in 1 .. n : SumFunctionOnSet(gaps, 1 .. i) \in Int
  <2> TAKE i \in 1 .. n
  <2>1. 1 .. i \in SUBSET (1 .. n) BY <1>0
  <2> QED BY <1>2, <2>1
<1>4. ASSUME NEW i \in 1 .. n
      PROVE  SumFunctionOnSet(gaps, 1 .. i) = SumFunctionOnSet(gaps, 1 .. (i - 1)) + gaps[i]
  <2> DEFINE S == 1 .. (i - 1)
  <2>1. i \in Nat \ {0} /\ i <= n BY <1>0
  <2>2. S \cup {i} = 1 .. i /\ i \notin S BY <2>1
  <2>3. IsFiniteSet(S) BY <2>1, FS_Interval
  <2>4. \A y \in S \cup {i} : gaps[y] \in Int
    <3>1. S \cup {i} \subseteq 1 .. n BY <1>0, <2>1, <2>2
    <3> HIDE DEF S
    <3> QED BY <1>1, <3>1
  <2> HIDE DEF S
  <2>5. SumFunctionOnSet(gaps, S \cup {i}) = SumFunctionOnSet(gaps, S) + gaps[i]
    BY ONLY <2>2, <2>3, <2>4, SumAdd
  <2> QED BY <2>2, <2>5 DEF S
<1>5. gaps # <<>> => SumFunctionOnSet(gaps, 1 .. 1) = gaps[1]
  <2> SUFFICES ASSUME gaps # <<>> PROVE SumFunctionOnSet(gaps, 1 .. 1) = gaps[1]
    OBVIOUS
  <2>1. 1 \in 1 .. n BY <1>0, EmptySeq DEF n
  <2>2. SumFunctionOnSet(gaps, 1 .. 1) = SumFunctionOnSet(gaps, 1 .. (1 - 1)) + gaps[1] BY <1>4, <2>1
  <2>3. 1 .. (1 - 1) = {} OBVIOUS
  <2>4. IsFiniteSet({}) BY FS_EmptySet
  <2>5. SumFunctionOnSet(gaps, {}) = 0 BY <2>4, SumEquation
  <2>6. gaps[1] \in Nat BY <1>0, <2>1
  <2> QED BY <2>2, <2>3, <2>5, <2>6
<1>6. \A i \in 2 .. n : SumFunctionOnSet(gaps, 1 .. i) = SumFunctionOnSet(gaps, 1 .. (i - 1)) + gaps[i]
  <2> TAKE i \in 2 .. n
  <2>1. i \in 1 .. n BY <1>0
  <2> QED BY <1>4, <2>1
<1> QED BY <1>3, <1>5, <1>6 DEF n

(* What FoldSeq and MapThenSumSet are here.                                *)
LEMMA FoldSeqSum ==
  ASSUME NEW s
  PROVE  FoldSeq(+, 0, s) = SumFunctionOnSet(s, DOMAIN s)
  BY Zenon DEF FoldSeq, FoldFunction, SumFunctionOnSet

LEMMA MapThenSum ==
  ASSUME NEW gaps, NEW S
  PROVE  MapThenSumSet(LAMBDA i : gaps[i], S) = SumFunctionOnSet(gaps, S)
  BY Zenon DEF MapThenSumSet, SumFunctionOnSet, FoldFunctionOnSet

(* What Generated makes is a source.                                       *)
LEMMA GeneratedIs ==
  ASSUME NEW gaps \in Seq(Nat), NEW p
  PROVE  /\ Generated(gaps, p).gaps = gaps /\ Generated(gaps, p).inPeriod = p
         /\ IsTrace(gaps, Generated(gaps, p).times)
<1> DEFINE n == Len(gaps)
           t == [i \in DOMAIN gaps |-> FoldSeq(+, 0, SubSeq(gaps, 1, i))]
<1>0. n \in Nat /\ DOMAIN gaps = 1 .. n /\ (\A i \in 1 .. n : gaps[i] \in Nat) /\ (gaps # <<>> <=> n # 0)
  BY EmptySeq
<1>a. Generated(gaps, p).gaps = gaps /\ Generated(gaps, p).inPeriod = p /\ Generated(gaps, p).times = t
  BY DEF Generated
<1>1. \A i \in 1 .. n : t[i] = SumFunctionOnSet(gaps, 1 .. i)
  <2> TAKE i \in 1 .. n
  <2> DEFINE s == SubSeq(gaps, 1, i)
  <2>1. i \in Nat /\ 1 <= i /\ i <= n BY <1>0
  <2>2. DOMAIN s = 1 .. i /\ \A k \in 1 .. i : s[k] = gaps[k] BY <1>0, <2>1
  <2>3. t[i] = FoldSeq(+, 0, s) BY <1>0
  <2>4. IsFiniteSet(1 .. i) BY <2>1, FS_Interval
  <2> HIDE DEF s, t
  <2>5. FoldSeq(+, 0, s) = SumFunctionOnSet(s, DOMAIN s) BY FoldSeqSum
  <2>6. SumFunctionOnSet(s, 1 .. i) = SumFunctionOnSet(gaps, 1 .. i) BY ONLY <2>2, <2>4, SumAgree
  <2> QED BY <2>2, <2>3, <2>5, <2>6
<1>2. /\ \A i \in 1 .. n : SumFunctionOnSet(gaps, 1 .. i) \in Int
      /\ gaps # <<>> => SumFunctionOnSet(gaps, 1 .. 1) = gaps[1]
      /\ \A i \in 2 .. n : SumFunctionOnSet(gaps, 1 .. i) = SumFunctionOnSet(gaps, 1 .. (i - 1)) + gaps[i]
  BY SumOfFirst
<1>d. DOMAIN t = 1 .. n /\ t = [i \in 1 .. n |-> t[i]] BY <1>0
<1> HIDE DEF n, t
<1>3. gaps # <<>> => t[1] = gaps[1]
  <2> HAVE gaps # <<>>
  <2>1. 1 \in 1 .. n BY <1>0
  <2> QED BY <1>1, <1>2, <2>1
<1>4. \A i \in 2 .. n : t[i] = t[i - 1] + gaps[i]
  <2> TAKE i \in 2 .. n
  <2>1. i \in 1 .. n /\ i - 1 \in 1 .. n BY <1>0
  <2> QED BY <1>1, <1>2, <2>1
<1>5. \A i \in Nat : i \in 1 .. n => /\ t[i] \in Nat
                                    /\ \A j \in 1 .. i : t[j] <= t[i]
  <2> DEFINE G == {i \in Nat : i \in 1 .. n => t[i] \in Nat /\ \A j \in 1 .. i : t[j] <= t[i]}
  <2>1. 0 \in G OBVIOUS
  <2>2. ASSUME NEW i \in Nat, i \in G PROVE i + 1 \in G
    <3> SUFFICES ASSUME i + 1 \in 1 .. n
                 PROVE  t[i + 1] \in Nat /\ \A j \in 1 .. (i + 1) : t[j] <= t[i + 1]
      OBVIOUS
    <3>1. CASE i = 0
      <4>1. gaps # <<>> /\ 1 \in 1 .. n BY <1>0, <3>1
      <4>2. t[1] \in Nat BY <1>0, <1>3, <4>1
      <4>3. \A j \in 1 .. 1 : j = 1 OBVIOUS
      <4> QED BY <3>1, <4>2, <4>3
    <3>2. CASE i # 0
      <4>1. i + 1 \in 2 .. n /\ i \in 1 .. n /\ (i + 1) - 1 = i /\ n \in Nat BY <1>0, <3>2
      <4>2. t[i] \in Nat /\ \A j \in 1 .. i : t[j] <= t[i] BY <2>2, <4>1
      <4>3. t[i + 1] = t[i] + gaps[i + 1] BY <1>4, <4>1
      <4>4. gaps[i + 1] \in Nat BY <1>0
      <4>5. t[i + 1] \in Nat /\ t[i] <= t[i + 1] BY <4>2, <4>3, <4>4
      <4>6. ASSUME NEW j \in 1 .. (i + 1) PROVE t[j] <= t[i + 1]
        <5>1. CASE j = i + 1 BY <4>5, <5>1
        <5>2. CASE j # i + 1
          <6>1. j \in 1 .. i /\ j \in 1 .. n BY <4>1, <5>2
          <6>2. t[j] <= t[i] BY <4>2, <6>1
          <6>3. t[j] \in Int
            <7>1. \A k \in 1 .. n : t[k] \in Int BY <1>1, <1>2
            <7> QED BY <6>1, <7>1
          <6> QED BY <4>2, <4>5, <6>2, <6>3
        <5> QED BY <5>1, <5>2
      <4> QED BY <4>5, <4>6
    <3> QED BY <3>1, <3>2
  <2> HIDE DEF G
  <2>3. \A i \in Nat : i \in G BY <2>1, <2>2, NatInd
  <2> QED BY <2>3 DEF G
<1>6. \A i \in 1 .. n : t[i] \in Nat BY <1>0, <1>5
<1>7. t \in Seq(Nat) /\ Len(t) = n
  <2>1. t \in [1 .. n -> Nat] BY <1>d, <1>6
  <2> QED BY <1>0, <2>1
<1>8. \A i, j \in 1 .. n : i <= j => t[i] <= t[j]
  <2> TAKE i, j \in 1 .. n
  <2> HAVE i <= j
  <2>1. j \in Nat /\ i \in 1 .. j BY <1>0
  <2> QED BY <1>5, <2>1
<1>9. IsTrace(gaps, t) BY <1>1, <1>3, <1>4, <1>7, <1>8 DEF IsTrace, n
<1> QED BY <1>a, <1>9

(* Two traces of the same beginning have the same times there.             *)
LEMMA SameBeginning ==
  ASSUME NEW g, NEW t, IsTrace(g, t), NEW h, NEW u, IsTrace(h, u), Len(g) <= Len(h),
         \A i \in 1 .. Len(g) : h[i] = g[i]
  PROVE  Prolongs(g, t, h, u)
<1>1. Len(g) \in Nat /\ Len(h) \in Nat BY DEF IsTrace
<1>2. ASSUME NEW i \in 1 .. Len(g) PROVE u[i] = t[i]
  <2>1. i \in 1 .. Len(h) /\ i \in Nat BY <1>1
  <2>2. IsFiniteSet(1 .. i) BY <2>1, FS_Interval
  <2>3. \A k \in 1 .. i : h[k] = g[k]
    <3>1. \A k \in 1 .. i : k \in 1 .. Len(g) BY <1>1
    <3> QED BY <3>1
  <2>4. SumFunctionOnSet(h, 1 .. i) = SumFunctionOnSet(g, 1 .. i) BY ONLY <2>2, <2>3, SumAgree
  <2> QED BY <2>1, <2>4 DEF IsTrace
<1> QED BY <1>2 DEF Prolongs

(* What goes on, and goes on again.                                        *)
LEMMA ExtendsTwice ==
  ASSUME NEW f, NEW s, Len(f) \in Nat, NEW g, NEW t, Len(g) \in Nat, NEW h, NEW u,
         Prolongs(f, s, g, t), Prolongs(g, t, h, u), Len(h) \in Nat
  PROVE  Prolongs(f, s, h, u)
  BY DEF Prolongs

(* Another entry is drawn: it takes time.                                  *)
DrawnFrom(src, after) ==
  /\ IsSource(after) /\ KeepsOn(src, after) /\ Len(after.gaps) = Len(src.gaps) + 1
  /\ after.inPeriod \in Nat
  /\ after.gaps[Len(after.gaps)] >= 1

(* What is drawn goes on with the trace.                                   *)
LEMMA GenerateArrivalIs ==
  ASSUME NEW src, IsSource(src), src.inPeriod \in Nat, NEW after \in GenerateArrival(src)
  PROVE  DrawnFrom(src, after)
<1>1. PICK x \in Nat \ {0}, p \in Nat : after = Generated(Append(src.gaps, x), p)
  <2>1. CASE src.inPeriod < RatePeriod
    <3>1. PICK i \in RandomInterval : after = Generated(Append(src.gaps, i), src.inPeriod + i)
      BY <2>1 DEF GenerateArrival
    <3>2. i \in Nat \ {0} /\ src.inPeriod + i \in Nat BY ArrivalsAssumption
    <3> QED BY <3>1, <3>2
  <2>2. CASE ~(src.inPeriod < RatePeriod)
    <3>1. PICK quiet \in 0 .. MaxQuietPeriods, i \in RandomInterval :
            after = Generated(Append(src.gaps, quiet * RatePeriod + i), i)
      BY <2>2 DEF GenerateArrival
    <3>2. i \in Nat \ {0} /\ quiet \in Nat /\ RatePeriod \in Nat BY ArrivalsAssumption
    <3>3. quiet * RatePeriod \in Nat BY ONLY <3>2
    <3>4. quiet * RatePeriod + i \in Nat \ {0} BY <3>2, <3>3
    <3> QED BY <3>1, <3>2, <3>4
  <2> QED BY <2>1, <2>2
<1> DEFINE g == src.gaps
           h == Append(g, x)
<1>2. g \in Seq(Nat) /\ Len(g) \in Nat BY DEF IsSource, IsTrace
<1>3. h \in Seq(Nat) /\ Len(h) = Len(g) + 1 /\ h[Len(h)] = x /\ \A i \in 1 .. Len(g) : h[i] = g[i]
  BY <1>2
<1> HIDE DEF h, g
<1>4. after.gaps = h /\ after.inPeriod = p /\ IsTrace(h, after.times) BY <1>1, <1>3, GeneratedIs DEF h, g
<1>5. IsTrace(g, src.times) BY DEF IsSource, g
<1>6. Prolongs(g, src.times, h, after.times) BY <1>2, <1>3, <1>4, <1>5, SameBeginning
<1> QED BY <1>1, <1>3, <1>4, <1>6 DEF DrawnFrom, IsSource, KeepsOn, g

(***************************************************************************)
(* How often entries are drawn before a prediction: a recursion over the   *)
(* subsets of the numbers of the rounds.                                   *)
(***************************************************************************)

DrawRound(windowEnd, sources) ==
  UNION {IF Last(s.times) >= windowEnd THEN {s} ELSE GenerateArrival(s) : s \in sources}
DrawFrom(src, windowEnd, s, g) ==
  IF s = {} THEN {src} ELSE DrawRound(windowEnd, g[s \ {Pick(s)}])
IsDraw(src, windowEnd, S, g) == g = [s \in SUBSET S |-> DrawFrom(src, windowEnd, s, g)]

(* The recursion defines a function, built up layer by layer.              *)
LEMMA DrawExists ==
  ASSUME NEW src, NEW e, NEW S, IsFiniteSet(S)
  PROVE  \E g : IsDraw(src, e, S, g)
<1> DEFINE OfLayer(n, g) == g = [s \in Layer(S, n) |-> DrawFrom(src, e, s, g)]
           G == {n \in Nat : \E g : OfLayer(n, g)}
<1>1. 0 \in G
  <2> DEFINE g == [s \in Layer(S, 0) |-> {src}]
  <2>1. ASSUME NEW s \in Layer(S, 0) PROVE s = {}
    <3>1. s \in SUBSET S /\ Cardinality(s) <= 0 BY DEF Layer
    <3>2. IsFiniteSet(s) BY <3>1, FS_Subset
    <3>3. Cardinality(s) \in Nat BY <3>2, FS_CardinalityType
    <3> QED BY <3>1, <3>2, <3>3, FS_EmptySet
  <2>2. OfLayer(0, g) BY <2>1 DEF DrawFrom
  <2> HIDE DEF g
  <2> QED BY <2>2
<1>2. ASSUME NEW n \in Nat, n \in G PROVE n + 1 \in G
  <2>1. PICK g : OfLayer(n, g) BY <1>2
  <2> DEFINE h == [s \in Layer(S, n + 1) |-> IF s \in Layer(S, n) THEN g[s] ELSE DrawFrom(src, e, s, g)]
  <2>2. ASSUME NEW s \in Layer(S, n + 1) PROVE h[s] = DrawFrom(src, e, s, h)
    <3>1. h[s] = DrawFrom(src, e, s, g)
      <4>1. s \in Layer(S, n) => g[s] = DrawFrom(src, e, s, g) BY <2>1
      <4> QED BY <4>1
    <3>2. CASE s = {} BY <3>1, <3>2 DEF DrawFrom
    <3>3. CASE s # {}
      <4> DEFINE r == s \ {Pick(s)}
      <4>1. s \in SUBSET S /\ Cardinality(s) <= n + 1 BY DEF Layer
      <4>2. r \in SUBSET S /\ Cardinality(r) = Cardinality(s) - 1
            /\ Cardinality(s) \in Nat /\ Cardinality(r) \in Nat
        BY <4>1, <3>3, Smaller
      <4>3. Cardinality(r) <= n /\ Cardinality(r) <= n + 1 BY <4>1, <4>2
      <4>4. r \in Layer(S, n) /\ r \in Layer(S, n + 1) BY <4>2, <4>3 DEF Layer
      <4>5. h[r] = g[r] BY <4>4
      <4> QED BY <3>1, <3>3, <4>5 DEF DrawFrom
    <3> QED BY <3>2, <3>3
  <2>3. OfLayer(n + 1, h)
    <3>1. h = [s \in Layer(S, n + 1) |-> h[s]] OBVIOUS
    <3> HIDE DEF h
    <3> QED BY <2>2, <3>1
  <2> HIDE DEF h
  <2> QED BY <2>3
<1>3. \A n \in Nat : n \in G
  <2> HIDE DEF G
  <2> QED BY <1>1, <1>2, NatInd
<1>4. Cardinality(S) \in G BY <1>3, FS_CardinalityType
<1>5. Layer(S, Cardinality(S)) = SUBSET S
  BY FS_Subset DEF Layer
<1> QED BY <1>4, <1>5 DEF IsDraw

(* What the fold is defined to be.                                         *)
LEMMA GenerateUntilDraws ==
  ASSUME NEW src, NEW e \in Nat, src.inPeriod # NotRandom
  PROVE  \E g : IsDraw(src, e, 1 .. e, g) /\ GenerateUntil(src, e) = g[1 .. e]
<1> DEFINE q == [i \in 1 .. e |-> i]
           g == CHOOSE g : IsDraw(src, e, 1 .. e, g)
<1>1. IsFiniteSet(1 .. e) BY FS_Interval
<1>2. IsDraw(src, e, 1 .. e, g) BY <1>1, DrawExists, Zenon
<1>3. GenerateUntil(src, e) =
        FoldSeq(LAMBDA i, sources : UNION {IF Last(s.times) >= e THEN {s}
                                          ELSE GenerateArrival(s) : s \in sources}, {src}, q)
  BY DEF GenerateUntil
<1>4. DOMAIN q = 1 .. e OBVIOUS
<1> HIDE DEF q
<1>5. FoldSeq(LAMBDA i, sources : UNION {IF Last(s.times) >= e THEN {s}
                                          ELSE GenerateArrival(s) : s \in sources}, {src}, q) =
        (CHOOSE h : h = [s \in SUBSET (DOMAIN q) |-> DrawFrom(src, e, s, h)])[DOMAIN q]
  BY Zenon DEF FoldSeq, FoldFunction, FoldFunctionOnSet, MapThenFoldSet, DrawFrom, DrawRound, Pick
<1>6. GenerateUntil(src, e) = g[1 .. e] BY <1>3, <1>4, <1>5, Zenon DEF IsDraw
<1> QED BY <1>2, <1>6, Zenon

(* A source that was asked to reach a time.                                *)
Reached(src, after, n) ==
  /\ IsSource(after) /\ KeepsOn(src, after) /\ after.inPeriod \in Nat /\ after.gaps # <<>>
  /\ Last(after.times) >= n

(* The last time of a source.                                              *)
LEMMA SourceLast ==
  ASSUME NEW src, IsSource(src), src.gaps # <<>>
  PROVE  /\ Len(src.gaps) \in Nat \ {0} /\ Last(src.times) = src.times[Len(src.gaps)]
         /\ Last(src.times) \in Nat /\ \A i \in 1 .. Len(src.gaps) : src.times[i] \in Nat
<1>1. src.gaps \in Seq(Nat) /\ src.times \in Seq(Nat) /\ Len(src.times) = Len(src.gaps) BY DEF IsSource, IsTrace
<1>2. Len(src.gaps) \in Nat \ {0} BY <1>1, EmptySeq
<1>3. \A i \in 1 .. Len(src.gaps) : src.times[i] \in Nat BY <1>1
<1> QED BY <1>1, <1>2, <1>3 DEF Last

(* One entry more is at least one unit later.                              *)
LEMMA DrawnLater ==
  ASSUME NEW src, IsSource(src), src.gaps # <<>>, NEW after, DrawnFrom(src, after)
  PROVE  /\ after.gaps # <<>> /\ Last(after.times) >= Last(src.times) + 1
         /\ Last(after.times) \in Nat
<1> DEFINE n == Len(src.gaps)
<1>1. n \in Nat \ {0} /\ Last(src.times) = src.times[n] /\ Last(src.times) \in Nat BY SourceLast
<1>2. IsSource(after) /\ Len(after.gaps) = n + 1 /\ after.gaps[n + 1] >= 1 /\ KeepsOn(src, after) BY DEF DrawnFrom
<1>3. after.gaps # <<>> BY <1>1, <1>2 DEF IsSource, IsTrace
<1>4. Last(after.times) = after.times[n + 1] /\ Last(after.times) \in Nat BY <1>2, <1>3, SourceLast
<1>5. n + 1 \in 2 .. n + 1 /\ (n + 1) - 1 = n /\ n \in 1 .. n BY <1>1
<1>6. after.times[n + 1] = after.times[n] + after.gaps[n + 1]
  BY <1>2, <1>5 DEF IsSource, IsTrace
<1>7. after.times[n] = src.times[n] BY <1>2, <1>5 DEF KeepsOn, Prolongs
<1>8. after.gaps[n + 1] \in Nat
  <2>1. after.gaps \in Seq(Nat) BY <1>2 DEF IsSource, IsTrace
  <2> QED BY <1>1, <1>2, <2>1
<1> HIDE DEF n
<1> QED BY <1>1, <1>2, <1>3, <1>4, <1>6, <1>7, <1>8

(* A source is drawn to the end of the period, for each round takes time.  *)
LEMMA GenerateUntilIs ==
  ASSUME NEW src, IsSource(src), src.gaps # <<>>, src.inPeriod \in Nat, NEW e \in Nat,
         NEW after \in GenerateUntil(src, e)
  PROVE  Reached(src, after, e)
<1>0. src.inPeriod # NotRandom BY DEF NotRandom
<1> DEFINE S == 1 .. e
<1>1. PICK g : IsDraw(src, e, S, g) /\ GenerateUntil(src, e) = g[S] BY <1>0, GenerateUntilDraws
<1> DEFINE G == {s \in SUBSET S : \A x \in g[s] : Reached(src, x, Cardinality(s)) \/ Reached(src, x, e)}
<1>a. e \in Nat OBVIOUS
<1>2. IsFiniteSet(S) /\ Cardinality(S) = e BY ONLY <1>a, FS_Interval
<1> HIDE DEF S
<1>3. ASSUME NEW U \in SUBSET S, \A V \in SUBSET U : V # U => V \in G PROVE U \in G
  <2>0. g[U] = DrawFrom(src, e, U, g) BY <1>1 DEF IsDraw
  <2>1. CASE U = {}
    <3>1. g[U] = {src} BY <2>0, <2>1 DEF DrawFrom
    <3>2. KeepsOn(src, src)
      <4>1. Len(src.gaps) \in Nat BY SourceLast
      <4> QED BY <4>1 DEF KeepsOn, Prolongs
    <3>3. Cardinality(U) = 0 BY <2>1, FS_EmptySet
    <3>4. Last(src.times) >= 0 BY SourceLast
    <3> QED BY <3>1, <3>2, <3>3, <3>4 DEF Reached
  <2>2. CASE U # {}
    <3> DEFINE V == U \ {Pick(U)}
               c == Cardinality(V)
    <3>1. V \in SUBSET U /\ V # U BY <2>2, PickIn
    <3>2. V \in G BY <1>3, <3>1
    <3>3. Cardinality(U) = c + 1 /\ c \in Nat
      <4>1. U \in SUBSET S BY <1>3
      <4>2. Cardinality(U) \in Nat /\ c = Cardinality(U) - 1 /\ c \in Nat BY ONLY <1>2, <2>2, <4>1, Smaller
      <4> QED BY ONLY <4>2
    <3>4. g[U] = DrawRound(e, g[V]) BY <2>0, <2>2 DEF DrawFrom
    <3> HIDE DEF V, c
    <3>5. ASSUME NEW x \in g[U] PROVE Reached(src, x, c + 1) \/ Reached(src, x, e)
      <4>1. PICK s \in g[V] : x \in IF Last(s.times) >= e THEN {s} ELSE GenerateArrival(s)
        BY <3>4, <3>5 DEF DrawRound
      <4>2. Reached(src, s, Cardinality(V)) \/ Reached(src, s, e) BY <3>2, <4>1
      <4>3. IsSource(s) /\ KeepsOn(src, s) /\ s.inPeriod \in Nat /\ s.gaps # <<>> BY <4>2 DEF Reached
      <4>4. CASE Last(s.times) >= e BY <4>1, <4>3, <4>4 DEF Reached
      <4>5. CASE ~(Last(s.times) >= e)
        <5>1. DrawnFrom(s, x)
          <6>1. x \in GenerateArrival(s) BY <4>1, <4>5
          <6> QED BY <4>3, <6>1, GenerateArrivalIs
        <5>2. x.gaps # <<>> /\ Last(x.times) >= Last(s.times) + 1 /\ Last(x.times) \in Nat
          BY <4>3, <5>1, DrawnLater
        <5>3. Last(s.times) >= c /\ Last(s.times) \in Nat
          <6>1. Last(s.times) \in Nat BY <4>3, SourceLast
          <6>2. Last(s.times) >= Cardinality(V) BY <4>2, <4>5 DEF Reached
          <6> QED BY <6>1, <6>2 DEF c
        <5>4. Last(x.times) >= c + 1 BY <3>3, <5>2, <5>3
        <5>5. IsSource(x) /\ KeepsOn(s, x) /\ x.inPeriod \in Nat BY <5>1 DEF DrawnFrom
        <5>6. KeepsOn(src, x)
          <6>1. Len(src.gaps) \in Nat /\ Len(s.gaps) \in Nat /\ Len(x.gaps) \in Nat BY <4>3, <5>2, <5>5, SourceLast
          <6> QED BY <4>3, <5>5, <6>1, ExtendsTwice DEF KeepsOn
        <5> QED BY <5>2, <5>4, <5>5, <5>6 DEF Reached
      <4> QED BY <4>4, <4>5
    <3> QED BY <3>3, <3>5
  <2> QED BY <2>1, <2>2
<1>4. G = SUBSET S
  <2>1. G \in SUBSET SUBSET S OBVIOUS
  <2> HIDE DEF G
  <2> QED BY <1>2, <1>3, <2>1, SubsetInduction
<1>6. S \in G BY <1>4
<1>7. after \in g[S] BY <1>1
<1> QED BY <1>2, <1>6, <1>7

(***************************************************************************)
(* The traces that are preloaded.                                          *)
(***************************************************************************)

(* Two sequences in one.                                                   *)
LEMMA FlattenTwo ==
  ASSUME NEW ss, DOMAIN ss = 1 .. 2, ss = [i \in 1 .. 2 |-> ss[i]],
         ss[1] \in Seq(Nat), ss[2] \in Seq(Nat)
  PROVE  FlattenSeq(ss) \in Seq(Nat)
<1> DEFINE Step(i, x) == IF i = 1 THEN ss[i] ELSE x[i - 1] \o ss[i]
           IsFlat(x) == x = [i \in 1 .. 2 |-> Step(i, x)]
           h == [i \in 1 .. 2 |-> IF i = 1 THEN ss[1] ELSE ss[1] \o ss[2]]
           f == CHOOSE x : IsFlat(x)
<1>1. Len(ss) = 2 OBVIOUS
<1>2. IsFlat(h)
  <2>1. \A i \in 1 .. 2 : i = 1 \/ i = 2 OBVIOUS
  <2>2. h[1] = ss[1] OBVIOUS
  <2>3. h[1] = Step(1, h) BY <2>2
  <2>4. 2 \in 1 .. 2 /\ 2 # 1 /\ 2 - 1 = 1 OBVIOUS
  <2>5. h[2] = ss[1] \o ss[2] BY <2>4
  <2>6. h[2] = Step(2, h) BY <2>2, <2>4, <2>5
  <2>7. h = [i \in 1 .. 2 |-> h[i]] OBVIOUS
  <2> HIDE DEF h, Step
  <2>8. \A i \in 1 .. 2 : h[i] = Step(i, h) BY <2>1, <2>3, <2>6
  <2> QED BY <2>7, <2>8
<1>3. IsFlat(f)
  <2> HIDE DEF h, IsFlat
  <2> QED BY <1>2, Zenon
<1>4. FlattenSeq(ss) = f[2]
  <2>1. FlattenSeq(ss) = (CHOOSE x : x = [i \in 1 .. Len(ss) |-> IF i = 1 THEN ss[i] ELSE x[i - 1] \o ss[i]])[Len(ss)]
    BY <1>1 DEF FlattenSeq
  <2> QED BY <1>1, <2>1, Zenon
<1> HIDE DEF f, h
<1>5. f[1] = ss[1] /\ f[2] = f[1] \o ss[2]
  <2>1. 1 \in 1 .. 2 /\ 2 \in 1 .. 2 /\ 2 # 1 /\ 2 - 1 = 1 OBVIOUS
  <2> QED BY <1>3, <2>1
<1>6. ss[1] \o ss[2] \in Seq(Nat) BY ConcatProperties
<1> QED BY ONLY <1>4, <1>5, <1>6

(* What is preloaded is a source, random or not.                           *)
Preloadable(src) == IsSource(src) /\ src.inPeriod \in Nat \cup {NotRandom}

(* A trace of inter-arrival times.                                         *)
LEMMA FromTimesIs ==
  ASSUME NEW gaps \in Seq(Nat)
  PROVE  Preloadable(FromTimes(gaps))
  BY GeneratedIs DEF FromTimes, Preloadable, IsSource

(* A trace of rates.                                                       *)
LEMMA FromRatesIs ==
  ASSUME NEW rl \in RateLine \X RateLine
  PROVE  Preloadable(FromRates(rl))
<1> DEFINE Times(i) == (rl[i][2] + rl[i][1] - 1) \div rl[i][1]
           Gaps(i) == [k \in 1 .. Times(i) |-> rl[i][1]]
           ss == [i \in DOMAIN rl |-> Gaps(i)]
<1>1. DOMAIN rl = 1 .. 2 OBVIOUS
<1>2. ASSUME NEW i \in 1 .. 2 PROVE Gaps(i) \in Seq(Nat)
  <2>1. rl[i] \in (Nat \ {0}) \X Nat
    <3>1. rl[1] \in RateLine /\ rl[2] \in RateLine OBVIOUS
    <3>2. i = 1 \/ i = 2 OBVIOUS
    <3> QED BY <3>1, <3>2, ArrivalsAssumption
  <2>2. PICK a \in Nat \ {0}, b \in Nat : rl[i][1] = a /\ rl[i][2] = b BY <2>1
  <2>3. Times(i) \in Nat
    <3>1. (b + a - 1) \div a \in Nat
      <4>1. b + a - 1 \in Nat BY ONLY <2>2
      <4> QED BY ONLY <2>2, <4>1
    <3> QED BY <2>2, <3>1
  <2> DEFINE n == Times(i)
  <2>4. Gaps(i) = [k \in 1 .. n |-> a] BY <2>2
  <2>5. n \in Nat BY <2>3
  <2> HIDE DEF n
  <2>6. [k \in 1 .. n |-> a] \in Seq(Nat) BY <2>5
  <2> QED BY <2>4, <2>6
<1> HIDE DEF Gaps
<1>3. DOMAIN ss = 1 .. 2 /\ ss = [i \in 1 .. 2 |-> ss[i]] /\ ss[1] = Gaps(1) /\ ss[2] = Gaps(2) BY <1>1
<1>4. ss[1] \in Seq(Nat) /\ ss[2] \in Seq(Nat)
  <2>1. 1 \in 1 .. 2 /\ 2 \in 1 .. 2 OBVIOUS
  <2> HIDE DEF ss
  <2> QED BY <1>2, <1>3, <2>1
<1>5. FlattenSeq(ss) \in Seq(Nat)
  <2> HIDE DEF ss
  <2> QED BY <1>3, <1>4, FlattenTwo
<1>6. FromRates(rl) = FromTimes(FlattenSeq(ss)) BY DEF FromRates, Gaps
<1> HIDE DEF ss
<1> QED BY <1>5, <1>6, FromTimesIs

(* The first entry of a random source.                                     *)
LEMMA RandomSourceIs ==
  ASSUME NEW src \in GenerateArrival(RandomSource)
  PROVE  Preloadable(src) /\ src.gaps # <<>> /\ src.inPeriod # NotRandom
<1> DEFINE r == RandomSource
<1>1. <<>> \in Seq(Nat) OBVIOUS
<1>2. r.gaps = <<>> /\ r.inPeriod = RatePeriod /\ IsTrace(<<>>, r.times) BY <1>1, GeneratedIs DEF RandomSource
<1>3. IsSource(r) /\ r.inPeriod \in Nat BY <1>2, ArrivalsAssumption DEF IsSource
<1>4. DrawnFrom(r, src)
  <2> HIDE DEF r
  <2>1. src \in GenerateArrival(r) BY DEF r
  <2> QED BY <1>3, <2>1, GenerateArrivalIs
<1>5. IsSource(src) /\ src.inPeriod \in Nat /\ Len(src.gaps) = 0 + 1 BY <1>2, <1>4 DEF DrawnFrom
<1>6. src.gaps # <<>>
  <2>1. Len(<<>>) = 0 OBVIOUS
  <2>2. Len(src.gaps) # 0 BY <1>5
  <2> QED BY ONLY <2>1, <2>2
<1>7. src.inPeriod # NotRandom BY <1>5 DEF NotRandom
<1> QED BY <1>5, <1>6, <1>7 DEF Preloadable

(***************************************************************************)
(* What is predicted for a period and what is measured in it.              *)
(***************************************************************************)

SumOf(gaps, S) == <<SumFunctionOnSet(gaps, S), Cardinality(S)>>
From(p) == IF p > 1 THEN p ELSE 2

(* The entries that are predicted when p is the next, and those of them    *)
(* that have passed when n is.                                             *)
Within(times, p, s) ==
  {i \in DOMAIN times : i >= From(p) /\ times[i] >= s /\ times[i] <= s + ArrivalPeriod}
GoneBy(p, n) == {i \in 1 .. (n - 1) : i >= From(p)}

(* A prediction is the sum of what is within the period.                   *)
LEMMA PredictionIs ==
  ASSUME NEW times, NEW gaps, NEW p, NEW s
  PROVE  GetPrediction(times, gaps, p, s, ArrivalPeriod) = SumOf(gaps, Within(times, p, s))
<1> DEFINE S == {i \in DOMAIN times : i >= (IF p > 1 THEN p ELSE 2) /\ times[i] >= s
                                         /\ times[i] <= s + ArrivalPeriod}
<1>1. GetPrediction(times, gaps, p, s, ArrivalPeriod) = <<MapThenSumSet(LAMBDA i : gaps[i], S), Cardinality(S)>>
  BY Zenon DEF GetPrediction
<1>2. S = Within(times, p, s) BY DEF Within, From
<1> HIDE DEF S
<1>3. MapThenSumSet(LAMBDA i : gaps[i], S) = SumFunctionOnSet(gaps, S) BY MapThenSum
<1> QED BY <1>1, <1>2, <1>3 DEF SumOf

(* Entries that are drawn for later do not change a prediction.            *)
LEMMA SameWithin ==
  ASSUME NEW g, NEW t, IsTrace(g, t), NEW h, NEW u, IsTrace(h, u), Prolongs(g, t, h, u),
         NEW p \in Nat, NEW s \in Int, \A i \in 1 .. Len(h) : i > Len(g) => u[i] > s + ArrivalPeriod
  PROVE  SumOf(h, Within(u, p, s)) = SumOf(g, Within(t, p, s))
<1> DEFINE n == Len(g)
           m == Len(h)
           S == Within(t, p, s)
<1>1. n \in Nat /\ m \in Nat /\ DOMAIN t = 1 .. n /\ DOMAIN u = 1 .. m /\ n <= m
      /\ \A i \in 1 .. m : u[i] \in Nat
  BY DEF IsTrace, Prolongs
<1>2. \A i \in 1 .. n : h[i] = g[i] /\ u[i] = t[i] BY DEF Prolongs
<1>3. \A i \in 1 .. m : i > n => u[i] > s + ArrivalPeriod OBVIOUS
<1>4. s + ArrivalPeriod \in Int BY ArrivalsAssumption
<1> HIDE DEF n, m
<1>5. Within(u, p, s) = S
  <2>1. ASSUME NEW i \in Within(u, p, s) PROVE i \in S
    <3>1. i \in 1 .. m /\ u[i] <= s + ArrivalPeriod /\ u[i] >= s /\ i >= From(p) BY <1>1, <2>1 DEF Within
    <3>2. i \in 1 .. n
      <4>1. u[i] \in Nat BY <1>1, <3>1
      <4>2. ~(i > n) BY <1>3, <1>4, <3>1, <4>1
      <4> QED BY <1>1, <3>1, <4>2
    <3> QED BY <1>1, <1>2, <3>1, <3>2 DEF Within
  <2>2. ASSUME NEW i \in S PROVE i \in Within(u, p, s)
    <3>1. i \in 1 .. n /\ t[i] <= s + ArrivalPeriod /\ t[i] >= s /\ i >= From(p) BY <1>1, <2>2 DEF Within
    <3>2. i \in 1 .. m /\ u[i] = t[i] BY <1>1, <1>2, <3>1
    <3> QED BY <1>1, <3>1, <3>2 DEF Within
  <2> QED BY <2>1, <2>2
<1>6. S \in SUBSET (1 .. n) BY <1>1 DEF Within
<1>7. IsFiniteSet(S)
  <2>1. IsFiniteSet(1 .. n) BY <1>1, FS_Interval
  <2> HIDE DEF S
  <2> QED BY ONLY <1>6, <2>1, FS_Subset
<1> HIDE DEF S
<1>8. \A i \in S : h[i] = g[i] BY <1>2, <1>6
<1>9. SumFunctionOnSet(h, S) = SumFunctionOnSet(g, S) BY ONLY <1>7, <1>8, SumAgree
<1> QED BY <1>5, <1>9 DEF SumOf, S

(* One more has passed; the first of all does not count.                   *)
LEMMA OneMorePasses ==
  ASSUME NEW g \in Seq(Nat), NEW n \in 1 .. Len(g), NEW p \in 1 .. n
  PROVE  /\ SumOf(g, GoneBy(p, n))[1] \in Int /\ SumOf(g, GoneBy(p, n))[2] \in Int
         /\ SumOf(g, GoneBy(p, n + 1)) =
              IF n > 1 THEN AddTo(SumOf(g, GoneBy(p, n)), g[n]) ELSE SumOf(g, GoneBy(p, n))
<1> DEFINE S == GoneBy(p, n)
           m == Len(g)
<1>1. m \in Nat /\ n \in Nat \ {0} /\ n <= m /\ p \in Nat \ {0} /\ p <= n /\ \A i \in 1 .. m : g[i] \in Int
  OBVIOUS
<1>2. S \in SUBSET (1 .. m) /\ n \notin S /\ S \in SUBSET (1 .. (n - 1)) BY <1>1 DEF GoneBy
<1>3. IsFiniteSet(1 .. (n - 1)) BY <1>1, FS_Interval
<1>4. IsFiniteSet(S)
  <2> HIDE DEF S
  <2> QED BY ONLY <1>2, <1>3, FS_Subset
<1>5. n > 1 => GoneBy(p, n + 1) = S \cup {n} BY <1>1 DEF GoneBy, From
<1>6. ~(n > 1) => GoneBy(p, n + 1) = S BY <1>1 DEF GoneBy, From
<1> HIDE DEF S, m
<1>7. \A i \in S : g[i] \in Int BY <1>1, <1>2
<1>8. SumFunctionOnSet(g, S) \in Int BY <1>4, <1>7, SumType
<1>9. Cardinality(S) \in Nat BY <1>4, FS_CardinalityType
<1>10. SumFunctionOnSet(g, S \cup {n}) = SumFunctionOnSet(g, S) + g[n]
  <2>1. \A y \in S \cup {n} : g[y] \in Int BY <1>1, <1>7
  <2> QED BY ONLY <1>2, <1>4, <2>1, SumAdd
<1>11. Cardinality(S \cup {n}) = Cardinality(S) + 1 BY ONLY <1>2, <1>4, FS_AddElement
<1>12. SumOf(g, S) = <<SumFunctionOnSet(g, S), Cardinality(S)>> BY DEF SumOf
<1>13. SumOf(g, S)[1] \in Int /\ SumOf(g, S)[2] \in Int BY <1>8, <1>9, <1>12
<1>14. CASE n > 1
  <2>1. SumOf(g, S \cup {n}) = AddTo(SumOf(g, S), g[n]) BY <1>10, <1>11, <1>12 DEF SumOf, AddTo
  <2> QED BY <1>5, <1>13, <1>14, <2>1 DEF S
<1>15. CASE ~(n > 1) BY <1>6, <1>13, <1>15 DEF S
<1> QED BY <1>14, <1>15

(* At the end of a period: while there is a next entry it is later.        *)
LEMMA AllPassed ==
  ASSUME NEW g, NEW t, IsTrace(g, t), NEW n \in 1 .. Len(g), NEW p \in 1 .. n, NEW s \in Int,
         t[p] >= s \/ p = n,
         \A i \in 1 .. Len(g) : i < n => t[i] <= s + ArrivalPeriod,
         t[n] > s + ArrivalPeriod \/ (n = Len(g) /\ t[n] < s)
  PROVE  Within(t, p, s) = GoneBy(p, n)
<1> DEFINE m == Len(g)
<1>1. m \in Nat /\ n \in Nat \ {0} /\ n <= m /\ p \in Nat \ {0} /\ p <= n /\ DOMAIN t = 1 .. m
      /\ \A i \in 1 .. m : t[i] \in Nat
  <2>1. g \in Seq(Nat) /\ t \in Seq(Nat) /\ Len(t) = m BY DEF IsTrace
  <2>2. m \in Nat /\ DOMAIN t = 1 .. m /\ \A i \in 1 .. m : t[i] \in Nat BY ONLY <2>1
  <2>3. n \in 1 .. m /\ p \in 1 .. n OBVIOUS
  <2> QED BY ONLY <2>2, <2>3
<1>2. \A i, j \in 1 .. m : i <= j => t[i] <= t[j] BY DEF IsTrace
<1>3. s + ArrivalPeriod \in Int /\ s + ArrivalPeriod >= s BY ArrivalsAssumption
<1>4. /\ \A i \in 1 .. m : i < n => t[i] <= s + ArrivalPeriod
      /\ t[n] > s + ArrivalPeriod \/ (n = m /\ t[n] < s)
      /\ t[p] >= s \/ p = n
  OBVIOUS
<1> HIDE DEF m
<1>5. ASSUME NEW i \in Within(t, p, s) PROVE i \in GoneBy(p, n)
  <2>1. i \in 1 .. m /\ t[i] <= s + ArrivalPeriod /\ t[i] >= s /\ i >= From(p) /\ t[i] \in Nat
    BY <1>1, <1>5 DEF Within
  <2>2. i < n
    <3> SUFFICES ASSUME ~(i < n) PROVE FALSE OBVIOUS
    <3>1. n \in 1 .. m /\ n <= i /\ t[n] \in Nat BY <1>1, <2>1
    <3>2. t[n] <= t[i] BY <1>2, <2>1, <3>1
    <3>3. n = m /\ t[n] < s BY <1>3, <1>4, <2>1, <3>1, <3>2
    <3>4. i = n BY <1>1, <2>1, <3>1, <3>3
    <3> QED BY <2>1, <3>1, <3>3, <3>4
  <2> QED BY <1>1, <2>1, <2>2 DEF GoneBy
<1>6. ASSUME NEW i \in GoneBy(p, n) PROVE i \in Within(t, p, s)
  <2>1. i \in 1 .. m /\ i < n /\ i >= From(p) /\ i >= p /\ p \in 1 .. m BY <1>1, <1>6 DEF GoneBy, From
  <2>2. t[p] >= s BY <1>1, <1>4, <2>1
  <2>3. t[p] <= t[i] /\ t[i] <= s + ArrivalPeriod BY <1>2, <1>4, <2>1
  <2>4. t[p] \in Nat /\ t[i] \in Nat BY <1>1, <2>1
  <2>5. t[i] >= s BY <2>2, <2>3, <2>4
  <2> QED BY <1>1, <2>1, <2>3, <2>5 DEF Within
<1> QED BY <1>5, <1>6

(* When the last entry is due in the period, it was predicted, and none    *)
(* else has not passed.                                                    *)
LEMMA LastNotPassed ==
  ASSUME NEW g, NEW t, IsTrace(g, t), NEW p \in 1 .. Len(g), NEW s \in Int, t[p] >= s \/ p = Len(g),
         t[Len(g)] >= s, t[Len(g)] <= s + ArrivalPeriod
  PROVE  Within(t, p, s) = GoneBy(p, Len(g) + 1)
<1> DEFINE m == Len(g)
<1>1. m \in Nat /\ p \in Nat \ {0} /\ p <= m /\ DOMAIN t = 1 .. m
      /\ \A i \in 1 .. m : t[i] \in Nat
  <2>1. g \in Seq(Nat) /\ t \in Seq(Nat) /\ Len(t) = m BY DEF IsTrace
  <2>2. m \in Nat /\ DOMAIN t = 1 .. m /\ \A i \in 1 .. m : t[i] \in Nat BY ONLY <2>1
  <2>3. p \in 1 .. m OBVIOUS
  <2> QED BY ONLY <2>2, <2>3
<1>2. \A i, j \in 1 .. m : i <= j => t[i] <= t[j] BY DEF IsTrace
<1>3. s + ArrivalPeriod \in Int BY ArrivalsAssumption
<1>4. t[p] >= s /\ t[m] <= s + ArrivalPeriod OBVIOUS
<1> HIDE DEF m
<1>5. ASSUME NEW i \in GoneBy(p, m + 1) PROVE i \in Within(t, p, s)
  <2>1. i \in 1 .. m /\ i >= From(p) /\ i >= p /\ p \in 1 .. m /\ m \in 1 .. m BY <1>1, <1>5 DEF GoneBy, From
  <2>2. t[p] <= t[i] /\ t[i] <= t[m] BY <1>1, <1>2, <2>1
  <2>3. t[p] \in Nat /\ t[i] \in Nat /\ t[m] \in Nat BY <1>1, <2>1
  <2>4. t[i] >= s /\ t[i] <= s + ArrivalPeriod BY <1>3, <1>4, <2>2, <2>3
  <2> QED BY <1>1, <2>1, <2>4 DEF Within
<1>6. Within(t, p, s) \subseteq GoneBy(p, m + 1) BY <1>1 DEF Within, GoneBy
<1> QED BY <1>5, <1>6 DEF m

(***************************************************************************)
(* The period that is under way began when p was the next entry: it was    *)
(* predicted from there, and what is measured are the entries passed since.*)
(***************************************************************************)

PeriodStart == arrivalEvent - ArrivalPeriod
Finished ==
  /\ newJobTimer = NoTimer /\ timeInPeriod = NotRandom
  /\ nextArrivalIndex = Len(interArrivalTimes)
  /\ Last(arrivalTimes) <= arrivalClock

BeganAt(p) ==
  /\ predicted = SumOf(interArrivalTimes, Within(arrivalTimes, p, PeriodStart))
  /\ interArrivalStats = SumOf(interArrivalTimes, GoneBy(p, nextArrivalIndex))
  /\ arrivalTimes[p] >= PeriodStart \/ (newJobTimer = NoTimer /\ p = nextArrivalIndex)

(* The timer is that of the next entry, or the trace is finished; the      *)
(* random source has drawn the period to its end.                          *)
OnTime ==
  /\ nextArrivalIndex \in 1 .. Len(interArrivalTimes)
  /\ \/ newJobTimer = arrivalTimes[nextArrivalIndex] /\ newJobTimer >= arrivalClock
     \/ Finished
  /\ \A i \in 1 .. Len(interArrivalTimes) : i < nextArrivalIndex => arrivalTimes[i] <= arrivalClock
  /\ firstArrival = (nextArrivalIndex = 1)
  /\ nextArrivalIndex > 1 => lastArrivalTime = arrivalTimes[nextArrivalIndex - 1]
  /\ PeriodStart <= arrivalClock /\ arrivalClock <= arrivalEvent
  /\ timeInPeriod # NotRandom => Last(arrivalTimes) >= arrivalEvent

NothingYet ==
  /\ arrivalClock = 0 /\ arrivalEvent = ArrivalPeriod /\ interArrivalStats = Nothing
  /\ firstArrival = TRUE /\ timeInPeriod = NotRandom /\ nextArrivalIndex \in Nat

ArrivalsInv ==
  /\ IsTrace(interArrivalTimes, arrivalTimes) /\ timeInPeriod \in Nat \cup {NotRandom}
  /\ arrivalClock \in Nat /\ arrivalEvent \in Nat /\ envRecord \in Seq(Int \X Int)
  /\ IF interArrivalTimes = <<>> THEN NothingYet
     ELSE OnTime /\ \E p \in 1 .. nextArrivalIndex : BeganAt(p)

(* The initial state.                                                      *)
LEMMA ArrivalsInitially == ArrivalsInit => ArrivalsInv
<1> SUFFICES ASSUME ArrivalsInit PROVE ArrivalsInv
  OBVIOUS
<1>1. IsTrace(interArrivalTimes, arrivalTimes)
  BY DEF ArrivalsInit, IsTrace
<1>2. ArrivalPeriod \in Nat BY ArrivalsAssumption
<1> QED BY <1>1, <1>2 DEF ArrivalsInit, ArrivalsInv, NothingYet, NotRandom

(* What the prediction of a period leaves of a source.                     *)
LEMMA PredictPeriodIs ==
  ASSUME NEW src, Preloadable(src), src.inPeriod # NotRandom => src.gaps # <<>>,
         arrivalClock \in Nat, NEW next, PredictPeriod(src, next)
  PROVE  /\ IsTrace(interArrivalTimes', arrivalTimes')
         /\ Prolongs(src.gaps, src.times, interArrivalTimes', arrivalTimes')
         /\ timeInPeriod' \in Nat \cup {NotRandom}
         /\ timeInPeriod' = NotRandom <=> src.inPeriod = NotRandom
         /\ timeInPeriod' = NotRandom => interArrivalTimes' = src.gaps /\ arrivalTimes' = src.times
         /\ timeInPeriod' # NotRandom =>
              interArrivalTimes' # <<>> /\ Last(arrivalTimes') >= arrivalClock + ArrivalPeriod
         /\ predicted' = SumOf(interArrivalTimes', Within(arrivalTimes', next, arrivalClock))
<1> DEFINE e == arrivalClock + ArrivalPeriod
<1>1. PICK after \in GenerateUntil(src, e) :
        /\ SourceBecomes(after)
        /\ predicted' = GetPrediction(after.times, after.gaps, next, arrivalClock, ArrivalPeriod)
  BY DEF PredictPeriod
<1>2. /\ interArrivalTimes' = after.gaps /\ arrivalTimes' = after.times /\ timeInPeriod' = after.inPeriod
      /\ predicted' = SumOf(interArrivalTimes', Within(arrivalTimes', next, arrivalClock))
  BY <1>1, PredictionIs DEF SourceBecomes
<1>3. e \in Nat BY ArrivalsAssumption
<1>4. IsSource(src) /\ src.inPeriod \in Nat \cup {NotRandom} BY DEF Preloadable
<1>5. CASE src.inPeriod = NotRandom
  <2>1. after = src BY <1>1, <1>5 DEF GenerateUntil
  <2>2. Prolongs(src.gaps, src.times, src.gaps, src.times)
    <3>1. Len(src.gaps) \in Nat BY <1>4 DEF IsSource, IsTrace
    <3> QED BY <3>1 DEF Prolongs
  <2> QED BY <1>2, <1>4, <1>5, <2>1, <2>2 DEF IsSource
<1>6. CASE src.inPeriod # NotRandom
  <2>1. src.inPeriod \in Nat BY <1>4, <1>6
  <2> HIDE DEF e
  <2>2. Reached(src, after, e) BY <1>1, <1>3, <1>4, <1>6, <2>1, GenerateUntilIs
  <2>3. /\ IsSource(after) /\ KeepsOn(src, after) /\ after.inPeriod \in Nat /\ after.gaps # <<>>
        /\ Last(after.times) >= e
    BY <2>2 DEF Reached
  <2>4. after.inPeriod # NotRandom BY <2>3 DEF NotRandom
  <2> QED BY <1>2, <1>6, <2>3, <2>4 DEF IsSource, KeepsOn, e
<1> QED BY <1>5, <1>6

(* Nothing has passed of a period that begins.                             *)
LEMMA NothingPassed ==
  ASSUME NEW g, NEW p \in Nat
  PROVE  SumOf(g, GoneBy(p, p)) = Nothing
<1>1. GoneBy(p, p) = {} BY DEF GoneBy, From
<1>2. IsFiniteSet({}) /\ Cardinality({}) = 0 BY FS_EmptySet
<1>3. SumFunctionOnSet(g, {}) = 0 BY <1>2, SumEquation
<1> QED BY <1>1, <1>2, <1>3 DEF SumOf, Nothing

(* The first period begins at 0.                                           *)
LEMMA PreloadStep ==
  ASSUME ArrivalsInv, NEW src, Preloadable(src), src.inPeriod # NotRandom => src.gaps # <<>>, Preload(src)
  PROVE  ArrivalsInv'
<1>1. /\ arrivalClock = 0 /\ arrivalEvent = ArrivalPeriod /\ interArrivalStats = Nothing
      /\ firstArrival = TRUE /\ timeInPeriod = NotRandom /\ envRecord \in Seq(Int \X Int)
      /\ arrivalClock \in Nat /\ arrivalEvent \in Nat
  BY DEF ArrivalsInv, NothingYet, Preload
<1>2. /\ nextArrivalIndex' = 1 /\ newJobTimer' = src.gaps[1] /\ PredictPeriod(src, 1)
      /\ arrivalClock' = arrivalClock /\ firstArrival' = firstArrival /\ envRecord' = envRecord
      /\ interArrivalStats' = interArrivalStats /\ arrivalEvent' = arrivalEvent
  BY DEF Preload, monitorVars
<1>3. /\ IsTrace(interArrivalTimes', arrivalTimes')
      /\ Prolongs(src.gaps, src.times, interArrivalTimes', arrivalTimes')
      /\ timeInPeriod' \in Nat \cup {NotRandom}
      /\ timeInPeriod' = NotRandom <=> src.inPeriod = NotRandom
      /\ timeInPeriod' = NotRandom => interArrivalTimes' = src.gaps /\ arrivalTimes' = src.times
      /\ timeInPeriod' # NotRandom =>
           interArrivalTimes' # <<>> /\ Last(arrivalTimes') >= arrivalClock + ArrivalPeriod
      /\ predicted' = SumOf(interArrivalTimes', Within(arrivalTimes', 1, arrivalClock))
  BY <1>1, <1>2, PredictPeriodIs
<1>4. CASE interArrivalTimes' = <<>>
  <2>1. timeInPeriod' = NotRandom BY <1>3, <1>4
  <2> QED BY <1>1, <1>2, <1>3, <1>4, <2>1 DEF ArrivalsInv, NothingYet
<1>5. CASE interArrivalTimes' # <<>>
  <2> DEFINE g == interArrivalTimes'
             t == arrivalTimes'
  <2>1. Len(g) \in Nat \ {0} /\ Len(t) = Len(g) /\ t[1] = g[1] /\ t[1] \in Nat
    <3>1. g \in Seq(Nat) /\ t \in Seq(Nat) /\ Len(t) = Len(g) /\ t[1] = g[1] BY <1>3, <1>5 DEF IsTrace
    <3>2. Len(g) \in Nat \ {0} BY <1>5, <3>1, EmptySeq
    <3> QED BY <3>1, <3>2
  <2>2. g[1] = src.gaps[1]
    <3>1. CASE timeInPeriod' = NotRandom BY <1>3, <3>1
    <3>2. CASE timeInPeriod' # NotRandom
      <4>1. src.gaps # <<>> /\ src.gaps \in Seq(Nat) BY <1>3, <3>2 DEF Preloadable, IsSource, IsTrace
      <4>2. 1 \in 1 .. Len(src.gaps) BY <4>1, EmptySeq
      <4> QED BY <1>3, <4>2 DEF Prolongs
    <3> QED BY <3>1, <3>2
  <2>3. PeriodStart' = arrivalClock
    <3>1. PeriodStart' = arrivalEvent' - ArrivalPeriod BY DEF PeriodStart
    <3> QED BY <1>1, <1>2, <3>1, ArrivalsAssumption
  <2>4. nextArrivalIndex' \in 1 .. Len(g) /\ (\A i \in 1 .. Len(g) : ~(i < 1)) BY <1>2, <2>1
  <2>5. newJobTimer' = t[1] /\ t[1] >= 0 BY <1>2, <2>1, <2>2
  <2>6. OnTime'
    <3>1. timeInPeriod' # NotRandom => Last(arrivalTimes') >= arrivalEvent'
      BY <1>1, <1>2, <1>3, ArrivalsAssumption
    <3>2. PeriodStart' <= arrivalClock' /\ arrivalClock' <= arrivalEvent'
      BY <1>1, <1>2, <2>3, ArrivalsAssumption
    <3>3. newJobTimer' = t[nextArrivalIndex'] /\ newJobTimer' >= arrivalClock' BY <1>1, <1>2, <2>5
    <3> QED BY <1>1, <1>2, <2>4, <3>1, <3>2, <3>3 DEF OnTime
  <2>7. BeganAt(1)'
    <3>1. interArrivalStats' = SumOf(g, GoneBy(1, 1)) BY <1>1, <1>2, NothingPassed
    <3>2. t[1] >= PeriodStart' BY <1>1, <2>3, <2>5
    <3> QED BY <1>2, <1>3, <2>3, <3>1, <3>2 DEF BeganAt
  <2>8. \E p \in 1 .. nextArrivalIndex' : BeganAt(p)'
    <3>1. 1 \in 1 .. nextArrivalIndex' BY <1>2
    <3> QED BY <2>7, <3>1
  <2> QED BY <1>1, <1>2, <1>3, <1>5, <2>6, <2>8 DEF ArrivalsInv
<1> QED BY <1>4, <1>5

(* The state while the source runs.                                        *)
LEMMA Running ==
  ASSUME ArrivalsInv, interArrivalTimes # <<>>
  PROVE  /\ OnTime /\ IsTrace(interArrivalTimes, arrivalTimes)
         /\ Len(interArrivalTimes) \in Nat \ {0} /\ Last(arrivalTimes) = arrivalTimes[Len(interArrivalTimes)]
         /\ \A i \in 1 .. Len(interArrivalTimes) : arrivalTimes[i] \in Nat /\ interArrivalTimes[i] \in Nat
         /\ arrivalClock \in Nat /\ arrivalEvent \in Nat /\ PeriodStart \in Int
         /\ PeriodStart + ArrivalPeriod = arrivalEvent
<1>1. OnTime /\ IsTrace(interArrivalTimes, arrivalTimes) /\ arrivalClock \in Nat /\ arrivalEvent \in Nat
  BY DEF ArrivalsInv
<1>2. IsSource(Source) /\ Source.gaps = interArrivalTimes /\ Source.times = arrivalTimes
  BY <1>1 DEF IsSource, Source
<1>3. /\ Len(interArrivalTimes) \in Nat \ {0} /\ Last(arrivalTimes) = arrivalTimes[Len(interArrivalTimes)]
      /\ \A i \in 1 .. Len(interArrivalTimes) : arrivalTimes[i] \in Nat
  BY <1>2, SourceLast
<1>4. \A i \in 1 .. Len(interArrivalTimes) : interArrivalTimes[i] \in Nat BY <1>1 DEF IsTrace
<1>5. PeriodStart \in Int /\ PeriodStart + ArrivalPeriod = arrivalEvent BY <1>1, ArrivalsAssumption DEF PeriodStart
<1> QED BY <1>1, <1>3, <1>4, <1>5

(* The source has a next entry: it is due later.                           *)
LEMMA NextEntry ==
  ASSUME ArrivalsInv, NewJob
  PROVE  /\ interArrivalTimes # <<>>
         /\ IsTrace(interArrivalTimes', arrivalTimes')
         /\ Prolongs(interArrivalTimes, arrivalTimes, interArrivalTimes', arrivalTimes')
         /\ nextArrivalIndex + 1 \in 1 .. Len(interArrivalTimes')
         /\ arrivalTimes[nextArrivalIndex] = arrivalClock
         /\ newJobTimer' = arrivalTimes'[nextArrivalIndex + 1] /\ newJobTimer' >= arrivalClock
         /\ timeInPeriod' \in Nat \cup {NotRandom}
         /\ timeInPeriod' # NotRandom => Last(arrivalTimes') >= arrivalEvent
         /\ \A i \in 1 .. Len(interArrivalTimes') : i > Len(interArrivalTimes) => arrivalTimes'[i] > arrivalEvent
<1> DEFINE g == interArrivalTimes
           t == arrivalTimes
           n == Len(g)
           k == nextArrivalIndex
<1>1. /\ newJobTimer = arrivalClock /\ (k < n \/ timeInPeriod # NotRandom)
      /\ nextArrivalIndex' = k + 1
  BY DEF NewJob
<1>2. PICK after \in IF k < n THEN {Source} ELSE GenerateArrival(Source) :
        SourceBecomes(after) /\ newJobTimer' = arrivalClock + after.gaps[k + 1]
  <2>1. \E after \in IF nextArrivalIndex < Len(interArrivalTimes) THEN {Source} ELSE GenerateArrival(Source) :
          /\ SourceBecomes(after)
          /\ nextArrivalIndex' = nextArrivalIndex + 1
          /\ newJobTimer' = arrivalClock + after.gaps[nextArrivalIndex']
    BY DEF NewJob
  <2> QED BY <2>1
<1>3. g # <<>>
  <2> SUFFICES ASSUME g = <<>> PROVE FALSE OBVIOUS
  <2>1. NothingYet BY DEF ArrivalsInv
  <2>2. timeInPeriod = NotRandom /\ k \in Nat /\ n = 0 BY <2>1 DEF NothingYet
  <2> QED BY <1>1, <2>2
<1>4. /\ OnTime /\ IsTrace(g, t) /\ n \in Nat \ {0} /\ Last(t) = t[n]
      /\ (\A i \in 1 .. n : t[i] \in Nat /\ g[i] \in Nat)
      /\ arrivalClock \in Nat /\ arrivalEvent \in Nat
  BY <1>3, Running
<1>5. timeInPeriod \in Nat \cup {NotRandom} BY DEF ArrivalsInv
<1>6. /\ k \in 1 .. n /\ t[k] = arrivalClock /\ newJobTimer = t[k]
      /\ timeInPeriod # NotRandom => Last(t) >= arrivalEvent
  <2>1. ~Finished BY <1>1, <1>4 DEF Finished, NoTimer
  <2> QED BY <1>1, <2>1, <1>4 DEF OnTime
<1>7. /\ interArrivalTimes' = after.gaps /\ arrivalTimes' = after.times /\ timeInPeriod' = after.inPeriod
  BY <1>2 DEF SourceBecomes
<1>8. IsSource(Source) /\ Source.gaps = g /\ Source.times = t /\ Source.inPeriod = timeInPeriod
  BY <1>4 DEF IsSource, Source
<1> DEFINE h == after.gaps
           u == after.times
<1>9. /\ IsTrace(h, u) /\ Prolongs(g, t, h, u) /\ k + 1 \in 1 .. Len(h)
      /\ after.inPeriod \in Nat \cup {NotRandom}
      /\ after.inPeriod # NotRandom => Last(u) >= arrivalEvent
      /\ \A i \in 1 .. Len(h) : i > n => u[i] > arrivalEvent
  <2>1. CASE k < n
    <3>1. after = Source BY <1>2, <2>1
    <3>2. h = g /\ u = t /\ after.inPeriod = timeInPeriod BY <1>8, <3>1
    <3>3. Prolongs(g, t, g, t) BY <1>4 DEF Prolongs
    <3>4. k + 1 \in 1 .. n /\ \A i \in 1 .. n : ~(i > n) BY <1>4, <1>6, <2>1
    <3> HIDE DEF h, u, g, t, n, k
    <3> QED BY <1>4, <1>5, <1>6, <3>2, <3>3, <3>4 DEF n
  <2>2. CASE ~(k < n)
    <3>1. after \in GenerateArrival(Source) BY <1>2, <2>2
    <3>2. timeInPeriod # NotRandom /\ timeInPeriod \in Nat BY <1>1, <1>5, <2>2
    <3>3. DrawnFrom(Source, after) BY <1>8, <3>1, <3>2, GenerateArrivalIs
    <3>4. after.gaps # <<>> /\ Last(after.times) >= Last(t) + 1 /\ Last(after.times) \in Nat
      BY <1>3, <1>8, <3>3, DrawnLater
    <3>5. IsSource(after) /\ KeepsOn(Source, after) /\ Len(h) = n + 1 /\ after.inPeriod \in Nat
      BY <1>8, <3>3 DEF DrawnFrom
    <3>6. IsTrace(h, u) /\ Prolongs(g, t, h, u) BY <1>8, <3>5 DEF IsSource, KeepsOn
    <3>7. Last(u) = u[n + 1] BY <3>4, <3>5, SourceLast
    <3>8. Last(t) \in Nat /\ Last(t) >= arrivalEvent BY <1>4, <1>6, <3>2
    <3>9. k = n BY <1>4, <1>6, <2>2
    <3> HIDE DEF h, u, g, t, n, k
    <3>10. Last(u) > arrivalEvent /\ Last(u) >= arrivalEvent BY <1>4, <3>4, <3>8 DEF u
    <3>11. \A i \in 1 .. Len(h) : i > n => i = n + 1 BY <1>4, <3>5
    <3>12. k + 1 \in 1 .. Len(h) BY <1>4, <3>5, <3>9
    <3> QED BY <3>5, <3>6, <3>7, <3>10, <3>11, <3>12
  <2> QED BY <2>1, <2>2
<1>10. newJobTimer' = u[k + 1] /\ newJobTimer' >= arrivalClock
  <2>1. k + 1 \in 2 .. Len(h) /\ (k + 1) - 1 = k BY <1>4, <1>6, <1>9
  <2>2. u[k + 1] = u[k] + h[k + 1]
    <3> HIDE DEF h, u, k
    <3> QED BY <1>9, <2>1 DEF IsTrace
  <2>3. u[k] = t[k]
    <3> HIDE DEF h, u, k, g, t
    <3> QED BY <1>6, <1>9 DEF Prolongs, n
  <2>4. h[k + 1] \in Nat
    <3>1. h \in Seq(Nat) BY <1>9 DEF IsTrace
    <3> HIDE DEF h, k
    <3> QED BY <1>9, <3>1
  <2>5. newJobTimer' = arrivalClock + h[k + 1] BY <1>2
  <2> HIDE DEF h, u, k, t
  <2> QED BY <1>4, <1>6, <2>2, <2>3, <2>4, <2>5
<1> QED BY <1>3, <1>6, <1>7, <1>9, <1>10

(* An entry passes, and is measured from the second one on.                *)
LEMMA NewJobStep ==
  ASSUME ArrivalsInv, NewJob
  PROVE  ArrivalsInv'
<1> DEFINE g == interArrivalTimes
           t == arrivalTimes
           h == interArrivalTimes'
           u == arrivalTimes'
           k == nextArrivalIndex
           s == PeriodStart
<1>1. /\ g # <<>> /\ IsTrace(h, u) /\ Prolongs(g, t, h, u) /\ k + 1 \in 1 .. Len(h)
      /\ t[k] = arrivalClock /\ newJobTimer' = u[k + 1] /\ newJobTimer' >= arrivalClock
      /\ timeInPeriod' \in Nat \cup {NotRandom}
      /\ timeInPeriod' # NotRandom => Last(u) >= arrivalEvent
      /\ \A i \in 1 .. Len(h) : i > Len(g) => u[i] > arrivalEvent
  BY NextEntry
<1>2. /\ nextArrivalIndex' = k + 1 /\ newJobTimer = arrivalClock
      /\ arrivalClock' = arrivalClock /\ arrivalEvent' = arrivalEvent /\ envRecord' = envRecord
      /\ predicted' = predicted /\ firstArrival' = FALSE /\ lastArrivalTime' = arrivalClock
      /\ interArrivalStats' = IF firstArrival THEN interArrivalStats
                              ELSE AddTo(interArrivalStats, arrivalClock - lastArrivalTime)
  BY DEF NewJob, ArrivalPasses, recordVars
<1>3. /\ OnTime /\ IsTrace(g, t) /\ Len(g) \in Nat \ {0}
      /\ (\A i \in 1 .. Len(g) : t[i] \in Nat /\ g[i] \in Nat)
      /\ arrivalClock \in Nat /\ arrivalEvent \in Nat /\ s \in Int /\ s + ArrivalPeriod = arrivalEvent
  BY <1>1, Running
<1>4. PICK p \in 1 .. k : BeganAt(p) BY <1>1 DEF ArrivalsInv
<1>5. /\ k \in 1 .. Len(g) /\ firstArrival = (k = 1) /\ (k > 1 => lastArrivalTime = t[k - 1])
      /\ s <= arrivalClock /\ arrivalClock <= arrivalEvent
      /\ \A i \in 1 .. Len(g) : i < k => t[i] <= arrivalClock
  BY <1>3 DEF OnTime
<1>6. /\ predicted = SumOf(g, Within(t, p, s)) /\ interArrivalStats = SumOf(g, GoneBy(p, k))
      /\ t[p] >= s \/ (newJobTimer = NoTimer /\ p = k)
  BY <1>4 DEF BeganAt
<1>7. PeriodStart' = s BY <1>2 DEF PeriodStart
<1>8. k \in Nat \ {0} /\ p \in Nat \ {0} /\ p <= k /\ p \in 1 .. Len(g) BY <1>3, <1>4, <1>5
<1>9. \A i \in 1 .. Len(g) : h[i] = g[i] /\ u[i] = t[i] BY <1>1 DEF Prolongs
<1>10. Len(g) <= Len(h) /\ Len(h) \in Nat /\ h # <<>> BY <1>1, <1>3 DEF Prolongs, IsTrace
<1> HIDE DEF g, t, h, u, k, s
<1>11. SumOf(h, Within(u, p, s)) = SumOf(g, Within(t, p, s))
  <2>1. \A i \in 1 .. Len(h) : i > Len(g) => u[i] > s + ArrivalPeriod BY <1>1, <1>3
  <2> QED BY ONLY <1>1, <1>3, <1>8, <2>1, SameWithin
<1>12. t[p] >= s
  <2>1. newJobTimer # NoTimer BY <1>2, <1>3 DEF NoTimer
  <2> QED BY <1>6, <2>1
<1>13. interArrivalStats' = SumOf(h, GoneBy(p, k + 1))
  <2>1. SumOf(h, GoneBy(p, k + 1)) =
          IF k > 1 THEN AddTo(SumOf(h, GoneBy(p, k)), h[k]) ELSE SumOf(h, GoneBy(p, k))
    <3>1. h \in Seq(Nat) BY <1>1 DEF IsTrace
    <3>2. k \in 1 .. Len(h) /\ p \in 1 .. k BY <1>5, <1>8, <1>10
    <3> QED BY ONLY <3>1, <3>2, OneMorePasses
  <2>2. SumOf(h, GoneBy(p, k)) = SumOf(g, GoneBy(p, k))
    <3> DEFINE S == GoneBy(p, k)
    <3>1. S \in SUBSET (1 .. (k - 1)) BY DEF GoneBy
    <3>2. IsFiniteSet(1 .. (k - 1)) BY <1>8, FS_Interval
    <3>3. 1 .. (k - 1) \subseteq 1 .. Len(g) BY <1>5, <1>3
    <3> HIDE DEF S
    <3>4. IsFiniteSet(S) BY ONLY <3>1, <3>2, FS_Subset
    <3>5. \A i \in S : h[i] = g[i] BY <1>9, <3>1, <3>3
    <3>6. SumFunctionOnSet(h, S) = SumFunctionOnSet(g, S) BY ONLY <3>4, <3>5, SumAgree
    <3> QED BY <3>6 DEF SumOf, S
  <2>3. CASE k = 1
    <3>1. firstArrival = TRUE /\ ~(k > 1)
      <4>1. firstArrival = (k = 1) BY <1>5
      <4>2. firstArrival = TRUE BY ONLY <2>3, <4>1, Zenon
      <4>3. ~(k > 1) BY ONLY <2>3
      <4> QED BY ONLY <4>2, <4>3
    <3>2. interArrivalStats' = interArrivalStats BY <1>2, <3>1
    <3>3. SumOf(h, GoneBy(p, k + 1)) = SumOf(h, GoneBy(p, k)) BY ONLY <2>1, <3>1
    <3> QED BY ONLY <1>6, <2>2, <3>2, <3>3
  <2>4. CASE k # 1
    <3>1. k > 1 /\ k \in 2 .. Len(g) /\ k - 1 \in 1 .. Len(g) BY <1>5, <1>8, <2>4
    <3>2. t[k] = t[k - 1] + g[k] BY <1>3, <3>1 DEF IsTrace
    <3>3. arrivalClock - lastArrivalTime = h[k]
      <4>1. t[k - 1] \in Nat /\ g[k] \in Nat /\ h[k] = g[k] BY <1>3, <1>5, <1>9, <3>1
      <4> QED BY <1>1, <1>5, <3>1, <3>2, <4>1
    <3>4. firstArrival = FALSE BY <1>5, <2>4
    <3>5. interArrivalStats' = AddTo(interArrivalStats, h[k]) BY <1>2, <3>3, <3>4
    <3>6. SumOf(h, GoneBy(p, k + 1)) = AddTo(SumOf(h, GoneBy(p, k)), h[k]) BY ONLY <2>1, <3>1
    <3> QED BY ONLY <1>6, <2>2, <3>5, <3>6
  <2> QED BY <2>3, <2>4
<1>14. u[p] >= s BY <1>8, <1>9, <1>12
<1>15. BeganAt(p)' BY <1>2, <1>6, <1>7, <1>11, <1>13, <1>14 DEF BeganAt, h, u, s, k
<1>16. OnTime'
  <2>1. \A i \in 1 .. Len(h) : i < k + 1 => u[i] <= arrivalClock
    <3> TAKE i \in 1 .. Len(h)
    <3> HAVE i < k + 1
    <3>1. i \in 1 .. Len(g) /\ (i < k \/ i = k) BY <1>3, <1>5, <1>8, <1>10
    <3>2. t[i] <= arrivalClock BY <1>1, <1>3, <1>5, <3>1
    <3> QED BY <1>9, <3>1, <3>2
  <2>2. (k + 1 > 1 => lastArrivalTime' = u[(k + 1) - 1]) /\ firstArrival' = (k + 1 = 1)
    <3>1. (k + 1) - 1 = k /\ k + 1 # 1 BY <1>8
    <3>2. u[k] = arrivalClock BY <1>1, <1>5, <1>9
    <3> QED BY <1>2, <3>1, <3>2
  <2> QED BY <1>1, <1>2, <1>5, <1>7, <2>1, <2>2 DEF OnTime, h, u
<1>17. \E q \in 1 .. nextArrivalIndex' : BeganAt(q)'
  <2>1. p \in 1 .. nextArrivalIndex' BY <1>2, <1>8
  <2> QED BY <1>15, <2>1
<1>18. envRecord \in Seq(Int \X Int) BY DEF ArrivalsInv
<1> QED BY <1>1, <1>2, <1>3, <1>10, <1>16, <1>17, <1>18 DEF ArrivalsInv, h, u

(* The last entry is due and makes no job.                                 *)
LEMMA SourceFinishedStep ==
  ASSUME ArrivalsInv, SourceFinished
  PROVE  ArrivalsInv'
<1>1. /\ newJobTimer = arrivalClock /\ newJobTimer' = NoTimer
      /\ nextArrivalIndex = Len(interArrivalTimes) /\ timeInPeriod = NotRandom
      /\ interArrivalTimes' = interArrivalTimes /\ arrivalTimes' = arrivalTimes
      /\ timeInPeriod' = timeInPeriod /\ nextArrivalIndex' = nextArrivalIndex
      /\ arrivalClock' = arrivalClock /\ firstArrival' = firstArrival /\ lastArrivalTime' = lastArrivalTime
      /\ interArrivalStats' = interArrivalStats
      /\ arrivalEvent' = arrivalEvent /\ envRecord' = envRecord /\ predicted' = predicted
  BY DEF SourceFinished, traceVars, monitorVars, recordVars
<1>2. PeriodStart' = PeriodStart BY <1>1 DEF PeriodStart
<1>3. CASE interArrivalTimes = <<>> BY <1>1, <1>3 DEF ArrivalsInv, NothingYet
<1>4. CASE interArrivalTimes # <<>>
  <2>1. /\ OnTime /\ Len(interArrivalTimes) \in Nat \ {0} /\ arrivalClock \in Nat
        /\ Last(arrivalTimes) = arrivalTimes[Len(interArrivalTimes)]
    BY <1>4, Running
  <2>2. PICK p \in 1 .. nextArrivalIndex : BeganAt(p) BY <1>4 DEF ArrivalsInv
  <2>3. newJobTimer # NoTimer BY <1>1, <2>1 DEF NoTimer
  <2>4. newJobTimer = arrivalTimes[nextArrivalIndex] BY <2>1, <2>3 DEF OnTime, Finished
  <2>5. Finished'
    <3>1. Last(arrivalTimes) = arrivalClock BY <1>1, <2>1, <2>4
    <3> QED BY <1>1, <2>1, <3>1 DEF Finished
  <2>6. OnTime' BY <1>1, <1>2, <2>1, <2>5 DEF OnTime
  <2>7. BeganAt(p)' BY <1>1, <1>2, <2>2, <2>3 DEF BeganAt
  <2> QED BY <1>1, <1>4, <2>2, <2>6, <2>7 DEF ArrivalsInv
<1> QED BY <1>3, <1>4

(* The clock never passes a timer.                                         *)
LEMMA ArrivalTickStep ==
  ASSUME ArrivalsInv, ArrivalTick
  PROVE  ArrivalsInv'
<1>1. /\ interArrivalTimes # <<>> /\ newJobTimer # arrivalClock /\ arrivalEvent # arrivalClock
      /\ arrivalClock' = arrivalClock + 1
      /\ newJobTimer' = newJobTimer
      /\ interArrivalTimes' = interArrivalTimes /\ arrivalTimes' = arrivalTimes
      /\ timeInPeriod' = timeInPeriod /\ nextArrivalIndex' = nextArrivalIndex
      /\ firstArrival' = firstArrival /\ lastArrivalTime' = lastArrivalTime
      /\ interArrivalStats' = interArrivalStats
      /\ arrivalEvent' = arrivalEvent /\ envRecord' = envRecord /\ predicted' = predicted
  BY DEF ArrivalTick, sourceVars, traceVars, monitorVars, recordVars
<1>2. PeriodStart' = PeriodStart BY <1>1 DEF PeriodStart
<1>3. /\ OnTime /\ Len(interArrivalTimes) \in Nat \ {0} /\ arrivalClock \in Nat /\ arrivalEvent \in Nat
      /\ Last(arrivalTimes) = arrivalTimes[Len(interArrivalTimes)] /\ PeriodStart \in Int
      /\ \A i \in 1 .. Len(interArrivalTimes) : arrivalTimes[i] \in Nat /\ interArrivalTimes[i] \in Nat
  BY <1>1, Running
<1>4. PICK p \in 1 .. nextArrivalIndex : BeganAt(p) BY <1>1 DEF ArrivalsInv
<1>5. BeganAt(p)' BY <1>1, <1>2, <1>4 DEF BeganAt
<1>6. nextArrivalIndex \in 1 .. Len(interArrivalTimes) BY <1>3 DEF OnTime
<1>7. /\ \/ newJobTimer = arrivalTimes[nextArrivalIndex] /\ newJobTimer >= arrivalClock + 1
         \/ Finished'
  <2>1. CASE Finished
    <3>1. Last(arrivalTimes) \in Nat BY <1>3
    <3>2. Last(arrivalTimes) <= arrivalClock + 1 BY <1>3, <2>1, <3>1 DEF Finished
    <3> QED BY <1>1, <2>1, <3>2 DEF Finished
  <2>2. CASE newJobTimer = arrivalTimes[nextArrivalIndex] /\ newJobTimer >= arrivalClock
    <3>1. newJobTimer \in Nat BY <1>3, <1>6, <2>2
    <3> QED BY <1>1, <1>3, <2>2, <3>1
  <2> QED BY <1>3, <2>1, <2>2 DEF OnTime
<1>8. \A i \in 1 .. Len(interArrivalTimes) : i < nextArrivalIndex => arrivalTimes[i] <= arrivalClock + 1
  <2> TAKE i \in 1 .. Len(interArrivalTimes)
  <2> HAVE i < nextArrivalIndex
  <2>1. arrivalTimes[i] <= arrivalClock BY <1>3 DEF OnTime
  <2>2. arrivalTimes[i] \in Nat BY <1>3
  <2> QED BY <1>3, <2>1, <2>2
<1>9. PeriodStart <= arrivalClock + 1 /\ arrivalClock + 1 <= arrivalEvent
  <2>1. PeriodStart <= arrivalClock /\ arrivalClock <= arrivalEvent BY <1>3 DEF OnTime
  <2> QED BY <1>1, <1>3, <2>1
<1>10. OnTime'
  <2>1. /\ firstArrival = (nextArrivalIndex = 1)
        /\ nextArrivalIndex > 1 => lastArrivalTime = arrivalTimes[nextArrivalIndex - 1]
        /\ timeInPeriod # NotRandom => Last(arrivalTimes) >= arrivalEvent
    BY <1>3 DEF OnTime
  <2> QED BY <1>1, <1>2, <1>6, <1>7, <1>8, <1>9, <2>1 DEF OnTime
<1>11. arrivalClock' \in Nat BY <1>1, <1>3
<1> QED BY <1>1, <1>4, <1>5, <1>10, <1>11 DEF ArrivalsInv

(* What is predicted of a period is what was measured when it ends, or one *)
(* entry more: the last.                                                   *)
LEMMA PeriodMeasured ==
  ASSUME ArrivalsInv, interArrivalTimes # <<>>, arrivalEvent = arrivalClock, newJobTimer # arrivalClock
  PROVE  /\ interArrivalStats \in Int \X Int
         /\ \/ predicted = interArrivalStats
            \/ newJobTimer = NoTimer /\ Last(arrivalTimes) >= arrivalClock - ArrivalPeriod
               /\ predicted = AddTo(interArrivalStats, Last(interArrivalTimes))
<1> DEFINE g == interArrivalTimes
           t == arrivalTimes
           k == nextArrivalIndex
           s == PeriodStart
<1>1. /\ OnTime /\ IsTrace(g, t) /\ Len(g) \in Nat \ {0} /\ Last(t) = t[Len(g)]
      /\ (\A i \in 1 .. Len(g) : t[i] \in Nat /\ g[i] \in Nat)
      /\ arrivalClock \in Nat /\ s \in Int /\ s + ArrivalPeriod = arrivalClock
  BY Running
<1>2. PICK p \in 1 .. k : BeganAt(p) BY DEF ArrivalsInv
<1>3. /\ k \in 1 .. Len(g) /\ \A i \in 1 .. Len(g) : i < k => t[i] <= s + ArrivalPeriod
  BY <1>1 DEF OnTime
<1>4. /\ predicted = SumOf(g, Within(t, p, s)) /\ interArrivalStats = SumOf(g, GoneBy(p, k))
      /\ t[p] >= s \/ (newJobTimer = NoTimer /\ p = k)
  BY <1>2 DEF BeganAt
<1>5. g \in Seq(Nat) /\ Last(g) = g[Len(g)] BY <1>1 DEF IsTrace, Last
<1>6. t[k] > s + ArrivalPeriod \/ Finished
  <2>1. CASE newJobTimer = t[k] /\ newJobTimer >= arrivalClock
    <3>1. t[k] \in Nat BY <1>1, <1>3
    <3> QED BY <1>1, <2>1, <3>1
  <2> QED BY <1>1, <2>1 DEF OnTime
<1>7. Finished => newJobTimer = NoTimer /\ k = Len(g) /\ t[Len(g)] <= s + ArrivalPeriod
  BY <1>1 DEF Finished
<1>8. newJobTimer # NoTimer \/ newJobTimer = NoTimer OBVIOUS
<1>9. s = arrivalClock - ArrivalPeriod BY <1>1, ArrivalsAssumption
<1>10. t[p] >= s \/ p = k BY <1>4
<1> HIDE DEF g, t, k, s
<1>11. SumOf(g, GoneBy(p, k))[1] \in Int /\ SumOf(g, GoneBy(p, k))[2] \in Int
       /\ SumOf(g, GoneBy(p, k + 1)) =
            IF k > 1 THEN AddTo(SumOf(g, GoneBy(p, k)), g[k]) ELSE SumOf(g, GoneBy(p, k))
  BY ONLY <1>2, <1>3, <1>5, OneMorePasses
<1>12. interArrivalStats \in Int \X Int
  <2>1. SumOf(g, GoneBy(p, k)) = <<SumFunctionOnSet(g, GoneBy(p, k)), Cardinality(GoneBy(p, k))>> BY DEF SumOf
  <2> QED BY <1>4, <1>11, <2>1
<1>13. CASE t[k] > s + ArrivalPeriod \/ (Finished /\ t[Len(g)] < s)
  <2>1. t[k] > s + ArrivalPeriod \/ (k = Len(g) /\ t[k] < s) BY <1>7, <1>13
  <2>2. Within(t, p, s) = GoneBy(p, k) BY ONLY <1>1, <1>2, <1>3, <1>10, <2>1, AllPassed
  <2> QED BY <1>4, <1>12, <2>2
<1>14. CASE Finished /\ ~(t[Len(g)] < s)
  <2>1. k = Len(g) /\ newJobTimer = NoTimer /\ t[Len(g)] <= s + ArrivalPeriod BY <1>7, <1>14
  <2>2. t[Len(g)] >= s
    <3>1. t[Len(g)] \in Nat BY <1>1
    <3> QED BY <1>1, <1>14, <3>1
  <2>3. p \in 1 .. Len(g) /\ (t[p] >= s \/ p = Len(g)) BY <1>2, <1>10, <2>1
  <2>4. Within(t, p, s) = GoneBy(p, Len(g) + 1) BY ONLY <1>1, <2>1, <2>2, <2>3, LastNotPassed
  <2>5. predicted = SumOf(g, GoneBy(p, k + 1)) BY <1>4, <2>1, <2>4
  <2>6. CASE k > 1
    <3>1. predicted = AddTo(interArrivalStats, g[k]) BY <1>4, <1>11, <2>5, <2>6
    <3>2. Last(t) >= arrivalClock - ArrivalPeriod BY <1>1, <1>9, <2>2
    <3> QED BY <1>5, <1>12, <2>1, <3>1, <3>2 DEF g, t
  <2>7. CASE ~(k > 1) BY <1>4, <1>11, <1>12, <2>5, <2>7
  <2> QED BY <2>6, <2>7
<1> QED BY <1>6, <1>13, <1>14

(* A period ends and the next one begins.                                  *)
LEMMA MeasurePeriodStep ==
  ASSUME ArrivalsInv, MeasurePeriod
  PROVE  /\ ArrivalsInv'
         /\ \/ Last(envRecord') = predicted
            \/ newJobTimer = NoTimer /\ Last(arrivalTimes) >= arrivalClock - ArrivalPeriod
               /\ predicted = AddTo(Last(envRecord'), Last(interArrivalTimes))
<1>1. /\ arrivalEvent = arrivalClock /\ newJobTimer # arrivalClock
      /\ envRecord' = Append(envRecord, interArrivalStats)
      /\ interArrivalStats' = Nothing
      /\ arrivalEvent' = arrivalClock + ArrivalPeriod
      /\ PredictPeriod(Source, nextArrivalIndex)
      /\ nextArrivalIndex' = nextArrivalIndex /\ newJobTimer' = newJobTimer
      /\ arrivalClock' = arrivalClock /\ firstArrival' = firstArrival /\ lastArrivalTime' = lastArrivalTime
  BY DEF MeasurePeriod
<1>2. interArrivalTimes # <<>>
  <2> SUFFICES ASSUME interArrivalTimes = <<>> PROVE FALSE OBVIOUS
  <2>1. arrivalClock = 0 /\ arrivalEvent = ArrivalPeriod BY DEF ArrivalsInv, NothingYet
  <2> QED BY <1>1, <2>1, ArrivalsAssumption
<1> DEFINE g == interArrivalTimes
           t == arrivalTimes
           h == interArrivalTimes'
           u == arrivalTimes'
           k == nextArrivalIndex
<1>3. /\ OnTime /\ IsTrace(g, t) /\ Len(g) \in Nat \ {0} /\ Last(t) = t[Len(g)]
      /\ (\A i \in 1 .. Len(g) : t[i] \in Nat /\ g[i] \in Nat)
      /\ arrivalClock \in Nat
  BY <1>2, Running
<1>4. timeInPeriod \in Nat \cup {NotRandom} /\ envRecord \in Seq(Int \X Int) BY DEF ArrivalsInv
<1>5. /\ Preloadable(Source) /\ Source.gaps = g /\ Source.times = t /\ Source.inPeriod = timeInPeriod
  BY <1>3, <1>4 DEF Preloadable, IsSource, Source
<1>6. /\ IsTrace(h, u) /\ Prolongs(g, t, h, u)
      /\ timeInPeriod' \in Nat \cup {NotRandom}
      /\ timeInPeriod' = NotRandom <=> timeInPeriod = NotRandom
      /\ timeInPeriod' = NotRandom => h = g /\ u = t
      /\ timeInPeriod' # NotRandom => h # <<>> /\ Last(u) >= arrivalClock + ArrivalPeriod
      /\ predicted' = SumOf(h, Within(u, k, arrivalClock))
  <2> DEFINE src == Source
  <2>1. PredictPeriod(src, k) /\ (src.inPeriod # NotRandom => src.gaps # <<>>) BY <1>1, <1>2, <1>5
  <2>2. Preloadable(src) /\ src.gaps = g /\ src.times = t /\ src.inPeriod = timeInPeriod BY <1>5
  <2> HIDE DEF src, g, t, h, u, k
  <2>3. /\ IsTrace(interArrivalTimes', arrivalTimes')
        /\ Prolongs(src.gaps, src.times, interArrivalTimes', arrivalTimes')
        /\ timeInPeriod' \in Nat \cup {NotRandom}
        /\ timeInPeriod' = NotRandom <=> src.inPeriod = NotRandom
        /\ timeInPeriod' = NotRandom => interArrivalTimes' = src.gaps /\ arrivalTimes' = src.times
        /\ timeInPeriod' # NotRandom =>
             interArrivalTimes' # <<>> /\ Last(arrivalTimes') >= arrivalClock + ArrivalPeriod
        /\ predicted' = SumOf(interArrivalTimes', Within(arrivalTimes', k, arrivalClock))
    BY <1>3, <2>1, <2>2, PredictPeriodIs
  <2> QED BY <2>2, <2>3 DEF h, u
<1>7. /\ k \in 1 .. Len(g) /\ firstArrival = (k = 1) /\ (k > 1 => lastArrivalTime = t[k - 1])
      /\ (\A i \in 1 .. Len(g) : i < k => t[i] <= arrivalClock)
      /\ (newJobTimer = t[k] /\ newJobTimer >= arrivalClock) \/ Finished
  BY <1>3 DEF OnTime
<1>8. PeriodStart' = arrivalClock
  <2>1. PeriodStart' = arrivalEvent' - ArrivalPeriod BY DEF PeriodStart
  <2> QED BY <1>1, <1>3, <2>1, ArrivalsAssumption
<1>9. \A i \in 1 .. Len(g) : h[i] = g[i] /\ u[i] = t[i] BY <1>6 DEF Prolongs
<1>10. Len(g) <= Len(h) /\ Len(h) \in Nat /\ h # <<>>
  <2>1. Len(g) <= Len(h) BY <1>6 DEF Prolongs
  <2>2. h \in Seq(Nat) BY <1>6 DEF IsTrace
  <2>3. h # <<>> BY <1>2, <1>6
  <2> HIDE DEF g, h
  <2> QED BY <2>1, <2>2, <2>3
<1>11. /\ Finished => newJobTimer = NoTimer /\ timeInPeriod = NotRandom /\ k = Len(g) /\ Last(t) <= arrivalClock
  BY DEF Finished
<1>12. (newJobTimer' = u[k] /\ newJobTimer' >= arrivalClock) \/ Finished'
  <2>1. CASE Finished
    <3>1. h = g /\ u = t /\ timeInPeriod' = NotRandom BY <1>6, <1>11, <2>1
    <3>2. newJobTimer' = NoTimer /\ nextArrivalIndex' = Len(h) /\ Last(u) <= arrivalClock'
      BY <1>1, <1>11, <2>1, <3>1
    <3> QED BY <3>1, <3>2 DEF Finished
  <2>2. CASE newJobTimer = t[k] /\ newJobTimer >= arrivalClock BY <1>1, <1>7, <1>9, <2>2
  <2> QED BY <1>7, <2>1, <2>2
<1>13. arrivalClock + ArrivalPeriod \in Nat /\ arrivalClock <= arrivalClock + ArrivalPeriod
  BY <1>3, ArrivalsAssumption
<1>14. k \in Nat \ {0} /\ k \in 1 .. Len(h) BY <1>3, <1>7, <1>10
<1>15. u[k] >= arrivalClock \/ newJobTimer' = NoTimer
  <2>1. CASE Finished BY <1>1, <1>11, <2>1
  <2>2. CASE newJobTimer = t[k] /\ newJobTimer >= arrivalClock BY <1>7, <1>9, <2>2
  <2> QED BY <1>7, <2>1, <2>2
<1> HIDE DEF g, t, h, u, k
<1>16. OnTime'
  <2>1. \A i \in 1 .. Len(h) : i < k => u[i] <= arrivalClock
    <3> TAKE i \in 1 .. Len(h)
    <3> HAVE i < k
    <3>1. i \in 1 .. Len(g) BY <1>3, <1>7, <1>14
    <3> QED BY <1>7, <1>9, <3>1
  <2>2. k > 1 => lastArrivalTime = u[k - 1]
    <3> HAVE k > 1
    <3>1. k - 1 \in 1 .. Len(g) BY <1>3, <1>7, <1>14
    <3> QED BY <1>7, <1>9, <3>1
  <2>3. PeriodStart' <= arrivalClock' /\ arrivalClock' <= arrivalEvent' BY <1>1, <1>3, <1>8, <1>13
  <2>4. timeInPeriod' # NotRandom => Last(arrivalTimes') >= arrivalEvent' BY <1>1, <1>6 DEF u
  <2>5. firstArrival' = (nextArrivalIndex' = 1) BY <1>1, <1>7 DEF k
  <2>6. nextArrivalIndex' \in 1 .. Len(interArrivalTimes') BY <1>1, <1>14 DEF h, k
  <2>7. \/ newJobTimer' = arrivalTimes'[nextArrivalIndex'] /\ newJobTimer' >= arrivalClock'
        \/ Finished'
    BY <1>1, <1>12 DEF u, k
  <2>8. nextArrivalIndex' > 1 => lastArrivalTime' = arrivalTimes'[nextArrivalIndex' - 1]
    BY <1>1, <2>2 DEF u, k
  <2>9. \A i \in 1 .. Len(interArrivalTimes') : i < nextArrivalIndex' => arrivalTimes'[i] <= arrivalClock'
    BY <1>1, <2>1 DEF u, k, h
  <2> QED BY ONLY <2>3, <2>4, <2>5, <2>6, <2>7, <2>8, <2>9 DEF OnTime
<1>17. PICK q \in Nat : q = k BY <1>14
<1>18. BeganAt(q)' /\ q \in 1 .. nextArrivalIndex'
  <2>1. interArrivalStats' = SumOf(h, GoneBy(q, q)) BY <1>1, <1>17, NothingPassed
  <2>2. nextArrivalIndex' = q BY <1>1, <1>17 DEF k
  <2>3. predicted' = SumOf(interArrivalTimes', Within(arrivalTimes', q, PeriodStart'))
    BY <1>6, <1>8, <1>17 DEF h, u
  <2>4. interArrivalStats' = SumOf(interArrivalTimes', GoneBy(q, nextArrivalIndex')) BY <2>1, <2>2 DEF h
  <2>5. arrivalTimes'[q] >= PeriodStart' \/ (newJobTimer' = NoTimer /\ q = nextArrivalIndex')
    BY <1>8, <1>15, <1>17, <2>2 DEF u
  <2>6. q \in 1 .. nextArrivalIndex' BY <1>14, <1>17, <2>2
  <2> QED BY <2>3, <2>4, <2>5, <2>6 DEF BeganAt
<1>19. /\ interArrivalStats \in Int \X Int
       /\ \/ predicted = interArrivalStats
          \/ newJobTimer = NoTimer /\ Last(arrivalTimes) >= arrivalClock - ArrivalPeriod
             /\ predicted = AddTo(interArrivalStats, Last(interArrivalTimes))
  BY <1>1, <1>2, PeriodMeasured
<1>20. envRecord' \in Seq(Int \X Int) /\ Last(envRecord') = interArrivalStats
  <2>1. Append(envRecord, interArrivalStats) \in Seq(Int \X Int) BY <1>4, <1>19
  <2>2. Last(Append(envRecord, interArrivalStats)) = interArrivalStats BY <1>4, <1>19 DEF Last
  <2> QED BY <1>1, <2>1, <2>2
<1>21. ArrivalsInv'
  <2>1. arrivalClock' \in Nat /\ arrivalEvent' \in Nat BY <1>1, <1>3, <1>13
  <2> QED BY <1>6, <1>10, <1>16, <1>18, <1>20, <2>1 DEF ArrivalsInv, h, u
<1> QED BY <1>19, <1>20, <1>21

(* The record only grows when a period is measured.                        *)
AsPredicted ==
  Len(envRecord') > Len(envRecord) =>
    \/ Last(envRecord') = predicted
    \/ newJobTimer = NoTimer /\ Last(arrivalTimes) >= arrivalClock - ArrivalPeriod
       /\ predicted = AddTo(Last(envRecord'), Last(interArrivalTimes))

(* Every step.                                                             *)
LEMMA ArrivalsStep ==
  ASSUME ArrivalsInv, [ArrivalsNext]_arrivalsVars
  PROVE  ArrivalsInv' /\ AsPredicted
<1>1. envRecord' = envRecord => AsPredicted
  <2>1. Len(envRecord) \in Nat BY DEF ArrivalsInv
  <2> QED BY <2>1 DEF AsPredicted
<1>2. CASE UNCHANGED arrivalsVars
  <2>1. /\ newJobTimer' = newJobTimer
        /\ interArrivalTimes' = interArrivalTimes /\ arrivalTimes' = arrivalTimes
        /\ timeInPeriod' = timeInPeriod /\ nextArrivalIndex' = nextArrivalIndex
        /\ arrivalClock' = arrivalClock /\ firstArrival' = firstArrival /\ lastArrivalTime' = lastArrivalTime
        /\ interArrivalStats' = interArrivalStats
        /\ arrivalEvent' = arrivalEvent /\ envRecord' = envRecord /\ predicted' = predicted
    BY <1>2 DEF arrivalsVars, sourceVars, traceVars, monitorVars, recordVars
  <2>2. PeriodStart' = PeriodStart BY <2>1 DEF PeriodStart
  <2>3. OnTime' = OnTime BY <2>1, <2>2 DEF OnTime, Finished
  <2>4. NothingYet' = NothingYet BY <2>1 DEF NothingYet
  <2>5. ASSUME NEW p PROVE BeganAt(p)' <=> BeganAt(p) BY <2>1, <2>2 DEF BeganAt
  <2>6. ArrivalsInv'
    <3>1. CASE interArrivalTimes = <<>> BY <2>1, <2>4, <3>1 DEF ArrivalsInv
    <3>2. CASE interArrivalTimes # <<>>
      <4>1. PICK p \in 1 .. nextArrivalIndex : BeganAt(p) BY <3>2 DEF ArrivalsInv
      <4>2. BeganAt(p)' /\ OnTime' BY <2>3, <2>5, <3>2, <4>1 DEF ArrivalsInv
      <4> QED BY <2>1, <3>2, <4>1, <4>2 DEF ArrivalsInv
    <3> QED BY <3>1, <3>2
  <2> QED BY <1>1, <2>1, <2>6
<1>3. ASSUME NEW src, Preloadable(src), src.inPeriod # NotRandom => src.gaps # <<>>, Preload(src)
      PROVE  ArrivalsInv' /\ AsPredicted
  <2>1. envRecord' = envRecord BY <1>3 DEF Preload
  <2>2. ArrivalsInv' BY <1>3, PreloadStep
  <2> QED BY <1>1, <2>1, <2>2
<1>4. ASSUME NEW n \in 1 .. TraceLength, NEW gaps \in [1 .. n -> InterArrival], Preload(FromTimes(gaps))
      PROVE  ArrivalsInv' /\ AsPredicted
  <2>1. gaps \in Seq(Nat)
    <3>1. n \in Nat BY ArrivalsAssumption
    <3>2. \A i \in 1 .. n : gaps[i] \in Nat BY ArrivalsAssumption
    <3>3. gaps \in [1 .. n -> Nat] BY <3>2
    <3> QED BY <3>1, <3>3
  <2>2. Preloadable(FromTimes(gaps)) /\ FromTimes(gaps).inPeriod = NotRandom
    BY <2>1, FromTimesIs, GeneratedIs DEF FromTimes
  <2> QED BY <1>3, <1>4, <2>2
<1>5. ASSUME NEW rl \in RateLine \X RateLine, Preload(FromRates(rl))
      PROVE  ArrivalsInv' /\ AsPredicted
  <2>1. Preloadable(FromRates(rl)) BY FromRatesIs
  <2>2. FromRates(rl).inPeriod = NotRandom BY DEF FromRates, FromTimes, Generated
  <2> QED BY <1>3, <1>5, <2>1, <2>2
<1>6. ASSUME NEW src \in GenerateArrival(RandomSource), Preload(src)
      PROVE  ArrivalsInv' /\ AsPredicted
  <2>1. Preloadable(src) /\ src.gaps # <<>> BY RandomSourceIs
  <2> QED BY <1>3, <1>6, <2>1
<1>7. CASE NewJob
  <2>1. envRecord' = envRecord BY <1>7 DEF NewJob, recordVars
  <2> QED BY <1>1, <1>7, <2>1, NewJobStep
<1>8. CASE SourceFinished
  <2>1. envRecord' = envRecord BY <1>8 DEF SourceFinished, recordVars
  <2> QED BY <1>1, <1>8, <2>1, SourceFinishedStep
<1>9. CASE MeasurePeriod BY <1>9, MeasurePeriodStep DEF AsPredicted
<1>10. CASE ArrivalTick
  <2>1. envRecord' = envRecord BY <1>10 DEF ArrivalTick, recordVars
  <2> QED BY <1>1, <1>10, <2>1, ArrivalTickStep
<1> QED BY <1>2, <1>4, <1>5, <1>6, <1>7, <1>8, <1>9, <1>10 DEF ArrivalsNext

(* Whatever the trace, the rates or the draws, and however the arrivals    *)
(* fall on the ends of the periods: what is predicted of a period when it  *)
(* begins is what is measured of it when it ends, except for the last      *)
(* entry of a trace, whose job is never created (PredictableSource.cc:198).*)
THEOREM PredictionTheorem == PartsSpec => PredictionComesTrue
<1>1. PartsInit => ArrivalsInv
  BY ArrivalsInitially DEF PartsInit
<1>2. ArrivalsInv /\ [PartsNext]_partsVars => ArrivalsInv' /\ [AsPredicted]_arrivalsVars
  <2>1. [PartsNext]_partsVars => [ArrivalsNext]_arrivalsVars
    BY DEF PartsNext, partsVars, OnlyPart
  <2> QED BY <2>1, ArrivalsStep
<1>3. PartsSpec => [][AsPredicted]_arrivalsVars
  BY <1>1, <1>2, PTL DEF PartsSpec
<1> QED
  BY <1>3, PTL DEF PredictionComesTrue, AsPredicted

=============================================================================
