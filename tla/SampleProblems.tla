---------------------------- MODULE SampleProblems ----------------------------
(***************************************************************************)
(* The collection of solved planning problems (DumpPlanningProblems in     *)
(* Utils.cc).  Each run of the simulation that collects them is a process; *)
(* the runs share a directory.  For every problem a run makes a directory  *)
(* with the files of the fast and of the slow planner, and appends a row   *)
(* to ClassifierTest.csv, after the header if it has not written one.  A   *)
(* run may fail to make a directory, and may end at any point.             *)
(*                                                                         *)
(* A file is the plan that it was copied from, or Empty: a copy of a file  *)
(* that does not exist is an empty file, and no error.  The planners are   *)
(* not in src/; each leaves all its files or some.  The buffer of the      *)
(* stream holds a header and a row, which one write appends at the end.    *)
(***************************************************************************)
EXTENDS Integers, SequencesExt, FiniteSetsExt

CONSTANTS
  Process,          \* the runs that share the directory
  RateCount,        \* lengths of arrivalRates
  MaxPlans,         \* bound on the problems that are solved
  MaxRestarts       \* bound on the restarts of runs

ASSUME SampleAssumption ==
  RateCount \subseteq Nat /\ MaxPlans \in Nat /\ MaxRestarts \in Nat

VARIABLES
  planner,       \* [process -> [plan, files]]: what the planners have left
  plans,         \* number of problems solved
  step,          \* [process -> what copySampleProblems does next, or "none"]
  path,          \* [process -> its directory]
  headerWritten, \* headerWritten of each process
  directories,   \* [number of a directory -> its files]
  lines,         \* the lines of ClassifierTest.csv
  restarts       \* number of restarts

sampleVars == <<planner, plans, step, path, headerWritten, directories, lines, restarts>>

Empty == 0
SpecFile == "ttimemodel.prism"
FastFiles == {SpecFile, "result.adv", "result.sta", "result.lab"}

SampleInit ==
  /\ planner = [p \in Process |-> [plan |-> 0, files |-> {}]]
  /\ plans = 0
  /\ step = [p \in Process |-> "none"]
  /\ path = [p \in Process |-> 0]
  /\ headerWritten = [p \in Process |-> FALSE]
  /\ directories = <<>>
  /\ lines = <<>>
  /\ restarts = 0

(* copyFile of one of the planner's files of p.                            *)
CopyFile(p, file) == IF file \in planner[p].files THEN planner[p].plan ELSE Empty

CopyFileFromFast(p) == [file \in FastFiles |-> CopyFile(p, file)]
CopyFileFromSlow(p) == [file \in {SpecFile} |-> CopyFile(p, file)]

(* writeHeader: the columns for the files, the state, RA 1 to RA 20, and   *)
(* the prediction.                                                         *)
HeaderColumns == 4 + 11 + 20 + 2

(* writeInitialStateVariables: dimmer, the three counts, the three states, *)
(* the three shares and the response time.                                 *)
StateColumns == 1 + 3 + 3 + 3 + 1

Goes(p, from, to) == step[p] = from /\ step' = [step EXCEPT ![p] = to]

(* The planners solve a problem, and copySampleProblems is called for it.  *)
CopySampleProblems(p, files) ==
  /\ plans < MaxPlans /\ plans' = plans + 1
  /\ Goes(p, "none", "parent")
  /\ planner' = [planner EXCEPT ![p] = [plan |-> plans', files |-> files]]
  /\ UNCHANGED <<path, headerWritten, directories, lines, restarts>>

(* createTempDirectory finds a name that nobody has.                       *)
CreateTempDirectory(p) ==
  /\ Goes(p, "parent", "fast")
  /\ directories' = Append(directories, [made |-> {}, fast |-> <<>>, slow |-> <<>>])
  /\ path' = [path EXCEPT ![p] = Len(directories')]
  /\ UNCHANGED <<planner, plans, headerWritten, lines, restarts>>

CreateDirectory(p, name, next) ==
  /\ Goes(p, name, next)
  /\ directories' = [directories EXCEPT ![path[p]].made = @ \cup {name}]
  /\ UNCHANGED <<planner, plans, path, headerWritten, lines, restarts>>

(* mkdtemp or mkdir fails, and the call ends with an exception.            *)
CannotCreate(p) ==
  /\ step[p] \in {"parent", "fast", "slow"}
  /\ step' = [step EXCEPT ![p] = "none"]
  /\ UNCHANGED <<planner, plans, path, headerWritten, directories, lines, restarts>>

CopyFast(p, next) ==
  /\ Goes(p, "copyFast", next)
  /\ directories' = [directories EXCEPT ![path[p]].fast = CopyFileFromFast(p)]
  /\ UNCHANGED <<planner, plans, path, headerWritten, lines, restarts>>

CopySlow(p, next) ==
  /\ Goes(p, "copySlow", next)
  /\ directories' = [directories EXCEPT ![path[p]].slow = CopyFileFromSlow(p)]
  /\ UNCHANGED <<planner, plans, path, headerWritten, lines, restarts>>

(* writeData                                                               *)
WriteData(p, rates, next) ==
  /\ Goes(p, "data", next)
  /\ LET row == [by |-> p, directory |-> path[p], plan |-> planner[p].plan,
                 files |-> planner[p].files, columns |-> 4 + StateColumns + rates + 1]
         header == [by |-> p, directory |-> 0, columns |-> HeaderColumns]
     IN  lines' = lines \o (IF headerWritten[p] THEN <<row>> ELSE <<header, row>>)
  /\ headerWritten' = [headerWritten EXCEPT ![p] = TRUE]
  /\ UNCHANGED <<planner, plans, path, directories, restarts>>

(* Seeded fault: the row is written before the files are there.            *)
SampleStepDataFirst(p) ==
  \/ CreateTempDirectory(p)
  \/ CreateDirectory(p, "fast", "slow")
  \/ CreateDirectory(p, "slow", "data")
  \/ \E rates \in RateCount : WriteData(p, rates, "copyFast")
  \/ CopyFast(p, "copySlow")
  \/ CopySlow(p, "none")

(* copySampleProblems in its order.                                        *)
SampleStep(p) ==
  \/ CreateTempDirectory(p)
  \/ CreateDirectory(p, "fast", "slow")
  \/ CreateDirectory(p, "slow", "copyFast")
  \/ CopyFast(p, "copySlow")
  \/ CopySlow(p, "data")
  \/ \E rates \in RateCount : WriteData(p, rates, "none")

(* The run ends, and one with the same name begins.                        *)
ProcessRestarts(p) ==
  /\ restarts < MaxRestarts /\ restarts' = restarts + 1
  /\ step' = [step EXCEPT ![p] = "none"]
  /\ headerWritten' = [headerWritten EXCEPT ![p] = FALSE]
  /\ UNCHANGED <<planner, plans, path, directories, lines>>

SampleNext ==
  \E p \in Process :
    \/ \E files \in {FastFiles, FastFiles \ {"result.lab"}} : CopySampleProblems(p, files)
    \/ SampleStep(p)
    \/ CannotCreate(p)
    \/ ProcessRestarts(p)

(***************************************************************************)
(* Properties                                                              *)
(***************************************************************************)

Rows == {i \in DOMAIN lines : lines[i].directory # 0}

(* Wherever runs fail, end or get between each other, each row of          *)
(* ClassifierTest.csv names a directory of its own that has the files of   *)
(* its problem, all of them, and empty ones only for files that the planner*)
(* has not left; the last header of its run is before it; and it fills the *)
(* columns of the header when 21 arrival rates are given (20 of the past   *)
(* and the prediction).                                                    *)
SamplesAreWhole ==
  \A i \in Rows :
    LET row == lines[i]
        kept == directories[row.directory]
    IN  /\ kept.made = {"fast", "slow"}
        /\ DOMAIN kept.fast = FastFiles /\ DOMAIN kept.slow = {SpecFile}
        /\ \A file \in FastFiles :
             kept.fast[file] = IF file \in row.files THEN row.plan ELSE Empty
        /\ kept.slow[SpecFile] = row.plan
        /\ \A j \in Rows : lines[j].directory = row.directory => i = j
        /\ \E j \in 1 .. i - 1 : lines[j].directory = 0 /\ lines[j].by = row.by
        /\ row.columns - HeaderColumns \in {rates - 21 : rates \in RateCount}

(***************************************************************************)
(* The inductive invariant behind SamplesAreWhole.                         *)
(***************************************************************************)

Directory == [made: SUBSET {"fast", "slow"},
              fast: {<<>>} \cup [FastFiles -> Nat],
              slow: {<<>>} \cup [{SpecFile} -> Nat]]
Header == [by: Process, directory: {0}, columns: Nat]
Row == [by: Process, directory: Nat \ {0}, plan: Nat, files: SUBSET FastFiles, columns: Nat]

SampleTypeOK ==
  /\ planner \in [Process -> [plan: Nat, files: SUBSET FastFiles]]
  /\ plans \in Nat
  /\ step \in [Process -> {"none", "parent", "fast", "slow", "copyFast", "copySlow", "data"}]
  /\ path \in [Process -> Nat]
  /\ headerWritten \in [Process -> BOOLEAN]
  /\ directories \in Seq(Directory)
  /\ lines \in Seq(Header \cup Row)

(* p has a directory and works on it.                                      *)
Fills(p) == step[p] \notin {"none", "parent"}

(* What is in the directory of p follows from the step p has reached.      *)
HasFilled(p) ==
  /\ path[p] \in DOMAIN directories
  /\ step[p] = "fast" => directories[path[p]].made = {}
  /\ step[p] = "slow" => directories[path[p]].made = {"fast"}
  /\ step[p] \notin {"fast", "slow"} => directories[path[p]].made = {"fast", "slow"}
  /\ step[p] \in {"copySlow", "data"} => directories[path[p]].fast = CopyFileFromFast(p)
  /\ step[p] = "data" => directories[path[p]].slow = CopyFileFromSlow(p)

(* No row names the directory of p, and no other process works on it.      *)
FillsAlone(p) ==
  /\ \A i \in Rows : lines[i].directory # path[p]
  /\ \A q \in Process \ {p} : Fills(q) => path[q] # path[p]

FillsItsOwn == \A p \in Process : Fills(p) => HasFilled(p) /\ FillsAlone(p)

RowsHaveDirectories == \A i \in Rows : lines[i].directory \in DOMAIN directories
PlansHaveSpec == \A p \in Process : step[p] # "none" => SpecFile \in planner[p].files

HeadersAreThere ==
  \A p \in Process : headerWritten[p] =>
    \E j \in DOMAIN lines : lines[j].directory = 0 /\ lines[j].by = p

SampleInv ==
  /\ SampleTypeOK
  /\ FillsItsOwn
  /\ RowsHaveDirectories
  /\ PlansHaveSpec
  /\ HeadersAreThere
  /\ SamplesAreWhole

=============================================================================
