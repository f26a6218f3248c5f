------------------------------- MODULE JobFamily -------------------------------
(***************************************************************************)
(* Jobs and their relatives in queueinglib: Fork sends sub-jobs out and    *)
(* keeps the job until Join has all of them, Clone sends copies, any       *)
(* module with a full queue may delete a job, and each job is in the list  *)
(* of JobList while it exists.                                             *)
(*                                                                         *)
(* The destructor of a job calls its parent, its children and the list, so *)
(* the handlers are composed of functions on the whole state.  Any job may *)
(* be routed to the Join; one without a parent fails its assertion.        *)
(***************************************************************************)
EXTENDS Integers, SequencesExt, FiniteSetsExt

CONSTANTS
  JobId,     \* 1, 2, ...: the jobs that can exist at a time
  ForkGates, \* gateSize("out") of Fork
  CloneGates \* gateSize("out") of Clone

ASSUME FamilyAssumption ==
  /\ JobId \subseteq Nat \ {0} /\ IsFiniteSet(JobId)
  /\ ForkGates \in Nat \ {0} /\ CloneGates \in Nat

VARIABLES
  jobPlace,    \* where a job is: "none", "moving", "forked" or "joined"
  parentOf,    \* parent, or NoJob
  childrenOf,  \* children
  generation,  \* generation, up to 1
  listed,      \* [job -> BOOLEAN]: whether its jobList is not null
  jobList,     \* the jobs of JobList, or NoList after its destructor
  familyAssert,\* whether an assertion has failed
  strayJoined, \* jobs that have failed the assertion of Join
  orphaned,    \* history: forked jobs whose family a deletion has completed
  subJobs      \* history: the jobs that exist and were made by Fork

familyVars == <<jobPlace, parentOf, childrenOf, generation, listed, jobList,
                familyAssert, strayJoined, orphaned, subJobs>>

NoJob == 0
NoList == {NoJob}

FamilyInit ==
  /\ jobPlace = [j \in JobId |-> "none"]
  /\ parentOf = [j \in JobId |-> NoJob]
  /\ childrenOf = [j \in JobId |-> <<>>]
  /\ generation = [j \in JobId |-> 0]
  /\ listed = [j \in JobId |-> FALSE]
  /\ jobList = {} /\ familyAssert = FALSE /\ strayJoined = {}
  /\ orphaned = {} /\ subJobs = {}

Family == [place |-> jobPlace, parent |-> parentOf, children |-> childrenOf,
           gen |-> generation, listed |-> listed, list |-> jobList, failed |-> familyAssert]

FamilyBecomes(s) ==
  /\ jobPlace' = s.place /\ parentOf' = s.parent /\ childrenOf' = s.children
  /\ generation' = s.gen /\ listed' = s.listed /\ jobList' = s.list
  /\ familyAssert' = s.failed

(* A failed assertion ends the run.                                        *)
FamilyRuns == strayJoined = {}

(* The jobs made by Fork, with those it makes of free ones.                *)
SubJobsAre(free) == subJobs' = {k \in subJobs \cup free : jobPlace'[k] # "none"}

FreeJobs(s) == {j \in JobId : s.place[j] = "none"}

(* The constructors: a new job has no relatives and registers itself.  A   *)
(* copy (g its generation) takes the list of its original.                 *)
Construct(s, j, g, register) ==
  [s EXCEPT !.place[j] = "moving", !.parent[j] = NoJob, !.children[j] = <<>>, !.gen[j] = g,
            !.listed[j] = register, !.list = IF register THEN @ \cup {j} ELSE @]

(* dup and addChild.                                                       *)
DupAsChild(s, j, parent) ==
  LET s1 == Construct(s, j, s.gen[parent], s.listed[parent])
  IN  [s1 EXCEPT !.parent[j] = parent, !.children[parent] = Append(@, j),
                 !.failed = @ \/ Contains(s.children[parent], j)]

(* ~Job: childDeleted at the parent, parentDeleted at each child, and      *)
(* deregisterJob, with the assertions of the first and the last.           *)
DeleteJob(s, j) ==
  LET p == s.parent[j] IN
  [s EXCEPT !.place[j] = "none", !.gen[j] = 0, !.listed[j] = FALSE,
            !.children = [k \in JobId |-> IF k = j THEN <<>>
                                          ELSE IF k = p THEN RemoveFirst(@[k], j) ELSE @[k]],
            !.parent = [k \in JobId |-> IF k = j \/ Contains(s.children[j], k) THEN NoJob ELSE @[k]],
            !.list = IF s.listed[j] THEN @ \ {j} ELSE @,
            !.failed = @ \/ (p # NoJob /\ ~Contains(s.children[p], j))
                         \/ (s.listed[j] /\ j \notin s.list)]

(* All sub-jobs of p that exist are in the Join.                           *)
FamilyComplete(s, p) == \A i \in DOMAIN s.children[p] : s.place[s.children[p][i]] = "joined"

(* Job j is deleted outside the Join.                                      *)
DeletedOnTheWay(j) ==
  /\ FamilyBecomes(DeleteJob(Family, j))
  /\ orphaned' = IF parentOf[j] # NoJob /\ FamilyComplete(DeleteJob(Family, j), parentOf[j])
                 THEN orphaned \cup {parentOf[j]} ELSE orphaned

NewFamilyJob ==
  /\ FamilyRuns /\ FreeJobs(Family) # {}
  /\ FamilyBecomes(Construct(Family, Min(FreeJobs(Family)), 0, jobList # NoList))
  /\ SubJobsAre({}) /\ UNCHANGED <<orphaned, strayJoined>>

Fork(j) ==
  /\ FamilyRuns /\ jobPlace[j] = "moving" /\ Cardinality(FreeJobs(Family)) >= ForkGates
  /\ FamilyBecomes(FoldLeft(LAMBDA s, i : DupAsChild(s, Min(FreeJobs(s)), j),
                            [Family EXCEPT !.place[j] = "forked"],
                            [i \in 1 .. ForkGates |-> i]))
  /\ SubJobsAre(FreeJobs(Family)) /\ UNCHANGED <<orphaned, strayJoined>>

(* Clone::handleMessage: the job itself leaves by the last gate, or is     *)
(* deleted if there is none.                                               *)
CloneJob(j) ==
  /\ FamilyRuns /\ jobPlace[j] = "moving" /\ generation[j] = 0
  /\ Cardinality(FreeJobs(Family)) >= CloneGates - 1
  /\ IF CloneGates = 0 THEN DeletedOnTheWay(j)
     ELSE /\ FamilyBecomes(FoldLeft(LAMBDA s, i : Construct(s, Min(FreeJobs(s)), 1, listed[j]),
                                    [Family EXCEPT !.gen[j] = 1],
                                    [i \in 1 .. CloneGates - 1 |-> i]))
          /\ UNCHANGED orphaned
  /\ SubJobsAre({}) /\ UNCHANGED strayJoined

(* A sink, or a module whose queue is full.                                *)
JobDeleted(j) ==
  /\ FamilyRuns /\ jobPlace[j] = "moving" /\ DeletedOnTheWay(j)
  /\ SubJobsAre({}) /\ UNCHANGED strayJoined

(* The sub-jobs of p that are held: jobsHeld is searched for them.  They   *)
(* have no relatives but p, so the order they are deleted in is not seen.  *)
SubJobsHeld(s, p) == {k \in JobId : s.place[k] = "joined" /\ s.parent[k] = p}

(* With enough sub-jobs of p held they are deleted and p is sent on.       *)
Joined(s, p, enough) ==
  LET held == SubJobsHeld(s, p)
  IN  IF Cardinality(held) # enough THEN s
      ELSE [FoldLeft(DeleteJob, s, SetToSeq(held)) EXCEPT !.place[p] = "moving"]

(* Seeded fault: as many sub-jobs are expected as were sent.               *)
JoinReceivesAll(j) ==
  /\ FamilyRuns /\ jobPlace[j] = "moving"
  /\ strayJoined' = IF parentOf[j] = NoJob THEN {j} ELSE {}
  /\ LET s == [Family EXCEPT !.place[j] = "joined"]
     IN  FamilyBecomes(IF parentOf[j] = NoJob THEN s ELSE Joined(s, parentOf[j], ForkGates))
  /\ SubJobsAre({}) /\ UNCHANGED orphaned

(* Join::handleMessage stores the job and asserts that its parent still    *)
(* exists; as many sub-jobs are enough as the parent has children.         *)
JoinReceives(j) ==
  /\ FamilyRuns /\ jobPlace[j] = "moving"
  /\ strayJoined' = IF parentOf[j] = NoJob THEN {j} ELSE {}
  /\ LET s == [Family EXCEPT !.place[j] = "joined"]
         p == parentOf[j]
     IN  FamilyBecomes(IF p = NoJob THEN s ELSE Joined(s, p, Len(s.children[p])))
  /\ SubJobsAre({}) /\ UNCHANGED orphaned

(* ~JobList: the jobs that are left forget it.                             *)
JobListDeleted ==
  /\ FamilyRuns /\ jobList # NoList
  /\ jobList' = NoList
  /\ listed' = [j \in JobId |-> FALSE]
  /\ UNCHANGED <<jobPlace, parentOf, childrenOf, generation, familyAssert, strayJoined, orphaned>>
  /\ SubJobsAre({})

FamilyNext ==
  \/ NewFamilyJob
  \/ \E j \in JobId : Fork(j) \/ CloneJob(j) \/ JobDeleted(j) \/ JoinReceives(j)
  \/ JobListDeleted

(***************************************************************************)
(* Properties                                                              *)
(***************************************************************************)

(* Whoever is deleted in whatever order, parents and children agree on     *)
(* each other and none of them is gone, the list holds the jobs that exist *)
(* (the assertions of Job.cc:85, 97 and JobList.cc:53), the parent of a job*)
(* that Fork made still exists when it comes to the Join (Join.cc:40; it   *)
(* does not for other jobs, copies of sub-jobs among them), and a job is   *)
(* kept in the Fork only for a sub-job that is still to come: unless the   *)
(* last of them was deleted on the way, for which Join::handleMessage never*)
(* runs, and the job is kept for ever.                                     *)
FamilyIsSound ==
  /\ ~familyAssert /\ strayJoined \cap subJobs = {}
  /\ \A j \in JobId : /\ IsInjective(childrenOf[j])
                      /\ \A k \in JobId : Contains(childrenOf[j], k) <=> parentOf[k] = j
                      /\ childrenOf[j] # <<>> => jobPlace[j] = "forked"
                      /\ parentOf[j] # NoJob => jobPlace[j] # "none"
  /\ jobList # NoList => jobList = {j \in JobId : jobPlace[j] # "none"}
  /\ \A j \in JobId : jobPlace[j] = "forked" /\ FamilyComplete(Family, j) => j \in orphaned

=============================================================================
