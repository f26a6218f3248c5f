---------------------------- MODULE LoadBalancer ----------------------------
(***************************************************************************)
(* The load balancer (src/src/modules/HPLoadBalancer.cc) with the routing  *)
(* algorithm of the network, probDist: one random draw per job, compared   *)
(* with the traffic shares of the run-time model.                          *)
(*                                                                         *)
(* The shares are quarters, so a draw u of (0, 1) is modelled by the       *)
(* quarter it falls in: n in 1..4 stands for u in ((n-1)/4, n/4], and 0    *)
(* for u = 0 exactly.                                                      *)
(***************************************************************************)
EXTENDS ExecutionManager

CONSTANT Draw     \* the draws a run considers

ASSUME DrawAssumption == Draw \subseteq 0 .. 4

(* Seeded fault: the share of B is compared as if A's were not below it.   *)
TakesWithoutOffset(t, u) ==
  CASE t = "A" -> u <= traffic["A"]
    [] t = "B" -> u <= traffic["B"]
    [] t = "C" -> u > traffic["A"] + traffic["B"]

(* Seeded fault: C takes what A leaves.                                    *)
TakesIgnoringB(t, u) ==
  CASE t = "A" -> u <= traffic["A"]
    [] t = "B" -> traffic["A"] < u /\ u <= traffic["A"] + traffic["B"]
    [] t = "C" -> u > traffic["A"]

(* The condition of getOutIndex on the type of the server at a gate.  The  *)
(* share of C is never read: C takes what A and B leave.                   *)
Takes(t, u) ==
  CASE t = "A" -> u <= traffic["A"]
    [] t = "B" -> traffic["A"] < u /\ u <= traffic["A"] + traffic["B"]
    [] t = "C" -> u > traffic["A"] + traffic["B"]

Candidates(u) == {m \in Connected : Takes(typeOf[m], u)}

(* getOutIndex: the first connected gate whose server qualifies.           *)
IsOutServer(m, u) ==
  /\ m \in Candidates(u)
  /\ \A n \in Candidates(u) : outGate[m] <= outGate[n]

(* handleMessage: pass the job on, or end the run with an error.           *)
Route(u) == \E m \in Connected : IsOutServer(m, u) /\ JobArrives(m)

RouteFails(u) == Running /\ Started /\ Candidates(u) = {} /\ Abort("no output gate")

=============================================================================
