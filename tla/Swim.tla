-------------------------------- MODULE Swim --------------------------------
(***************************************************************************)
(* The execution manager, the run-time model and the load balancer         *)
(* together (SwimExtention.ned), under one of two clients: one that runs   *)
(* one adaptation at a time and diverts the traffic away from a server     *)
(* before it removes it, as examples/simple_am does, or one that may issue *)
(* any command at any time.                                                *)
(***************************************************************************)
EXTENDS LoadBalancer, ManagerInvariant

VARIABLE client    \* "diverting" or "any"

(* The fifteen diversions of cmdDivertTraffic share out all the traffic.   *)
ASSUME DiversionAssumption ==
  \A load \in TrafficChoice : load["A"] + load["B"] + load["C"] = 4

(* What the client may count on: the active servers it did not ask to      *)
(* remove.                                                                 *)
Remaining(t) ==
  active[t] - (IF removing # NoServer /\ typeOf[removing] = t THEN 1 ELSE 0)

SendsToRemaining(load) == \A t \in Type : load[t] > 0 => Remaining(t) > 0

DivertingRemove(t) ==
  /\ SerialRemove(t)
  /\ bootType = t \/ traffic[t] = 0 \/ active[t] > 1

(* What the system does by itself, with the given draws.                   *)
ServiceNext(draws) ==
  \/ \E t \in Type : StartServer(t)
  \/ \E m \in Id : BootComplete(m)
  \/ \E m \in Id : BootCompleteFails(m)
  \/ CompleteRemoval
  \/ \E m \in Id : JobEnters(m)
  \/ \E m \in Id : JobRequested(m)
  \/ \E m \in Id : LastJobEnds(m)
  \/ \E m \in Id : LastJobTimesOut(m)
  \/ \E u \in draws : Route(u)
  \/ \E u \in draws : RouteFails(u)

(* The client that diverts the traffic.  A draw of exactly 0 goes to A,    *)
(* whatever its share is: it is left out here.                             *)
DivertingNext ==
  \/ ServiceNext(Draw \ {0})
  \/ \E t \in Type : SerialAdd(t) /\ AddCommand(t)
  \/ \E t \in Type : DivertingRemove(t) /\ RemoveCommand(t)
  \/ \E load \in TrafficChoice : SendsToRemaining(load) /\ DivertTraffic(load)

(* A client that may issue any command at any time.                        *)
AnyNext ==
  \/ ServiceNext(Draw)
  \/ SetCommand
  \/ \E t \in Type : AddCommand(t)
  \/ \E t \in Type : RemoveCommand(t)

SwimInit == Init /\ client \in {"diverting", "any"}

SwimNext ==
  /\ \/ client = "diverting" /\ DivertingNext
     \/ client = "any" /\ AnyNext
  /\ UNCHANGED client

swimVars == <<vars, client>>

SwimSpec == SwimInit /\ [][SwimNext]_swimVars

(* For the client that diverts the traffic, every draw of the load         *)
(* balancer finds a server, whatever is booting, draining or just gone:    *)
(* shares are kept by type in the model, gates by module in the network.   *)
EveryDrawFindsServer ==
  client = "diverting" /\ Started => \A u \in Draw \ {0} : Candidates(u) # {}

(* For this client a type whose share is ZERO gets no job.                 *)
ShareIsRespected ==
  [][client = "diverting" => \A m \in busy' \ busy : traffic[typeOf[m]] > 0]_swimVars

(* The invariant of the system under this client: the shares add up, and a *)
(* type that has a share has a server that is connected, or an initial one *)
(* to come.                                                                *)
SharesAddUp == traffic["A"] + traffic["B"] + traffic["C"] = 4

SharesAreServed ==
  \A t \in Type : traffic[t] > 0 => active[t] - Draining(t) + toStart[t] > 0

DivertingInv == SerialInv /\ SharesAddUp /\ SharesAreServed

(* The inductive invariant of SwimSpec.                                    *)
SwimInv ==
  /\ client \in {"diverting", "any"}
  /\ AnyInv
  /\ client = "diverting" => DivertingInv

=============================================================================
