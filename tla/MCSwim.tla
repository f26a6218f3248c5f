------------------------------- MODULE MCSwim -------------------------------
(***************************************************************************)
(* A small instance of the composed system for TLC.                        *)
(***************************************************************************)
EXTENDS Swim, TLC

MCMaxServers == [t \in Type |-> IF t = "A" THEN 2 ELSE 1]
MCInitialServers == [t \in Type |-> IF t = "A" THEN 1 ELSE 0]

(* The fifteen diversions that divert_traffic accepts.                     *)
MCTrafficChoice ==
  {load \in [Type -> TrafficLoad] : load["A"] + load["B"] + load["C"] = 4}

(* For the client that may issue any command at any time: one server of    *)
(* each type at most, as in SwimExtention.ini, and two diversions.         *)
MCTwoDiversions ==
  { [t \in Type |-> IF t = "A" THEN 4 ELSE 0],
    [t \in Type |-> IF t = "C" THEN 0 ELSE 2] }

MCAnyBound ==
  client = "any" => GetServers("A") <= 1 /\ traffic \in MCTwoDiversions

MCSwimNext == SwimNext /\ MCAnyBound'

MCSwimSpec == SwimInit /\ [][MCSwimNext]_swimVars

MCSymmetry == Permutations(Id)

=============================================================================
