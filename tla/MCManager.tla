------------------------------ MODULE MCManager -----------------------------
(***************************************************************************)
(* Small instances of the execution manager for TLC.                       *)
(***************************************************************************)
EXTENDS ManagerInvariant, TLC

(* Two servers of type A, one of B and one of C at most, one A at first.  *)
MCMaxServers == [t \in Type |-> CASE t = "A" -> 2 [] t = "B" -> 1 [] OTHER -> 1]
MCInitialServers == [t \in Type |-> IF t = "A" THEN 1 ELSE 0]

(* One server of each type at most, as in SwimExtention.ini.               *)
MCOneEach == [t \in Type |-> 1]

(* All traffic to A, or half of it to B.                                   *)
MCTrafficChoice ==
  { [t \in Type |-> IF t = "A" THEN 4 ELSE 0],
    [t \in Type |-> IF t = "C" THEN 0 ELSE 2] }

MCOneTraffic == { [t \in Type |-> IF t = "A" THEN 4 ELSE 0] }

(* Module ids are interchangeable.                                         *)
MCSymmetry == Permutations(Id)

=============================================================================
