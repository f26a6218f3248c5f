-------------------------- MODULE ManagerInvariant ---------------------------
(***************************************************************************)
(* The invariants behind the properties of the execution manager, in a     *)
(* form that every step preserves.  ManagerProofs proves them; the runs of *)
(* MCManager check them first.                                             *)
(***************************************************************************)
EXTENDS ManagerProperties

(***************************************************************************)
(* For a client that runs one adaptation at a time.                        *)
(***************************************************************************)

(* Names are unique, have a number the model counts, and leave none out.   *)
UniqueNames ==
  \A m, n \in Live : typeOf[m] = typeOf[n] /\ index[m] = index[n] => m = n

NamesCounted == \A m \in Live : index[m] \in 1 .. GetServers(typeOf[m])

CountsNamed ==
  \A t \in Type : \A i \in 1 .. GetServers(t) :
    \E m \in Live : typeOf[m] = t /\ index[m] = i

(* One boot at a time, of the module with the highest number of its type.  *)
BootInv ==
  /\ events = (IF bootType = NoType THEN {} ELSE {bootType})
  /\ \A m, n \in pending : m = n
  /\ \A m \in pending :
       /\ m \in Live \ busy
       /\ outGate[m] = Unconnected
       /\ typeOf[m] = bootType
       /\ index[m] = GetServers(typeOf[m])
       /\ removing = NoServer
  /\ bootType # NoType /\ pending = {} => removeMsg /\ typeOf[removing] = bootType

(* One removal at a time, of the module with the highest number of its     *)
(* type; its deletion is scheduled only when the module holds no job, or   *)
(* one on its way is missed.                                               *)
RemovalInv ==
  /\ removeMsg => removing # NoServer /\ (removing \in busy => missed)
  /\ removing # NoServer =>
       /\ removing \in Live
       /\ outGate[removing] = Unconnected
       /\ index[removing] = GetServers(typeOf[removing])
       /\ bootType \in {NoType, typeOf[removing]}
       /\ bootType = NoType => GetTotalActiveServers > 1

(* A module that is not connected is absent, booting or being removed.     *)
ConnectionInv ==
  /\ \A m \in Id \ Live : outGate[m] = Unconnected /\ serverBrownout[m] = DefaultFactor
  /\ \A m \in Live \ pending : m # removing => m \in Connected
  /\ \A m \in busy : m \in Connected \/ m = removing

(* Nothing but the initial servers until they are all there.               *)
StartInv ==
  /\ Started => GetTotalActiveServers >= 1
  /\ ~Started => bootType = NoType /\ removing = NoServer

(* The inductive invariant of SerialClientSpec.                            *)
SerialInv ==
  /\ TypeOK
  /\ NoFault
  /\ UniqueNames
  /\ NamesCounted
  /\ CountsNamed
  /\ BootInv
  /\ RemovalInv
  /\ ConnectionInv
  /\ StartInv
  /\ BrownoutAgrees

(* One if the server being removed is of type t and was active: it is cut  *)
(* off from the load balancer while the model still counts it.             *)
Draining(t) ==
  IF removing # NoServer /\ typeOf[removing] = t /\ ~IsServerBooting THEN 1 ELSE 0

(***************************************************************************)
(* For any client.                                                         *)
(***************************************************************************)

(* The module being removed exists, is cut off, and stays cut off; once    *)
(* its deletion is scheduled it holds no job that was not missed.          *)
AnyInv ==
  /\ typeOf \in [Id -> Type \cup {NoType}]
  /\ outGate \in [Id -> Gate \cup {Unconnected}]
  /\ pending \subseteq Live
  /\ removing # NoServer =>
       removing \in Live /\ removing \notin pending /\ outGate[removing] = Unconnected
  /\ removeMsg => removing # NoServer /\ (removing \in busy => missed)
  /\ \A m \in Id \ Live : m \notin busy

=============================================================================
