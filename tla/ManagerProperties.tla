------------------------- MODULE ManagerProperties --------------------------
(***************************************************************************)
(* Properties of the execution manager and the run-time model.             *)
(***************************************************************************)
EXTENDS ExecutionManager

(* Type correctness of the execution manager and the model; the model      *)
(* never counts more servers of a type than its maximum.                   *)
TypeOK ==
  /\ active \in [Type -> Nat]
  /\ \A t \in Type : GetServers(t) <= MaxServers[t]
  /\ bootType \in Type \cup {NoType}
  /\ events \in SUBSET Type
  /\ brownout \in Factor
  /\ traffic \in [Type -> TrafficLoad]
  /\ toStart \in [Type -> Nat]
  /\ typeOf \in [Id -> Type \cup {NoType}]
  /\ index \in [Id -> Nat]
  /\ serverBrownout \in [Id -> Factor]
  /\ outGate \in [Id -> Gate \cup {Unconnected}]
  /\ busy \in SUBSET Id /\ held \in SUBSET busy /\ missed \in BOOLEAN
  /\ pending \in SUBSET Id
  /\ removing \in Id \cup {NoServer}
  /\ removeMsg \in BOOLEAN
  /\ fault \in {NoFaultYet, "already booting", "too many servers", "no expected change",
                "removal refused", "no such module", "no output gate"}

(***************************************************************************)
(* For a client that runs one adaptation at a time.                        *)
(***************************************************************************)

(* No assertion of the manager or of the model fails and no missing module *)
(* is dereferenced (HPExecutionManagerModBase.cc:171,195,197,              *)
(* HPModel.cc:174,205, the getSubmodule calls of HPExecutionManagerMod).   *)
NoFault == fault = NoFaultYet

(* The modules of each type are named 1..getServers(type), one per number: *)
(* the names that addServer, removeServer and setBrownout compute from the *)
(* counts of the model are the names of the modules that exist.            *)
NamesMatchCounts ==
  \A t \in Type :
    /\ {index[m] : m \in {n \in Live : typeOf[n] = t}} = 1 .. GetServers(t)
    /\ \A m, n \in Live : typeOf[m] = t /\ typeOf[n] = t /\ index[m] = index[n] => m = n

ConnectedOf(t) == {m \in Connected : typeOf[m] = t}

(* What the model calls an active server is one the load balancer is       *)
(* connected to, or the one that is finishing its jobs: bookkeeping by     *)
(* type agrees with the network, which is kept by module.                  *)
ActiveCountsServingServers ==
  \A t \in Type :
    active[t] = Cardinality(ConnectedOf(t))
                  + (IF removing # NoServer /\ typeOf[removing] = t /\ ~IsServerBooting
                     THEN 1 ELSE 0)

(* The expected change of the model and the pending BootComplete of the    *)
(* manager are two records of one boot.  They differ only between the      *)
(* removal of a booting server, which cancels the message, and its         *)
(* completion, which erases the expected change.                           *)
BootRecordsAgree ==
  /\ \A m \in pending : m \in Live \ Connected /\ events = {typeOf[m]}
  /\ Cardinality(pending) <= 1
  /\ events = (IF bootType = NoType THEN {} ELSE {bootType})
  /\ events # {} /\ pending = {} => removeMsg /\ events = {typeOf[removing]}

(* From the moment the simulation has started, some server is connected to *)
(* the load balancer, although removeServer asks the model and not the     *)
(* network whether another server is left.                                 *)
SomeServerServes == Started => Connected # {}

(* Every server runs with the brownout factor of the model, however its    *)
(* creation, its boot and the changes of the factor interleave.            *)
BrownoutAgrees == \A m \in Live : serverBrownout[m] = brownout

(* The boot of a server completes only when the model expects it           *)
(* (HPModel.cc:205), a part of NoFault stated by itself.                   *)
BootIsExpected == fault # "no expected change"

(***************************************************************************)
(* For any client.                                                         *)
(***************************************************************************)

(* A module that is deleted is not connected, so the load balancer is left *)
(* no dangling gate; and it holds no job unless one was on its way there   *)
(* when removeServer found the module empty (HPExecutionManagerMod.cc:287, *)
(* run lost_request): a server that drains is deleted with nothing in it.  *)
OnlyIdleServersDisappear ==
  [][\A m \in Live :
       m \notin Live' => m \notin Connected /\ (m \in busy => missed)]_vars

(* The server that is being removed never gets a job again.                *)
DrainedServerGetsNoJob ==
  [][\A m \in Id : removing = m /\ m \notin busy => m \notin busy']_vars

(***************************************************************************)
(* Liveness, and the promise to the client.                                *)
(***************************************************************************)

(* A removal that has begun completes.                                     *)
RemovalCompletes == removing # NoServer ~> removing = NoServer

(* A server that boots is connected in the end, unless it is removed.      *)
BootTakesEffect ==
  \A m \in Id : m \in pending ~> (m \in Connected \/ removing = m)

Pool == INSTANCE ServerPool WITH
  Kind <- Type,
  None <- NoType,
  Capacity <- MaxServers,
  serving <- [t \in Type |-> Cardinality(ConnectedOf(t))],
  starting <- IF pending = {} THEN NoType
              ELSE typeOf[CHOOSE m \in pending : TRUE],
  stopping <- IF removing = NoServer THEN NoType ELSE typeOf[removing]

(* For a client that runs one adaptation at a time, the manager implements *)
(* the pool of servers.                                                    *)
ImplementsPool == Pool!Spec

=============================================================================
