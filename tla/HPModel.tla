------------------------------ MODULE HPModel -------------------------------
(***************************************************************************)
(* The run-time model that the simulated system keeps of itself            *)
(* (src/src/model/HPModel.cc and HPConfiguration.cc): how many servers of  *)
(* each type are active, which boot is expected to finish, the brownout    *)
(* factor and the share of the traffic each type is meant to get.          *)
(*                                                                         *)
(* The operations of HPModel are called by the execution manager, in the   *)
(* middle of its own handlers, so each one is an action formula over this  *)
(* module's variables that ExecutionManager conjoins with its own.         *)
(***************************************************************************)
EXTENDS Integers

CONSTANTS
  MaxServers,      \* [Type -> Nat]: maxServersA, maxServersB, maxServersC
  Factor,          \* the brownout factors a run uses
  DefaultFactor    \* the brownoutFactor parameter a server module starts with

(* enum MTServerAdvance::ServerType without NONE.                          *)
Type == {"A", "B", "C"}

NoType == "NONE"

ASSUME MaxServersAssumption == MaxServers \in [Type -> Nat]
ASSUME FactorAssumption == DefaultFactor \in Factor /\ 0 \in Factor

VARIABLES
  active,      \* mServersA, mServersB, mServersC: active servers of each type
  bootType,    \* mBootServerType: the type that is booting (mBootRemain > 0), or NoType
  events,      \* expected changes: the types whose SERVERx_ONLINE event is in `events`
  brownout,    \* mBrownoutFactor
  traffic      \* mTrafficA, mTrafficB, mTrafficC, in quarters of the arrivals

modelVars == <<active, bootType, events, brownout, traffic>>

(* enum HPLoadBalancer::TrafficLoad without INVALID: ZERO .. HUNDRED.      *)
TrafficLoad == 0 .. 4

(* Before any server is added; HPConfiguration sends all traffic to type A *)
(* whatever types the simulation starts with.                              *)
ModelInit ==
  /\ active = [t \in Type |-> 0]
  /\ bootType = NoType
  /\ events = {}
  /\ brownout = 0
  /\ traffic = [t \in Type |-> IF t = "A" THEN 4 ELSE 0]

(***************************************************************************)
(* HPConfiguration and HPModel queries.                                    *)
(***************************************************************************)

(* HPConfiguration::getServers counts the booting server, and a server     *)
(* that is being drained, since nothing in the model marks it.             *)
GetServers(t) == active[t] + (IF bootType = t THEN 1 ELSE 0)

GetTotalActiveServers == active["A"] + active["B"] + active["C"]

(* The overload of isServerBooting that addServer and removeServer use.    *)
IsServerBooting == events # {}

(***************************************************************************)
(* HPModel operations.                                                     *)
(***************************************************************************)

(* addServer(bootDelay, t) with a positive boot delay; the caller has      *)
(* checked ~IsServerBooting.                                               *)
ModelAddServer(t) ==
  /\ events' = events \cup {t}
  /\ bootType' = t
  /\ UNCHANGED active

(* serverBecameActive(t); the caller has checked that the event exists.    *)
ModelServerBecameActive(t) ==
  /\ events' = events \ {t}
  /\ active' = [active EXCEPT ![t] = @ + 1]
  /\ bootType' = NoType

(* addServer(0, t) followed, in the same call, by serverBecameActive(t):   *)
(* the expected change is inserted and erased again.                       *)
ModelAddServerNow(t) ==
  /\ active' = [active EXCEPT ![t] = @ + 1]
  /\ bootType' = NoType
  /\ UNCHANGED events

(* Seeded fault: removeServer always decrements the active count.          *)
ModelRemoveServerAlwaysActive(t) ==
  /\ active' = [active EXCEPT ![t] = @ - 1]
  /\ bootType' = NoType
  /\ UNCHANGED events

(* Seeded fault: removeServer never decrements the active count.           *)
ModelRemoveServerNeverActive(t) ==
  /\ events' = {}
  /\ bootType' = NoType
  /\ UNCHANGED active

(* removeServer(t).  If any server is booting, the removed one is taken to *)
(* be that server: its expected change (the last event) is erased and no   *)
(* active count changes, whatever t is.                                    *)
ModelRemoveServer(t) ==
  \/ /\ IsServerBooting
     /\ events' = {}
     /\ bootType' = NoType
     /\ UNCHANGED active
  \/ /\ ~IsServerBooting
     /\ active' = [active EXCEPT ![t] = @ - 1]
     /\ bootType' = NoType
     /\ UNCHANGED events

ModelSetBrownoutFactor(f) == brownout' = f

ModelSetTrafficLoad(load) == traffic' = load

=============================================================================
