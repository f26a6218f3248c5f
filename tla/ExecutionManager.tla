-------------------------- MODULE ExecutionManager --------------------------
(***************************************************************************)
(* The execution manager (HPExecutionManagerModBase and                    *)
(* HPExecutionManagerMod, src/src/managers/execution/): it creates,        *)
(* connects, drains and deletes the server modules of the simulated        *)
(* network, and keeps HPModel informed.                                    *)
(*                                                                         *)
(* Every handler of the simulation runs to completion, so one handler is   *)
(* one action.  What interleaves is their order: the commands of the       *)
(* adaptation client, the BootComplete and completeRemove self-messages in *)
(* the future event set, and the jobs.                                     *)
(*                                                                         *)
(* An ASSERT or assert that fails, and a NULL module that is used, ends    *)
(* the simulation: `fault` records why, and nothing happens afterwards.    *)
(***************************************************************************)
EXTENDS HPModel, FiniteSets

CONSTANTS
  Id,              \* module ids
  NoServer,        \* serverBeingRemovedModuleId = -1
  InitialServers,  \* [Type -> Nat]: initialServersA, initialServersB, initialServersC
  ZeroBootDelay,   \* whether the bootDelay parameter is 0
  JobTimeouts,     \* whether the servers' timeout parameter is positive
  TrafficChoice    \* the diversions a run uses, functions in [Type -> TrafficLoad]

ASSUME NoServerAssumption == NoServer \notin Id
ASSUME InitialServersAssumption ==
  /\ InitialServers \in [Type -> Nat]
  /\ \A t \in Type : InitialServers[t] <= MaxServers[t]
  /\ \E t \in Type : InitialServers[t] > 0
ASSUME FlagsAssumption == ZeroBootDelay \in BOOLEAN /\ JobTimeouts \in BOOLEAN
ASSUME TrafficAssumption == TrafficChoice \subseteq [Type -> TrafficLoad]

VARIABLES
  toStart,         \* initial servers that HPModel::initialize has still to add
  typeOf,          \* type of each server module, NoType where there is no module
  index,           \* the number at the end of the module's name, server_<type>_<index>
  serverBrownout,  \* the brownoutFactor parameter of the module's inner server
  outGate,         \* index of the load balancer's out gate that feeds it, or Unconnected
  busy,            \* modules that hold a job, or to which one is on its way
  held,            \* those of them whose queue or server holds a job
  missed,          \* whether a job was on its way to the module being removed when
                   \*   removeServer found it empty (a history variable)
  pending,         \* pendingMessages: modules whose BootComplete is scheduled
  removing,        \* serverBeingRemovedModuleId; serverRemoveInProgress is 1 iff it is set
  removeMsg,       \* whether completeRemoveMsg is scheduled
  fault            \* why the simulation was aborted, or NoFaultYet

moduleVars == <<typeOf, index, serverBrownout, outGate>>
jobVars == <<busy, held, missed>>
vars == <<modelVars, toStart, moduleVars, jobVars, pending, removing, removeMsg, fault>>

Unconnected == -1
NoFaultYet == "none"

Live == {m \in Id : typeOf[m] # NoType}
Connected == {m \in Live : outGate[m] # Unconnected}

(* getSubmodule(server_<t>_<i>): the modules it may return.                *)
Named(t, i) == {m \in Live : typeOf[m] = t /\ index[m] = i}

(* A gate index the load balancer can need.                                *)
Gate == 0 .. Cardinality(Id)

(* getOrCreateFirstUnconnectedGate("out", ...): the lowest free index.     *)
IsFirstUnconnectedGate(g) ==
  /\ \A m \in Live : outGate[m] # g
  /\ \A h \in Gate : h < g => \E m \in Live : outGate[m] = h

Started == \A t \in Type : toStart[t] = 0
Running == fault = NoFaultYet

(* A command is handled when no other handler runs.  One message of the    *)
(* socket may hold several commands, which AdaptInterface executes one     *)
(* after the other in one event, so even a completeRemove that is due at   *)
(* once may have to wait for the next command.                             *)
CommandPossible == Running /\ Started

Init ==
  /\ ModelInit
  /\ toStart = InitialServers
  /\ typeOf = [m \in Id |-> NoType]
  /\ index = [m \in Id |-> 0]
  /\ serverBrownout = [m \in Id |-> DefaultFactor]
  /\ outGate = [m \in Id |-> Unconnected]
  /\ busy = {} /\ held = {} /\ missed = FALSE
  /\ pending = {}
  /\ removing = NoServer
  /\ removeMsg = FALSE
  /\ fault = NoFaultYet

Abort(reason) ==
  /\ fault' = reason
  /\ UNCHANGED <<modelVars, toStart, moduleVars, jobVars, pending, removing, removeMsg>>

(***************************************************************************)
(* addServer                                                               *)
(***************************************************************************)

(* Seeded fault: the factor of the model is not copied to a new server.    *)
DoAddServerKeepingDefault(m, t) ==
  /\ typeOf' = [typeOf EXCEPT ![m] = t]
  /\ index' = [index EXCEPT ![m] = GetServers(t) + 1]
  /\ UNCHANGED <<serverBrownout, brownout>>

(* Seeded fault: the name counts the active servers only.                  *)
DoAddServerCountingActive(m, t) ==
  /\ typeOf' = [typeOf EXCEPT ![m] = t]
  /\ index' = [index EXCEPT ![m] = active[t]]
  /\ serverBrownout' = [serverBrownout EXCEPT ![m] = brownout]
  /\ UNCHANGED brownout

(* doAddServer: the module is named after the current count, and takes the *)
(* model's brownout factor unless it is the first server of all, which     *)
(* gives its own to the model.                                             *)
DoAddServer(m, t) ==
  /\ typeOf' = [typeOf EXCEPT ![m] = t]
  /\ index' = [index EXCEPT ![m] = GetServers(t) + 1]
  /\ \/ /\ GetTotalActiveServers >= 1
        /\ serverBrownout' = [serverBrownout EXCEPT ![m] = brownout]
        /\ UNCHANGED brownout
     \/ /\ GetTotalActiveServers < 1
        /\ brownout' = DefaultFactor
        /\ UNCHANGED serverBrownout

(* Seeded fault: the boot completes without a connection.                  *)
ConnectNothing(m) == UNCHANGED outGate

(* doAddServerBootComplete: connect the module to the load balancer.       *)
DoAddServerBootComplete(m) ==
  \E g \in Gate : /\ IsFirstUnconnectedGate(g)
                  /\ outGate' = [outGate EXCEPT ![m] = g]

(* The ASSERTs of addServerLatencyOptional and of HPModel::addServer.      *)
MayAddServer(t) == GetServers(t) < MaxServers[t] /\ ~IsServerBooting

(* HPModel::initialize, stage 1: an initial server, added without delay.   *)
StartServer(t) ==
  /\ Running
  /\ toStart[t] > 0
  /\ MayAddServer(t)
  /\ toStart' = [toStart EXCEPT ![t] = @ - 1]
  /\ \E m \in Id \ Live : DoAddServer(m, t) /\ DoAddServerBootComplete(m)
  /\ ModelAddServerNow(t)
  /\ UNCHANGED <<traffic, jobVars, pending, removing, removeMsg, fault>>

(* addServer(t) with a boot delay: the module exists, unconnected, until   *)
(* its BootComplete arrives.  Each run bounds the modules by Id.           *)
AddServer(t) ==
  /\ ~ZeroBootDelay
  /\ MayAddServer(t)
  /\ \E m \in Id \ Live : DoAddServer(m, t) /\ pending' = pending \cup {m}
  /\ ModelAddServer(t)
  /\ UNCHANGED <<traffic, toStart, outGate, jobVars, removing, removeMsg, fault>>

(* addServer(t) when the boot delay is 0: the BootComplete is handled in   *)
(* the same call.                                                          *)
AddServerNow(t) ==
  /\ ZeroBootDelay
  /\ MayAddServer(t)
  /\ \E m \in Id \ Live : DoAddServer(m, t) /\ DoAddServerBootComplete(m)
  /\ ModelAddServerNow(t)
  /\ UNCHANGED <<traffic, toStart, jobVars, pending, removing, removeMsg, fault>>

(* A failed ASSERT of addServer ends the run.                              *)
AddServerFails(t) ==
  /\ ~MayAddServer(t)
  /\ Abort(IF GetServers(t) < MaxServers[t] THEN "already booting" ELSE "too many servers")

(* handleMessage of a BootComplete.                                        *)
BootComplete(m) ==
  /\ Running
  /\ m \in pending
  /\ typeOf[m] \in events
  /\ DoAddServerBootComplete(m)
  /\ ModelServerBecameActive(typeOf[m])
  /\ pending' = pending \ {m}
  /\ UNCHANGED <<brownout, traffic, toStart, typeOf, index, serverBrownout, jobVars,
                 removing, removeMsg, fault>>

(* serverBecameActive asserts that the model expects this boot.            *)
BootCompleteFails(m) ==
  /\ Running
  /\ m \in pending
  /\ typeOf[m] \notin events
  /\ Abort("no expected change")

(***************************************************************************)
(* removeServer                                                            *)
(***************************************************************************)

(* The two ASSERTs of removeServer.                                        *)
MayRemoveServer == GetTotalActiveServers > 1 /\ removing = NoServer

(* Seeded fault: the gate from the load balancer stays connected.          *)
DisconnectNothing(m) == UNCHANGED outGate

(* doRemoveServer: disconnect the module's in gate, if it is connected.    *)
Disconnect(m) == outGate' = [outGate EXCEPT ![m] = Unconnected]

(* Seeded fault: the boot of a removed server is not cancelled.            *)
CancelNothing(m) == UNCHANGED pending

CancelBoot(m) == pending' = pending \ {m}

(* Seeded fault: the module is deleted without waiting for its jobs.       *)
NeverOccupied(m) == TRUE

(* isServerBeingRemoveEmpty: it asks the server for its running jobs and   *)
(* the queue for its length, and cannot see a job between the two, or      *)
(* between the load balancer and the queue.                                *)
IsEmpty(m) == m \notin held

(* removeServer(t): the module with the highest number of its type is cut  *)
(* off from the load balancer, its boot is cancelled if it has not         *)
(* finished, and its deletion is scheduled at once if it looks empty.  The *)
(* command may run between two messages of one instant: a notification of  *)
(* the socket that the scheduler inserts when it is late goes before the   *)
(* messages of the instant that are not handled yet.                       *)
RemoveServer(t) ==
  /\ CommandPossible
  /\ MayRemoveServer
  /\ \E m \in Named(t, GetServers(t)) :
       /\ Disconnect(m)
       /\ CancelBoot(m)
       /\ removing' = m
       /\ removeMsg' = IsEmpty(m)
       /\ missed' = (m \in busy \ held)
  /\ UNCHANGED <<modelVars, toStart, typeOf, index, serverBrownout, busy, held, fault>>

(* A failed ASSERT, or no module of that name, ends the run.               *)
RemoveServerFails(t) ==
  /\ CommandPossible
  /\ \/ ~MayRemoveServer /\ Abort("removal refused")
     \/ MayRemoveServer /\ Named(t, GetServers(t)) = {} /\ Abort("no such module")

(* handleMessage of completeRemoveMsg: the module is deleted, with         *)
(* whatever it holds, and the model is told its type, not its name.        *)
CompleteRemoval ==
  /\ Running
  /\ removeMsg
  /\ removeMsg' = FALSE
  /\ ModelRemoveServer(typeOf[removing])
  /\ typeOf' = [typeOf EXCEPT ![removing] = NoType]
  /\ index' = [index EXCEPT ![removing] = 0]
  /\ serverBrownout' = [serverBrownout EXCEPT ![removing] = DefaultFactor]
  /\ busy' = busy \ {removing} /\ held' = held \ {removing}
  /\ missed' = FALSE
  /\ removing' = NoServer
  /\ UNCHANGED <<brownout, traffic, toStart, outGate, pending, fault>>

(***************************************************************************)
(* setBrownout and divertTraffic                                           *)
(***************************************************************************)

(* S is one module for every name the loops of doSetBrownout look up.      *)
IsBrownoutTarget(S) ==
  /\ \A t \in Type : \A i \in 1 .. GetServers(t) : S \cap Named(t, i) # {}
  /\ \A m \in S : index[m] \in 1 .. GetServers(typeOf[m])
  /\ \A m, n \in S : typeOf[m] = typeOf[n] /\ index[m] = index[n] => m = n

SetBrownout(f) ==
  /\ CommandPossible
  /\ ModelSetBrownoutFactor(f)
  /\ \E S \in SUBSET Live :
       /\ IsBrownoutTarget(S)
       /\ serverBrownout' = [m \in Id |-> IF m \in S THEN f ELSE serverBrownout[m]]
  /\ UNCHANGED <<active, bootType, events, traffic, toStart, typeOf, index, outGate,
                 jobVars, pending, removing, removeMsg, fault>>

(* doSetBrownout uses a module that does not exist.                        *)
SetBrownoutFails ==
  /\ CommandPossible
  /\ \E t \in Type : \E i \in 1 .. GetServers(t) : Named(t, i) = {}
  /\ Abort("no such module")

DivertTraffic(load) ==
  /\ CommandPossible
  /\ ModelSetTrafficLoad(load)
  /\ UNCHANGED <<active, bootType, events, brownout, toStart, moduleVars, jobVars,
                 pending, removing, removeMsg, fault>>

(***************************************************************************)
(* Jobs, as far as the manager sees them.                                  *)
(***************************************************************************)

(* The load balancer sends a job to a connected server.                    *)
JobArrives(m) ==
  /\ Running /\ Started
  /\ m \in Connected
  /\ busy' = busy \cup {m}
  /\ UNCHANGED <<modelVars, toStart, moduleVars, held, missed, pending, removing, removeMsg, fault>>

(* A job that was on its way is queued, or begins to run.                  *)
JobEnters(m) ==
  /\ Running
  /\ m \in busy \ held
  /\ held' = held \cup {m}
  /\ UNCHANGED <<modelVars, toStart, moduleVars, busy, missed, pending, removing, removeMsg, fault>>

(* The server, which runs no job, asks for the only one in the queue, and  *)
(* it is on its way again.                                                 *)
JobRequested(m) ==
  /\ Running
  /\ m \in held
  /\ held' = held \ {m}
  /\ UNCHANGED <<modelVars, toStart, moduleVars, busy, missed, pending, removing, removeMsg, fault>>

(* Seeded fault: only an immediate removal ever completes.                 *)
IgnoreIdleSignal(m) == UNCHANGED removeMsg

(* receiveSignal(busy = false) from module m.                              *)
ReceiveIdleSignal(m) == removeMsg' = (removeMsg \/ removing = m)

(* The last job of m completes: the server emits busy = false with its     *)
(* queue empty.  A job takes time, and completeRemove does not wait.       *)
LastJobEnds(m) ==
  /\ Running
  /\ m \in held
  /\ ~(removeMsg /\ removing = m)
  /\ busy' = busy \ {m} /\ held' = held \ {m}
  /\ ReceiveIdleSignal(m)
  /\ UNCHANGED <<modelVars, toStart, moduleVars, missed, pending, removing, fault>>

(* The last job of m has timed out in its queue: the server passes it on   *)
(* without serving it, and emits no signal when it runs out of jobs.       *)
LastJobTimesOut(m) ==
  /\ Running
  /\ JobTimeouts
  /\ m \in busy \ held
  /\ busy' = busy \ {m}
  /\ UNCHANGED <<modelVars, toStart, moduleVars, held, missed, pending, removing, removeMsg, fault>>

(***************************************************************************)
(* What the system does by itself, and what its clients may ask of it.     *)
(***************************************************************************)

(* What the simulation does by itself.                                     *)
SystemNext ==
  \/ \E t \in Type : StartServer(t)
  \/ \E m \in Id : BootComplete(m)
  \/ \E m \in Id : BootCompleteFails(m)
  \/ CompleteRemoval
  \/ \E m \in Id : JobArrives(m)
  \/ \E m \in Id : JobEnters(m)
  \/ \E m \in Id : JobRequested(m)
  \/ \E m \in Id : LastJobEnds(m)
  \/ \E m \in Id : LastJobTimesOut(m)

(* Commands without a precondition.                                        *)
SetCommand ==
  \/ \E f \in Factor : SetBrownout(f)
  \/ SetBrownoutFails
  \/ \E load \in TrafficChoice : DivertTraffic(load)

AddCommand(t) == CommandPossible /\ (AddServer(t) \/ AddServerNow(t) \/ AddServerFails(t))
RemoveCommand(t) == RemoveServer(t) \/ RemoveServerFails(t)

(* Any client: it may issue any command at any time.                       *)
AnyClientNext ==
  \/ SystemNext
  \/ SetCommand
  \/ \E t \in Type : AddCommand(t)
  \/ \E t \in Type : RemoveCommand(t)

AnyClientSpec == Init /\ [][AnyClientNext]_vars

(* A client that obeys the preconditions the commands have, all of which   *)
(* it can read with get_servers, get_active_servers and get_max_servers:   *)
(* add below the maximum when no server is booting, remove when no server  *)
(* is booting, more than one is active and one of the type is.             *)
NoneBooting == \A t \in Type : GetServers(t) = active[t]

CarefulAdd(t) == GetServers(t) < MaxServers[t] /\ NoneBooting

CarefulRemove(t) == NoneBooting /\ GetTotalActiveServers > 1 /\ active[t] > 0

CarefulClientNext ==
  \/ SystemNext
  \/ SetCommand
  \/ \E t \in Type : CarefulAdd(t) /\ AddCommand(t)
  \/ \E t \in Type : CarefulRemove(t) /\ RemoveCommand(t)

CarefulClientSpec == Init /\ [][CarefulClientNext]_vars

(* A client that runs one adaptation at a time, as comments of HPModel     *)
(* assume: it adds or removes only when the previous change has taken      *)
(* effect, except that it may remove the very server that is booting.      *)
SerialAdd(t) == removing = NoServer /\ CarefulAdd(t)

SerialRemove(t) ==
  /\ removing = NoServer
  /\ GetTotalActiveServers > 1
  /\ GetServers(t) > 0
  /\ bootType \in {NoType, t}

SerialClientNext ==
  \/ SystemNext
  \/ SetCommand
  \/ \E t \in Type : SerialAdd(t) /\ AddCommand(t)
  \/ \E t \in Type : SerialRemove(t) /\ RemoveCommand(t)

SerialClientSpec == Init /\ [][SerialClientNext]_vars

(* Scheduled messages are delivered.  A server that is cut off from the    *)
(* load balancer gets no new job, so its jobs cannot go on entering and    *)
(* being asked for without the last of them coming to an end.              *)
Fairness ==
  /\ \A t \in Type : WF_vars(StartServer(t))
  /\ \A m \in Id : WF_vars(BootComplete(m))
  /\ WF_vars(CompleteRemoval)
  /\ \A m \in Id : WF_vars(removing = m /\ JobEnters(m))
  /\ \A m \in Id : SF_vars(removing = m /\ LastJobEnds(m))

=============================================================================
