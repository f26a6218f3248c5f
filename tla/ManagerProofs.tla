--------------------------- MODULE ManagerProofs -----------------------------
(***************************************************************************)
(* Proofs about the execution manager, for any maximum, any initial        *)
(* configuration, any boot delay, and any number of modules, jobs and      *)
(* commands: first under a client that runs one adaptation at a time, then *)
(* that the manager implements the pool of servers for such a client, and  *)
(* last what it guarantees together with the load balancer.                *)
(*                                                                         *)
(* SerialInv is inductive.  Its heart is the numbering of the names: the   *)
(* manager computes a name from a count of the model, the model is told a  *)
(* type when the manager creates and deletes a module, and the two agree   *)
(* because a module that is created gets, and a module that is deleted     *)
(* has, the highest number of its type (NamesAfterAdd, NamesAfterRemove).  *)
(***************************************************************************)
EXTENDS Swim, FiniteSetTheorems, TLAPS

(* The initial states satisfy the invariant: no module exists.             *)
LEMMA InitSerial == Init => SerialInv
<1>1. Init => TypeOK
  <2> SUFFICES ASSUME Init PROVE TypeOK
    OBVIOUS
  <2>1. \A t \in Type : GetServers(t) = 0
    BY DEF Init, ModelInit, GetServers, Type, NoType
  <2>2. traffic \in [Type -> TrafficLoad] /\ active \in [Type -> Nat]
    BY DEF Init, ModelInit, Type, TrafficLoad
  <2>3. index \in [Id -> Nat] /\ typeOf \in [Id -> Type \cup {NoType}]
    BY DEF Init
  <2>4. serverBrownout \in [Id -> Factor] /\ outGate \in [Id -> Gate \cup {Unconnected}]
    BY FactorAssumption DEF Init
  <2>5. \A t \in Type : GetServers(t) <= MaxServers[t]
    BY <2>1, MaxServersAssumption
  <2>6. bootType \in Type \cup {NoType} /\ events \in SUBSET Type /\ brownout \in Factor
    BY FactorAssumption DEF Init, ModelInit
  <2>7. /\ toStart \in [Type -> Nat]
        /\ busy \in SUBSET Id /\ held \in SUBSET busy /\ missed \in BOOLEAN
        /\ pending \in SUBSET Id
        /\ removing \in Id \cup {NoServer} /\ removeMsg \in BOOLEAN
    BY InitialServersAssumption DEF Init
  <2>8. fault = NoFaultYet
    BY DEF Init
  <2> QED
    BY <2>2, <2>3, <2>4, <2>5, <2>6, <2>7, <2>8 DEF TypeOK
<1>2. Init => Live = {}
  BY DEF Init, Live
<1>3. Init => StartInv
  BY InitialServersAssumption DEF Init, ModelInit, StartInv, Started
<1>4. Init => CountsNamed
  BY DEF Init, ModelInit, CountsNamed, GetServers, Type, NoType
<1> QED
  BY <1>1, <1>2, <1>3, <1>4
  DEF Init, ModelInit, SerialInv, NoFault, UniqueNames, NamesCounted, BootInv, RemovalInv,
      ConnectionInv, BrownoutAgrees, Live

(* A step of a job moves nothing but jobs and the end of a drain.          *)
LEMMA JobStep ==
  ASSUME SerialInv, UNCHANGED <<modelVars, toStart, moduleVars, pending, removing, fault>>,
         busy' \in SUBSET Id, held' \in SUBSET busy', missed' \in BOOLEAN,
         removeMsg' \in BOOLEAN, RemovalInv',
         \A m \in busy' : m \in Connected \/ m = removing,
         \A m \in pending : m \notin busy', removeMsg => removeMsg'
  PROVE  SerialInv'
<1>1. TypeOK'
  BY DEF SerialInv, TypeOK, modelVars, moduleVars, GetServers
<1>2. Live' = Live
  BY DEF Live, moduleVars
<1>3. BootInv'
  BY <1>2 DEF SerialInv, BootInv, GetServers, modelVars, moduleVars
<1>4. ConnectionInv'
  BY <1>2 DEF SerialInv, ConnectionInv, Connected, modelVars, moduleVars
<1>5. UniqueNames' /\ NamesCounted' /\ CountsNamed'
  BY <1>2 DEF SerialInv, UniqueNames, NamesCounted, CountsNamed, GetServers, modelVars, moduleVars
<1> QED
  BY <1>1, <1>2, <1>3, <1>4, <1>5
  DEF SerialInv, NoFault, StartInv, Started, BrownoutAgrees, GetTotalActiveServers, modelVars, moduleVars

(* The count of a type is a natural number.                                *)
LEMMA GetServersNat == ASSUME TypeOK, NEW t \in Type PROVE GetServers(t) \in Nat
<1>1. active[t] \in Nat
  BY DEF TypeOK
<1> QED
  BY <1>1 DEF GetServers

(* The active counts, and their sum, are natural numbers.                  *)
LEMMA ActiveNat ==
  ASSUME TypeOK
  PROVE  /\ active \in [Type -> Nat]
         /\ active["A"] \in Nat /\ active["B"] \in Nat /\ active["C"] \in Nat
         /\ GetTotalActiveServers \in Nat
<1>1. active \in [Type -> Nat]
  BY DEF TypeOK
<1>2. active["A"] \in Nat /\ active["B"] \in Nat /\ active["C"] \in Nat
  BY <1>1 DEF Type
<1> QED
  BY <1>1, <1>2 DEF GetTotalActiveServers

(* Module m is new, of type t, and named and counted as such.              *)
Added(m, t) ==
  /\ m \in Id \ Live
  /\ typeOf' = [typeOf EXCEPT ![m] = t]
  /\ index' = [index EXCEPT ![m] = GetServers(t) + 1]
  /\ \A s \in Type : GetServers(s)' = GetServers(s) + (IF s = t THEN 1 ELSE 0)

(* Creating module m adds m and renames no other module.                   *)
LEMMA LiveAfterAdd ==
  ASSUME TypeOK, NEW t \in Type, NEW m \in Id, Added(m, t)
  PROVE  /\ Live' = Live \cup {m} /\ Live \subseteq Id
         /\ typeOf'[m] = t /\ index'[m] = GetServers(t)'
         /\ \A n \in Live : n # m /\ typeOf'[n] = typeOf[n] /\ index'[n] = index[n]
         /\ \A n \in Live : typeOf[n] \in Type /\ index[n] \in Nat
<1>1. t # NoType
  BY DEF Type, NoType
<1> QED
  BY <1>1, GetServersNat DEF Added, TypeOK, Live

(* The name getServers + 1 continues the numbering of the type.            *)
LEMMA NamesAfterAdd ==
  ASSUME TypeOK, UniqueNames, NamesCounted, CountsNamed,
         NEW t \in Type, NEW m \in Id, Added(m, t)
  PROVE  UniqueNames' /\ NamesCounted' /\ CountsNamed'
<1> USE LiveAfterAdd
<1>1. \A n \in Live : index'[n] \in 1 .. GetServers(typeOf[n])
  BY DEF NamesCounted
<1>2. \A s \in Type : GetServers(s) \in Nat
  BY GetServersNat
<1>3. \A s \in Type : GetServers(s)' = GetServers(s) + (IF s = t THEN 1 ELSE 0)
  BY DEF Added
<1>4. UniqueNames'
  BY <1>1, <1>2, <1>3 DEF UniqueNames
<1>5. NamesCounted'
  BY <1>1, <1>2, <1>3 DEF NamesCounted
<1>6. CountsNamed'
  <2> SUFFICES ASSUME NEW s \in Type, NEW i \in 1 .. GetServers(s)'
               PROVE  \E n \in Live' : typeOf'[n] = s /\ index'[n] = i
    BY DEF CountsNamed
  <2>1. CASE i \in 1 .. GetServers(s)
    BY <2>1 DEF CountsNamed
  <2>2. CASE i \notin 1 .. GetServers(s)
    <3>1. s = t /\ i = GetServers(t)'
      BY <1>2, <1>3, <2>2
    <3> QED
      BY <3>1
  <2> QED
    BY <2>1, <2>2
<1> QED
  BY <1>4, <1>5, <1>6

(* Module m, the last of its type, is gone and no longer counted.          *)
Removed(m) ==
  /\ m \in Live
  /\ index[m] = GetServers(typeOf[m])
  /\ typeOf' = [typeOf EXCEPT ![m] = NoType]
  /\ index' = [index EXCEPT ![m] = 0]
  /\ \A s \in Type : GetServers(s)' = GetServers(s) - (IF s = typeOf[m] THEN 1 ELSE 0)

(* Deleting module m renames no other module.                              *)
LEMMA LiveAfterRemove ==
  ASSUME TypeOK, NEW m \in Id, Removed(m)
  PROVE  /\ Live' = Live \ {m}
         /\ \A n \in Live' : typeOf'[n] = typeOf[n] /\ index'[n] = index[n]
         /\ \A n \in Live : typeOf[n] \in Type /\ index[n] \in Nat
  BY DEF Removed, TypeOK, Live

(* Deleting the module with the highest number leaves no gap.              *)
LEMMA NamesAfterRemove ==
  ASSUME TypeOK, UniqueNames, NamesCounted, CountsNamed, NEW m \in Id, Removed(m)
  PROVE  UniqueNames' /\ NamesCounted' /\ CountsNamed'
<1> USE LiveAfterRemove
<1>2. \A s \in Type : GetServers(s) \in Nat
  BY GetServersNat
<1>3. /\ \A s \in Type : GetServers(s)' = GetServers(s) - (IF s = typeOf[m] THEN 1 ELSE 0)
      /\ index[m] = GetServers(typeOf[m]) /\ m \in Live
  BY DEF Removed
<1>4. UniqueNames'
  BY DEF UniqueNames
<1>5. NamesCounted'
  <2> SUFFICES ASSUME NEW n \in Live'
               PROVE  index[n] \in 1 .. GetServers(typeOf[n])'
    BY DEF NamesCounted
  <2>1. index[n] \in 1 .. GetServers(typeOf[n])
    BY DEF NamesCounted
  <2>2. typeOf[n] = typeOf[m] => index[n] # index[m]
    BY <1>3 DEF UniqueNames
  <2> QED
    BY <1>2, <1>3, <2>1, <2>2
<1>6. CountsNamed'
  <2> SUFFICES ASSUME NEW s \in Type, NEW i \in 1 .. GetServers(s)'
               PROVE  \E n \in Live' : typeOf'[n] = s /\ index'[n] = i
    BY DEF CountsNamed
  <2>1. i \in 1 .. GetServers(s) /\ (s = typeOf[m] => i # GetServers(s))
    BY <1>2, <1>3
  <2>2. PICK n \in Live : typeOf[n] = s /\ index[n] = i
    BY <2>1 DEF CountsNamed
  <2>3. n # m
    BY <1>3, <2>1, <2>2
  <2> QED
    BY <2>2, <2>3
<1> QED
  BY <1>4, <1>5, <1>6

(* A new server runs with the factor of the model: it copies the factor,   *)
(* or, being the first server of all, gives its own to the model.          *)
LEMMA BrownoutAfterAdd ==
  ASSUME TypeOK, NamesCounted, ConnectionInv, BrownoutAgrees, bootType = NoType,
         NEW t \in Type, NEW m \in Id, Added(m, t), DoAddServer(m, t)
  PROVE  /\ BrownoutAgrees'
         /\ brownout' \in Factor /\ serverBrownout' \in [Id -> Factor]
         /\ \A n \in Id \ {m} : serverBrownout'[n] = serverBrownout[n]
<1> USE LiveAfterAdd
<1>1. m \in Id \ Live
  BY DEF Added
<1>0. brownout \in Factor /\ serverBrownout \in [Id -> Factor] /\ GetTotalActiveServers \in Nat
  BY ActiveNat DEF TypeOK
<1>2. CASE GetTotalActiveServers >= 1
  <2>1. serverBrownout' = [serverBrownout EXCEPT ![m] = brownout] /\ brownout' = brownout
    BY <1>0, <1>2 DEF DoAddServer
  <2> QED
    BY <1>0, <1>1, <2>1 DEF BrownoutAgrees
<1>3. CASE GetTotalActiveServers < 1
  <2>1. \A s \in Type : active[s] = 0
    <3> active["A"] = 0 /\ active["B"] = 0 /\ active["C"] = 0
      BY <1>3, ActiveNat DEF GetTotalActiveServers
    <3> QED
      BY DEF Type
  <2>2. \A s \in Type : GetServers(s) = 0
    BY <2>1 DEF GetServers, Type, NoType
  <2>3. Live = {}
    BY <2>2 DEF NamesCounted
  <2>4. brownout' = DefaultFactor /\ serverBrownout' = serverBrownout
    BY <1>0, <1>3 DEF DoAddServer
  <2>5. serverBrownout[m] = DefaultFactor
    BY <1>1 DEF ConnectionInv
  <2> QED
    BY <1>0, <2>3, <2>4, <2>5, FactorAssumption DEF BrownoutAgrees
<1> QED
  BY <1>0, <1>2, <1>3

(* What StartServer, AddServer and AddServerNow have in common.            *)
LEMMA AddStep ==
  ASSUME SerialInv, bootType = NoType, removing = NoServer,
         NEW t \in Type, NEW m \in Id, Added(m, t), DoAddServer(m, t),
         GetServers(t) < MaxServers[t], active' \in [Type -> Nat],
         bootType' \in Type \cup {NoType}, events' \in SUBSET Type,
         toStart' \in [Type -> Nat], outGate' \in [Id -> Gate \cup {Unconnected}],
         pending' \in SUBSET Id, BootInv', StartInv',
         UNCHANGED <<traffic, jobVars, removing, removeMsg, fault>>,
         \A n \in Id \ {m} : outGate'[n] = outGate[n],
         outGate'[m] # Unconnected \/ m \in pending', pending \subseteq pending'
  PROVE  SerialInv'
<1> USE LiveAfterAdd
<1>1. m \in Id \ Live /\ \A s \in Type : GetServers(s)' = GetServers(s) + (IF s = t THEN 1 ELSE 0)
  BY DEF Added
<1>2. TypeOK /\ UniqueNames /\ NamesCounted /\ CountsNamed /\ ConnectionInv /\ BrownoutAgrees
  BY DEF SerialInv
<1>3. UniqueNames' /\ NamesCounted' /\ CountsNamed'
  BY <1>2, NamesAfterAdd
<1>4. /\ BrownoutAgrees'
      /\ brownout' \in Factor /\ serverBrownout' \in [Id -> Factor]
      /\ \A n \in Id \ {m} : serverBrownout'[n] = serverBrownout[n]
  BY <1>2, BrownoutAfterAdd
<1>5. TypeOK'
  <2>1. \A s \in Type : GetServers(s)' <= MaxServers[s]
    <3> \A s \in Type : GetServers(s) \in Nat /\ GetServers(s) <= MaxServers[s]
      BY <1>2, GetServersNat DEF TypeOK
    <3> QED
      BY <1>1, MaxServersAssumption
  <2>2. typeOf' \in [Id -> Type \cup {NoType}]
    BY <1>2 DEF Added, TypeOK
  <2>3. index' \in [Id -> Nat]
    <3> GetServers(t) \in Nat /\ index \in [Id -> Nat]
      BY <1>2, GetServersNat DEF TypeOK
    <3> QED
      BY DEF Added
  <2> QED
    BY <1>2, <1>4, <2>1, <2>2, <2>3 DEF TypeOK, jobVars
<1>6. RemovalInv'
  BY DEF SerialInv, RemovalInv
<1>7. ConnectionInv'
  <2>1. \A n \in Id \ Live' : outGate'[n] = Unconnected /\ serverBrownout'[n] = DefaultFactor
    BY <1>2, <1>4 DEF ConnectionInv
  <2>2. \A n \in Live' \ pending' : n # removing' => n \in Connected'
    BY <1>2 DEF ConnectionInv, Connected
  <2>3. \A n \in busy' : n \in Connected' \/ n = removing'
    BY <1>1, <1>2 DEF ConnectionInv, Connected, Live, jobVars
  <2> QED
    BY <2>1, <2>2, <2>3 DEF ConnectionInv
<1>8. NoFault'
  BY DEF SerialInv, NoFault
<1> QED
  BY <1>3, <1>4, <1>5, <1>6, <1>7, <1>8 DEF SerialInv

(* When the model is not booting a server, no BootComplete is due.         *)
LEMMA NotBooting ==
  ASSUME SerialInv, bootType = NoType PROVE pending = {} /\ events = {}
  BY DEF SerialInv, BootInv, Live

(* A client that sees getServers = getActiveServers for every type knows   *)
(* that no server is booting.                                              *)
LEMMA NoneBootingMeans ==
  ASSUME SerialInv, NoneBooting PROVE bootType = NoType
<1> SUFFICES ASSUME bootType \in Type PROVE FALSE
  BY DEF SerialInv, TypeOK
<1>1. active[bootType] \in Nat
  BY DEF SerialInv, TypeOK
<1>2. GetServers(bootType) = active[bootType] + 1
  BY DEF GetServers
<1> QED
  BY <1>1, <1>2 DEF NoneBooting

(* A gate index is not the mark of an unconnected module.                  *)
LEMMA GateNat == ASSUME NEW g \in Gate PROVE g # Unconnected
  BY DEF Gate, Unconnected

(* addServer with a boot delay, issued as SerialAdd allows.                *)
LEMMA AddServerStep ==
  ASSUME SerialInv, CommandPossible, NEW t \in Type, SerialAdd(t), AddServer(t)
  PROVE  SerialInv'
<1>1. bootType = NoType /\ pending = {} /\ events = {} /\ removing = NoServer
  BY NotBooting, NoneBootingMeans DEF SerialAdd, CarefulAdd
<1>2. PICK m \in Id \ Live : DoAddServer(m, t) /\ pending' = pending \cup {m}
  BY DEF AddServer
<1>3. /\ events' = {t} /\ bootType' = t /\ active' = active
      /\ UNCHANGED <<traffic, toStart, outGate, jobVars, removing, removeMsg, fault>>
  BY <1>1 DEF AddServer, ModelAddServer
<1>4. TypeOK /\ ConnectionInv /\ StartInv
  BY DEF SerialInv
<1>5. Added(m, t)
  <2>1. \A s \in Type : GetServers(s)' = GetServers(s) + (IF s = t THEN 1 ELSE 0)
    <3> \A s \in Type : active[s] \in Nat /\ s # NoType
      BY <1>4 DEF TypeOK, Type, NoType
    <3> QED
      BY <1>1, <1>3 DEF GetServers
  <2> QED
    BY <1>2, <2>1 DEF Added, DoAddServer
<1>6. BootInv'
  <2>1. t # NoType /\ m \in Live' /\ typeOf'[m] = t /\ index'[m] = GetServers(t)'
    BY <1>4, <1>5, LiveAfterAdd DEF Type, NoType
  <2>2. m \notin busy /\ outGate[m] = Unconnected
    BY <1>1, <1>2, <1>4, NoServerAssumption DEF ConnectionInv, Connected
  <2> QED
    BY <1>1, <1>2, <1>3, <2>1, <2>2 DEF BootInv, jobVars
<1>7. StartInv'
  BY <1>3, <1>4 DEF StartInv, Started, GetTotalActiveServers, AddServer, CommandPossible
<1>8. GetServers(t) < MaxServers[t] /\ pending' \in SUBSET Id
  BY <1>1, <1>2 DEF AddServer, MayAddServer
<1> QED
  BY <1>1, <1>2, <1>3, <1>4, <1>5, <1>6, <1>7, <1>8, AddStep DEF TypeOK

(* StartServer and AddServerNow.                                           *)
LEMMA InstantStep ==
  ASSUME SerialInv, bootType = NoType, removing = NoServer,
         NEW t \in Type, NEW m \in Id \ Live, DoAddServer(m, t), DoAddServerBootComplete(m),
         ModelAddServerNow(t), MayAddServer(t), toStart' \in [Type -> Nat],
         UNCHANGED <<traffic, jobVars, pending, removing, removeMsg, fault>>
  PROVE  SerialInv'
<1>1. pending = {} /\ events = {} /\ TypeOK /\ ConnectionInv
  BY NotBooting DEF SerialInv
<1>2. /\ active' = [active EXCEPT ![t] = @ + 1]
      /\ bootType' = NoType /\ events' = {} /\ pending' = {}
  BY <1>1 DEF ModelAddServerNow
<1>3. active' \in [Type -> Nat] /\ GetTotalActiveServers' >= 1
  <2>0. active \in [Type -> Nat]
    BY <1>1 DEF TypeOK
  <2>1. active' \in [Type -> Nat]
    BY <1>2, <2>0
  <2>2. \A s \in Type : active[s] \in Nat /\ active'[s] = active[s] + (IF s = t THEN 1 ELSE 0)
    BY <1>2, <2>0
  <2>3. \A s \in Type : active'[s] \in Nat
    BY <2>1
  <2>4. active'[t] >= 1
    BY <2>2
  <2>5. t = "A" \/ t = "B" \/ t = "C"
    BY DEF Type
  <2>6. active'["A"] \in Nat /\ active'["B"] \in Nat /\ active'["C"] \in Nat
    BY <2>3 DEF Type
  <2> QED
    BY <2>1, <2>4, <2>5, <2>6 DEF GetTotalActiveServers
<1>4. Added(m, t)
  <2>1. \A s \in Type : GetServers(s)' = GetServers(s) + (IF s = t THEN 1 ELSE 0)
    <3>1. \A s \in Type : active[s] \in Nat /\ s # NoType
      BY <1>1 DEF TypeOK, Type, NoType
    <3>2. \A s \in Type : active'[s] = active[s] + (IF s = t THEN 1 ELSE 0)
      <4> active \in [Type -> Nat]
        BY <1>1 DEF TypeOK
      <4> QED
        BY <1>2
    <3> QED
      BY <1>2, <3>1, <3>2 DEF GetServers
  <2> QED
    BY <2>1 DEF Added, DoAddServer
<1>5. /\ outGate' \in [Id -> Gate \cup {Unconnected}]
      /\ outGate'[m] # Unconnected
      /\ \A n \in Id \ {m} : outGate'[n] = outGate[n]
  <2>1. PICK g \in Gate : outGate' = [outGate EXCEPT ![m] = g]
    BY DEF DoAddServerBootComplete
  <2>2. outGate \in [Id -> Gate \cup {Unconnected}]
    BY <1>1 DEF TypeOK
  <2> QED
    BY <2>1, <2>2, GateNat
<1>6. BootInv'
  BY <1>2 DEF BootInv
<1>7. StartInv'
  BY <1>2, <1>3 DEF StartInv
<1>8. GetServers(t) < MaxServers[t]
  BY DEF MayAddServer
<1> QED
  BY <1>1, <1>2, <1>3, <1>4, <1>5, <1>6, <1>7, <1>8, AddStep DEF TypeOK

(* An initial server, added by HPModel::initialize.                        *)
LEMMA StartServerStep ==
  ASSUME SerialInv, NEW t \in Type, StartServer(t)
  PROVE  SerialInv'
<1>1. bootType = NoType /\ removing = NoServer
  <2>1. toStart[t] > 0
    BY DEF StartServer
  <2>2. ~Started
    BY <2>1 DEF Started
  <2> QED
    BY <2>2 DEF SerialInv, StartInv
<1>2. toStart' \in [Type -> Nat]
  <2>1. toStart \in [Type -> Nat]
    BY DEF SerialInv, TypeOK
  <2>2. toStart[t] > 0 /\ toStart' = [toStart EXCEPT ![t] = @ - 1]
    BY DEF StartServer
  <2> QED
    BY <2>1, <2>2
<1> QED
  BY <1>1, <1>2, InstantStep DEF StartServer

(* addServer without a boot delay, issued as SerialAdd allows.             *)
LEMMA AddServerNowStep ==
  ASSUME SerialInv, NEW t \in Type, SerialAdd(t), AddServerNow(t)
  PROVE  SerialInv'
<1>1. bootType = NoType /\ removing = NoServer
  BY NoneBootingMeans DEF SerialAdd, CarefulAdd
<1>2. toStart' \in [Type -> Nat]
  BY DEF SerialInv, TypeOK, AddServerNow
<1> QED
  BY <1>1, <1>2, InstantStep DEF AddServerNow

(* The ASSERTs of addServer hold whenever SerialAdd does.                  *)
LEMMA AddServerFailsStep ==
  ASSUME SerialInv, NEW t \in Type, SerialAdd(t) PROVE ~AddServerFails(t)
<1>1. events = {}
  BY NotBooting, NoneBootingMeans DEF SerialAdd, CarefulAdd
<1> QED
  BY <1>1 DEF SerialAdd, CarefulAdd, AddServerFails, MayAddServer, IsServerBooting

(* The arrival of a BootComplete.                                          *)
LEMMA BootCompleteStep ==
  ASSUME SerialInv, NEW m \in Id, BootComplete(m)
  PROVE  SerialInv'
<1>1. TypeOK /\ BootInv /\ RemovalInv /\ ConnectionInv
  BY DEF SerialInv
<1>2. /\ m \in Live \ busy /\ pending = {m} /\ bootType = typeOf[m] /\ removing = NoServer
      /\ typeOf[m] \in Type /\ bootType # NoType /\ ~removeMsg
  BY <1>1 DEF BootComplete, BootInv, RemovalInv, Live, TypeOK
<1>3. /\ events' = {} /\ bootType' = NoType /\ pending' = {}
      /\ active' = [active EXCEPT ![typeOf[m]] = @ + 1]
  BY <1>1, <1>2 DEF BootComplete, ModelServerBecameActive, BootInv
<1>4. Live' = Live /\ Live \subseteq Id
  BY DEF Live, BootComplete
<1>5. /\ active' \in [Type -> Nat]
      /\ \A s \in Type : active'[s] = active[s] + (IF s = typeOf[m] THEN 1 ELSE 0)
  BY <1>1, <1>2, <1>3, ActiveNat
<1>6. \A s \in Type : GetServers(s)' = GetServers(s)
  <2> \A s \in Type : active[s] \in Nat /\ s # NoType
    BY <1>1, ActiveNat DEF Type, NoType
  <2> QED
    BY <1>2, <1>3, <1>5 DEF GetServers
<1>7. /\ outGate' \in [Id -> Gate \cup {Unconnected}]
      /\ outGate'[m] # Unconnected
      /\ \A n \in Id \ {m} : outGate'[n] = outGate[n]
  <2>1. PICK g \in Gate : outGate' = [outGate EXCEPT ![m] = g]
    BY DEF DoAddServerBootComplete, BootComplete
  <2>2. outGate \in [Id -> Gate \cup {Unconnected}]
    BY <1>1 DEF TypeOK
  <2> QED
    BY <2>1, <2>2, GateNat
<1>8. GetTotalActiveServers' >= 1
  BY <1>1, <1>2, <1>5, ActiveNat DEF GetTotalActiveServers, Type
<1>9. TypeOK'
  <2>1. \A s \in Type : GetServers(s)' <= MaxServers[s]
    BY <1>1, <1>6 DEF TypeOK
  <2>2. UNCHANGED <<brownout, traffic, toStart, typeOf, index, serverBrownout, jobVars,
                    removing, removeMsg, fault>>
    BY DEF BootComplete
  <2> QED
    BY <1>1, <1>3, <1>5, <1>7, <2>1, <2>2 DEF TypeOK, jobVars
<1>10. UniqueNames' /\ NamesCounted' /\ CountsNamed'
  <2> \A n \in Live : typeOf[n] \in Type
    BY <1>1 DEF TypeOK, Live
  <2> QED
    BY <1>4, <1>6 DEF SerialInv, UniqueNames, NamesCounted, CountsNamed, BootComplete
<1>11. BootInv' /\ RemovalInv' /\ StartInv'
  BY <1>2, <1>3, <1>8 DEF BootInv, RemovalInv, StartInv, BootComplete
<1>12. ConnectionInv'
  <2>1. \A n \in Live : n # m => n \in Connected
    BY <1>1, <1>2, <1>4, NoServerAssumption DEF ConnectionInv
  <2>2. \A n \in Live : n \in Connected'
    BY <1>4, <1>7, <2>1 DEF Connected
  <2>3. busy \subseteq Live
    BY <1>1, <1>2, NoServerAssumption DEF ConnectionInv, Connected, TypeOK
  <2>4. \A n \in Id \ Live : outGate'[n] = Unconnected
    BY <1>1, <1>2, <1>7 DEF ConnectionInv
  <2> QED
    BY <1>1, <1>4, <2>2, <2>3, <2>4 DEF ConnectionInv, BootComplete, jobVars
<1> QED
  BY <1>4, <1>9, <1>10, <1>11, <1>12 DEF SerialInv, NoFault, BrownoutAgrees, BootComplete

(* The model expects every BootComplete that arrives.                      *)
LEMMA BootCompleteFailsStep ==
  ASSUME SerialInv, NEW m \in Id PROVE ~BootCompleteFails(m)
  BY DEF SerialInv, BootInv, BootCompleteFails, Live

(* removeServer, issued as SerialRemove allows.                            *)
LEMMA RemoveServerStep ==
  ASSUME SerialInv, NEW t \in Type, SerialRemove(t), RemoveServer(t)
  PROVE  SerialInv'
<1>1. TypeOK /\ BootInv /\ RemovalInv /\ ConnectionInv /\ UniqueNames /\ StartInv
  BY DEF SerialInv
<1>2. PICK m \in Named(t, GetServers(t)) :
        /\ Disconnect(m) /\ CancelBoot(m) /\ removing' = m /\ removeMsg' = IsEmpty(m)
        /\ missed' = (m \in busy \ held)
  BY DEF RemoveServer
<1>3. /\ m \in Live /\ m \in Id /\ typeOf[m] = t /\ index[m] = GetServers(t)
      /\ outGate' = [outGate EXCEPT ![m] = Unconnected] /\ pending' = pending \ {m}
      /\ removeMsg' = (m \notin held) /\ missed' = (m \in busy \ held)
  BY <1>2 DEF Named, Live, Disconnect, CancelBoot, IsEmpty
<1>4. /\ removing = NoServer /\ bootType \in {NoType, t} /\ GetTotalActiveServers > 1
      /\ UNCHANGED <<modelVars, toStart, typeOf, index, serverBrownout, busy, held, fault>>
      /\ Started
  BY DEF SerialRemove, RemoveServer, CommandPossible
<1>5. Live' = Live /\ Live \subseteq Id
  BY <1>4 DEF Live
<1>6. \A n \in pending : n = m
  BY <1>1, <1>3, <1>4 DEF BootInv, UniqueNames, Live
<1>7. pending' = {}
  BY <1>3, <1>6
<1>8. bootType # NoType => m \notin busy /\ m \notin held
  BY <1>1, <1>4, <1>6 DEF BootInv, RemovalInv, TypeOK
<1>9. outGate' \in [Id -> Gate \cup {Unconnected}] /\ outGate'[m] = Unconnected
      /\ \A n \in Id \ {m} : outGate'[n] = outGate[n]
  <2> outGate \in [Id -> Gate \cup {Unconnected}]
    BY <1>1 DEF TypeOK
  <2> QED
    BY <1>3
<1>10. TypeOK'
  <2>1. missed' \in BOOLEAN /\ removeMsg' \in BOOLEAN
    BY <1>3
  <2> QED
    BY <1>1, <1>2, <1>3, <1>4, <1>7, <1>9, <2>1 DEF TypeOK, GetServers, modelVars
<1>11. UniqueNames' /\ NamesCounted' /\ CountsNamed'
  BY <1>4, <1>5 DEF SerialInv, UniqueNames, NamesCounted, CountsNamed, GetServers, modelVars
<1>12. BootInv'
  BY <1>1, <1>2, <1>3, <1>4, <1>7, <1>8 DEF BootInv, modelVars
<1>13. RemovalInv'
  <2>1. GetServers(t)' = GetServers(t) /\ GetTotalActiveServers' = GetTotalActiveServers
    BY <1>4 DEF GetServers, GetTotalActiveServers, modelVars
  <2>2. index'[m] = GetServers(t)' /\ typeOf'[m] = t /\ m \in Live' /\ bootType' \in {NoType, t}
    BY <1>3, <1>4, <1>5, <2>1 DEF modelVars
  <2>3. removeMsg' /\ m \in busy' => missed'
    BY <1>3, <1>4
  <2>4. m # NoServer
    BY <1>3, NoServerAssumption
  <2> QED
    BY <1>2, <1>4, <1>9, <2>1, <2>2, <2>3, <2>4 DEF RemovalInv
<1>14. ConnectionInv'
  <2>1. \A n \in Live : n # m => n \in Connected
    BY <1>1, <1>4, <1>5, <1>6, NoServerAssumption DEF ConnectionInv
  <2>2. \A n \in Live : n # m => n \in Connected'
    BY <1>5, <1>9, <2>1 DEF Connected
  <2>3. busy \subseteq Live
    BY <1>1, <1>4, NoServerAssumption DEF ConnectionInv, Connected, TypeOK
  <2>4. \A n \in Id \ Live : outGate'[n] = Unconnected /\ serverBrownout'[n] = DefaultFactor
    BY <1>1, <1>3, <1>4, <1>9 DEF ConnectionInv
  <2> QED
    BY <1>2, <1>4, <1>5, <2>2, <2>3, <2>4 DEF ConnectionInv
<1>15. StartInv' /\ NoFault' /\ BrownoutAgrees'
  BY <1>4, <1>5 DEF SerialInv, StartInv, Started, NoFault, BrownoutAgrees,
     GetTotalActiveServers, modelVars
<1> QED
  BY <1>10, <1>11, <1>12, <1>13, <1>14, <1>15 DEF SerialInv

(* The ASSERTs of removeServer hold and the module exists whenever         *)
(* SerialRemove allows the command.                                        *)
LEMMA RemoveServerFailsStep ==
  ASSUME SerialInv, NEW t \in Type, SerialRemove(t) PROVE ~RemoveServerFails(t)
<1>1. MayRemoveServer
  BY DEF SerialRemove, MayRemoveServer
<1>2. GetServers(t) \in 1 .. GetServers(t)
  BY GetServersNat DEF SerialRemove, SerialInv
<1>3. Named(t, GetServers(t)) # {}
  BY <1>2 DEF SerialInv, CountsNamed, Named
<1> QED
  BY <1>1, <1>3 DEF RemoveServerFails

(* The arrival of completeRemoveMsg: whether the server was booting or     *)
(* active, its name was the last of its type.                              *)
LEMMA CompleteRemovalStep ==
  ASSUME SerialInv, CompleteRemoval
  PROVE  SerialInv'
<1>1. TypeOK /\ BootInv /\ RemovalInv /\ ConnectionInv /\ StartInv /\ NamesCounted
  BY DEF SerialInv
<1> DEFINE r == removing
<1>2. /\ r \in Live /\ r \in Id /\ r # NoServer /\ outGate[r] = Unconnected
      /\ index[r] = GetServers(typeOf[r]) /\ typeOf[r] \in Type
      /\ bootType \in {NoType, typeOf[r]}
      /\ bootType = NoType => GetTotalActiveServers > 1
  BY <1>1 DEF CompleteRemoval, RemovalInv, TypeOK, Live
<1>3. /\ removeMsg' = FALSE /\ removing' = NoServer /\ busy' = busy \ {r} /\ bootType' = NoType
      /\ held' = held \ {r} /\ missed' = FALSE
      /\ typeOf' = [typeOf EXCEPT ![r] = NoType] /\ index' = [index EXCEPT ![r] = 0]
      /\ serverBrownout' = [serverBrownout EXCEPT ![r] = DefaultFactor]
      /\ UNCHANGED <<brownout, traffic, toStart, outGate, pending, fault>>
  BY DEF CompleteRemoval, ModelRemoveServer
<1>4. pending = {} /\ Started
  BY <1>1, <1>2 DEF BootInv, StartInv
<1>5. /\ events' = {}
      /\ active' \in [Type -> Nat]
      /\ \A s \in Type : GetServers(s)' = GetServers(s) - (IF s = typeOf[r] THEN 1 ELSE 0)
      /\ GetTotalActiveServers' >= 1
  <2>1. \A s \in Type : s # NoType /\ active[s] \in Nat
    BY <1>1, ActiveNat DEF Type, NoType
  <2>2. CASE bootType = NoType
    <3>1. active' = [active EXCEPT ![typeOf[r]] = @ - 1] /\ events' = {}
      BY <1>1, <2>2 DEF CompleteRemoval, ModelRemoveServer, IsServerBooting, BootInv
    <3>2. active[typeOf[r]] >= 1
      <4>1. GetServers(typeOf[r]) = active[typeOf[r]]
        BY <1>2, <2>1, <2>2 DEF GetServers
      <4>2. index[r] \in 1 .. GetServers(typeOf[r])
        BY <1>1, <1>2 DEF NamesCounted
      <4> QED
        BY <1>2, <2>1, <4>1, <4>2
    <3>3. active \in [Type -> Nat]
      BY <1>1, ActiveNat
    <3>4. /\ active' \in [Type -> Nat]
          /\ \A s \in Type : active'[s] = active[s] - (IF s = typeOf[r] THEN 1 ELSE 0)
      BY <1>2, <3>1, <3>2, <3>3
    <3>5. GetTotalActiveServers' = GetTotalActiveServers - 1
      BY <1>1, <1>2, <3>4, ActiveNat DEF GetTotalActiveServers, Type
    <3>6. \A s \in Type : GetServers(s)' = GetServers(s) - (IF s = typeOf[r] THEN 1 ELSE 0)
      BY <1>3, <2>1, <2>2, <3>4 DEF GetServers
    <3> QED
      BY <1>1, <1>2, <2>2, <3>1, <3>4, <3>5, <3>6, ActiveNat
  <2>3. CASE bootType = typeOf[r]
    <3>1. active' = active /\ events' = {}
      BY <1>1, <1>2, <2>1, <2>3 DEF CompleteRemoval, ModelRemoveServer, IsServerBooting, BootInv
    <3>2. \A s \in Type : GetServers(s)' = GetServers(s) - (IF s = typeOf[r] THEN 1 ELSE 0)
      BY <1>2, <1>3, <2>1, <2>3, <3>1 DEF GetServers
    <3>3. GetTotalActiveServers' = GetTotalActiveServers /\ GetTotalActiveServers >= 1
      BY <1>1, <1>4, <3>1 DEF GetTotalActiveServers, StartInv
    <3> QED
      BY <1>1, <3>1, <3>2, <3>3, ActiveNat
  <2> QED
    BY <1>2, <2>2, <2>3
<1>6. Removed(r)
  BY <1>2, <1>3, <1>5 DEF Removed
<1>7. UniqueNames' /\ NamesCounted' /\ CountsNamed'
  BY <1>2, <1>6, NamesAfterRemove DEF SerialInv
<1>8. Live' = Live \ {r} /\ Live \subseteq Id
  BY <1>1, <1>2, <1>6, LiveAfterRemove DEF Live
<1>9. TypeOK'
  <2>1. \A s \in Type : GetServers(s)' <= MaxServers[s]
    <3> \A s \in Type : GetServers(s) \in Nat /\ GetServers(s) <= MaxServers[s]
      BY <1>1, GetServersNat DEF TypeOK
    <3> QED
      BY <1>5, MaxServersAssumption
  <2>2. index' \in [Id -> Nat] /\ typeOf' \in [Id -> Type \cup {NoType}]
    BY <1>1, <1>3 DEF TypeOK
  <2>3. serverBrownout' \in [Id -> Factor]
    BY <1>1, <1>3, FactorAssumption DEF TypeOK
  <2> QED
    BY <1>1, <1>3, <1>5, <2>1, <2>2, <2>3 DEF TypeOK
<1>10. BootInv' /\ RemovalInv' /\ StartInv'
  BY <1>3, <1>4, <1>5 DEF BootInv, RemovalInv, StartInv
<1>11. ConnectionInv'
  <2>1. \A n \in Live' : n \in Connected'
    BY <1>1, <1>3, <1>4, <1>8 DEF ConnectionInv, Connected
  <2>2. busy' \subseteq Live'
    BY <1>1, <1>2, <1>3, <1>8 DEF ConnectionInv, Connected, TypeOK
  <2>3. \A n \in Id \ Live' : outGate'[n] = Unconnected /\ serverBrownout'[n] = DefaultFactor
    <3> serverBrownout \in [Id -> Factor]
      BY <1>1 DEF TypeOK
    <3> QED
      BY <1>1, <1>2, <1>3, <1>8 DEF ConnectionInv
  <2> QED
    BY <2>1, <2>2, <2>3 DEF ConnectionInv
<1>12. NoFault' /\ BrownoutAgrees'
  <2> serverBrownout \in [Id -> Factor]
    BY <1>1 DEF TypeOK
  <2> QED
    BY <1>3, <1>8 DEF SerialInv, NoFault, BrownoutAgrees
<1> QED
  BY <1>7, <1>9, <1>10, <1>11, <1>12 DEF SerialInv

(* A job goes to a connected module, so not to one that boots or drains.   *)
LEMMA JobArrivesStep ==
  ASSUME SerialInv, NEW m \in Id, JobArrives(m)
  PROVE  SerialInv'
<1>1. /\ busy' = busy \cup {m} /\ m \in Connected
      /\ UNCHANGED <<modelVars, toStart, moduleVars, held, missed, pending, removing, removeMsg,
                     fault>>
  BY DEF JobArrives
<1>2. m # removing /\ m \notin pending
  BY <1>1, NoServerAssumption DEF SerialInv, RemovalInv, BootInv, Connected
<1>3. RemovalInv'
  BY <1>1, <1>2 DEF SerialInv, RemovalInv, GetServers, GetTotalActiveServers, Live, modelVars, moduleVars
<1>4. /\ busy' \in SUBSET Id /\ removeMsg' \in BOOLEAN
      /\ held' \in SUBSET busy' /\ missed' \in BOOLEAN
  BY <1>1 DEF SerialInv, TypeOK
<1>5. \A n \in busy' : n \in Connected \/ n = removing
  BY <1>1 DEF SerialInv, ConnectionInv
<1>6. \A n \in pending : n \notin busy'
  BY <1>1, <1>2 DEF SerialInv, BootInv
<1> QED
  BY <1>1, <1>3, <1>4, <1>5, <1>6, JobStep

(* JobEnters and JobRequested: a job moves inside its module.              *)
LEMMA JobMovesStep ==
  ASSUME SerialInv, NEW m \in Id, JobEnters(m) \/ JobRequested(m)
  PROVE  SerialInv'
<1>1. /\ held' \in SUBSET busy
      /\ UNCHANGED <<modelVars, toStart, moduleVars, busy, missed, pending, removing, removeMsg,
                     fault>>
  BY DEF JobEnters, JobRequested, SerialInv, TypeOK
<1>2. RemovalInv'
  BY <1>1 DEF SerialInv, RemovalInv, GetServers, GetTotalActiveServers, Live, modelVars, moduleVars
<1>3. /\ busy' \in SUBSET Id /\ held' \in SUBSET busy' /\ missed' \in BOOLEAN
      /\ removeMsg' \in BOOLEAN
  BY <1>1 DEF SerialInv, TypeOK
<1>4. \A n \in busy' : n \in Connected \/ n = removing
  BY <1>1 DEF SerialInv, ConnectionInv
<1>5. \A n \in pending : n \notin busy'
  BY <1>1 DEF SerialInv, BootInv
<1> QED
  BY <1>1, <1>2, <1>3, <1>4, <1>5, JobStep

(* LastJobEnds and LastJobTimesOut.                                        *)
LEMMA JobLeavesStep ==
  ASSUME SerialInv, NEW m \in Id, busy' = busy \ {m}, held' = held \ {m},
         removeMsg' = removeMsg \/ removeMsg' = (removeMsg \/ removing = m),
         UNCHANGED <<modelVars, toStart, moduleVars, missed, pending, removing, fault>>
  PROVE  SerialInv'
<1>1. /\ removeMsg' \in BOOLEAN /\ busy' \in SUBSET Id
      /\ held' \in SUBSET busy' /\ missed' \in BOOLEAN
  BY DEF SerialInv, TypeOK
<1>2. removeMsg => removeMsg'
  OBVIOUS
<1>3. removeMsg' => removing # NoServer /\ (removing \in busy' => missed')
  BY NoServerAssumption DEF SerialInv, RemovalInv
<1>4. RemovalInv'
  BY <1>3 DEF SerialInv, RemovalInv, GetServers, GetTotalActiveServers, Live, modelVars, moduleVars
<1>5. \A n \in busy' : n \in Connected \/ n = removing
  BY DEF SerialInv, ConnectionInv
<1>6. \A n \in pending : n \notin busy'
  BY DEF SerialInv, BootInv
<1> QED
  BY <1>1, <1>2, <1>4, <1>5, <1>6, JobStep

(* The last job of a module ends.                                          *)
LEMMA LastJobEndsStep ==
  ASSUME SerialInv, NEW m \in Id, LastJobEnds(m) PROVE SerialInv'
  BY JobLeavesStep DEF LastJobEnds, ReceiveIdleSignal

(* The last job of a module has timed out.                                 *)
LEMMA LastJobTimesOutStep ==
  ASSUME SerialInv, NEW m \in Id, LastJobTimesOut(m) PROVE SerialInv'
<1>1. held' = held \ {m}
  BY DEF LastJobTimesOut
<1> QED
  BY <1>1, JobLeavesStep DEF LastJobTimesOut

(* setBrownout reaches every module, because it looks up every name.       *)
LEMMA SetBrownoutStep ==
  ASSUME SerialInv, NEW f \in Factor, SetBrownout(f)
  PROVE  SerialInv'
<1>1. PICK S \in SUBSET Live :
        /\ IsBrownoutTarget(S)
        /\ serverBrownout' = [m \in Id |-> IF m \in S THEN f ELSE serverBrownout[m]]
  BY DEF SetBrownout
<1>2. /\ brownout' = f
      /\ UNCHANGED <<active, bootType, events, traffic, toStart, typeOf, index, outGate,
                     jobVars, pending, removing, removeMsg, fault>>
  BY DEF SetBrownout, ModelSetBrownoutFactor
<1>3. Live' = Live /\ Live \subseteq Id /\ \A t \in Type : GetServers(t)' = GetServers(t)
  BY <1>2 DEF Live, GetServers
<1>4. S = Live
  <2> SUFFICES ASSUME NEW m \in Live PROVE m \in S
    OBVIOUS
  <2>1. typeOf[m] \in Type /\ index[m] \in 1 .. GetServers(typeOf[m])
    BY DEF SerialInv, TypeOK, NamesCounted, Live
  <2>2. S \cap Named(typeOf[m], index[m]) # {}
    BY <1>1, <2>1 DEF IsBrownoutTarget
  <2> QED
    BY <2>2 DEF SerialInv, UniqueNames, Named
<1>5. TypeOK'
  BY <1>1, <1>2, <1>3 DEF SerialInv, TypeOK, jobVars
<1>6. UniqueNames' /\ NamesCounted' /\ CountsNamed'
  <2> \A m \in Live : typeOf[m] \in Type
    BY DEF SerialInv, TypeOK, Live
  <2> QED
    BY <1>2, <1>3 DEF SerialInv, UniqueNames, NamesCounted, CountsNamed
<1>7. BootInv' /\ RemovalInv' /\ StartInv' /\ NoFault'
  BY <1>2, <1>3 DEF SerialInv, BootInv, RemovalInv, StartInv, Started, NoFault, GetServers,
     GetTotalActiveServers, jobVars
<1>8. ConnectionInv'
  BY <1>1, <1>2, <1>3 DEF SerialInv, ConnectionInv, Connected, jobVars
<1>9. BrownoutAgrees'
  BY <1>1, <1>2, <1>3, <1>4 DEF BrownoutAgrees
<1> QED
  BY <1>5, <1>6, <1>7, <1>8, <1>9 DEF SerialInv

(* setBrownout finds every module that it looks up.                        *)
LEMMA SetBrownoutFailsStep ==
  ASSUME SerialInv PROVE ~SetBrownoutFails
<1> SUFFICES ASSUME NEW t \in Type, NEW i \in 1 .. GetServers(t)
             PROVE  Named(t, i) # {}
  BY DEF SetBrownoutFails
<1> QED
  BY DEF SerialInv, CountsNamed, Named

(* divertTraffic changes the traffic shares only.                          *)
LEMMA DivertTrafficStep ==
  ASSUME SerialInv, NEW load \in TrafficChoice, DivertTraffic(load)
  PROVE  SerialInv'
<1>1. traffic' \in [Type -> TrafficLoad]
  BY TrafficAssumption DEF DivertTraffic, ModelSetTrafficLoad
<1>2. UNCHANGED <<active, bootType, events, brownout, toStart, moduleVars, jobVars,
                  pending, removing, removeMsg, fault>>
  BY DEF DivertTraffic
<1>3. Live' = Live /\ \A t \in Type : GetServers(t)' = GetServers(t)
  BY <1>2 DEF Live, GetServers, moduleVars
<1>4. TypeOK'
  BY <1>1, <1>2, <1>3 DEF SerialInv, TypeOK, moduleVars, jobVars
<1>5. UniqueNames' /\ NamesCounted' /\ CountsNamed'
  BY <1>2, <1>3 DEF SerialInv, UniqueNames, NamesCounted, CountsNamed, GetServers,
     moduleVars, jobVars
<1>6. BootInv' /\ RemovalInv' /\ StartInv' /\ NoFault'
  BY <1>2, <1>3 DEF SerialInv, BootInv, RemovalInv, StartInv, Started, NoFault, GetServers,
     GetTotalActiveServers, moduleVars, jobVars
<1>7. ConnectionInv' /\ BrownoutAgrees'
  BY <1>2, <1>3 DEF SerialInv, ConnectionInv, Connected, BrownoutAgrees, moduleVars, jobVars
<1> QED
  BY <1>4, <1>5, <1>6, <1>7 DEF SerialInv

(* A step that changes nothing.                                            *)
LEMMA StutterStep ==
  ASSUME SerialInv, UNCHANGED vars PROVE SerialInv'
<1>1. /\ busy' \in SUBSET Id /\ held' \in SUBSET busy' /\ missed' \in BOOLEAN
      /\ removeMsg' \in BOOLEAN
  BY DEF SerialInv, TypeOK, vars, jobVars
<1>2. RemovalInv'
  BY DEF SerialInv, RemovalInv, GetServers, GetTotalActiveServers, Live, vars, modelVars,
     moduleVars, jobVars
<1> QED
  BY <1>1, <1>2, JobStep DEF SerialInv, ConnectionInv, BootInv, vars, jobVars

(* Every step of SerialClientSpec preserves the invariant.                 *)
LEMMA SerialStep ==
  ASSUME SerialInv, [SerialClientNext]_vars PROVE SerialInv'
<1>1. CASE SystemNext
  BY <1>1, StartServerStep, BootCompleteStep, BootCompleteFailsStep, CompleteRemovalStep,
     JobArrivesStep, JobMovesStep, LastJobEndsStep, LastJobTimesOutStep DEF SystemNext
<1>2. CASE SetCommand
  BY <1>2, SetBrownoutStep, SetBrownoutFailsStep, DivertTrafficStep DEF SetCommand
<1>3. CASE \E t \in Type : SerialAdd(t) /\ AddCommand(t)
  BY <1>3, AddServerStep, AddServerNowStep, AddServerFailsStep DEF AddCommand
<1>4. CASE \E t \in Type : SerialRemove(t) /\ RemoveCommand(t)
  BY <1>4, RemoveServerStep, RemoveServerFailsStep DEF RemoveCommand
<1>5. CASE UNCHANGED vars
  BY <1>5, StutterStep
<1> QED
  BY <1>1, <1>2, <1>3, <1>4, <1>5 DEF SerialClientNext

(* The inductive invariant holds for a client that runs one adaptation at  *)
(* a time.                                                                 *)
THEOREM SerialInvariant == SerialClientSpec => []SerialInv
<1> QED
  BY InitSerial, SerialStep, PTL DEF SerialClientSpec

(***************************************************************************)
(* What the invariant implies.                                             *)
(***************************************************************************)

(* Every variable keeps its type, and no count of the model exceeds the    *)
(* maximum, although addServer and removeServer count by type only.        *)
THEOREM TypeCorrectness == SerialClientSpec => []TypeOK
<1>1. SerialInv => TypeOK
  BY DEF SerialInv
<1> QED
  BY <1>1, SerialInvariant, PTL

(* No ASSERT of addServer, removeServer, HPModel::addServer or             *)
(* serverBecameActive fails, and no lookup by name returns NULL.           *)
THEOREM NoFaultTheorem == SerialClientSpec => []NoFault
<1>1. SerialInv => NoFault
  BY DEF SerialInv
<1> QED
  BY <1>1, SerialInvariant, PTL

(* Every server runs with the brownout factor of the model.                *)
THEOREM BrownoutTheorem == SerialClientSpec => []BrownoutAgrees
<1>1. SerialInv => BrownoutAgrees
  BY DEF SerialInv
<1> QED
  BY <1>1, SerialInvariant, PTL

(* The names computed from the counts of the model are those in use.       *)
THEOREM NamesTheorem == SerialClientSpec => []NamesMatchCounts
<1>1. ASSUME SerialInv PROVE NamesMatchCounts
  <2> SUFFICES ASSUME NEW t \in Type
               PROVE  /\ {index[m] : m \in {n \in Live : typeOf[n] = t}} = 1 .. GetServers(t)
                      /\ \A m, n \in Live :
                           typeOf[m] = t /\ typeOf[n] = t /\ index[m] = index[n] => m = n
    BY DEF NamesMatchCounts
  <2>1. \A m \in Live : typeOf[m] = t => index[m] \in 1 .. GetServers(t)
    BY <1>1 DEF SerialInv, NamesCounted
  <2>2. \A i \in 1 .. GetServers(t) : \E m \in Live : typeOf[m] = t /\ index[m] = i
    BY <1>1 DEF SerialInv, CountsNamed
  <2> QED
    BY <1>1, <2>1, <2>2 DEF SerialInv, UniqueNames
<1> QED
  BY <1>1, SerialInvariant, PTL

(* The expected change of the model and the scheduled BootComplete are two *)
(* records of one boot.                                                    *)
THEOREM BootRecordsTheorem == SerialClientSpec => []BootRecordsAgree
<1>1. ASSUME SerialInv PROVE BootRecordsAgree
  <2>1. BootInv /\ TypeOK
    BY <1>1 DEF SerialInv
  <2>2. \A m \in pending : m \in Live \ Connected /\ events = {typeOf[m]}
    BY <2>1 DEF BootInv, Connected, Live
  <2>3. Cardinality(pending) <= 1
    <3>1. CASE pending = {}
      BY <3>1, FS_EmptySet
    <3>2. CASE pending # {}
      <4>1. PICK m : pending = {m}
        BY <2>1, <3>2 DEF BootInv
      <4>2. Cardinality({m}) = 1
        BY FS_Singleton
      <4> QED
        BY <4>1, <4>2
    <3> QED
      BY <3>1, <3>2
  <2> QED
    BY <2>1, <2>2, <2>3 DEF BootInv, BootRecordsAgree
<1> QED
  BY <1>1, SerialInvariant, PTL

(* Some server is connected once the simulation has started, although      *)
(* removeServer asks the model, which counts the server it cuts off.       *)
THEOREM SomeServerTheorem == SerialClientSpec => []SomeServerServes
<1>1. ASSUME SerialInv, Started PROVE Connected # {}
  <2>1. TypeOK /\ NamesCounted /\ CountsNamed /\ BootInv /\ RemovalInv /\ ConnectionInv /\ StartInv
    BY <1>1 DEF SerialInv
  <2>2. \A s \in Type : active[s] \in Nat /\ s # NoType
    BY <2>1, ActiveNat DEF Type, NoType
  <2>3. SUFFICES \E m \in Live \ pending : m # removing
    BY <2>1 DEF ConnectionInv
  <2>4. ASSUME NEW s \in Type, NEW i \in 1 .. active[s],
               removing # NoServer /\ bootType = NoType /\ s = typeOf[removing] => i # active[s]
        PROVE  \E m \in Live \ pending : m # removing
    <3>1. i \in 1 .. GetServers(s) /\ (bootType = s => i # GetServers(s))
          /\ (bootType # s => GetServers(s) = active[s])
      BY <2>2 DEF GetServers
    <3>2. PICK m \in Live : typeOf[m] = s /\ index[m] = i
      BY <2>1, <3>1 DEF CountsNamed
    <3>3. m \notin pending
      BY <2>1, <3>1, <3>2 DEF BootInv
    <3>4. m # removing
      BY <2>1, <2>2, <2>4, <3>1, <3>2, NoServerAssumption DEF RemovalInv, Live
    <3> QED
      BY <3>2, <3>3, <3>4
  <2>5. CASE removing # NoServer /\ bootType = NoType
    <3>1. GetTotalActiveServers > 1 /\ typeOf[removing] \in Type
      BY <2>1, <2>5 DEF RemovalInv, TypeOK, Live
    <3>2. \/ active[typeOf[removing]] >= 2
          \/ \E s \in Type : s # typeOf[removing] /\ active[s] >= 1
      <4>1. active["A"] + active["B"] + active["C"] > 1
        BY <3>1 DEF GetTotalActiveServers
      <4> QED
        BY <2>1, <3>1, <4>1, ActiveNat DEF Type
    <3> QED
      BY <2>2, <2>4, <3>1, <3>2
  <2>6. CASE ~(removing # NoServer /\ bootType = NoType)
    <3>1. \E s \in Type : active[s] >= 1
      <4>1. active["A"] + active["B"] + active["C"] >= 1
        BY <1>1, <2>1 DEF StartInv, GetTotalActiveServers
      <4> QED
        BY <2>1, <4>1, ActiveNat DEF Type
    <3> QED
      BY <2>2, <2>4, <2>6, <3>1
  <2> QED
    BY <2>5, <2>6
<1>2. SerialInv => SomeServerServes
  BY <1>1 DEF SomeServerServes
<1> QED
  BY <1>2, SerialInvariant, PTL

(* What the model calls an active server is connected to the load balancer *)
(* or being drained, type by type.                                         *)
LEMMA ActiveCount ==
  ASSUME SerialInv, NEW t \in Type
  PROVE  /\ active[t] = Cardinality(ConnectedOf(t)) + Draining(t)
         /\ IsFiniteSet(ConnectedOf(t))
<1> DEFINE k == active[t] - Draining(t)
<1>0. Draining(t) \in {0, 1}
  BY DEF Draining
<1>1. TypeOK /\ UniqueNames /\ NamesCounted /\ CountsNamed /\ BootInv /\ RemovalInv /\ ConnectionInv
  BY DEF SerialInv
<1>2. active[t] \in Nat /\ t # NoType /\ (IsServerBooting <=> bootType # NoType)
  BY <1>1, ActiveNat DEF Type, NoType, BootInv, IsServerBooting
<1>3. Draining(t) = 1 => /\ bootType = NoType /\ removing \in Live /\ index[removing] = active[t]
                     /\ active[t] >= 1 /\ typeOf[removing] = t
  <2>1. Draining(t) = 1 => bootType = NoType /\ removing \in Live /\ typeOf[removing] = t
    BY <1>1, <1>2 DEF RemovalInv, Draining
  <2>2. Draining(t) = 1 => GetServers(t) = active[t]
    BY <1>2, <2>1 DEF GetServers
  <2>3. Draining(t) = 1 => removing # NoServer
    BY DEF Draining
  <2> QED
    BY <1>1, <1>2, <2>1, <2>2, <2>3 DEF RemovalInv, NamesCounted
<1>4. k \in Nat /\ active[t] = k + Draining(t)
  BY <1>0, <1>2, <1>3
<1>5. ConnectedOf(t) = {m \in Live : typeOf[m] = t /\ index[m] \in 1 .. k}
  <2> SUFFICES ASSUME NEW m \in Live, typeOf[m] = t
               PROVE  m \in Connected <=> index[m] \in 1 .. k
    BY DEF ConnectedOf, Connected
  <2>1. index[m] \in 1 .. GetServers(t)
    BY <1>1 DEF NamesCounted
  <2>2. m \in Connected <=> m \notin pending /\ m # removing
    BY <1>1, NoServerAssumption DEF ConnectionInv, BootInv, RemovalInv, Connected, Live
  <2>3. CASE bootType = t
    <3>1. GetServers(t) = active[t] + 1 /\ k = active[t]
      BY <1>2, <2>3 DEF GetServers, Draining
    <3>2. PICK n \in Live : typeOf[n] = t /\ index[n] = GetServers(t)
      BY <1>1, <1>2, <3>1 DEF CountsNamed
    <3>3. n \in pending \/ n = removing
      BY <1>1, <1>2, <2>3, <3>2 DEF BootInv, RemovalInv, UniqueNames, Live
    <3>4. m \in pending \/ m = removing => index[m] = GetServers(t)
      BY <1>1, NoServerAssumption DEF BootInv, RemovalInv, Live
    <3> QED
      BY <1>1, <1>2, <2>1, <2>2, <3>1, <3>2, <3>3, <3>4 DEF UniqueNames
  <2>4. CASE bootType # t
    <3>1. GetServers(t) = active[t] /\ m \notin pending
      BY <1>1, <1>2, <2>4 DEF GetServers, BootInv
    <3>2. CASE Draining(t) = 1
      <4>1. removing \in Live /\ typeOf[removing] = t /\ index[removing] = active[t]
        BY <1>3, <3>2
      <4>2. m = removing <=> index[m] = active[t]
        BY <1>1, <4>1 DEF UniqueNames
      <4> QED
        BY <1>2, <2>1, <2>2, <3>1, <3>2, <4>2
    <3>3. CASE Draining(t) = 0
      <4>1. m # removing
        BY <1>1, <1>2, <2>4, <3>3, NoServerAssumption DEF RemovalInv, Live, Draining
      <4> QED
        BY <2>1, <2>2, <3>1, <3>3, <4>1, <1>2
    <3> QED
      BY <1>0, <3>2, <3>3
  <2> QED
    BY <2>3, <2>4
<1>6. Cardinality(ConnectedOf(t)) = k /\ IsFiniteSet(ConnectedOf(t))
  <2> DEFINE f == [i \in 1 .. k |-> CHOOSE m \in Live : typeOf[m] = t /\ index[m] = i]
  <2>1. k <= GetServers(t)
    BY <1>0, <1>2 DEF GetServers
  <2>2. \A i \in 1 .. k : f[i] \in Live /\ typeOf[f[i]] = t /\ index[f[i]] = i
    <3> SUFFICES ASSUME NEW i \in 1 .. k
                 PROVE  \E m \in Live : typeOf[m] = t /\ index[m] = i
      OBVIOUS
    <3>1. i \in 1 .. GetServers(t)
      BY <1>1, <1>4, <2>1, GetServersNat
    <3> QED
      BY <1>1, <3>1 DEF CountsNamed
  <2>3. f \in Bijection(1 .. k, ConnectedOf(t))
    <3>1. f \in [1 .. k -> ConnectedOf(t)]
      BY <1>5, <2>2
    <3>2. \A i, j \in 1 .. k : f[i] = f[j] => i = j
      BY <2>2
    <3>3. \A m \in ConnectedOf(t) : \E i \in 1 .. k : f[i] = m
      BY <1>1, <1>5, <2>2 DEF UniqueNames
    <3> HIDE DEF f
    <3>4. DOMAIN f = 1 .. k
      BY <3>1
    <3> QED
      BY <3>1, <3>2, <3>3, <3>4 DEF Bijection, Injection, Surjection, IsInjective
  <2>4. ExistsBijection(1 .. k, ConnectedOf(t))
    BY <2>3 DEF ExistsBijection
  <2>5. Cardinality(ConnectedOf(t)) = k
    BY <1>4, <2>4, FS_CountingElements
  <2>6. IsFiniteSet(1 .. k)
    BY <1>4, FS_Interval
  <2>7. IsFiniteSet(ConnectedOf(t))
    BY <2>4, <2>6, FS_Bijection
  <2> QED
    BY <2>5, <2>7
<1> QED
  BY <1>4, <1>6

(* The active count of the model is the number of connected servers, plus  *)
(* the one that is being drained.                                          *)
THEOREM ActiveCountTheorem == SerialClientSpec => []ActiveCountsServingServers
<1>1. SerialInv => ActiveCountsServingServers
  BY ActiveCount DEF ActiveCountsServingServers, Draining
<1> QED
  BY <1>1, SerialInvariant, PTL

(***************************************************************************)
(* The pool of servers                                                     *)
(*                                                                         *)
(* The pool counts what the network connects, the manager counts what the  *)
(* model calls active.  SerialInv makes the pool's variables functions of  *)
(* the counts (PoolMapping), and then each handler is a step of the pool   *)
(* or leaves it alone.                                                     *)
(***************************************************************************)

(* The pool's variables.                                                   *)
Serving == [t \in Type |-> Cardinality(ConnectedOf(t))]
Starting == IF pending = {} THEN NoType ELSE typeOf[CHOOSE m \in pending : TRUE]
Stopping == IF removing = NoServer THEN NoType ELSE typeOf[removing]

(* The same, from the counts and the records of the model.                 *)
Mapped ==
  /\ Serving = [t \in Type |-> active[t] - Draining(t)]
  /\ Starting = (IF removing = NoServer THEN bootType ELSE NoType)

(* The invariant makes the two agree.                                      *)
LEMMA PoolMapping == SerialInv => Mapped
<1> SUFFICES ASSUME SerialInv PROVE Mapped
  OBVIOUS
<1>1. Serving = [t \in Type |-> active[t] - Draining(t)]
  <2> SUFFICES ASSUME NEW t \in Type
               PROVE  Cardinality(ConnectedOf(t)) = active[t] - Draining(t)
    BY DEF Serving
  <2>1. active[t] = Cardinality(ConnectedOf(t)) + Draining(t) /\ IsFiniteSet(ConnectedOf(t))
    BY ActiveCount
  <2>2. Cardinality(ConnectedOf(t)) \in Nat /\ Draining(t) \in {0, 1}
    BY <2>1, FS_CardinalityType DEF Draining
  <2> QED
    BY <2>1, <2>2
<1>2. Starting = (IF removing = NoServer THEN bootType ELSE NoType)
  <2>1. BootInv /\ RemovalInv
    BY DEF SerialInv
  <2>2. CASE pending = {}
    BY <2>1, <2>2 DEF Starting, BootInv, RemovalInv
  <2>3. CASE pending # {}
    <3>1. (CHOOSE m \in pending : TRUE) \in pending
      BY <2>3
    <3> QED
      BY <2>1, <2>3, <3>1 DEF Starting, BootInv
  <2> QED
    BY <2>2, <2>3
<1> QED
  BY <1>1, <1>2 DEF Mapped

(* The counts of the invariant.                                            *)
LEMMA PoolTypes ==
  ASSUME SerialInv
  PROVE  /\ \A t \in Type : active[t] \in Nat /\ t # NoType /\ Draining(t) \in {0, 1}
         /\ active \in [Type -> Nat]
         /\ \A t \in Type : GetServers(t) = active[t] + (IF bootType = t THEN 1 ELSE 0)
         /\ bootType \in Type \cup {NoType}
         /\ IsServerBooting <=> bootType # NoType
         /\ removing = NoServer => \A t \in Type : Draining(t) = 0
  BY DEF SerialInv, TypeOK, BootInv, Draining, GetServers, IsServerBooting, Type, NoType

(* A server that is there at once.                                         *)
LEMMA PoolServe ==
  ASSUME SerialInv, SerialInv', Mapped, Mapped', NEW t \in Type, removing = NoServer,
         MayAddServer(t), active' = [active EXCEPT ![t] = @ + 1], bootType' = NoType,
         UNCHANGED removing
  PROVE  Pool!Next
<1>1. bootType = NoType /\ \A s \in Type : Draining(s) = 0 /\ Draining(s)' = 0
  BY PoolTypes DEF MayAddServer, Draining
<1>2. Serving = active /\ Serving' = active'
  <2>1. active \in [Type -> Nat] /\ active' \in [Type -> Nat]
    BY PoolTypes
  <2>2. Serving = active
    BY <1>1, <2>1 DEF Mapped
  <2>3. \A s \in Type : active'[s] - Draining(s)' = active'[s]
    BY <1>1, <2>1
  <2>4. Serving' = [s \in Type |-> active'[s]]
    BY <2>3 DEF Mapped
  <2>5. Serving' = active'
    BY <2>1, <2>4
  <2> QED
    BY <2>2, <2>5
<1>3. Starting = NoType /\ Starting' = NoType /\ Stopping = NoType /\ Stopping' = NoType
  BY <1>1 DEF Mapped, Stopping
<1>4. Serving[t] < MaxServers[t] /\ t # NoType
  <2>1. GetServers(t) = active[t] /\ t # NoType
    BY <1>1, PoolTypes
  <2> QED
    BY <1>2, <2>1 DEF MayAddServer
<1>5. Pool!Serve(t)
  <2>1. Pool!Count(t) = Serving[t]
    BY <1>2, <1>3, <1>4, PoolTypes DEF Pool!Count, Serving, Starting, Stopping
  <2>2. Pool!Idle
    BY <1>3 DEF Pool!Idle, Starting, Stopping
  <2> QED
    BY <1>2, <1>3, <1>4, <2>1, <2>2 DEF Pool!Serve, Serving, Starting, Stopping
<1> QED
  BY <1>5 DEF Pool!Next

(* A server that boots.                                                    *)
LEMMA PoolBeginStart ==
  ASSUME SerialInv, SerialInv', Mapped, Mapped', NEW t \in Type, SerialAdd(t), AddServer(t)
  PROVE  Pool!Next
<1>1. /\ removing = NoServer /\ removing' = NoServer /\ bootType' = t /\ active' = active
      /\ GetServers(t) < MaxServers[t] /\ ~IsServerBooting
  BY DEF SerialAdd, AddServer, ModelAddServer, MayAddServer
<1>2. bootType = NoType /\ t # NoType /\ GetServers(t) = active[t]
  BY <1>1, PoolTypes
<1>3. Serving = active /\ Serving' = active
  BY <1>1, PoolTypes DEF Mapped, Draining
<1>4. Starting = NoType /\ Starting' = t /\ Stopping = NoType /\ Stopping' = NoType
  BY <1>1, <1>2 DEF Mapped, Stopping
<1>5. Pool!BeginStart(t)
  <2>1. Pool!Count(t) = Serving[t]
    BY <1>2, <1>3, <1>4, PoolTypes DEF Pool!Count, Serving, Starting, Stopping
  <2>2. Pool!Idle
    BY <1>4 DEF Pool!Idle, Starting, Stopping
  <2> QED
    BY <1>1, <1>2, <1>3, <1>4, <2>1, <2>2 DEF Pool!BeginStart, Serving, Starting, Stopping
<1> QED
  BY <1>5 DEF Pool!Next

(* A boot that completes.                                                  *)
LEMMA PoolFinishStart ==
  ASSUME SerialInv, SerialInv', Mapped, Mapped', NEW m \in Id, BootComplete(m)
  PROVE  Pool!Next
<1>1. m \in pending /\ removing = NoServer /\ typeOf[m] = bootType /\ bootType # NoType
  BY DEF SerialInv, BootComplete, BootInv, Live
<1>2. bootType \in Type /\ active \in [Type -> Nat]
  BY <1>1, PoolTypes
<1>3. active' = [active EXCEPT ![bootType] = @ + 1] /\ bootType' = NoType /\ removing' = NoServer
  BY <1>1 DEF BootComplete, ModelServerBecameActive
<1>4. Serving = active /\ Serving' = active'
  <2>1. active' \in [Type -> Nat]
    BY <1>2, <1>3
  <2>2. \A t \in Type : Draining(t) = 0 /\ Draining(t)' = 0
    BY <1>1, <1>3 DEF Draining
  <2> QED
    BY <1>2, <2>1, <2>2 DEF Mapped
<1>5. Starting = bootType /\ Starting' = NoType /\ Stopping = NoType /\ Stopping' = NoType
  BY <1>1, <1>3 DEF Mapped, Stopping
<1>6. Pool!FinishStart
  BY <1>1, <1>3, <1>4, <1>5 DEF Pool!FinishStart, Serving, Starting, Stopping
<1> QED
  BY <1>6 DEF Pool!Next

(* A removal begins: of the booting server, or of an active one.           *)
LEMMA PoolBeginStop ==
  ASSUME SerialInv, SerialInv', Mapped, Mapped', NEW t \in Type, SerialRemove(t), RemoveServer(t)
  PROVE  Pool!Next
<1>1. /\ UNCHANGED <<active, bootType, events, typeOf>> /\ GetTotalActiveServers > 1
      /\ removing = NoServer /\ removing' \in Named(t, GetServers(t)) /\ GetServers(t) > 0
  BY DEF RemoveServer, MayRemoveServer, SerialRemove, modelVars
<1>2. removing' # NoServer /\ typeOf[removing'] = t /\ bootType \in {NoType, t} /\ t # NoType
  BY <1>1, NoServerAssumption, PoolTypes DEF Named, Live, SerialRemove
<1>3. \A s \in Type : Draining(s) = 0
                      /\ Draining(s)' = (IF s = t /\ bootType = NoType THEN 1 ELSE 0)
  BY <1>1, <1>2, PoolTypes DEF Draining, IsServerBooting
<1>4. Serving = active /\ Starting = bootType /\ Starting' = NoType
      /\ Stopping = NoType /\ Stopping' = t
  BY <1>1, <1>2, <1>3, PoolTypes DEF Mapped, Stopping
<1>5. CASE bootType = t
  <2>1. Serving' = Serving
    BY <1>1, <1>2, <1>3, <1>4, <1>5, PoolTypes DEF Mapped
  <2>2. Pool!CancelStart
    BY <1>2, <1>4, <1>5, <2>1 DEF Pool!CancelStart, Serving, Starting, Stopping
  <2> QED
    BY <2>2 DEF Pool!Next
<1>6. CASE bootType = NoType
  <2>1. Serving' = [Serving EXCEPT ![t] = @ - 1]
    BY <1>1, <1>2, <1>3, <1>4, <1>6, PoolTypes DEF Mapped
  <2>2. Serving[t] > 0
    BY <1>1, <1>2, <1>4, <1>6, PoolTypes
  <2>3. Serving[t] > 1 \/ \E s \in Type \ {t} : Serving[s] > 0
    <3>1. active["A"] + active["B"] + active["C"] > 1
      BY <1>1 DEF GetTotalActiveServers
    <3>2. active["A"] \in Nat /\ active["B"] \in Nat /\ active["C"] \in Nat
      BY PoolTypes DEF Type
    <3> QED
      BY <1>4, <3>1, <3>2 DEF Type
  <2>4. Pool!BeginStop(t)
    BY <1>4, <1>6, <2>1, <2>2, <2>3
    DEF Pool!BeginStop, Pool!Idle, Pool!SomeOtherServes, Serving, Starting, Stopping
  <2> QED
    BY <2>4 DEF Pool!Next
<1> QED
  BY <1>2, <1>5, <1>6

(* A removal completes: the model forgets what had stopped serving.        *)
LEMMA PoolFinishStop ==
  ASSUME SerialInv, SerialInv', Mapped, Mapped', CompleteRemoval PROVE Pool!Next
<1>1. removing # NoServer /\ typeOf[removing] \in Type /\ removing' = NoServer
      /\ bootType' = NoType
  BY DEF SerialInv, TypeOK, RemovalInv, CompleteRemoval, ModelRemoveServer, Live
<1>2. \A t \in Type : active'[t] - Draining(t)' = active[t] - Draining(t)
  <2> TAKE t \in Type
  <2>1. Draining(t)' = 0 /\ active'[t] \in Nat /\ active[t] \in Nat
    BY <1>1 DEF Draining, SerialInv, TypeOK
  <2>2. active'[t] = active[t] - Draining(t)
    BY <1>1, PoolTypes DEF Draining, CompleteRemoval, ModelRemoveServer
  <2> QED
    BY <2>1, <2>2
<1>3. Serving' = Serving
  BY <1>2 DEF Mapped
<1>4. Starting = NoType /\ Starting' = NoType /\ Stopping # NoType /\ Stopping' = NoType
  BY <1>1 DEF Mapped, Stopping, Type, NoType
<1>5. Pool!FinishStop
  BY <1>3, <1>4 DEF Pool!FinishStop, Serving, Starting, Stopping
<1> QED
  BY <1>5 DEF Pool!Next

(* What the pool does not see.                                             *)
LEMMA PoolStutter ==
  ASSUME UNCHANGED <<typeOf, outGate, pending, removing>>
  PROVE  UNCHANGED <<Serving, Starting, Stopping>>
<1>1. Connected' = Connected
  BY DEF Connected, Live
<1>2. \A t \in Type : ConnectedOf(t)' = ConnectedOf(t)
  BY <1>1 DEF ConnectedOf
<1>3. Serving' = Serving
  BY <1>2 DEF Serving
<1> QED
  BY <1>3 DEF Starting, Stopping

(* Every step of the manager is a step of the pool or leaves it alone.     *)
LEMMA PoolStep ==
  ASSUME SerialInv, SerialInv', Mapped, Mapped', [SerialClientNext]_vars
  PROVE  Pool!Next \/ UNCHANGED <<Serving, Starting, Stopping>>
<1>1. CASE SystemNext
  <2>1. CASE \E t \in Type : StartServer(t)
    <3>1. PICK t \in Type : StartServer(t)
      BY <2>1
    <3>2. toStart[t] # 0
      <4>1. toStart[t] \in Nat /\ toStart[t] > 0
        BY <3>1 DEF StartServer, SerialInv, TypeOK
      <4> QED
        BY <4>1
    <3>3. removing = NoServer
      BY <3>2 DEF SerialInv, StartInv, Started
    <3> QED
      BY <3>1, <3>3, PoolServe DEF StartServer, ModelAddServerNow
  <2>2. CASE \E m \in Id : BootComplete(m)
    BY <2>2, PoolFinishStart
  <2>3. CASE CompleteRemoval
    BY <2>3, PoolFinishStop
  <2>4. CASE \E m \in Id : \/ BootCompleteFails(m) \/ JobArrives(m) \/ JobEnters(m)
                          \/ JobRequested(m) \/ LastJobEnds(m) \/ LastJobTimesOut(m)
    BY <2>4, PoolStutter
    DEF BootCompleteFails, JobArrives, JobEnters, JobRequested, LastJobEnds, LastJobTimesOut,
        Abort, moduleVars
  <2> QED
    BY <1>1, <2>1, <2>2, <2>3, <2>4 DEF SystemNext
<1>2. CASE SetCommand
  BY <1>2, PoolStutter
  DEF SetCommand, SetBrownout, SetBrownoutFails, DivertTraffic, Abort, moduleVars
<1>3. ASSUME NEW t \in Type, SerialAdd(t), AddCommand(t)
      PROVE  Pool!Next \/ UNCHANGED <<Serving, Starting, Stopping>>
  <2>1. CASE AddServer(t)
    BY <1>3, <2>1, PoolBeginStart
  <2>2. CASE AddServerNow(t)
    BY <1>3, <2>2, PoolServe DEF AddServerNow, ModelAddServerNow, SerialAdd
  <2>3. CASE AddServerFails(t)
    BY <2>3, PoolStutter DEF AddServerFails, Abort, moduleVars
  <2> QED
    BY <1>3, <2>1, <2>2, <2>3 DEF AddCommand
<1>4. ASSUME NEW t \in Type, SerialRemove(t), RemoveCommand(t)
      PROVE  Pool!Next \/ UNCHANGED <<Serving, Starting, Stopping>>
  <2>1. CASE RemoveServer(t)
    BY <1>4, <2>1, PoolBeginStop
  <2>2. CASE RemoveServerFails(t)
    BY <2>2, PoolStutter DEF RemoveServerFails, Abort, moduleVars
  <2> QED
    BY <1>4, <2>1, <2>2 DEF RemoveCommand
<1>5. CASE UNCHANGED vars
  BY <1>5, PoolStutter DEF vars, moduleVars
<1> QED
  BY <1>1, <1>2, <1>3, <1>4, <1>5 DEF SerialClientNext

(* The manager implements the pool: whatever is running, booting or        *)
(* draining, at most one server starts, at most one stops, and no removal  *)
(* takes the last server that serves.                                      *)
THEOREM PoolTheorem == SerialClientSpec => Pool!SafeSpec
<1>1. ASSUME Init PROVE Pool!Init
  <2>1. SerialInv /\ Mapped
    BY <1>1, InitSerial, PoolMapping
  <2>2. Serving = [t \in Type |-> 0] /\ Starting = NoType /\ Stopping = NoType
    BY <1>1, <2>1, PoolTypes DEF Init, ModelInit, Mapped, Stopping
  <2> QED
    BY <2>2 DEF Pool!Init, Serving, Starting, Stopping
<1>2. ASSUME SerialInv, SerialInv', Mapped, Mapped', [SerialClientNext]_vars
      PROVE  [Pool!Next]_(Pool!poolVars)
  BY <1>2, PoolStep DEF Pool!poolVars, Serving, Starting, Stopping
<1> QED
  BY <1>1, <1>2, PoolMapping, SerialInvariant, PTL DEF SerialClientSpec, Pool!SafeSpec

(***************************************************************************)
(* The manager and the load balancer: first whatever commands the client   *)
(* issues, and in whatever order, as long as the simulation runs; then for *)
(* a client that runs one adaptation at a time and diverts the traffic     *)
(* before it takes a server away.                                          *)
(***************************************************************************)

(***************************************************************************)
(* Any client                                                              *)
(***************************************************************************)

(* The initial states satisfy the invariant.                               *)
LEMMA InitAny == Init => AnyInv
<1> SUFFICES ASSUME Init PROVE AnyInv
  OBVIOUS
<1>1. typeOf \in [Id -> Type \cup {NoType}] /\ outGate \in [Id -> Gate \cup {Unconnected}]
  BY DEF Init
<1> QED
  BY <1>1 DEF Init, AnyInv

(* Steps that leave the modules alone and keep a removal as it is.         *)
LEMMA AnyFrame ==
  ASSUME AnyInv, UNCHANGED <<typeOf, outGate, pending, removing>>,
         removeMsg' => removing # NoServer /\ (removing \in busy' => missed'),
         \A m \in busy' : m \in busy \/ m \in Live \/ m \notin Id
  PROVE  AnyInv'
  BY DEF AnyInv, Live

(* A new module is not the one being removed.                              *)
LEMMA AnyAdd ==
  ASSUME AnyInv, NEW t \in Type, NEW m \in Id \ Live, DoAddServer(m, t),
         pending' \in {pending, pending \cup {m}},
         outGate' = outGate \/ DoAddServerBootComplete(m),
         UNCHANGED <<jobVars, removing, removeMsg>>
  PROVE  AnyInv'
<1>1. Live' = Live \cup {m} /\ typeOf' \in [Id -> Type \cup {NoType}]
  BY DEF DoAddServer, AnyInv, Live, Type, NoType
<1>2. /\ outGate' \in [Id -> Gate \cup {Unconnected}]
      /\ \A n \in Id \ {m} : outGate'[n] = outGate[n]
  BY DEF AnyInv, DoAddServerBootComplete
<1>3. removing # NoServer => removing \in Id \ {m} /\ removing \in Live
  BY DEF AnyInv, Live
<1> QED
  BY <1>1, <1>2, <1>3 DEF AnyInv, jobVars

(* A booting module is not the one being removed.                          *)
LEMMA AnyBootComplete ==
  ASSUME AnyInv, NEW m \in Id, BootComplete(m) PROVE AnyInv'
<1>1. m \in pending /\ pending' = pending \ {m} /\ UNCHANGED <<typeOf, busy, missed, removing, removeMsg>>
  BY DEF BootComplete, jobVars
<1>2. /\ outGate' \in [Id -> Gate \cup {Unconnected}]
      /\ \A n \in Id \ {m} : outGate'[n] = outGate[n]
  BY DEF AnyInv, BootComplete, DoAddServerBootComplete
<1> QED
  BY <1>1, <1>2 DEF AnyInv, Live

(* removeServer cuts the module off and cancels its boot.                  *)
LEMMA AnyRemove ==
  ASSUME AnyInv, NEW t \in Type, RemoveServer(t) PROVE AnyInv'
<1>1. PICK m \in Named(t, GetServers(t)) :
        /\ Disconnect(m) /\ CancelBoot(m) /\ removing' = m /\ removeMsg' = IsEmpty(m)
        /\ missed' = (m \in busy \ held)
  BY DEF RemoveServer
<1>2. UNCHANGED <<typeOf, busy>>
  BY DEF RemoveServer
<1>3. m \in Live /\ m \in Id
  BY DEF Named, Live
<1> QED
  BY <1>1, <1>2, <1>3, NoServerAssumption
  DEF AnyInv, Live, Disconnect, CancelBoot, IsEmpty

(* The deletion of a module leaves no removal in progress.                 *)
LEMMA AnyCompleteRemoval ==
  ASSUME AnyInv, CompleteRemoval PROVE AnyInv'
<1>1. /\ typeOf' = [typeOf EXCEPT ![removing] = NoType] /\ busy' = busy \ {removing}
      /\ removing' = NoServer /\ removeMsg' = FALSE /\ removeMsg
      /\ UNCHANGED <<outGate, pending>>
  BY DEF CompleteRemoval
<1>2. Live' = Live \ {removing} /\ removing \in Live
  BY <1>1 DEF AnyInv, Live
<1> QED
  BY <1>1, <1>2 DEF AnyInv, Live

(* Jobs go to connected modules, and only the signal of an idle module     *)
(* completes its removal.                                                  *)
LEMMA AnyJobs ==
  ASSUME AnyInv, NEW m \in Id,
         \/ JobArrives(m) \/ JobEnters(m) \/ JobRequested(m)
         \/ LastJobEnds(m) \/ LastJobTimesOut(m)
  PROVE  AnyInv'
<1>1. CASE JobArrives(m)
  BY <1>1, AnyFrame DEF AnyInv, JobArrives, moduleVars, Connected
<1>2. CASE LastJobEnds(m)
  BY <1>2, AnyFrame, NoServerAssumption DEF AnyInv, LastJobEnds, ReceiveIdleSignal, moduleVars
<1>3. CASE LastJobTimesOut(m)
  BY <1>3, AnyFrame DEF AnyInv, LastJobTimesOut, moduleVars
<1>4. CASE JobEnters(m) \/ JobRequested(m)
  BY <1>4, AnyFrame DEF AnyInv, JobEnters, JobRequested, moduleVars
<1> QED
  BY <1>1, <1>2, <1>3, <1>4

(* A failed assertion changes nothing else.                                *)
LEMMA AnyAbort ==
  ASSUME AnyInv, NEW reason, Abort(reason) PROVE AnyInv'
  BY AnyFrame DEF Abort, AnyInv, moduleVars, jobVars

(* Every command and every event preserves the invariant.                  *)
LEMMA AnyStep ==
  ASSUME AnyInv, [AnyClientNext]_vars PROVE AnyInv'
<1>1. CASE SystemNext
  <2>1. CASE \E t \in Type : StartServer(t)
    BY <2>1, AnyAdd DEF StartServer
  <2>2. CASE \E m \in Id : BootComplete(m)
    BY <2>2, AnyBootComplete
  <2>3. CASE \E m \in Id : BootCompleteFails(m)
    BY <2>3, AnyAbort DEF BootCompleteFails
  <2>4. CASE CompleteRemoval
    BY <2>4, AnyCompleteRemoval
  <2>5. CASE \E m \in Id : \/ JobArrives(m) \/ JobEnters(m) \/ JobRequested(m)
                          \/ LastJobEnds(m) \/ LastJobTimesOut(m)
    BY <2>5, AnyJobs
  <2> QED
    BY <1>1, <2>1, <2>2, <2>3, <2>4, <2>5 DEF SystemNext
<1>2. CASE SetCommand
  <2>1. CASE \E f \in Factor : SetBrownout(f)
    BY <2>1, AnyFrame DEF AnyInv, SetBrownout, jobVars
  <2>2. CASE SetBrownoutFails
    BY <2>2, AnyAbort DEF SetBrownoutFails
  <2>3. CASE \E load \in TrafficChoice : DivertTraffic(load)
    BY <2>3, AnyFrame DEF AnyInv, DivertTraffic, moduleVars, jobVars
  <2> QED
    BY <1>2, <2>1, <2>2, <2>3 DEF SetCommand
<1>3. ASSUME NEW t \in Type, AddCommand(t) PROVE AnyInv'
  <2>1. CASE AddServer(t)
    BY <2>1, AnyAdd DEF AddServer
  <2>2. CASE AddServerNow(t)
    BY <2>2, AnyAdd DEF AddServerNow
  <2>3. CASE AddServerFails(t)
    BY <2>3, AnyAbort DEF AddServerFails
  <2> QED
    BY <1>3, <2>1, <2>2, <2>3 DEF AddCommand
<1>4. ASSUME NEW t \in Type, RemoveCommand(t) PROVE AnyInv'
  <2>1. CASE RemoveServer(t)
    BY <2>1, AnyRemove
  <2>2. CASE RemoveServerFails(t)
    BY <2>2, AnyAbort DEF RemoveServerFails
  <2> QED
    BY <1>4, <2>1, <2>2 DEF RemoveCommand
<1>5. CASE UNCHANGED vars
  BY <1>5, AnyFrame DEF AnyInv, vars, moduleVars, jobVars
<1> QED
  BY <1>1, <1>2, <1>3, <1>4, <1>5 DEF AnyClientNext

(* The composed system takes steps of the manager, or fails to route.      *)
LEMMA AnySwimStep ==
  [SwimNext]_swimVars => [AnyClientNext]_vars \/ \E u \in Draw : RouteFails(u)
<1>1. \A draws \in SUBSET Draw :
        ServiceNext(draws) => SystemNext \/ \E u \in Draw : RouteFails(u)
  BY DEF ServiceNext, SystemNext, Route, Connected, Live
<1>2. DivertingNext => AnyClientNext \/ \E u \in Draw : RouteFails(u)
  BY <1>1 DEF DivertingNext, DivertingRemove, AnyClientNext, SetCommand
<1>3. AnyNext => AnyClientNext \/ \E u \in Draw : RouteFails(u)
  BY <1>1 DEF AnyNext, AnyClientNext
<1> QED
  BY <1>2, <1>3 DEF SwimNext, swimVars

(* For any client of the whole system: a module being removed exists, is   *)
(* cut off and not booting, and holds no job once its deletion is due,     *)
(* except one that was on its way when it was found empty.                 *)
LEMMA AnySwimInv ==
  AnyInv /\ [SwimNext]_swimVars => AnyInv'
  BY AnyStep, AnySwimStep, AnyAbort DEF RouteFails

(* That invariant holds of the system under either client.                 *)
THEOREM AnyInvariant == SwimSpec => []AnyInv
  BY InitAny, AnySwimInv, PTL DEF SwimSpec, SwimInit

(* Modules come and go by addServer and completeRemove only.               *)
LEMMA WhoChangesTypes ==
  ASSUME [AnyClientNext]_vars \/ \E u \in Draw : RouteFails(u)
  PROVE  \/ CompleteRemoval
         \/ \E t \in Type : \E m \in Id \ Live : DoAddServer(m, t)
         \/ typeOf' = typeOf
<1>1. CASE SystemNext
  <2>1. CASE \E t \in Type : StartServer(t)
    BY <2>1 DEF StartServer
  <2>2. CASE \E m \in Id : \/ BootComplete(m) \/ BootCompleteFails(m) \/ JobArrives(m)
                          \/ JobEnters(m) \/ JobRequested(m)
                          \/ LastJobEnds(m) \/ LastJobTimesOut(m)
    BY <2>2 DEF BootComplete, BootCompleteFails, JobArrives, JobEnters, JobRequested,
       LastJobEnds, LastJobTimesOut, Abort, moduleVars
  <2> QED
    BY <1>1, <2>1, <2>2 DEF SystemNext
<1>2. CASE SetCommand
  BY <1>2 DEF SetCommand, SetBrownout, SetBrownoutFails, DivertTraffic, Abort, moduleVars
<1>3. CASE \E t \in Type : AddCommand(t)
  BY <1>3 DEF AddCommand, AddServer, AddServerNow, AddServerFails, Abort, moduleVars
<1>4. CASE \E t \in Type : RemoveCommand(t)
  BY <1>4 DEF RemoveCommand, RemoveServer, RemoveServerFails, Abort, moduleVars
<1>5. CASE UNCHANGED vars
  BY <1>5 DEF vars, moduleVars
<1>6. CASE \E u \in Draw : RouteFails(u)
  BY <1>6 DEF RouteFails, Abort, moduleVars
<1> QED
  BY <1>1, <1>2, <1>3, <1>4, <1>5, <1>6 DEF AnyClientNext

(* Whatever the client asks, no module is deleted while the load balancer  *)
(* is connected to it, or with a job in it that removeServer could see or  *)
(* that came after it.                                                     *)
THEOREM OnlyIdleTheorem == SwimSpec => OnlyIdleServersDisappear
<1>1. ASSUME AnyInv, [SwimNext]_swimVars, NEW m \in Live, m \notin Live'
      PROVE  m \notin Connected /\ (m \in busy => missed)
  <2>1. CASE CompleteRemoval
    <3>1. m = removing
      BY <1>1, <2>1 DEF CompleteRemoval, AnyInv, Live
    <3> QED
      BY <1>1, <2>1, <3>1 DEF CompleteRemoval, AnyInv, Connected
  <2>2. CASE \E t \in Type : \E n \in Id \ Live : DoAddServer(n, t)
    BY <1>1, <2>2 DEF DoAddServer, AnyInv, Live, Type, NoType
  <2>3. CASE typeOf' = typeOf
    BY <1>1, <2>3 DEF Live
  <2> QED
    BY <1>1, <2>1, <2>2, <2>3, WhoChangesTypes, AnySwimStep
<1>2. AnyInv /\ [SwimNext]_swimVars =>
        [\A m \in Live : m \notin Live' => m \notin Connected /\ (m \in busy => missed)]_vars
  BY <1>1
<1> QED
  BY AnyInvariant, <1>2, PTL DEF SwimSpec, OnlyIdleServersDisappear

(* Only the arrival of a job fills a module.                               *)
LEMMA WhoFills ==
  ASSUME [AnyClientNext]_vars \/ \E u \in Draw : RouteFails(u)
  PROVE  (\E m \in Id : JobArrives(m)) \/ busy' \subseteq busy
<1>1. CASE SystemNext
  <2>1. CASE \E t \in Type : StartServer(t)
    BY <2>1 DEF StartServer, jobVars
  <2>2. CASE \E m \in Id : \/ BootComplete(m) \/ BootCompleteFails(m) \/ JobEnters(m)
                          \/ JobRequested(m) \/ LastJobEnds(m) \/ LastJobTimesOut(m)
    BY <2>2 DEF BootComplete, BootCompleteFails, JobEnters, JobRequested, LastJobEnds,
       LastJobTimesOut, Abort, jobVars
  <2>3. CASE CompleteRemoval
    BY <2>3 DEF CompleteRemoval
  <2> QED
    BY <1>1, <2>1, <2>2, <2>3 DEF SystemNext
<1>2. CASE SetCommand
  BY <1>2 DEF SetCommand, SetBrownout, SetBrownoutFails, DivertTraffic, Abort, jobVars
<1>3. CASE \E t \in Type : AddCommand(t)
  BY <1>3 DEF AddCommand, AddServer, AddServerNow, AddServerFails, Abort, jobVars
<1>4. CASE \E t \in Type : RemoveCommand(t)
  BY <1>4 DEF RemoveCommand, RemoveServer, RemoveServerFails, Abort, jobVars
<1>5. CASE UNCHANGED vars
  BY <1>5 DEF vars, jobVars
<1>6. CASE \E u \in Draw : RouteFails(u)
  BY <1>6 DEF RouteFails, Abort, jobVars
<1> QED
  BY <1>1, <1>2, <1>3, <1>4, <1>5, <1>6 DEF AnyClientNext

(* Whatever the client asks, a server that is being removed and has become *)
(* idle gets no job.                                                       *)
THEOREM DrainedTheorem == SwimSpec => DrainedServerGetsNoJob
<1>1. AnyInv /\ [SwimNext]_swimVars =>
        [\A m \in Id : removing = m /\ m \notin busy => m \notin busy']_vars
  BY WhoFills, AnySwimStep, NoServerAssumption DEF AnyInv, JobArrives, Connected
<1> QED
  BY AnyInvariant, <1>1, PTL DEF SwimSpec, DrainedServerGetsNoJob

(***************************************************************************)
(* A client that runs one adaptation at a time and diverts the traffic     *)
(* away from a server before it removes it.                                *)
(***************************************************************************)

(* The initial states satisfy the invariant if the type that gets all the  *)
(* traffic at first has a server.                                          *)
LEMMA InitDiverting ==
  ASSUME Init, InitialServers["A"] > 0 PROVE DivertingInv
<1>1. traffic = [t \in Type |-> IF t = "A" THEN 4 ELSE 0] /\ active = [t \in Type |-> 0]
      /\ toStart = InitialServers /\ removing = NoServer
  BY DEF Init, ModelInit
<1>2. traffic["A"] = 4 /\ traffic["B"] = 0 /\ traffic["C"] = 0
  BY <1>1 DEF Type
<1>3. SharesAddUp
  BY <1>2 DEF SharesAddUp
<1>4. \A t \in Type : Draining(t) = 0 /\ active[t] = 0
  BY <1>1 DEF Draining
<1>5. InitialServers["A"] \in Nat
  BY InitialServersAssumption DEF Type
<1>6. SharesAreServed
  <2> SUFFICES ASSUME NEW t \in Type, traffic[t] > 0
               PROVE  active[t] - Draining(t) + toStart[t] > 0
    BY DEF SharesAreServed
  <2>1. t = "A"
    BY <1>1
  <2> QED
    BY <1>1, <1>4, <1>5, <2>1
<1> QED
  BY <1>3, <1>6, InitSerial DEF DivertingInv

(* The quantities of SharesAreServed are integers.                         *)
LEMMA ShareTypes ==
  ASSUME SerialInv, NEW t \in Type
  PROVE  traffic[t] \in 0 .. 4 /\ active[t] \in Nat /\ toStart[t] \in Nat /\ Draining(t) \in {0, 1}
  BY DEF SerialInv, TypeOK, Draining, TrafficLoad

(* A type that has a share has a connected server when the simulation has  *)
(* started.                                                                *)
LEMMA ShareHasServer ==
  ASSUME DivertingInv, Started, NEW t \in Type, traffic[t] > 0
  PROVE  \E m \in Connected : typeOf[m] = t
<1>1. SerialInv /\ active[t] - Draining(t) + toStart[t] > 0 /\ toStart[t] = 0
  BY DEF DivertingInv, SharesAreServed, Started
<1>2. active[t] = Cardinality(ConnectedOf(t)) + Draining(t) /\ IsFiniteSet(ConnectedOf(t))
  BY <1>1, ActiveCount
<1>3. Cardinality(ConnectedOf(t)) \in Nat
  BY <1>2, FS_CardinalityType
<1>4. Cardinality(ConnectedOf(t)) # 0
  BY <1>1, <1>2, <1>3, ShareTypes
<1>5. ConnectedOf(t) # {}
  BY <1>4, FS_EmptySet
<1> QED
  BY <1>5 DEF ConnectedOf

(* The shares cover the whole range of a draw, so a draw falls to a type   *)
(* that has a share.                                                       *)
LEMMA DrawFindsServer ==
  ASSUME DivertingInv, Started, NEW u \in Draw, u # 0 PROVE Candidates(u) # {}
<1>1. u \in 1 .. 4
  BY DrawAssumption
<1>2. /\ traffic["A"] \in 0 .. 4 /\ traffic["B"] \in 0 .. 4 /\ traffic["C"] \in 0 .. 4
      /\ traffic["A"] + traffic["B"] + traffic["C"] = 4
  BY ShareTypes DEF DivertingInv, SharesAddUp, Type
<1>3. PICK t \in Type : Takes(t, u) /\ traffic[t] > 0
  <2>1. CASE u <= traffic["A"]
    BY <1>1, <1>2, <2>1 DEF Takes, Type
  <2>2. CASE traffic["A"] < u /\ u <= traffic["A"] + traffic["B"]
    BY <1>1, <1>2, <2>2 DEF Takes, Type
  <2>3. CASE traffic["A"] + traffic["B"] < u
    BY <1>1, <1>2, <2>3 DEF Takes, Type
  <2> QED
    BY <1>1, <1>2, <2>1, <2>2, <2>3
<1>4. PICK m \in Connected : typeOf[m] = t
  BY <1>3, ShareHasServer
<1> QED
  BY <1>3, <1>4 DEF Candidates

(* Only a type that has a share takes a draw that is not 0.                *)
LEMMA TakesOnlyShare ==
  ASSUME DivertingInv, NEW u \in Draw, u # 0, NEW t \in Type, Takes(t, u) PROVE traffic[t] > 0
<1>1. u \in 1 .. 4
  BY DrawAssumption
<1>2. /\ traffic["A"] \in 0 .. 4 /\ traffic["B"] \in 0 .. 4 /\ traffic["C"] \in 0 .. 4
      /\ traffic["A"] + traffic["B"] + traffic["C"] = 4
  BY ShareTypes DEF DivertingInv, SharesAddUp, Type
<1>3. CASE t = "A"
  BY <1>1, <1>2, <1>3 DEF Takes
<1>4. CASE t = "B"
  BY <1>1, <1>2, <1>4 DEF Takes
<1>5. CASE t = "C"
  BY <1>1, <1>2, <1>5 DEF Takes
<1> QED
  BY <1>3, <1>4, <1>5 DEF Type

(* Every step is one of a serial client: no draw fails to find a server.   *)
LEMMA SwimIsSerial ==
  ASSUME DivertingInv, [DivertingNext]_vars
  PROVE  [SerialClientNext]_vars
<1>1. ASSUME NEW u \in Draw \ {0} PROVE ~RouteFails(u)
  BY <1>1, DrawFindsServer DEF RouteFails
<1>2. ASSUME NEW u \in Draw, Route(u) PROVE \E m \in Id : JobArrives(m)
  BY <1>2 DEF Route, Connected, Live
<1>3. ServiceNext(Draw \ {0}) => SystemNext
  BY <1>1, <1>2 DEF ServiceNext, SystemNext
<1>4. \A t \in Type : DivertingRemove(t) => SerialRemove(t)
  BY DEF DivertingRemove
<1> QED
  BY <1>3, <1>4 DEF DivertingNext, SerialClientNext, SetCommand

(* A step after which no type has fewer servers left keeps the shares      *)
(* served.                                                                 *)
LEMMA ShareFrame ==
  ASSUME DivertingInv, SerialInv', UNCHANGED traffic,
         \A t \in Type : active[t] - Draining(t) + toStart[t]
                           <= (active[t] - Draining(t) + toStart[t])'
  PROVE  DivertingInv'
<1>1. SharesAddUp'
  BY DEF DivertingInv, SharesAddUp
<1>2. ASSUME NEW t \in Type, traffic'[t] > 0
      PROVE  (active[t] - Draining(t) + toStart[t])' > 0
  <2> DEFINE left == active[t] - Draining(t) + toStart[t]
  <2>1. left > 0 /\ left \in Int
    BY <1>2, ShareTypes DEF DivertingInv, SharesAreServed
  <2>2. active'[t] \in Nat /\ toStart'[t] \in Nat /\ Draining(t)' \in {0, 1}
    BY DEF SerialInv, TypeOK, Draining
  <2>3. left' \in Int /\ left <= left'
    BY <2>2
  <2> HIDE DEF left
  <2>4. left' > 0
    BY <2>1, <2>3
  <2> QED
    BY <2>4 DEF left
<1> QED
  BY <1>1, <1>2 DEF DivertingInv, SharesAreServed

(* A step that moves jobs only, or nothing.                                *)
LEMMA ShareStutter ==
  ASSUME DivertingInv, SerialInv', UNCHANGED <<modelVars, toStart, moduleVars, removing>>
  PROVE  DivertingInv'
<1>1. \A t \in Type : active[t] - Draining(t) + toStart[t]
                        <= (active[t] - Draining(t) + toStart[t])'
  <2> TAKE t \in Type
  <2>1. Draining(t)' = Draining(t) /\ active'[t] = active[t] /\ toStart'[t] = toStart[t]
    BY DEF Draining, IsServerBooting, modelVars, moduleVars
  <2> QED
    BY <2>1, ShareTypes DEF DivertingInv
<1> QED
  BY <1>1, ShareFrame DEF modelVars

(* A server that becomes active, at the start or after a boot, adds to its *)
(* type: no other server is being removed.                                 *)
LEMMA ShareStartServer ==
  ASSUME DivertingInv, SerialInv', NEW s \in Type, StartServer(s) PROVE DivertingInv'
<1>1. removing = NoServer /\ removing' = NoServer
  <2>1. ~Started
    BY ShareTypes DEF StartServer, Started, DivertingInv
  <2> QED
    BY <2>1 DEF StartServer, DivertingInv, SerialInv, StartInv
<1>2. \A t \in Type : Draining(t) = 0 /\ Draining(t)' = 0
  BY <1>1 DEF Draining
<1>3. /\ active' = [active EXCEPT ![s] = @ + 1] /\ toStart' = [toStart EXCEPT ![s] = @ - 1]
      /\ UNCHANGED traffic
  BY DEF StartServer, ModelAddServerNow
<1>4. active \in [Type -> Nat] /\ toStart \in [Type -> Nat]
  BY DEF DivertingInv, SerialInv, TypeOK
<1>5. ASSUME NEW t \in Type
      PROVE  active[t] - Draining(t) + toStart[t] <= (active[t] - Draining(t) + toStart[t])'
  BY <1>2, <1>3, <1>4
<1> QED
  BY <1>3, <1>5, ShareFrame

LEMMA ShareBecomesActive ==
  ASSUME DivertingInv, SerialInv', NEW s \in Type, active' = [active EXCEPT ![s] = @ + 1],
         removing = NoServer, UNCHANGED <<traffic, toStart, removing>>
  PROVE  DivertingInv'
<1>1. \A t \in Type : Draining(t) = 0 /\ Draining(t)' = 0
  BY DEF Draining
<1>2. active \in [Type -> Nat] /\ toStart \in [Type -> Nat]
  BY DEF DivertingInv, SerialInv, TypeOK
<1>3. ASSUME NEW t \in Type
      PROVE  active[t] - Draining(t) + toStart[t] <= (active[t] - Draining(t) + toStart[t])'
  BY <1>1, <1>2
<1> QED
  BY <1>3, ShareFrame

LEMMA ShareBootComplete ==
  ASSUME DivertingInv, SerialInv', NEW m \in Id, BootComplete(m) PROVE DivertingInv'
<1>1. m \in pending /\ removing = NoServer /\ typeOf[m] \in Type
  BY DEF DivertingInv, SerialInv, TypeOK, BootInv, BootComplete, Live
<1>2. active' = [active EXCEPT ![typeOf[m]] = @ + 1] /\ UNCHANGED <<traffic, toStart, removing>>
  BY DEF BootComplete, ModelServerBecameActive
<1> QED
  BY <1>1, <1>2, ShareBecomesActive

(* A new server, booting or active at once.                                *)
LEMMA ShareAdd ==
  ASSUME DivertingInv, SerialInv', NEW s \in Type, SerialAdd(s), AddCommand(s) PROVE DivertingInv'
<1>1. removing = NoServer
  BY DEF SerialAdd
<1>2. CASE AddServer(s)
  <2>1. UNCHANGED <<traffic, toStart, active, removing>>
    BY <1>2 DEF AddServer, ModelAddServer
  <2>2. ASSUME NEW t \in Type
        PROVE  active[t] - Draining(t) + toStart[t] <= (active[t] - Draining(t) + toStart[t])'
    <3>1. Draining(t) = 0 /\ Draining(t)' = 0
      BY <1>1, <2>1 DEF Draining
    <3> QED
      BY <2>1, <3>1, ShareTypes DEF DivertingInv
  <2> QED
    BY <2>1, <2>2, ShareFrame
<1>3. CASE AddServerNow(s)
  BY <1>1, <1>3, ShareBecomesActive DEF AddServerNow, ModelAddServerNow
<1>4. CASE AddServerFails(s)
  BY <1>4, ShareStutter DEF AddServerFails, Abort
<1> QED
  BY <1>2, <1>3, <1>4 DEF AddCommand

(* The removal of an active server takes one from its type, which has      *)
(* another one or no share; the removal of a booting one takes none.       *)
LEMMA ShareRemove ==
  ASSUME DivertingInv, SerialInv', NEW s \in Type, DivertingRemove(s), RemoveCommand(s)
  PROVE  DivertingInv'
<1>1. CASE RemoveServer(s)
  <2>1. /\ UNCHANGED <<traffic, toStart, active, bootType, events, typeOf>>
        /\ removing = NoServer /\ removing' \in Named(s, GetServers(s))
    BY <1>1 DEF RemoveServer, MayRemoveServer, modelVars
  <2>2. removing' # NoServer /\ typeOf[removing'] = s
    BY <2>1, NoServerAssumption DEF Named, Live
  <2>3. ASSUME NEW t \in Type
        PROVE  Draining(t) = 0 /\ Draining(t)' = (IF t = s /\ bootType # s THEN 1 ELSE 0)
    <3>1. bootType \in {NoType, s} /\ (IsServerBooting <=> bootType # NoType) /\ s # NoType
      BY DEF DivertingRemove, SerialRemove, DivertingInv, SerialInv, BootInv, IsServerBooting, Type,
             NoType
    <3> QED
      BY <2>1, <2>2, <3>1 DEF Draining, IsServerBooting
  <2>4. ASSUME NEW t \in Type, traffic[t] > 0
        PROVE  active'[t] - Draining(t)' + toStart'[t] > 0
    <3>1. active[t] + toStart[t] > 0 /\ active[t] \in Nat /\ toStart[t] \in Nat
      BY <2>3, <2>4, ShareTypes DEF DivertingInv, SharesAreServed
    <3>2. CASE t = s /\ bootType # s
      BY <2>1, <2>3, <2>4, <3>1, <3>2, ShareTypes DEF DivertingRemove, DivertingInv
    <3>3. CASE ~(t = s /\ bootType # s)
      BY <2>1, <2>3, <3>1, <3>3
    <3> QED
      BY <3>2, <3>3
  <2> QED
    BY <2>1, <2>4 DEF DivertingInv, SharesAddUp, SharesAreServed
<1>2. CASE RemoveServerFails(s)
  BY <1>2, ShareStutter DEF RemoveServerFails, Abort
<1> QED
  BY <1>1, <1>2 DEF RemoveCommand

(* A completed removal makes the model forget a server that had been cut   *)
(* off already, or one that never served.                                  *)
LEMMA ShareCompleteRemoval ==
  ASSUME DivertingInv, SerialInv', CompleteRemoval PROVE DivertingInv'
<1>1. /\ removing # NoServer /\ typeOf[removing] \in Type /\ removing' = NoServer
      /\ UNCHANGED <<traffic, toStart>>
  BY DEF DivertingInv, SerialInv, TypeOK, RemovalInv, CompleteRemoval, Live
<1>2. active \in [Type -> Nat]
  BY DEF DivertingInv, SerialInv, TypeOK
<1>3. ASSUME NEW t \in Type
      PROVE  Draining(t)' = 0 /\ active'[t] = active[t] - Draining(t)
  BY <1>1, <1>2 DEF Draining, CompleteRemoval, ModelRemoveServer
<1>4. \A t \in Type : active[t] - Draining(t) + toStart[t]
                        <= (active[t] - Draining(t) + toStart[t])'
  <2> TAKE t \in Type
  <2>1. active'[t] \in Nat
    BY DEF SerialInv, TypeOK
  <2> QED
    BY <1>1, <1>3, <2>1, ShareTypes DEF DivertingInv
<1> QED
  BY <1>1, <1>4, ShareFrame

(* The client gives a share only to types of which a server remains.       *)
LEMMA ShareDivert ==
  ASSUME DivertingInv, SerialInv', NEW load \in TrafficChoice, SendsToRemaining(load),
         DivertTraffic(load)
  PROVE  DivertingInv'
<1>1. traffic' = load /\ UNCHANGED <<active, toStart, events, removing, typeOf>>
  BY DEF DivertTraffic, ModelSetTrafficLoad, moduleVars
<1>2. SharesAddUp'
  BY <1>1, DiversionAssumption DEF SharesAddUp
<1>3. ASSUME NEW t \in Type, traffic'[t] > 0
      PROVE  active'[t] - Draining(t)' + toStart'[t] > 0
  <2>1. Remaining(t) > 0
    BY <1>1, <1>3 DEF SendsToRemaining
  <2>2. active[t] - Draining(t) > 0
    BY <2>1, ShareTypes DEF Remaining, Draining, DivertingInv
  <2>3. Draining(t)' = Draining(t)
    BY <1>1 DEF Draining, IsServerBooting
  <2> QED
    BY <1>1, <2>2, <2>3, ShareTypes DEF DivertingInv
<1> QED
  BY <1>2, <1>3 DEF DivertingInv, SharesAreServed

(* Every step of the system under this client preserves the invariant.     *)
LEMMA DivertingStep ==
  ASSUME DivertingInv, [DivertingNext]_vars PROVE DivertingInv'
<1>1. SerialInv'
  BY SwimIsSerial, SerialStep DEF DivertingInv
<1>2. CASE ServiceNext(Draw \ {0})
  <2>1. CASE \E m \in Id : \/ BootCompleteFails(m) \/ JobEnters(m) \/ JobRequested(m)
                          \/ LastJobEnds(m) \/ LastJobTimesOut(m)
    BY <1>1, <2>1, ShareStutter
    DEF BootCompleteFails, JobEnters, JobRequested, LastJobEnds, LastJobTimesOut, Abort
  <2>2. CASE \E u \in Draw \ {0} : Route(u) \/ RouteFails(u)
    BY <1>1, <2>2, ShareStutter DEF Route, RouteFails, JobArrives, Abort
  <2> QED
    BY <1>1, <1>2, <2>1, <2>2, ShareStartServer, ShareBootComplete, ShareCompleteRemoval
    DEF ServiceNext
<1>3. CASE \E t \in Type : SerialAdd(t) /\ AddCommand(t)
  BY <1>1, <1>3, ShareAdd
<1>4. CASE \E t \in Type : DivertingRemove(t) /\ RemoveCommand(t)
  BY <1>1, <1>4, ShareRemove
<1>5. CASE \E load \in TrafficChoice : SendsToRemaining(load) /\ DivertTraffic(load)
  BY <1>1, <1>5, ShareDivert
<1>6. CASE UNCHANGED vars
  BY <1>1, <1>6, ShareStutter DEF vars
<1> QED
  BY <1>2, <1>3, <1>4, <1>5, <1>6 DEF DivertingNext

(* Under this client the invariant of the manager holds, the shares add up *)
(* and each share has a server, if the simulation starts with a server of  *)
(* type A, which gets all traffic at first.                                *)
THEOREM SwimInvariant ==
  ASSUME InitialServers["A"] > 0
  PROVE  SwimSpec => []SwimInv
<1>1. SwimInit => SwimInv
  BY InitDiverting, InitAny DEF SwimInit, SwimInv
<1>2. ASSUME SwimInv, [SwimNext]_swimVars PROVE SwimInv'
  <2>1. AnyInv' /\ client' = client
    BY <1>2, AnySwimInv DEF SwimInv, SwimNext, swimVars
  <2>2. client = "diverting" => DivertingInv'
    BY <1>2, DivertingStep DEF SwimInv, SwimNext, swimVars
  <2> QED
    BY <1>2, <2>1, <2>2 DEF SwimInv
<1> QED
  BY <1>1, <1>2, PTL DEF SwimSpec

(* Under this client every draw finds a server, whatever is booting,       *)
(* draining or just gone.                                                  *)
THEOREM DrawTheorem ==
  ASSUME InitialServers["A"] > 0
  PROVE  SwimSpec => []EveryDrawFindsServer
<1>1. SwimInv => EveryDrawFindsServer
  BY DrawFindsServer DEF SwimInv, EveryDrawFindsServer
<1> QED
  BY <1>1, SwimInvariant, PTL

(* A job that arrives has been routed.                                     *)
LEMMA RoutedJob ==
  ASSUME [DivertingNext]_vars, NEW m \in busy' \ busy
  PROVE  \E u \in Draw \ {0} : Route(u)
<1>1. CASE ServiceNext(Draw \ {0})
  BY <1>1 DEF ServiceNext, StartServer, BootComplete, BootCompleteFails, CompleteRemoval,
     JobEnters, JobRequested, LastJobEnds, LastJobTimesOut, RouteFails, Abort, jobVars
<1>2. CASE \E t \in Type : DivertingRemove(t) /\ RemoveCommand(t)
  BY <1>2 DEF RemoveCommand, RemoveServer, RemoveServerFails, Abort, jobVars
<1>3. CASE \E t \in Type : SerialAdd(t) /\ AddCommand(t)
  BY <1>3 DEF AddCommand, AddServer, AddServerNow, AddServerFails, Abort, jobVars
<1>4. CASE \E load \in TrafficChoice : SendsToRemaining(load) /\ DivertTraffic(load)
  BY <1>4 DEF DivertTraffic, jobVars
<1>5. CASE UNCHANGED vars
  BY <1>5 DEF vars, jobVars
<1> QED
  BY <1>1, <1>2, <1>3, <1>4, <1>5 DEF DivertingNext

(* Under this client no job goes to a type whose share is ZERO.            *)
THEOREM ShareTheorem ==
  ASSUME InitialServers["A"] > 0
  PROVE  SwimSpec => ShareIsRespected
<1>1. ASSUME SwimInv, [SwimNext]_swimVars, client = "diverting", NEW m \in busy' \ busy
      PROVE  traffic[typeOf[m]] > 0
  <2>1. DivertingInv /\ [DivertingNext]_vars
    BY <1>1 DEF SwimInv, SwimNext, swimVars
  <2>2. PICK u \in Draw \ {0} : Route(u)
    BY <1>1, <2>1, RoutedJob
  <2>3. m \in Candidates(u)
    BY <1>1, <2>2 DEF Route, JobArrives, IsOutServer
  <2>4. typeOf[m] \in Type /\ Takes(typeOf[m], u)
    BY <2>1, <2>3 DEF Candidates, Connected, Live, DivertingInv, SerialInv, TypeOK
  <2> QED
    BY <2>1, <2>4, TakesOnlyShare
<1>2. SwimInv /\ [SwimNext]_swimVars =>
        [client = "diverting" => \A m \in busy' \ busy : traffic[typeOf[m]] > 0]_swimVars
  BY <1>1
<1> QED
  BY <1>2, SwimInvariant, PTL DEF SwimSpec, ShareIsRespected
==============================================================================
