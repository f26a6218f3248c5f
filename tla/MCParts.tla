------------------------------- MODULE MCParts -------------------------------
(***************************************************************************)
(* The parts of the system that are checked one at a time: a behaviour     *)
(* chooses one of them at the start and takes its steps only.              *)
(***************************************************************************)
EXTENDS Arrivals, InterfaceProperties, WindowStats, BootClock, ResourcePools, JobFamily,
        QueueNet, JobTimes, ProcessorSharing, EnvModel, SimpleAM, SampleProblems,
        MonitorProperties, AccountingProperties

VARIABLE part

PartName == {"arrivals", "interface", "window", "boot", "pool", "family", "net", "times",
             "sharing", "env", "am", "samples", "monitor", "accounting"}

PartsInit ==
  /\ part \in PartName
  /\ ArrivalsInit /\ InterfaceInit /\ WindowInit /\ BootClockInit /\ PoolInit /\ FamilyInit
  /\ NetInit /\ JobTimesInit /\ SharingInit /\ EnvInit /\ AMInit /\ SampleInit
  /\ MonitorInitH /\ AccountInitH
  /\ part # "env" => ~perfectEnv
  /\ part # "net" => algorithm = [route |-> "random", send |-> "random", fetch |-> "random"]

allMonitorVars == <<measureVars, measureHistoryVars>>
allAccountVars == <<accountVars, accountHistoryVars>>

(* The other parts rest; the adaptation manager shares the model (HPModel) *)
(* with the clock of the boots.                                            *)
OnlyPart(p) ==
  /\ UNCHANGED part
  /\ p # "arrivals" => UNCHANGED arrivalsVars
  /\ p # "interface" => UNCHANGED interfaceVars
  /\ p # "window" => UNCHANGED windowVars
  /\ p # "boot" => UNCHANGED bootVars
  /\ p # "am" => UNCHANGED amVars
  /\ p \notin {"boot", "am"} => UNCHANGED modelVars
  /\ p # "pool" => UNCHANGED poolVars
  /\ p # "family" => UNCHANGED familyVars
  /\ p # "net" => UNCHANGED netVars
  /\ p # "times" => UNCHANGED timesVars
  /\ p # "sharing" => UNCHANGED sharingVars
  /\ p # "env" => UNCHANGED envVars
  /\ p # "samples" => UNCHANGED sampleVars
  /\ p # "monitor" => UNCHANGED allMonitorVars
  /\ p # "accounting" => UNCHANGED allAccountVars

PartsNext ==
  \/ part = "arrivals" /\ ArrivalsNext /\ OnlyPart("arrivals")
  \/ part = "interface" /\ InterfaceNext /\ OnlyPart("interface")
  \/ part = "window" /\ WindowNext /\ OnlyPart("window")
  \/ part = "boot" /\ BootClockNext /\ OnlyPart("boot")
  \/ part = "am" /\ AMNext /\ OnlyPart("am")
  \/ part = "pool" /\ PoolNext /\ OnlyPart("pool")
  \/ part = "family" /\ FamilyNext /\ OnlyPart("family")
  \/ part = "net" /\ NetNext /\ OnlyPart("net")
  \/ part = "times" /\ JobTimesNext /\ OnlyPart("times")
  \/ part = "sharing" /\ SharingNext /\ OnlyPart("sharing")
  \/ part = "env" /\ EnvNext /\ OnlyPart("env")
  \/ part = "samples" /\ SampleNext /\ OnlyPart("samples")
  \/ part = "monitor" /\ MonitorNextH /\ OnlyPart("monitor")
  \/ part = "accounting" /\ AccountNextH /\ OnlyPart("accounting")

partsVars == <<part, arrivalsVars, interfaceVars, windowVars, clockVars, poolVars, familyVars,
               netVars, timesVars, sharingVars, envVars, amVars, sampleVars, allMonitorVars,
               allAccountVars>>
PartsSpec == PartsInit /\ [][PartsNext]_partsVars

(* BootIsForeseen in the part that moves the model's clock; the adaptation *)
(* manager's part shares the model (HPModel.cc) and leaves its times out.  *)
ClockForeseesBoot == part = "boot" => BootIsForeseen

MCPerfectArrivals == <<5, 7, 6, 9, 5, 8, 3, 9, 4, 6>>
MCRateLine == {<<2, 6>>, <<1, 2>>, <<4, 5>>}

MCCommand ==
  {[name |-> n, arg |-> NoArg] : n \in {"dec_dimmer", "inc_dimmer", "get_dimmer", "add_server"}}
  \cup {[name |-> "divert_traffic", arg |-> <<0, 2, 2>>],
        [name |-> "divert_traffic", arg |-> <<6, 4, 0>>],
        [name |-> "get_traffic", arg |-> <<2>>]}
MCMaxOfType == <<3, 2, 1>>
MCMaxServers == [t \in Type |-> CASE t = "A" -> 2 [] t = "B" -> 1 [] t = "C" -> 1]
MCResourceAmount == [a \in User |-> IF a = "q2" THEN 2 ELSE 1]
MCResourcePriority == [a \in User |-> 0]
MCCapacity == [a \in User |-> CASE a = "q0" -> 0 [] a = "q2" -> 1 [] OTHER -> -1]
MCFifo == [a \in User |-> a # "q1"]
MCNetCapacity == [q \in NetQueue |-> IF q = 0 THEN 1 ELSE -1]

(* Amounts that tell types, fidelities and the penalty apart.              *)
MCRevenue ==
  [t \in ServingType |-> IF t = "A" THEN [low |-> 2, normal |-> 5] ELSE [low |-> 11, normal |-> 23]]
MCCost == [t \in ServingType |-> IF t = "A" THEN 1 ELSE 3]
MCConfigured == [t \in ServingType |-> 1]
MCPenalty == -100
=============================================================================
