------------------------------- MODULE SimpleAM -------------------------------
(***************************************************************************)
(* The decisions of the example adaptation manager (examples/simple_am)    *)
(* and their effect on the run-time model.  A handler reads seven counters *)
(* by one command each, decides, and sends its commands one by one; the    *)
(* simulation goes on meanwhile, so that a server may have booted between  *)
(* any two of them.                                                        *)
(*                                                                         *)
(* The loop of simple_am reads the response time and has the calls of the  *)
(* handlers commented out; here either handler may be called in any period.*)
(* A removal that a handler began is over when the next is called (the     *)
(* loop sleeps in between); without that, run careful_boot shows what goes *)
(* wrong.                                                                  *)
(***************************************************************************)
EXTENDS HPModel, SequencesExt, FiniteSetsExt

CONSTANT DimmerSteps  \* numberOfBrownoutLevels - 1

ASSUME DimmerAssumption == DimmerSteps \in Nat \ {0}

VARIABLES
  handler,    \* the handler that runs, "none" between two, "start" before all
  reading,    \* the answers it has got
  toSend,     \* the commands it has still to send
  drained,    \* the type of the server that drains, or NoType
  amQuit,     \* whether an error reply has ended the client
  aborted     \* whether an assertion has ended the simulation

amVars == <<handler, reading, toSend, drained, amQuit, aborted>>

AMInit ==
  /\ ModelInit
  /\ handler = "start" /\ reading = <<>> /\ toSend = <<>>
  /\ drained = NoType /\ amQuit = FALSE /\ aborted = FALSE

AMTypes == <<"A", "B", "C">>
NoDiversion == [t \in Type |-> 0]

(***************************************************************************)
(* simple_am.cpp                                                           *)
(***************************************************************************)

(* getDivertTrafficCommand, in quarters; the empty command for no type.    *)
DivertTrafficCommand(types) ==
  [t \in Type |-> IF t \notin types THEN 0
                  ELSE IF Cardinality(types) = 3 THEN (IF t = "A" THEN 2 ELSE 1)
                  ELSE 4 \div Cardinality(types)]

(* getServers of A, B, C, getDimmer, getActiveServers of A, B, C.          *)
Answer(i) ==
  CASE i <= 3 -> GetServers(AMTypes[i])
    [] i = 4 -> DimmerSteps - brownout
    [] OTHER -> active[AMTypes[i - 4]]

Servers(r, t) == r[CHOOSE i \in 1 .. 3 : AMTypes[i] = t]
ActiveServers(r, t) == r[4 + CHOOSE i \in 1 .. 3 : AMTypes[i] = t]
ActiveTypes(r) == {t \in Type : ActiveServers(r, t) > 0}
SeesBoot(r) == r[1] + r[2] + r[3] > r[5] + r[6] + r[7]
FirstOf(order, types) == order[Min({i \in 1 .. 3 : order[i] \in types})]

(* handleHighResponseTime, without the getMaxServers it sends in between.  *)
HighCommands(r) ==
  LET free == {t \in Type : Servers(r, t) < MaxServers[t]}
  IN  <<[name |-> "divert", load |-> DivertTrafficCommand(ActiveTypes(r))]>>
      \o (IF SeesBoot(r) \/ free = {} THEN <<>>
          ELSE <<[name |-> "add", type |-> FirstOf(Reverse(AMTypes), free)]>>)
      \o (IF r[4] > 0 THEN <<[name |-> "dec_dimmer"]>> ELSE <<>>)

(* Seeded fault: the traffic is not diverted from the server's type.       *)
LowCommandsKeepingTraffic(r) ==
  LET victim == FirstOf(AMTypes, ActiveTypes(r))
  IN  (IF SeesBoot(r) THEN <<>>
       ELSE <<[name |-> "divert", load |-> DivertTrafficCommand(ActiveTypes(r))],
              [name |-> "remove", type |-> victim]>>)
      \o (IF r[4] < DimmerSteps THEN <<[name |-> "inc_dimmer"]>> ELSE <<>>)

(* handleLowResponseTime: all traffic goes to the other types.             *)
LowCommands(r) ==
  LET victim == FirstOf(AMTypes, ActiveTypes(r))
  IN  (IF SeesBoot(r) THEN <<>>
       ELSE <<[name |-> "divert", load |-> DivertTrafficCommand(ActiveTypes(r) \ {victim})],
              [name |-> "remove", type |-> victim]>>)
      \o (IF r[4] < DimmerSteps THEN <<[name |-> "inc_dimmer"]>> ELSE <<>>)

(* simpleAdaptationManager                                                 *)
CallHandler(h) ==
  /\ handler = "none" /\ ~amQuit /\ drained = NoType
  /\ handler' = h
  /\ UNCHANGED <<modelVars, reading, toSend, drained, amQuit, aborted>>

ReadCounter ==
  /\ handler \in {"high", "low"} /\ Len(reading) < 7 /\ toSend = <<>> /\ ~aborted
  /\ reading' = Append(reading, Answer(Len(reading) + 1))
  /\ UNCHANGED <<modelVars, handler, toSend, drained, amQuit, aborted>>

Decide ==
  /\ Len(reading) = 7
  /\ LET commands == IF handler = "high" THEN HighCommands(reading) ELSE LowCommands(reading)
     IN  /\ toSend' = commands
         /\ handler' = IF commands = <<>> THEN "none" ELSE "sending"
  /\ reading' = <<>>
  /\ UNCHANGED <<modelVars, drained, amQuit, aborted>>

(***************************************************************************)
(* What the commands do: SwimClient, AdaptInterface, the manager           *)
(***************************************************************************)

(* The next command, if it is of this name and all is well so far.         *)
Sends(name) ==
  /\ toSend # <<>> /\ Head(toSend).name = name /\ ~aborted
  /\ toSend' = Tail(toSend)
  /\ handler' = IF toSend' = <<>> THEN "none" ELSE handler
  /\ UNCHANGED reading

SendDivertTraffic ==
  /\ toSend # <<>> /\ Head(toSend).name = "divert" /\ Head(toSend).load # NoDiversion
  /\ Sends("divert")
  /\ ModelSetTrafficLoad(Head(toSend).load)
  /\ UNCHANGED <<active, bootType, events, brownout, drained, amQuit, aborted>>

(* The empty command is answered by an error, and sendCommand throws.      *)
SendNoDiversion ==
  /\ toSend # <<>> /\ Head(toSend).name = "divert" /\ Head(toSend).load = NoDiversion
  /\ ~aborted
  /\ amQuit' = TRUE /\ toSend' = <<>> /\ handler' = "none"
  /\ UNCHANGED <<modelVars, reading, drained, aborted>>

SendAddServer ==
  /\ Sends("add")
  /\ LET t == Head(toSend).type
         possible == GetServers(t) < MaxServers[t] /\ ~IsServerBooting
     IN  /\ IF possible THEN ModelAddServer(t) ELSE UNCHANGED <<active, bootType, events>>
         /\ aborted' = ~possible
  /\ UNCHANGED <<brownout, traffic, drained, amQuit>>

SendRemoveServer ==
  /\ Sends("remove")
  /\ LET possible == GetTotalActiveServers > 1 /\ drained = NoType
     IN  /\ drained' = IF possible THEN Head(toSend).type ELSE drained
         /\ aborted' = ~possible
  /\ UNCHANGED <<modelVars, amQuit>>

SendDecreaseDimmer ==
  /\ Sends("dec_dimmer")
  /\ ModelSetBrownoutFactor(brownout + 1)
  /\ UNCHANGED <<active, bootType, events, traffic, drained, amQuit, aborted>>

SendIncreaseDimmer ==
  /\ Sends("inc_dimmer")
  /\ ModelSetBrownoutFactor(brownout - 1)
  /\ UNCHANGED <<active, bootType, events, traffic, drained, amQuit, aborted>>

(***************************************************************************)
(* What happens meanwhile                                                  *)
(***************************************************************************)

(* Initial servers; there is one of type A, which all traffic goes to.     *)
AddInitialServers(n) ==
  /\ handler = "start" /\ handler' = "none"
  /\ active' = n
  /\ UNCHANGED <<bootType, events, brownout, traffic, reading, toSend, drained, amQuit, aborted>>

BootEnds ==
  /\ bootType # NoType /\ ~aborted
  /\ ModelServerBecameActive(bootType)
  /\ UNCHANGED <<brownout, traffic, amVars>>

DrainEnds ==
  /\ drained # NoType /\ ~aborted
  /\ ModelRemoveServer(drained)
  /\ drained' = NoType
  /\ UNCHANGED <<brownout, traffic, handler, reading, toSend, amQuit, aborted>>

InitialChoice ==
  {n \in [Type -> 0 .. Max({MaxServers[t] : t \in Type})] :
     n["A"] > 0 /\ \A t \in Type : n[t] <= MaxServers[t]}

AMNext ==
  \/ \E n \in InitialChoice : AddInitialServers(n)
  \/ CallHandler("high") \/ CallHandler("low")
  \/ ReadCounter
  \/ Decide
  \/ SendDivertTraffic \/ SendNoDiversion
  \/ SendAddServer \/ SendRemoveServer
  \/ SendDecreaseDimmer \/ SendIncreaseDimmer
  \/ BootEnds \/ DrainEnds

(***************************************************************************)
(* The inductive invariant of AdaptsSafely                                 *)
(***************************************************************************)

(* active without the server that drains, which serves no new request.     *)
Stays(t) == active[t] - (IF drained = t THEN 1 ELSE 0)

AMCommand ==
  [name : {"divert"}, load : [Type -> Nat]] \cup [name : {"add", "remove"}, type : Type]
    \cup [name : {"dec_dimmer", "inc_dimmer"}]

AMTypeOK ==
  /\ handler \in {"start", "none", "high", "low", "sending"}
  /\ active \in [Type -> Nat] /\ traffic \in [Type -> Nat]
  /\ brownout \in 0 .. DimmerSteps
  /\ bootType \in Type \cup {NoType} /\ drained \in Type \cup {NoType}
  /\ events = IF bootType = NoType THEN {} ELSE {bootType}
  /\ bootType # NoType => drained = NoType
  /\ reading \in Seq(Nat) /\ Len(reading) <= 7 /\ toSend \in Seq(AMCommand)
  /\ amQuit \in BOOLEAN /\ ~aborted

(* Some type gets traffic, and keeps a server for it.                      *)
TrafficServed ==
  /\ handler = "start" => /\ drained = NoType
                          /\ \A t \in Type : (traffic[t] > 0 <=> t = "A")
  /\ handler # "start" => /\ \E t \in Type : traffic[t] > 0
                          /\ \A t \in Type : traffic[t] > 0 => Stays(t) > 0
                          /\ drained # NoType => active[drained] > 0

(* What has been read of the servers and the dimmer is still so, and no    *)
(* fewer servers are active now than were.                                 *)
ReadingHolds ==
  /\ reading # <<>> => handler \in {"high", "low"}
  /\ handler \in {"high", "low"} => drained = NoType /\ toSend = <<>>
  /\ \A i \in 1 .. Len(reading) :
       CASE i <= 3 -> reading[i] = GetServers(AMTypes[i])
         [] i = 4 -> reading[i] = DimmerSteps - brownout
         [] OTHER -> /\ reading[i] <= active[AMTypes[i - 4]]
                     /\ traffic[AMTypes[i - 4]] > 0 => reading[i] > 0

OnlyTypeIs(t) == active[t] > 0 /\ \A u \in Type \ {t} : active[u] = 0

(* A command that is still to be sent is safe when its turn comes.         *)
DivertIsSafe(i) ==
  LET load == toSend[i].load
  IN  /\ i = 1 /\ drained = NoType
      /\ \A t \in Type : load[t] > 0 => active[t] > 0
      /\ load # NoDiversion => \E t \in Type : load[t] > 0
      /\ load = NoDiversion => bootType = NoType /\ \E t \in Type : OnlyTypeIs(t)
AddIsSafe(t) ==
  GetServers(t) < MaxServers[t] /\ bootType = NoType /\ drained = NoType
RemoveIsSafe(i) ==
  LET t == toSend[i].type
  IN  /\ i <= 2 /\ active[t] > 0 /\ bootType = NoType /\ drained = NoType
      /\ i = 1 => traffic[t] = 0 /\ GetTotalActiveServers > 1
      /\ i = 2 => /\ toSend[1].name = "divert" /\ toSend[1].load[t] = 0
                  /\ toSend[1].load # NoDiversion => GetTotalActiveServers > 1

CommandIsSafe(i) ==
  LET name == toSend[i].name
  IN  /\ name = "divert" => DivertIsSafe(i)
      /\ name = "add" => AddIsSafe(toSend[i].type)
      /\ name = "remove" => RemoveIsSafe(i)
      /\ name = "dec_dimmer" => i = Len(toSend) /\ brownout < DimmerSteps
      /\ name = "inc_dimmer" => i = Len(toSend) /\ brownout > 0
      /\ name \in {"add", "remove"} =>
           \A j \in i + 1 .. Len(toSend) : toSend[j].name \in {"dec_dimmer", "inc_dimmer"}
PlanIsSafe ==
  /\ toSend # <<>> => handler = "sending"
  /\ \A i \in 1 .. Len(toSend) : CommandIsSafe(i)

QuitsIdle ==
  amQuit => /\ handler = "none" /\ toSend = <<>> /\ drained = NoType /\ bootType = NoType
            /\ \E t \in Type : OnlyTypeIs(t)

AMInv == AMTypeOK /\ TrafficServed /\ ReadingHolds /\ PlanIsSafe /\ QuitsIdle

(***************************************************************************)
(* Properties                                                              *)
(***************************************************************************)

(* What the manager has read may be out of date when it acts, and still it *)
(* asks for no server beyond the maximum or while one boots, removes no    *)
(* last server, leaves no traffic with a type whose last server goes, and  *)
(* keeps the dimmer between 0 and 1 (docs/ExternalControl), though the     *)
(* commands have no bound of their own.  It ends only for a low response   *)
(* time with one type of servers left: the empty diversion is an error,    *)
(* before it could remove a server.                                        *)
AdaptsSafely ==
  /\ ~aborted
  /\ brownout \in 0 .. DimmerSteps
  /\ handler # "start" =>
       \A t \in Type : traffic[t] > 0 => active[t] - (IF drained = t THEN 1 ELSE 0) > 0
  /\ amQuit => drained = NoType /\ bootType = NoType
               /\ Cardinality({t \in Type : active[t] > 0}) = 1

=============================================================================
