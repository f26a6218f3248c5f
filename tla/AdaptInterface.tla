---------------------------- MODULE AdaptInterface ----------------------------
(***************************************************************************)
(* The conversation of an adaptation manager with the simulation over TCP: *)
(* SwimClient (src/examples/simple_am/SwimClient.cpp) writes a command and *)
(* reads a reply; the scheduler receives what has arrived into the buffer  *)
(* of AdaptInterface (src/src/externalControl/AdaptInterface.cc), whose    *)
(* handleMessage executes the buffer line by line and replies to each.     *)
(*                                                                         *)
(* TCP keeps bytes in order but not together: a command may arrive in two  *)
(* parts, cut in the name, before or within the argument, or before the    *)
(* newline.  What a command does to the rest of the system is recorded in  *)
(* executed; module ExecutionManager says what it means there.  The        *)
(* scheduler is that of SocketRTScheduler: it receives into an empty       *)
(* buffer only.                                                            *)
(*                                                                         *)
(* With at most 22 brownout levels the double that setDimmer computes      *)
(* gives the same level back, so that the factor (l - 1) / (Levels - 1) is *)
(* represented by the level l.                                             *)
(***************************************************************************)
EXTENDS Integers, SequencesExt

CONSTANTS
  ClientCommand,  \* the commands a run sends: [name, arg]
  Cut,            \* where a command may be cut: in its name, ...
  Window,         \* how many commands the client sends before it reads a reply
  Levels,         \* numberOfBrownoutLevels
  MaxOfType,      \* maxServersA, maxServersB, maxServersC
  MaxCommands     \* bound on the commands of a run

ASSUME InterfaceAssumption ==
  /\ Cut \subseteq {"name", "arg", "within", "end"}
  /\ Window \in Nat \ {0} /\ Levels \in 2 .. 22 /\ MaxCommands \in Nat

(* An argument is a tuple of numbers, so that arguments can be compared:   *)
(* none at all, the index of a server type, or quarters of the traffic.      *)
NoArg == <<>>
TypeArg == {<<1>>, <<2>>, <<3>>}

(* The strings cmdDivertTraffic knows: quarters for A, B, C.               *)
Divertible ==
  {<<4, 0, 0>>, <<3, 1, 0>>, <<3, 0, 1>>, <<2, 2, 0>>, <<2, 0, 2>>, <<2, 1, 1>>,
   <<1, 3, 0>>, <<1, 0, 3>>, <<1, 2, 1>>, <<1, 1, 2>>, <<0, 4, 0>>, <<0, 0, 4>>,
   <<0, 3, 1>>, <<0, 1, 3>>, <<0, 2, 2>>}

(* The handlers of commandHandlers by what they want and what they return. *)
EffectorsOfType == {"add_server", "remove_server"}
ProbesOfType == {"get_servers", "get_active_servers", "get_max_servers", "get_traffic"}
Effectors == {"inc_dimmer", "dec_dimmer", "reset_revenue"}
Probes == {"get_dimmer", "get_avg_rt", "get_arrival_rate", "get_revenue"}
WithArgument == EffectorsOfType \cup ProbesOfType \cup {"divert_traffic"}
Known == WithArgument \cup Effectors \cup Probes

(* SwimClient names what it wants, and gives an argument only where one is.*)
ASSUME CommandAssumption ==
  \A c \in ClientCommand : /\ c \in [name : STRING, arg : Seq(Nat)] /\ c.name # ""
                           /\ c.arg # NoArg => c.name \in WithArgument

VARIABLES
  wire,        \* parts of commands on their way to the simulation
  recvBuffer,  \* parts received and not yet handled
  level,       \* getDimmerLevel()
  diversion,     \* the shares of A, B and C
  executed,    \* commands that have been carried out
  replies,     \* replies on their way to the client: [kind, of, value]
  sent,        \* commands the client has sent
  waiting,     \* numbers of those that await a reply
  answered,    \* replies the client has taken, in this order
  dimmerRead,  \* the level of the last get_dimmer, 0 when it is used up
  quit         \* whether the client has thrown an exception

serverVars == <<recvBuffer, level, diversion, executed>>
clientVars == <<sent, waiting, answered, dimmerRead, quit>>
interfaceVars == <<wire, serverVars, replies, clientVars>>

InterfaceInit ==
  /\ wire = <<>> /\ recvBuffer = <<>> /\ replies = <<>>
  /\ level = 1
  /\ diversion = <<4, 0, 0>>
  /\ executed = <<>>
  /\ sent = <<>> /\ waiting = <<>> /\ answered = <<>>
  /\ dimmerRead = 0 /\ quit = "no"

(***************************************************************************)
(* AdaptInterface::handleMessage                                           *)
(***************************************************************************)

(* The lines that getline finds in a buffer: a part without its newline is *)
(* a line at the end of the buffer, a rest is one at the start.            *)
Lines(buffer) ==
  LET StartsLine(i) == i = 1 \/ buffer[i].part # "tail"
      LineAt(i) == IF buffer[i].part = "head" /\ i < Len(buffer)
                   THEN [buffer[i] EXCEPT !.part = "whole"] ELSE buffer[i]
  IN  [k \in 1 .. Cardinality({i \in DOMAIN buffer : StartsLine(i)}) |->
         LineAt(CHOOSE i \in DOMAIN buffer :
                  StartsLine(i) /\ Cardinality({h \in 1 .. i : StartsLine(h)}) = k)]

Unknown == [name |-> "?", arg |-> NoArg]
Blank == [name |-> "", arg |-> NoArg]
Half == <<9>>

(* The command a line holds: half a name is no command, what is left of an *)
(* argument is none, a name whose argument is cut off has none, and half a *)
(* traffic split is no split that is known.                                *)
CommandIn(line) ==
  LET c == sent[line.id] IN
  CASE line.part = "whole" \/ (line.part = "head" /\ line.cut = "end") -> c
    [] line.part = "tail" /\ line.cut = "end" -> Blank
    [] line.part = "head" /\ line.cut = "arg" -> [c EXCEPT !.arg = NoArg]
    [] line.part = "head" /\ line.cut = "within" -> [c EXCEPT !.arg = Half]
    [] OTHER -> Unknown

(* What handleMessage and the handler of c reply.                          *)
ReplyKind(c) ==
  IF c = Blank THEN "none"
  ELSE IF c.name \notin Known \/ (c.name \in WithArgument /\ c.arg = NoArg) THEN "error"
  ELSE IF \/ c.name = "divert_traffic" /\ c.arg \notin Divertible
          \/ c.name = "get_max_servers" /\ c.arg \notin TypeArg
       THEN "invalid"
  ELSE IF c.name \in ProbesOfType \cup Probes THEN "number" ELSE "OK"

(* cmdDecreaseDimmer and cmdIncreaseDimmer: the dimmer is the share of     *)
(* requests with optional content, the level that of requests without.     *)
LevelAfter(c, l) ==
  CASE c.name = "dec_dimmer" -> l + 1
    [] c.name = "inc_dimmer" -> l - 1
    [] OTHER -> l

(* The numbers that this module knows: the dimmer, as a level, the shares, *)
(* and the maxima.                                                         *)
Probed(c, l, shares) ==
  CASE c.name = "get_dimmer" -> l
    [] c.name = "get_traffic" -> shares[c.arg[1]]
    [] c.name = "get_max_servers" -> MaxOfType[c.arg[1]]
    [] OTHER -> 0

(* One line: s holds what the lines before it have left.                   *)
HandleLine(s, line) ==
  LET c == CommandIn(line)
      r == ReplyKind(c)
  IN  [level |-> IF r = "OK" THEN LevelAfter(c, s.level) ELSE s.level,
       diversion |-> IF r = "OK" /\ c.name = "divert_traffic" THEN c.arg ELSE s.diversion,
       executed |-> IF r \in {"OK", "number"} THEN Append(s.executed, line.id) ELSE s.executed,
       replies |-> IF r = "none" THEN s.replies
                   ELSE Append(s.replies, [kind |-> r, of |-> line.id,
                     value |-> IF r = "number" THEN Probed(c, s.level, s.diversion) ELSE 0])]

(* Seeded fault: numRecvBytes is not reset.                                *)
HandleMessageAgain ==
  /\ recvBuffer # <<>>
  /\ LET s == FoldLeft(HandleLine, [level |-> level, diversion |-> diversion, executed |-> executed,
                                    replies |-> replies], Lines(recvBuffer))
     IN  /\ level' = s.level /\ diversion' = s.diversion
         /\ executed' = s.executed /\ replies' = s.replies
  /\ UNCHANGED <<recvBuffer, wire, clientVars>>

(* handleMessage: empties the buffer, line by line.                        *)
HandleMessage ==
  /\ recvBuffer # <<>>
  /\ LET s == FoldLeft(HandleLine, [level |-> level, diversion |-> diversion, executed |-> executed,
                                    replies |-> replies], Lines(recvBuffer))
     IN  /\ level' = s.level /\ diversion' = s.diversion
         /\ executed' = s.executed /\ replies' = s.replies
  /\ recvBuffer' = <<>>
  /\ UNCHANGED <<wire, clientVars>>

(* The scheduler receives the first n parts.                               *)
ReceiveParts(n) ==
  /\ recvBuffer = <<>> /\ n <= Len(wire)
  /\ recvBuffer' = SubSeq(wire, 1, n)
  /\ wire' = SubSeq(wire, n + 1, Len(wire))
  /\ UNCHANGED <<level, diversion, executed, replies, clientVars>>

(***************************************************************************)
(* SwimClient                                                              *)
(***************************************************************************)

(* simple_am decreases a dimmer above 0 and increases one below 1, once    *)
(* for each time it reads it, and waits for every reply before it moves it *)
(* (handleHighResponseTime, handleLowResponseTime).                        *)
MaySend(c) ==
  /\ c.name = "dec_dimmer" => waiting = <<>> /\ dimmerRead \in 1 .. Levels - 1
  /\ c.name = "inc_dimmer" => waiting = <<>> /\ dimmerRead > 1

Parts(id, cut) ==
  IF cut = "none" THEN <<[id |-> id, part |-> "whole", cut |-> cut]>>
  ELSE <<[id |-> id, part |-> "head", cut |-> cut], [id |-> id, part |-> "tail", cut |-> cut]>>

SendCommand(c, cut) ==
  /\ quit = "no" /\ Len(sent) < MaxCommands /\ Len(waiting) < Window
  /\ MaySend(c)
  /\ cut = "arg" => c.arg # NoArg
  /\ cut = "within" => Len(c.arg) > 1
  /\ sent' = Append(sent, c)
  /\ wire' = wire \o Parts(Len(sent'), cut)
  /\ waiting' = Append(waiting, Len(sent'))
  /\ dimmerRead' = (IF c.name \in {"dec_dimmer", "inc_dimmer"} THEN 0 ELSE dimmerRead)
  /\ UNCHANGED <<serverVars, replies, answered, quit>>

(* read_some: what has arrived is taken for the one reply; a client that   *)
(* sends ahead reads line by line.  sendCommand throws for an error.       *)
ReadReply(n) ==
  /\ quit = "no" /\ waiting # <<>> /\ n <= Len(replies)
  /\ Window > 1 => n = 1
  /\ LET r == Head(replies) IN
       /\ answered' = Append(answered, r)
       /\ quit' = (IF r.kind = "error" THEN "yes" ELSE "no")
       /\ dimmerRead' = (IF r.kind = "number" /\ sent[Head(waiting)].name = "get_dimmer"
                         THEN r.value ELSE dimmerRead)
  /\ replies' = SubSeq(replies, n + 1, Len(replies))
  /\ waiting' = Tail(waiting)
  /\ UNCHANGED <<wire, serverVars, sent>>

InterfaceNext ==
  \/ \E c \in ClientCommand, cut \in Cut \cup {"none"} : SendCommand(c, cut)
  \/ \E n \in 1 .. 2 * MaxCommands : ReceiveParts(n)
  \/ HandleMessage
  \/ \E n \in 1 .. 2 * MaxCommands : ReadReply(n)

=============================================================================
