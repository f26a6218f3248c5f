-------------------------- MODULE InterfaceProperties --------------------------
(***************************************************************************)
(* Properties of the conversation between manager and simulation.          *)
(***************************************************************************)
EXTENDS AdaptInterface

(* docs/ExternalControl: the response to a command is a number, OK or an   *)
(* error message.  So the reply a client takes is that to the command it   *)
(* has sent (SwimClient.cpp:77-112), though one connection carries all and *)
(* a buffer may hold several commands or a part of one; and a command whose*)
(* reply the client has taken as a success was carried out, once, and in   *)
(* the order in which the client sent it.  Cut leaves out a cut within an  *)
(* argument: the first part of a line may be answered as a whole command   *)
(* (AdaptInterface.cc:144 keeps no rest of a line), and there it fails.    *)
ExecutesOnceInOrder ==
  /\ \A i \in DOMAIN answered : answered[i].of = i
  /\ \A i, k \in DOMAIN executed : i < k => executed[i] < executed[k]
  /\ \A i \in DOMAIN answered : answered[i].kind \in {"OK", "number"}
                                 => Contains(executed, answered[i].of)

=============================================================================
