----------------------------- MODULE MCAppServer -----------------------------
(***************************************************************************)
(* Small instances of the application server for TLC.                      *)
(***************************************************************************)
EXTENDS AppServerProperties

(* capacity = default(-1) of PassiveQueue.ned; a cfg has no negative number. *)
MCUnlimited == -1

=============================================================================
