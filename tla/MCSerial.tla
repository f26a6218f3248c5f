------------------------------ MODULE MCSerial ------------------------------
(***************************************************************************)
(* The execution manager under the serial client, with servers that take   *)
(* time to boot and with servers that do not.                              *)
(***************************************************************************)
EXTENDS MCManager

VARIABLE zeroBootDelay   \* whether the bootDelay parameter is 0 in this run

Instant == INSTANCE ManagerInvariant WITH ZeroBootDelay <- TRUE

EitherDelayNext ==
  \/ /\ ~zeroBootDelay /\ SerialClientNext
     /\ UNCHANGED zeroBootDelay
  \/ /\ zeroBootDelay /\ Instant!SerialClientNext
     /\ UNCHANGED zeroBootDelay

EitherDelayInit == Init /\ zeroBootDelay \in BOOLEAN

EitherDelaySpec == EitherDelayInit /\ [][EitherDelayNext]_<<vars, zeroBootDelay>>

(* The fair actions are the same whatever the delay is.                    *)
FairEitherDelaySpec == EitherDelaySpec /\ Fairness

=============================================================================
