--------------------------- MODULE MCTurnRecovery ---------------------------
(* The instance of TurnRecovery that TLC checks: see the .cfg files. *)
EXTENDS TurnRecovery
=============================================================================
