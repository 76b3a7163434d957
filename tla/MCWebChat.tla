------------------------------ MODULE MCWebChat ------------------------------
(* The instance of WebChat that TLC checks: see the .cfg files. *)
EXTENDS WebChat
=============================================================================
