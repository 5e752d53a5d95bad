-------------------------- MODULE MCManagerStorage --------------------------
(* ManagerStorage for TLC.                                                 *)
EXTENDS ManagerStorage, TLC
=============================================================================
