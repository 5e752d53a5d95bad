----------------------------- MODULE MCUserMutex -----------------------------
(* UserMutex for TLC: its threads are model values.                        *)
EXTENDS UserMutex, TLC
=============================================================================
