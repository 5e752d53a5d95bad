---------------------------- MODULE MCAsyncWrite ----------------------------
(* AsyncWrite for TLC: paths and handles are model values.                 *)
EXTENDS AsyncWrite, TLC
=============================================================================
