----------------------------- MODULE MCLogAsync -----------------------------
(* LogAsync for TLC; LogAsync.cfg gives the constants their values.        *)
EXTENDS LogAsync
=============================================================================
