---------------------------- MODULE MCManagerFtp ----------------------------
EXTENDS ManagerFtp
=============================================================================
