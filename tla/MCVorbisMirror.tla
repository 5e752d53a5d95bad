--------------------------- MODULE MCVorbisMirror ---------------------------
EXTENDS VorbisMirror

CONSTANTS stream, sample
MCLength == [f \in States |-> IF f = stream THEN 3 ELSE 1]
=============================================================================
