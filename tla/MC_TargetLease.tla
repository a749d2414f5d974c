--------------------------- MODULE MC_TargetLease ---------------------------
\* TargetLease needs no further definitions: the cfg files give the constants.
EXTENDS TargetLease
=============================================================================
