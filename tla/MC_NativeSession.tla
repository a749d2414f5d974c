-------------------------- MODULE MC_NativeSession --------------------------
\* NativeSession needs no further definitions: the cfg gives the constants.
EXTENDS NativeSession
=============================================================================
