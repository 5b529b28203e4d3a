------------------------- MODULE MCDisasterRecovery -------------------------
(* Two sites, for TLC.                                                     *)
EXTENDS DisasterRecovery

CONSTANTS s1, s2
=============================================================================
