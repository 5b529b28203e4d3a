----------------------------- MODULE MCRecovery -----------------------------
(***************************************************************************)
(* Two datacenters, one server, one resource and two tokens.  Backups are  *)
(* taken of all datacenters; a restore may name the other one only.        *)
(***************************************************************************)
EXTENDS Recovery

CONSTANTS d1, d2, t1

All == {{}}

AllOrOther == {{}, {d2}}
=============================================================================
