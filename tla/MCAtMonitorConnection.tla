----------------------- MODULE MCAtMonitorConnection ------------------------
(***************************************************************************)
(* AtMonitorConnection with small values for TLC: see the .cfg files.      *)
(***************************************************************************)
EXTENDS AtMonitorConnection

CONSTANTS app, other
=============================================================================
