--------------------------- MODULE MCMonitorFeed ----------------------------
(***************************************************************************)
(* MonitorFeed with small values for TLC: see the .cfg files.              *)
(***************************************************************************)
EXTENDS MonitorFeed
=============================================================================
