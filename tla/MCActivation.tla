---------------------------- MODULE MCActivation -----------------------------
(***************************************************************************)
(* Activation with small values for TLC: see the .cfg file.                *)
(***************************************************************************)
EXTENDS Activation

CONSTANTS main, again, alice, bob, k1, k2, k3
=============================================================================
