---------------------------- MODULE MCSharedKeys ----------------------------
(***************************************************************************)
(* SharedKeys with small values for TLC: see the .cfg files.               *)
(***************************************************************************)
EXTENDS SharedKeys, TLC

CONSTANTS phone, laptop, k1, k2, k3

\* Nothing tells one AES key, or one client, from another.  (Sound: the runs check no
\* liveness.)
Symmetry == Permutations(Keys) \cup Permutations(Sharers)
=============================================================================
