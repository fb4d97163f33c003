------------------------------ MODULE Ownership -------------------------------
(***************************************************************************)
(* What onboarding promises: an atSign comes to be owned by one set of     *)
(* keys, in one step, and is owned by that set from then on.               *)
(***************************************************************************)
CONSTANTS KeySets, Nobody

VARIABLE owner

Init == owner = Nobody

Claim(k) ==
    /\ owner = Nobody
    /\ owner' = k

Next == \E k \in KeySets : Claim(k)

Spec == Init /\ [][Next]_owner
=============================================================================
