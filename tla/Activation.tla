------------------------------ MODULE Activation ------------------------------
(***************************************************************************)
(* From nothing to an atSign that can be used: the registration, and the   *)
(* onboarding that follows it with the atSign and the secret it has got    *)
(* (Register.main, examples/register.py).  When an onboarding dies the     *)
(* user runs examples/onboarding.py, with the secret that was printed.     *)
(***************************************************************************)
EXTENDS Onboarding, Registration

activation == <<vars, registration>>

ActivationInit == Init /\ RegistrationInit

\* The first call is main's, ten seconds after the registration; the others the user's.
Onboard(p) ==
    /\ stage = "done"
    /\ Start(p, params.cram = params.atSign)
    /\ UNCHANGED registration

Registering == Register /\ UNCHANGED vars
Running(p) == Main(p) /\ UNCHANGED registration
Dying(p) == Fails(p) /\ UNCHANGED registration
Learning == RootLearns /\ UNCHANGED registration

ActivationNext ==
    \/ Registering
    \/ \E p \in Processes : Onboard(p) \/ Running(p) \/ Dying(p)
    \/ Learning

\* Every call ends and every run goes on; the root server learns of the atSign; a user
\* whose onboarding has died tries again.
Fairness ==
    /\ WF_activation(Registering)
    /\ WF_activation(Learning)
    /\ \A p \in Processes : WF_activation(Running(p)) /\ WF_activation(Onboard(p))

ActivationSpec == ActivationInit /\ [][ActivationNext]_activation /\ Fairness

\* Any number of onboardings of which no two are past CRAM at the same time.
ApartActivation == ActivationInit /\ [][ActivationNext /\ Apart']_activation

\* A run that waits before CRAM for another to end is not obliged to go on.
ApartFairness ==
    /\ WF_activation(Registering)
    /\ WF_activation(Learning)
    /\ \A p \in Processes : WF_activation(Running(p) /\ Apart') /\ WF_activation(Onboard(p))

ApartActivationSpec == ApartActivation /\ ApartFairness

-----------------------------------------------------------------------------
ActivationTypeOK == TypeOK /\ RegistrationTypeOK

\* The atSign is owned by one key set, for good.
OwnedOnce == OneOwner!Spec

\* A registration ends: with an error, or with an atSign that is usable in the end, after
\* as many onboardings as it takes once the faults are over.
UsableUnlessRefused == <>(stage = "raised") \/ <>[](Usable /\ ~atSecret)
=============================================================================
