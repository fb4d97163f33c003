-------------------------- MODULE Activation_proofs ---------------------------
(***************************************************************************)
(* Theorems about Activation, for any atSigns, key sets and number of      *)
(* faults.  Each of its steps is one of Onboarding that leaves the         *)
(* registration alone, or the other way round: the lemmas about the two    *)
(* components carry over.                                                  *)
(***************************************************************************)
EXTENDS Activation, Onboarding_proofs, Registration_proofs

\* A step of the whole is a step, or a stutter, of each part.
LEMMA Parts == [ActivationNext]_activation => [Next]_vars /\ [Register]_registration
  <1> SUFFICES ASSUME [ActivationNext]_activation
               PROVE  [Next]_vars /\ [Register]_registration
    OBVIOUS
  <1>1. CASE Registering
    BY <1>1 DEF Registering
  <1>2. ASSUME NEW p \in Processes, Onboard(p) PROVE [Next]_vars /\ UNCHANGED registration
    <2>1. PICK right \in BOOLEAN : Start(p, right)
      BY <1>2 DEF Onboard
    <2> QED
      BY <1>2, <2>1 DEF Onboard, Next
  <1>3. ASSUME NEW p \in Processes, Running(p) \/ Dying(p)
        PROVE  [Next]_vars /\ UNCHANGED registration
    BY <1>3 DEF Running, Dying, Next
  <1>4. CASE Learning
    BY <1>4 DEF Learning, Next
  <1>5. CASE UNCHANGED activation
    BY <1>5 DEF activation
  <1> QED
    BY <1>1, <1>2, <1>3, <1>4, <1>5 DEF ActivationNext

\* Every variable keeps its type, and the flow of the registration is in step.
LEMMA WholeInStep == ActivationSpec => [](TypeOK /\ RegistrationTypeOK /\ FlowInStep)
  <1>1. ActivationInit => TypeOK /\ RegistrationTypeOK /\ FlowInStep
    BY OnboardingTypeInitial, RegistrationInitial DEF ActivationInit
  <1>2. TypeOK /\ RegistrationTypeOK /\ FlowInStep /\ [ActivationNext]_activation
           => TypeOK' /\ RegistrationTypeOK' /\ FlowInStep'
    BY Parts, OnboardingTypeInductive, RegistrationInductive
  <1> QED
    BY <1>1, <1>2, PTL DEF ActivationSpec

\* Every variable of the registration and of any number of onboardings keeps its type.
THEOREM ActivationTypeCorrect == ActivationSpec => []ActivationTypeOK
  <1>1. TypeOK /\ RegistrationTypeOK => ActivationTypeOK
    BY DEF ActivationTypeOK
  <1> QED
    BY WholeInStep, <1>1, PTL

\* A flow that ends has the secret of the atSign it goes on to onboard, whatever answers
\* the registrar gives and however often it is asked.
THEOREM SecretIsTheAtSigns == ActivationSpec => []SecretFits
  <1>1. FlowInStep => SecretFits
    BY DEF FlowInStep
  <1> QED
    BY WholeInStep, <1>1, PTL

\* No error of the registrar ends a flow before the task was run four times.
THEOREM ErrorsAreRetried == ActivationSpec => []GivesUpAfterRetries
  <1>1. FlowInStep => GivesUpAfterRetries
    BY DEF FlowInStep
  <1> QED
    BY WholeInStep, <1>1, PTL

-----------------------------------------------------------------------------
(* Onboardings of which no two are past CRAM at the same time. *)

\* They are in step, and each of their steps is one that Ownership allows.
LEMMA ApartInStep ==
    /\ ActivationInit => TypeOK /\ RunInStep /\ Apart
    /\ TypeOK /\ RunInStep /\ Apart /\ [ActivationNext /\ Apart']_activation
          => TypeOK' /\ RunInStep' /\ Apart' /\ [OneOwner!Next]_Owner
  <1>1. ActivationInit => TypeOK /\ RunInStep /\ Apart
    BY OnboardingTypeInitial, RunInStepInitial DEF ActivationInit
  <1>2. [ActivationNext /\ Apart']_activation /\ Apart => [Next /\ Apart']_vars
    <2>1. UNCHANGED activation => UNCHANGED vars
      BY DEF activation
    <2> QED
      BY <2>1, Parts
  <1> QED
    BY <1>1, <1>2, OnboardingTypeInductive, RunInStepInductive, OwnerStep

\* However many onboardings there are, and however often they die after the
\* registration: the secret is not gone before the keys in the file open the server.
THEOREM SecretStaysUntilUsable == ApartActivation => []SecretGoneMeansUsable
  <1>1. RunInStep => SecretGoneMeansUsable
    BY DEF RunInStep
  <1> QED
    BY <1>1, ApartInStep, PTL DEF ApartActivation

\* The atSign is owned by one key set, for good.
THEOREM AtSignOwnedOnce == ApartActivation => OwnedOnce
  <1>1. ActivationInit => OneOwner!Init
    BY DEF ActivationInit, Init, Owner, OneOwner!Init
  <1> QED
    BY <1>1, ApartInStep, PTL DEF ApartActivation, OwnedOnce, OneOwner!Spec

\* Onboardings that run one after the other are apart: nothing is asked of a user who
\* runs main again only when it has ended.
THEOREM OneAtATimeIsApart ==
    ASSUME NEW me, Processes = {me}
    PROVE  ActivationSpec => ApartActivation
  <1>1. Apart'
    BY DEF Apart
  <1>2. [ActivationNext]_activation => [ActivationNext /\ Apart']_activation
    BY <1>1
  <1> QED
    BY <1>2, PTL DEF ActivationSpec, ApartActivation
=============================================================================
