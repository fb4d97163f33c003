-------------------------- MODULE Onboarding_proofs ---------------------------
(***************************************************************************)
(* Lemmas about Onboarding, for any number of key sets and faults: what    *)
(* its first state and each of its steps preserve.  TypeOK is preserved by *)
(* any number of runs at the same time, RunInStep when no two are past     *)
(* CRAM at the same time.                                                  *)
(* Activation_proofs makes theorems of them.                               *)
(***************************************************************************)
EXTENDS Onboarding, TLAPS

-----------------------------------------------------------------------------
(* Types. *)

\* The variables have their types before the first run.
LEMMA OnboardingTypeInitial == Init => TypeOK
  <1> SUFFICES ASSUME Init PROVE TypeOK
    OBVIOUS
  <1>1. /\ known \in BOOLEAN /\ atSecret \in BOOLEAN
        /\ given \in [Processes -> BOOLEAN]
    BY DEF Init
  <1>2. /\ pc \in [Processes -> Steps \cup {"idle", "done"}]
        /\ \A p \in Processes : pc[p] = "idle"
    BY DEF Init, Steps
  <1>3. /\ conn \in [Processes -> {"none", "up", "deaf"}]
        /\ keys \in [Processes -> KeySets \cup {Absent}]
        /\ keys1 \in [Processes -> KeySets \cup {Absent}]
    BY DEF Init
  <1>4. faults \in 0..MaxFaults
    BY FaultsAssumption DEF Init
  <1> QED
    BY <1>1, <1>2, <1>3, <1>4 DEF Init, TypeOK

\* One step per action: none leaves the types, and a run has keys from generate on.
LEMMA OnboardingTypeInductive == TypeOK /\ [Next]_vars => TypeOK'
  <1> SUFFICES ASSUME TypeOK, [Next]_vars PROVE TypeOK'
    OBVIOUS
  <1> USE KeysAssumption, FaultsAssumption DEF TypeOK, Steps, At, Goto, bounds, locals, server
  <1>1. CASE RootLearns
    BY <1>1 DEF RootLearns
  <1>2. ASSUME NEW p \in Processes, NEW right \in BOOLEAN, Start(p, right) PROVE TypeOK'
    BY <1>2 DEF Start
  <1>3. ASSUME NEW p \in Processes, Lookup(p) PROVE TypeOK'
    BY <1>3 DEF Lookup, retry_secondary_connection
  <1>4. ASSUME NEW p \in Processes, Connect(p) \/ Reconnect(p) PROVE TypeOK'
    BY <1>4 DEF Connect, Reconnect, Fault
  <1>5. ASSUME NEW p \in Processes, Cram(p) PROVE TypeOK'
    BY <1>5 DEF Cram
  <1>6. ASSUME NEW p \in Processes, Generate(p) PROVE TypeOK'
    BY <1>6 DEF Generate
  <1>7. ASSUME NEW p \in Processes, OpenFile(p) \/ WriteFile(p) PROVE TypeOK'
    BY <1>7 DEF OpenFile, WriteFile
  <1>8. ASSUME NEW p \in Processes, StorePkam(p) \/ StorePublic(p) \/ DeleteSecret(p)
        PROVE  TypeOK'
    <2>1. PICK label \in Steps \cup {"idle", "done"} :
              pc' = [pc EXCEPT ![p] = label] /\ faults' \in 0..MaxFaults
      BY <1>8 DEF StorePkam, StorePublic, DeleteSecret, Replied, Fault
    <2>2. /\ keys[p] \in generated
          /\ generated' = generated /\ keys' = keys
      BY <1>8 DEF StorePkam, StorePublic, DeleteSecret
    <2>3. /\ pkam' \in KeySets \cup {Absent} /\ published' \in KeySets \cup {Absent}
          /\ known' = known /\ atSecret' \in BOOLEAN
          /\ UNCHANGED <<file, given, conn, keys1>>
      BY <1>8, <2>2 DEF StorePkam, StorePublic, DeleteSecret
    <2>4. pc' \in [Processes -> Steps \cup {"idle", "done"}]
      BY <2>1
    <2>5. \A q \in Processes : q # p => pc'[q] = pc[q]
      BY <2>1
    <2>6. \A q \in Processes :
              pc'[q] \in {"open", "write", "storePkam", "load", "pkam", "storePublic", "delete"}
                  => keys[q] \in generated
      BY <2>2, <2>5
    <2> QED
      BY <2>1, <2>2, <2>3, <2>4, <2>6
  <1>9. ASSUME NEW p \in Processes, Load(p) PROVE TypeOK'
    <2>1. CASE file \in KeySets
      BY <1>9, <2>1 DEF Load
    <2>2. CASE file \notin KeySets
      BY <1>9, <2>2 DEF Load
    <2> QED
      BY <2>1, <2>2
  <1>10. ASSUME NEW p \in Processes, Pkam(p) PROVE TypeOK'
    BY <1>10 DEF Pkam
  <1>11. ASSUME NEW p \in Processes, Fails(p) PROVE TypeOK'
    BY <1>11 DEF Fails, Fault
  <1>12. CASE UNCHANGED vars
    BY <1>12 DEF vars
  <1> QED
    BY <1>1, <1>2, <1>3, <1>4, <1>5, <1>6, <1>7, <1>8, <1>9, <1>10, <1>11, <1>12
       DEF Next, Main

-----------------------------------------------------------------------------
(* The secret and the keys, when no two runs are past CRAM at the same time. *)

\* Nothing has been done yet, and the secret is there.
LEMMA RunInStepInitial == Init => RunInStep /\ Apart
  BY DEF Init, RunInStep, SecretGoneMeansUsable, Onboards, Apart, Opened

\* A step of a run leaves the other runs where they are, with the keys they have.
LEMMA OtherRunsKept ==
    ASSUME NEW me \in Processes, TypeOK,
           Main(me) \/ Fails(me) \/ \E right \in BOOLEAN : Start(me, right)
    PROVE  \A q \in Processes \ {me} : pc'[q] = pc[q] /\ keys'[q] = keys[q]
  <1> USE DEF TypeOK, Goto, locals
  <1>1. CASE Lookup(me) \/ Connect(me) \/ Reconnect(me) \/ Cram(me)
    BY <1>1 DEF Lookup, retry_secondary_connection, Connect, Reconnect, Cram
  <1>2. CASE Generate(me) \/ OpenFile(me) \/ WriteFile(me)
    BY <1>2 DEF Generate, OpenFile, WriteFile
  <1>3. CASE Load(me) \/ Pkam(me)
    BY <1>3 DEF Load, Pkam
  <1>4. CASE StorePkam(me) \/ StorePublic(me) \/ DeleteSecret(me)
    BY <1>4 DEF StorePkam, StorePublic, DeleteSecret, Replied
  <1>5. CASE Fails(me) \/ \E right \in BOOLEAN : Start(me, right)
    BY <1>5 DEF Fails, Start
  <1> QED
    BY <1>1, <1>2, <1>3, <1>4, <1>5 DEF Main

\* Only a run that is past CRAM touches the secret, the file and the two records.
LEMMA OpenedTouches ==
    ASSUME NEW me \in Processes, ~Opened(me),
           Main(me) \/ Fails(me) \/ \E right \in BOOLEAN : Start(me, right)
    PROVE  UNCHANGED <<atSecret, file, pkam, published>>
  BY DEF Opened, At, server, Main, Fails, Start, Lookup, Connect, Reconnect, Cram, Generate,
         OpenFile, WriteFile, StorePkam, Load, Pkam, StorePublic, DeleteSecret

\* A run that changes the file or a record has passed CRAM, so that the secret is there;
\* and the run that deletes it has put the same keys in all three places.
LEMMA RunStepInStep ==
    ASSUME NEW me \in Processes, TypeOK, SecretGoneMeansUsable, Onboards(me),
           Main(me) \/ Fails(me) \/ \E right \in BOOLEAN : Start(me, right)
    PROVE  SecretGoneMeansUsable' /\ Onboards(me)'
  <1> DEFINE Good == SecretGoneMeansUsable /\ Onboards(me)
  <1> USE DEF SecretGoneMeansUsable, Usable, Onboards, Opened, At, Goto, bounds, locals, server
  <1>1. ASSUME NEW right \in BOOLEAN, Start(me, right) PROVE Good'
    BY <1>1 DEF Start, TypeOK
  <1>2. CASE Lookup(me)
    BY <1>2 DEF Lookup, retry_secondary_connection, TypeOK
  <1>3. CASE Connect(me) \/ Reconnect(me)
    BY <1>3 DEF Connect, Reconnect, TypeOK
  <1>4. CASE Cram(me)
    BY <1>4 DEF Cram, TypeOK
  <1>5. CASE Generate(me)
    BY <1>5 DEF Generate, TypeOK
  <1>6. CASE OpenFile(me) \/ WriteFile(me)
    BY <1>6 DEF OpenFile, WriteFile, TypeOK
  <1>7. CASE StorePkam(me)
    BY <1>7 DEF StorePkam, Replied, TypeOK
  <1>8. CASE Load(me)
    BY <1>8 DEF Load, TypeOK
  <1>9. CASE Pkam(me)
    BY <1>9 DEF Pkam, TypeOK
  <1>10. CASE StorePublic(me)
    BY <1>10 DEF StorePublic, Replied, TypeOK
  <1>11. CASE DeleteSecret(me)
    <2>1. file = keys[me] /\ pkam = keys[me] /\ published = keys[me] /\ keys[me] \in KeySets
      BY <1>11 DEF DeleteSecret, TypeOK
    <2> QED
      BY <1>11, <2>1 DEF DeleteSecret, Replied, TypeOK
  <1>12. CASE Fails(me)
    BY <1>12 DEF Fails, TypeOK
  <1> QED
    BY <1>1, <1>2, <1>3, <1>4, <1>5, <1>6, <1>7, <1>8, <1>9, <1>10, <1>11, <1>12 DEF Main

\* What that leaves of the other runs: those that are past CRAM are none when the run
\* is, and find everything as it was when it is not.
LEMMA RunInStepInductive ==
    TypeOK /\ RunInStep /\ Apart /\ [Next /\ Apart']_vars => RunInStep' /\ Apart'
  <1> SUFFICES ASSUME TypeOK, RunInStep, Apart, [Next /\ Apart']_vars
               PROVE  RunInStep' /\ Apart'
    OBVIOUS
  <1>1. CASE RootLearns
    BY <1>1 DEF RootLearns, locals, RunInStep, SecretGoneMeansUsable, Usable, Onboards,
                Opened, Apart
  <1>2. ASSUME NEW me \in Processes, Apart',
               Main(me) \/ Fails(me) \/ \E right \in BOOLEAN : Start(me, right)
        PROVE  RunInStep'
    <2>1. SecretGoneMeansUsable' /\ Onboards(me)'
      BY <1>2, RunStepInStep DEF RunInStep
    <2>2. \A q \in Processes \ {me} : pc'[q] = pc[q] /\ keys'[q] = keys[q]
      BY <1>2, OtherRunsKept
    <2>3. ASSUME NEW q \in Processes, q # me PROVE Onboards(q)'
      <3>1. CASE Opened(me)
        <4>1. ~Opened(q)
          BY <2>3, <3>1 DEF Apart
        <4>2. ~Opened(q)'
          BY <2>2, <2>3, <4>1 DEF Opened
        <4> QED
          BY <4>2 DEF Onboards, Opened
      <3>2. CASE ~Opened(me)
        <4>1. UNCHANGED <<atSecret, file, pkam, published>>
          BY <1>2, <3>2, OpenedTouches
        <4> QED
          BY <2>2, <2>3, <4>1 DEF RunInStep, Onboards, Opened
      <3> QED
        BY <3>1, <3>2
    <2> QED
      BY <2>1, <2>3 DEF RunInStep
  <1>3. CASE UNCHANGED vars
    BY <1>3 DEF vars, server, bounds, locals, RunInStep, SecretGoneMeansUsable, Usable,
                Onboards, Opened, Apart
  <1> QED
    BY <1>1, <1>2, <1>3 DEF Next, RunInStep

-----------------------------------------------------------------------------
(* The refinement of Ownership. *)

\* A step of an onboarding gives the atSign its owner, or leaves the owner alone.
LEMMA OwnerStep ==
    TypeOK /\ RunInStep /\ RunInStep' /\ [Next]_vars => [OneOwner!Next]_Owner
  <1> SUFFICES ASSUME TypeOK, RunInStep, RunInStep', [Next]_vars, Owner' # Owner
               PROVE  OneOwner!Next
    OBVIOUS
  <1>1. atSecret \in BOOLEAN
    BY DEF TypeOK
  <1>2. ASSUME NEW me \in Processes, DeleteSecret(me)
        PROVE  OneOwner!Next
    <2>1. atSecret /\ ~atSecret'
      BY <1>2 DEF DeleteSecret, At, RunInStep, Onboards, Opened
    <2>2. Owner = Absent /\ Owner' \in KeySets
      BY <2>1 DEF Owner, RunInStep, SecretGoneMeansUsable, Usable
    <2> QED
      BY <2>2 DEF OneOwner!Next, OneOwner!Claim
  <1>3. CASE atSecret /\ ~\E me \in Processes : DeleteSecret(me)
    <2>1. atSecret' = atSecret
      BY <1>3 DEF Next, Main, RootLearns, Start, Lookup, Connect, Reconnect, Cram, Generate,
                  OpenFile, WriteFile, StorePkam, Load, Pkam, StorePublic, Fails, vars, server
    <2> QED
      BY <1>3, <2>1 DEF Owner
  <1>4. CASE ~atSecret
    <2>1. \A p \in Processes : ~Opened(p)
      BY <1>4 DEF RunInStep, Onboards
    <2>2. UNCHANGED <<atSecret, file, pkam, published>>
      BY <2>1, OpenedTouches DEF Next, RootLearns, vars, server
    <2> QED
      BY <2>2 DEF Owner, Usable
  <1> QED
    BY <1>1, <1>2, <1>3, <1>4

=============================================================================
