------------------------- MODULE Registration_proofs --------------------------
(***************************************************************************)
(* Lemmas about Registration, for any set of atSigns: what its first state *)
(* and each of its steps preserve.  Activation_proofs makes theorems of    *)
(* them.                                                                   *)
(***************************************************************************)
EXTENDS Registration, TLAPS

-----------------------------------------------------------------------------
(* The dictionaries. *)

\* dict.update adds nothing but what was found, and loses nothing.
LEMMA UpdatedData ==
    ASSUME NEW dict \in [DOMAIN NoData -> AtSigns \cup {None}],
           NEW data,
           \A f \in DOMAIN data : data[f] \in AtSigns \cup {None}
    PROVE  /\ Updated(dict, data) \in [DOMAIN NoData -> AtSigns \cup {None}]
           /\ \A f \in DOMAIN NoData :
                 Updated(dict, data)[f] =
                    IF f \in DOMAIN data /\ data[f] # None THEN data[f] ELSE dict[f]
  BY DEF Updated

\* The same of the parameters of a flow, which keep the one-time password.
Params == [atSign : AtSigns \cup {None}, ActivationKey : AtSigns \cup {None},
           cram : AtSigns \cup {None}, otp : Otps \cup {None}]

LEMMA UpdatedParams ==
    ASSUME NEW p \in Params, NEW data \in [DOMAIN NoData -> AtSigns \cup {None}]
    PROVE  /\ Updated(p, data) \in Params
           /\ Updated(p, data).atSign = IF data.atSign # None THEN data.atSign ELSE p.atSign
           /\ Updated(p, data).cram = IF data.cram # None THEN data.cram ELSE p.cram
  <1>1. DOMAIN NoData = {"atSign", "ActivationKey", "cram"}
    BY DEF NoData
  <1>2. DOMAIN p = {"atSign", "ActivationKey", "cram", "otp"}
    BY DEF Params
  <1>3. DOMAIN data = {"atSign", "ActivationKey", "cram"}
    BY <1>1
  <1>4. Updated(p, data) =
           [f \in {"atSign", "ActivationKey", "cram", "otp"} |->
               IF f \in {"atSign", "ActivationKey", "cram"} /\ data[f] # None
               THEN data[f] ELSE p[f]]
    BY <1>2, <1>3 DEF Updated
  <1>5. /\ data.atSign \in AtSigns \cup {None}
        /\ data.ActivationKey \in AtSigns \cup {None}
        /\ data.cram \in AtSigns \cup {None}
    BY <1>1
  <1> QED
    BY <1>4, <1>5 DEF Params

\* What a success makes of the result.
LEMMA SucceededData ==
    ASSUME NEW data,
           \A f \in DOMAIN data : data[f] \in AtSigns \cup {None},
           RegistrationTypeOK
    PROVE  /\ Succeeded(data).data \in [DOMAIN NoData -> AtSigns \cup {None}]
           /\ \A f \in DOMAIN NoData :
                 Succeeded(data).data[f] =
                    IF f \in DOMAIN data /\ data[f] # None THEN data[f] ELSE result.data[f]
           /\ Succeeded(data).api_call_status = "SUCCESS"
           /\ Succeeded(data).at_exception = result.at_exception
           /\ Succeeded(data) \in
                 [data : [DOMAIN NoData -> AtSigns \cup {None}],
                  api_call_status : {None, "SUCCESS", "RETRY", "FAILURE"},
                  at_exception : {None, "AtRegistrarException"}]
  <1>1. result.data \in [DOMAIN NoData -> AtSigns \cup {None}]
    BY DEF RegistrationTypeOK
  <1> DEFINE found == Updated(result.data, data)
  <1>2. /\ found \in [DOMAIN NoData -> AtSigns \cup {None}]
        /\ \A f \in DOMAIN NoData :
              found[f] = IF f \in DOMAIN data /\ data[f] # None THEN data[f] ELSE result.data[f]
    BY <1>1, UpdatedData
  <1>3. Succeeded(data) = [result EXCEPT !.data = found, !.api_call_status = "SUCCESS"]
    BY DEF Succeeded
  <1> HIDE DEF found
  <1> QED
    BY <1>2, <1>3 DEF RegistrationTypeOK

-----------------------------------------------------------------------------
(* What a run leaves. *)

Results ==
    [data : [DOMAIN NoData -> AtSigns \cup {None}],
     api_call_status : {None, "SUCCESS", "RETRY", "FAILURE"},
     at_exception : {None, "AtRegistrarException"}]

\* FlowInStep, of the result.
Fits(r) ==
    /\ r.data.atSign # None => task = 1
    /\ r.data.cram # None => task = Len(process_flow) /\ r.data.cram = params.atSign
    /\ r.api_call_status = "SUCCESS" =>
          /\ task = 1 => r.data.atSign # None
          /\ task = Len(process_flow) => r.data.cram # None
    /\ r.at_exception # None => r.api_call_status \in {"RETRY", "SUCCESS"}

\* A run whose result fits leaves the flow in step, whatever the retries.
LEMMA RanInStep ==
    ASSUME RegistrationTypeOK, FlowInStep,
           stage \in {"run", "again"},
           NEW r \in Results, Fits(r),
           NEW otp \in Otps \cup {None},
           Ran(r, otp)
    PROVE  RegistrationTypeOK' /\ FlowInStep'
  <1>1. retry_count' \in 0..max_retries
    BY DEF Ran, RegistrationTypeOK, FlowInStep, max_retries
  <1>2. params' \in Params /\ params'.atSign = params.atSign /\ params'.cram = params.cram
    BY DEF Ran, RegistrationTypeOK, Params
  <1>3. RegistrationTypeOK'
    BY <1>1, <1>2 DEF Ran, RegistrationTypeOK, Params, Results
  <1>4. FlowInStep'
    BY <1>2 DEF Ran, FlowInStep, Fits, SecretFits, GivesUpAfterRetries
  <1> QED
    BY <1>3, <1>4

\* The tasks of the two flows and their places.
LEMMA Places ==
    ASSUME RegistrationTypeOK
    PROVE  /\ task \in Nat \ {0} /\ task <= Len(process_flow)
           /\ Len(process_flow) \in {2, 3}
           /\ process_flow[task] \in {"GetFreeAtsign", "GetAtsignV3"} <=> task = 1
           /\ process_flow[task] \in {"ValidateOtp", "ActivateAtsignV3"} <=> task = Len(process_flow)
  <1>1. CASE process_flow = <<"GetFreeAtsign", "RegisterAtsign", "ValidateOtp">>
    <2>1. task \in 1..3 /\ Len(process_flow) = 3
      BY <1>1 DEF RegistrationTypeOK
    <2> QED
      BY <1>1, <2>1
  <1>2. CASE process_flow = <<"GetAtsignV3", "ActivateAtsignV3">>
    <2>1. task \in 1..2 /\ Len(process_flow) = 2
      BY <1>2 DEF RegistrationTypeOK
    <2> QED
      BY <1>2, <2>1
  <1> QED
    BY <1>1, <1>2 DEF RegistrationTypeOK, Flows

\* A flow has begun and found nothing.
LEMMA RegistrationInitial == RegistrationInit => RegistrationTypeOK /\ FlowInStep
  <1> SUFFICES ASSUME RegistrationInit PROVE RegistrationTypeOK /\ FlowInStep
    OBVIOUS
  <1>1. 1 \in DOMAIN process_flow
    BY DEF RegistrationInit, Flows
  <1>2. NoData \in [DOMAIN NoData -> AtSigns \cup {None}]
    BY DEF NoData
  <1>3. NoData.atSign = None /\ NoData.cram = None
    BY DEF NoData
  <1>4. RegistrationTypeOK
    BY <1>1, <1>2 DEF RegistrationInit, RegistrationTypeOK, NewResult, max_retries
  <1> QED
    BY <1>3, <1>4, NoneAssumption
       DEF RegistrationInit, FlowInStep, NewResult, SecretFits, GivesUpAfterRetries, max_retries

\* One step per answer of the registrar, then what start() makes of the result.
LEMMA RegistrationInductive ==
    RegistrationTypeOK /\ FlowInStep /\ [Register]_registration =>
        RegistrationTypeOK' /\ FlowInStep'
  <1> SUFFICES ASSUME RegistrationTypeOK, FlowInStep, [Register]_registration
               PROVE  RegistrationTypeOK' /\ FlowInStep'
    OBVIOUS
  <1>1. result \in Results /\ Fits(result)
    BY DEF RegistrationTypeOK, FlowInStep, Results, Fits
  <1>2. params.otp \in Otps \cup {None} /\ params.atSign \in AtSigns \cup {None}
        /\ Entered \subseteq Otps \cup {None}
    BY DEF RegistrationTypeOK, Entered
  <1>3. CASE GetFreeAtsign
    <2>1. PICK a \in AtSigns : Ran(Succeeded([atSign |-> a]), params.otp)
      BY <1>3 DEF GetFreeAtsign
    <2>2. task = 1 /\ task # Len(process_flow)
      BY <1>3, Places DEF GetFreeAtsign, Runs
    <2>3. a # None
      BY NoneAssumption
    <2>4. Succeeded([atSign |-> a]) \in Results /\ Fits(Succeeded([atSign |-> a]))
      BY <1>1, <2>2, <2>3, SucceededData DEF Results, Fits, NoData
    <2> QED
      BY <1>2, <1>3, <2>1, <2>4, RanInStep DEF GetFreeAtsign, Runs
  <1>4. CASE RegisterAtsign
    <2>1. task # 1 /\ task # Len(process_flow)
      BY <1>4, Places DEF RegisterAtsign, Runs
    <2>2. Succeeded(NoData) \in Results /\ Fits(Succeeded(NoData))
      BY <1>1, <2>1, SucceededData DEF Results, Fits, NoData
    <2> QED
      BY <1>2, <1>4, <2>2, RanInStep DEF RegisterAtsign, Runs
  <1>5. CASE GetAtsignV3
    <2>1. PICK a \in AtSigns :
             Ran(Succeeded([atSign |-> a, ActivationKey |-> a]), params.otp)
      BY <1>5 DEF GetAtsignV3
    <2>2. task = 1 /\ task # Len(process_flow)
      BY <1>5, Places DEF GetAtsignV3, Runs
    <2>3. a # None
      BY NoneAssumption
    <2>4. /\ Succeeded([atSign |-> a, ActivationKey |-> a]) \in Results
          /\ Fits(Succeeded([atSign |-> a, ActivationKey |-> a]))
      BY <1>1, <2>2, <2>3, SucceededData DEF Results, Fits, NoData
    <2> QED
      BY <1>2, <1>5, <2>1, <2>4, RanInStep DEF GetAtsignV3, Runs
  <1>6. CASE ActivateAtsignV3 \/ OtpVerified
    <2>1. PICK otp \in Otps \cup {None} : Ran(Succeeded([cram |-> params.atSign]), otp)
      BY <1>2, <1>6 DEF ActivateAtsignV3, OtpVerified, Otps
    <2>2. task = Len(process_flow) /\ task > 1 /\ stage \in {"run", "again"}
      BY <1>6, Places DEF ActivateAtsignV3, OtpVerified, Runs
    <2>3. params.atSign # None
      BY <2>2 DEF FlowInStep
    <2>4. /\ Succeeded([cram |-> params.atSign]) \in Results
          /\ Fits(Succeeded([cram |-> params.atSign]))
      BY <1>1, <1>2, <2>2, <2>3, SucceededData DEF Results, Fits, NoData
    <2> QED
      BY <2>1, <2>2, <2>4, RanInStep
  <1>7. CASE OtpIncorrect
    <2> DEFINE r == [result EXCEPT !.api_call_status = "RETRY",
                                   !.at_exception = "AtRegistrarException"]
    <2>1. r \in Results /\ Fits(r)
      BY <1>1 DEF Results, Fits
    <2>2. PICK otp \in Otps : Ran(r, otp)
      BY <1>7 DEF OtpIncorrect
    <2> HIDE DEF r
    <2> QED
      BY <1>7, <2>1, <2>2, RanInStep DEF OtpIncorrect, Runs
  <1>8. CASE OtpFollowUp
    <2> DEFINE r == [result EXCEPT !.api_call_status = "RETRY"]
    <2>1. r \in Results /\ Fits(r)
      BY <1>1 DEF Results, Fits
    <2>2. PICK otp \in Entered : Ran(r, otp)
      BY <1>8 DEF OtpFollowUp
    <2> HIDE DEF r
    <2> QED
      BY <1>2, <1>8, <2>1, <2>2, RanInStep DEF OtpFollowUp, Runs
  <1>9. CASE OtpOtherMessage
    BY <1>1, <1>2, <1>9, RanInStep DEF OtpOtherMessage, Runs
  <1>10. CASE CallFails
    <2>1. retry_count < max_retries
      BY <1>10 DEF CallFails, FlowInStep
    <2>2. Failed \in Results /\ Fits(Failed)
      BY <1>1, <2>1 DEF Failed, Results, Fits
    <2>3. PICK otp \in Otps \cup {None} : Ran(Failed, otp)
      BY <1>2, <1>10 DEF CallFails
    <2> QED
      BY <1>10, <2>2, <2>3, RanInStep DEF CallFails
  <1>11. CASE Retry
    BY <1>11 DEF Retry, Retries, RegistrationTypeOK, FlowInStep, SecretFits, GivesUpAfterRetries
  <1>12. CASE NextTask
    <2>1. /\ result.api_call_status = "SUCCESS" /\ Fits(result)
          /\ params' = Updated(params, result.data)
          /\ process_flow' = process_flow
      BY <1>1, <1>12 DEF NextTask
    <2>2. /\ params' \in Params
          /\ params'.atSign = IF result.data.atSign # None THEN result.data.atSign ELSE params.atSign
          /\ params'.cram = IF result.data.cram # None THEN result.data.cram ELSE params.cram
      BY <1>1, <2>1, UpdatedParams DEF RegistrationTypeOK, Params, Results
    <2>3. /\ task \in Nat \ {0} /\ task <= Len(process_flow)
          /\ Len(process_flow) \in {2, 3}
      BY Places
    <2>4. params'.atSign # None
      BY <2>1, <2>2, <2>3 DEF Fits, FlowInStep
    <2>5. CASE task = Len(process_flow)
      <3>1. task # 1
        BY <2>3, <2>5
      <3>2. result.data.cram # None /\ result.data.cram = params.atSign
        BY <2>1, <2>5 DEF Fits
      <3>3. result.data.atSign = None
        BY <2>1, <3>1 DEF Fits
      <3>4. params'.cram = params'.atSign
        BY <2>2, <3>2, <3>3
      <3>5. RegistrationTypeOK'
        BY <1>12, <2>1, <2>2, <2>5 DEF NextTask, RegistrationTypeOK, Params
      <3> QED
        BY <1>12, <2>1, <2>2, <2>3, <2>4, <2>5, <3>2, <3>3, <3>4, <3>5
           DEF NextTask, Fits, FlowInStep, SecretFits, GivesUpAfterRetries
    <2>6. CASE task # Len(process_flow)
      <3>1. /\ stage' = "run" /\ task' = task + 1 /\ retry_count' = 0 /\ result' = NewResult
        BY <1>12, <2>6 DEF NextTask
      <3>2. task' \in DOMAIN process_flow
        BY <2>3, <2>6, <3>1 DEF RegistrationTypeOK, Flows
      <3>3. NewResult \in Results /\ NewResult.data.atSign = None /\ NewResult.data.cram = None
            /\ NewResult.api_call_status = None /\ NewResult.at_exception = None
        BY DEF NewResult, NoData, Results
      <3>4. RegistrationTypeOK'
        BY <2>1, <2>2, <3>1, <3>2, <3>3 DEF RegistrationTypeOK, Params, Results, max_retries
      <3>5. FlowInStep'
        BY <2>1, <2>4, <3>1, <3>3, NoneAssumption
           DEF FlowInStep, SecretFits, GivesUpAfterRetries, max_retries
      <3> QED
        BY <3>4, <3>5
    <2> QED
      BY <2>5, <2>6
  <1>13. CASE GiveUp
    BY <1>13 DEF GiveUp, Retries, RegistrationTypeOK, FlowInStep, SecretFits,
                 GivesUpAfterRetries, max_retries
  <1>14. CASE UNCHANGED registration
    BY <1>14 DEF registration, RegistrationTypeOK, FlowInStep, SecretFits, GivesUpAfterRetries
  <1> QED
    BY <1>3, <1>4, <1>5, <1>6, <1>7, <1>8, <1>9, <1>10, <1>11, <1>12, <1>13, <1>14 DEF Register
=============================================================================
