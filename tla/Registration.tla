----------------------------- MODULE Registration -----------------------------
(***************************************************************************)
(* How an atSign and its CRAM secret are got from the registrar            *)
(* (examples/register.py, util/registerutil.py): RegistrationFlow.start    *)
(* takes one task after another, calls the registrar for each, and calls   *)
(* again what is worth it; what a task has found goes into the parameters  *)
(* of the next ones.  A task keeps one result object for all its runs, and *)
(* a run need not set all of it.                                           *)
(*                                                                         *)
(* The registrar may answer, refuse, or not be heard of.  A secret is the  *)
(* atSign it belongs to, and so is an activation key; a one-time password  *)
(* is right or wrong.  "confirmation" is left out: bool() of its text is   *)
(* True at every call, whatever the flow has set it to.                    *)
(***************************************************************************)
EXTENDS Naturals, Sequences

CONSTANTS
    AtSigns,     \* the atSigns the registrar may give
    None         \* Python's None; a parameter that is not there

ASSUME NoneAssumption == None \notin AtSigns \cup {"right", "wrong", "SUCCESS", "RETRY", "FAILURE"}

VARIABLES
    process_flow,   \* the tasks that were added to the flow
    task,           \* which of them is being done
    retry_count,    \* the task's
    result,         \* the task's RegisterApiResult
    params,         \* what the flow knows
    stage           \* "run", "again" (in the loop), "judge"; "done" or "raised"

registration == <<process_flow, task, retry_count, result, params, stage>>

-----------------------------------------------------------------------------
max_retries == 3

\* With an email address; with a key of the super-API.
Flows == {<<"GetFreeAtsign", "RegisterAtsign", "ValidateOtp">>,
          <<"GetAtsignV3", "ActivateAtsignV3">>}

NoData == [atSign |-> None, ActivationKey |-> None, cram |-> None]
NewResult == [data |-> NoData, api_call_status |-> None, at_exception |-> None]
Otps == {"right", "wrong"}

RegistrationTypeOK ==
    /\ process_flow \in Flows
    /\ task \in DOMAIN process_flow
    /\ retry_count \in 0..max_retries
    /\ result \in [data : [DOMAIN NoData -> AtSigns \cup {None}],
                   api_call_status : {None, "SUCCESS", "RETRY", "FAILURE"},
                   at_exception : {None, "AtRegistrarException"}]
    /\ params \in [atSign : AtSigns \cup {None}, ActivationKey : AtSigns \cup {None},
                   cram : AtSigns \cup {None}, otp : Otps \cup {None}]
    /\ stage \in {"run", "again", "judge", "done", "raised"}

RegistrationInit ==
    /\ process_flow \in Flows
    /\ task = 1
    /\ retry_count = 0
    /\ result = NewResult
    /\ params = [atSign |-> None, ActivationKey |-> None, cram |-> None, otp |-> None]
    /\ stage = "run"

-----------------------------------------------------------------------------
(* A run of a task: one call of the registrar. *)

Runs(name) == stage \in {"run", "again"} /\ process_flow[task] = name

\* start() counts the runs that it makes in its loop, and not the first.
Ran(r, otp) ==
    /\ result' = r
    /\ params' = [params EXCEPT !.otp = otp]
    /\ retry_count' = IF stage = "again" THEN retry_count + 1 ELSE retry_count
    /\ stage' = "judge"
    /\ UNCHANGED <<process_flow, task>>

\* dict.update
Updated(dict, data) ==
    [f \in DOMAIN dict |-> IF f \in DOMAIN data /\ data[f] # None THEN data[f] ELSE dict[f]]

Succeeded(data) ==
    [result EXCEPT !.data = Updated(@, data), !.api_call_status = "SUCCESS"]

\* Mutant: what GetFreeAtsign does with an AtRegistrarException, which it never gets: the
\* status is forgotten.
FailedWithoutStatus == [result EXCEPT !.at_exception = "AtRegistrarException"]

\* The exception handlers of the tasks.
Failed ==
    [result EXCEPT !.at_exception = "AtRegistrarException",
                   !.api_call_status = IF retry_count < max_retries THEN "RETRY" ELSE "FAILURE"]

GetFreeAtsign ==
    /\ Runs("GetFreeAtsign")
    /\ \E a \in AtSigns : Ran(Succeeded([atSign |-> a]), params.otp)

\* Whether the password was "Sent Successfully" is noted and not looked at.
RegisterAtsign ==
    /\ Runs("RegisterAtsign")
    /\ Ran(Succeeded(NoData), params.otp)

GetAtsignV3 ==
    /\ Runs("GetAtsignV3")
    /\ \E a \in AtSigns : Ran(Succeeded([atSign |-> a, ActivationKey |-> a]), params.otp)

ActivateAtsignV3 ==
    /\ Runs("ActivateAtsignV3")
    /\ params.ActivationKey = params.atSign
    /\ Ran(Succeeded([cram |-> params.atSign]), params.otp)

\* The password a run of ValidateOtp uses: one is asked for unless there is one.
Entered == IF params.otp = None THEN Otps ELSE {params.otp}

\* "Verified", with the secret; the atSign before the colon is not looked at.
OtpVerified ==
    /\ Runs("ValidateOtp")
    /\ "right" \in Entered
    /\ Ran(Succeeded([cram |-> params.atSign]), "right")

\* "Try again": another password is asked for, also when no run will use it.
OtpIncorrect ==
    /\ Runs("ValidateOtp")
    /\ "wrong" \in Entered
    /\ \E otp \in Otps :
          Ran([result EXCEPT !.api_call_status = "RETRY", !.at_exception = "AtRegistrarException"],
              otp)

\* The registrar asks for a confirmation.
OtpFollowUp ==
    /\ Runs("ValidateOtp")
    /\ \E otp \in Entered : Ran([result EXCEPT !.api_call_status = "RETRY"], otp)

\* A message none of the cases knows: the result is what the run before has left.
OtpOtherMessage ==
    /\ Runs("ValidateOtp")
    /\ \E otp \in Entered : Ran(result, otp)

\* The call fails: an HTTP error, an answer without what is looked for in it, no answer.
CallFails ==
    /\ stage \in {"run", "again"}
    /\ \E otp \in (IF process_flow[task] = "ValidateOtp" THEN Entered ELSE {params.otp}) :
          Ran(Failed, otp)

-----------------------------------------------------------------------------
(* RegistrationFlow.start, after a run. *)

Retries == result.api_call_status = "RETRY" /\ retry_count < max_retries

Retry ==
    /\ stage = "judge"
    /\ Retries
    /\ stage' = "again"
    /\ UNCHANGED <<process_flow, task, retry_count, result, params>>

NextTask ==
    /\ stage = "judge"
    /\ result.api_call_status = "SUCCESS"
    /\ params' = Updated(params, result.data)
    /\ IF task = Len(process_flow)
       THEN stage' = "done" /\ UNCHANGED <<task, retry_count, result>>
       ELSE stage' = "run" /\ task' = task + 1 /\ retry_count' = 0 /\ result' = NewResult
    /\ UNCHANGED process_flow

\* Mutant: the flow goes on with the next task when the retries are used up.
GiveUpTask ==
    /\ stage = "judge"
    /\ ~Retries
    /\ result.api_call_status # "SUCCESS"
    /\ IF task = Len(process_flow)
       THEN stage' = "done" /\ UNCHANGED <<task, retry_count, result>>
       ELSE stage' = "run" /\ task' = task + 1 /\ retry_count' = 0 /\ result' = NewResult
    /\ UNCHANGED <<process_flow, params>>

\* raise self.result.at_exception, which is None after an unknown message, or after
\* nothing but follow-ups: a TypeError then.
GiveUp ==
    /\ stage = "judge"
    /\ ~Retries
    /\ result.api_call_status # "SUCCESS"
    /\ stage' = "raised"
    /\ UNCHANGED <<process_flow, task, retry_count, result, params>>

Register ==
    \/ GetFreeAtsign \/ RegisterAtsign \/ GetAtsignV3 \/ ActivateAtsignV3
    \/ OtpVerified \/ OtpIncorrect \/ OtpFollowUp \/ OtpOtherMessage
    \/ CallFails
    \/ Retry \/ NextTask \/ GiveUp

-----------------------------------------------------------------------------
\* A flow that ends has the secret of the atSign it goes on to onboard, and not that of
\* another, whatever was tried again.
SecretFits ==
    stage = "done" => params.atSign # None /\ params.cram = params.atSign

\* A flow that gives up with an exception of the registrar has made the call four times:
\* an error is never final at once, be it noted by the run or left by one before.
GivesUpAfterRetries ==
    stage = "raised" /\ result.at_exception # None => retry_count = max_retries

\* Why: what a result holds belongs to its task, a success has brought what the task is
\* for, and an error has set the status too.  (The inductive invariant.)
FlowInStep ==
    /\ SecretFits /\ GivesUpAfterRetries
    /\ stage \in {"run", "again"} => retry_count < max_retries
    /\ task > 1 => params.atSign # None
    /\ result.data.atSign # None => task = 1
    /\ result.data.cram # None => task = Len(process_flow) /\ result.data.cram = params.atSign
    /\ result.api_call_status = "SUCCESS" =>
          /\ task = 1 => result.data.atSign # None
          /\ task = Len(process_flow) => result.data.cram # None
    /\ result.at_exception # None => result.api_call_status \in {"RETRY", "SUCCESS"}
=============================================================================
