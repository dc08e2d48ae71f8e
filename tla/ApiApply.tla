------------------------------- MODULE ApiApply -------------------------------
(***************************************************************************)
(* "authzer apply" with the API backend: the pool of ApplyRun with its     *)
(* provider call filled in by APIProvider.Apply (cmd/provider_api.go),     *)
(* which asks the portal to validate an item, if such an endpoint is       *)
(* configured, and then submits it, unless the run is a dry run.           *)
(*                                                                         *)
(* Every request is an XHR evaluated in one browser tab that List has      *)
(* opened before the pool starts.  Its context descends from the root      *)
(* context and carries no timeout: a request ends with a reply, with an    *)
(* error of the page, or when the user interrupts.  The page runs the      *)
(* requests one after the other; the model lets them overlap.              *)
(***************************************************************************)
EXTENDS ApplyRun

CONSTANT
  Settings       \* the settings a run may have been started with

\* dryRun: any level but "none"; validate: the endpoint is configured.
SettingType == [dryRun : BOOLEAN, validate : BOOLEAN]

ASSUME SettingsAssumption == Settings \subseteq SettingType

VARIABLES
  setting,       \* the run's settings
  stage,         \* stage[i]: how far APIProvider.Apply has got
  answer,        \* answer[i]: what it returns, NoOutcome before
  validated,     \* validated[i]: the portal has been asked and did not refuse
  accepted       \* accepted[i]: the portal has taken the request in

apiVars == <<setting, stage, answer, validated, accepted>>
vars == <<poolVars, apiVars>>

\* Between "validating" and "submitting" lies "checked"; the two are the stages
\* in which a request is under way.
Stage == {"idle", "validating", "checked", "submitting", "answered"}

\* An error of the call itself; a refused validation, which comes without an
\* Error; a refused submit, which comes with one; the two ways to succeed.
CallError == [action |-> "", error |-> TRUE]
Invalid == [action |-> "failed", error |-> FALSE]
Rejected == [action |-> "failed", error |-> TRUE]
Validated == [action |-> "validated", error |-> FALSE]
Renewed == [action |-> "renewed", error |-> FALSE]

\* Every answer the API provider can give is one the pool expects, and none of
\* them can be taken for no answer at all.
ASSUME ApiOutcomeAssumption ==
  /\ {CallError, Invalid, Rejected, Validated, Renewed} \subseteq Outcome
  /\ NoOutcome \notin Outcome

ApiInit ==
  /\ Init
  /\ setting \in Settings
  /\ stage = [i \in Item |-> "idle"]
  /\ answer = [i \in Item |-> NoOutcome]
  /\ validated = [i \in Item |-> FALSE]
  /\ accepted = [i \in Item |-> FALSE]

-------------------------------------------------------------------------------
(* One call of APIProvider.Apply. *)

\* Fault: the tab does not descend from the root context.
AliveAlways == TRUE

Alive == ~cancelled

Advance(i, to) ==
  /\ stage' = [stage EXCEPT ![i] = to]
  /\ UNCHANGED answer

\* Fault: the call returns with neither a result nor an error.
AnswerNothing(i, o) ==
  /\ stage' = [stage EXCEPT ![i] = "answered"]
  /\ UNCHANGED answer

Answer(i, o) ==
  /\ stage' = [stage EXCEPT ![i] = "answered"]
  /\ answer' = [answer EXCEPT ![i] = o]

\* Without a validate endpoint the call goes straight on; otherwise it renders
\* the body and sends it, and either may fail.
Enter(i) ==
  /\ worker[i] = "calling"
  /\ stage[i] = "idle"
  /\ \/ ~setting.validate /\ Advance(i, "checked")
     \/ setting.validate /\ Alive /\ Advance(i, "validating")
     \/ setting.validate /\ Answer(i, CallError)
  /\ UNCHANGED <<validated, accepted>>

\* Fault: a refused validation does not end the call.
ValidateReplyIgnored(i) ==
  /\ stage[i] = "validating"
  /\ Alive
  /\ \E valid \in BOOLEAN : validated' = [validated EXCEPT ![i] = valid]
  /\ Advance(i, "checked")
  /\ UNCHANGED accepted

\* The portal's verdict: a status outside 2xx, invalid members or errors in the
\* body refuse the request; anything else, an unreadable body included, lets it
\* pass.
ValidateReply(i) ==
  /\ stage[i] = "validating"
  /\ Alive
  /\ \/ /\ validated' = [validated EXCEPT ![i] = TRUE]
        /\ Advance(i, "checked")
     \/ /\ Answer(i, Invalid)
        /\ UNCHANGED validated
  /\ UNCHANGED accepted

\* Fault: the return of the dry run is gone.
ProceedAnyway(i) ==
  /\ stage[i] = "checked"
  /\ \/ Alive /\ Advance(i, "submitting")
     \/ Answer(i, CallError)
  /\ UNCHANGED <<validated, accepted>>

\* A dry run ends here; otherwise the submit is rendered and sent.
Proceed(i) ==
  /\ stage[i] = "checked"
  /\ \/ setting.dryRun /\ Answer(i, Validated)
     \/ ~setting.dryRun /\ Alive /\ Advance(i, "submitting")
     \/ ~setting.dryRun /\ Answer(i, CallError)
  /\ UNCHANGED <<validated, accepted>>

\* Fault: the status of the reply to the submit is not looked at.
SubmitReplyUnchecked(i) ==
  /\ stage[i] = "submitting"
  /\ Alive
  /\ \E taken \in BOOLEAN : accepted' = [accepted EXCEPT ![i] = taken]
  /\ Answer(i, Renewed)
  /\ UNCHANGED validated

\* The portal takes the request in and says so, or refuses it and says so.
SubmitReply(i) ==
  /\ stage[i] = "submitting"
  /\ Alive
  /\ \/ /\ accepted' = [accepted EXCEPT ![i] = TRUE]
        /\ Answer(i, Renewed)
     \/ /\ Answer(i, Rejected)
        /\ UNCHANGED accepted
  /\ UNCHANGED validated

\* A request ends in an error of the page or on a dead context.  The portal may
\* have acted on it before.
Lost(i) ==
  /\ Answer(i, CallError)
  /\ \/ /\ stage[i] = "validating"
        /\ \E valid \in BOOLEAN : validated' = [validated EXCEPT ![i] = valid]
        /\ UNCHANGED accepted
     \/ /\ stage[i] = "submitting"
        /\ \E taken \in BOOLEAN : accepted' = [accepted EXCEPT ![i] = taken]
        /\ UNCHANGED validated

-------------------------------------------------------------------------------
(* The pool with its provider call filled in. *)

CallSteps(i) ==
  \/ Enter(i) \/ ValidateReply(i) \/ Proceed(i) \/ SubmitReply(i) \/ Lost(i)

CallStep(i) == CallSteps(i) /\ UNCHANGED <<poolVars, setting>>

ApiReturn(i) ==
  /\ stage[i] = "answered"
  /\ Return(i, answer[i])
  /\ UNCHANGED apiVars

ApiMain == Main /\ UNCHANGED apiVars
ApiCancel == Cancel /\ UNCHANGED apiVars
ApiTally(i) == Tally(i) /\ UNCHANGED apiVars

ApiNext ==
  \/ ApiMain
  \/ ApiCancel
  \/ \E i \in Item : CallStep(i) \/ ApiReturn(i) \/ ApiTally(i)
  \/ Terminated /\ UNCHANGED apiVars

\* The steps that need nobody's reply.
Prompt(i) == (Enter(i) \/ Proceed(i)) /\ UNCHANGED <<poolVars, setting>>

\* A request on a dead context comes back with an error.
GiveUp(i) == ~Alive /\ Lost(i) /\ UNCHANGED <<poolVars, setting>>

\* Goroutines are scheduled and chromedp answers on a dead context; the portal
\* need never reply.
ApiFairness ==
  /\ WF_vars(ApiMain)
  /\ \A i \in Item : /\ WF_vars(Prompt(i))
                     /\ WF_vars(GiveUp(i))
                     /\ WF_vars(ApiReturn(i))
                     /\ WF_vars(ApiTally(i))

ApiSpec == ApiInit /\ [][ApiNext]_vars
ApiFairSpec == ApiSpec /\ ApiFairness

-------------------------------------------------------------------------------
(* Properties. *)

\* Shape of the state; a call that has ended has one of the expected answers.
ApiTypeOK ==
  /\ TypeOK
  /\ setting \in Settings
  /\ stage \in [Item -> Stage]
  /\ answer \in [Item -> Outcome \cup {NoOutcome}]
  /\ \A i \in Item : stage[i] = "answered" => answer[i] \in Outcome
  /\ validated \in [Item -> BOOLEAN]
  /\ accepted \in [Item -> BOOLEAN]

\* The results and the portal agree (provider_api.go:502-533): an item reported
\* as renewed was taken in by the portal, and an item the portal took in is
\* reported as renewed unless the reply was lost, which the call's error tells.
RenewedMeansAccepted ==
  \A n \in 1..Len(results) :
    LET i == results[n].item IN
    /\ results[n].reason = "renewed" => accepted[i]
    /\ accepted[i] /\ results[n].reason # "renewed" => outcome[i] = CallError

\* "submit should not be called after validation failure"
\* (provider_api_test.go:391): with a validate endpoint, the portal takes in
\* only what it did not refuse, however calls, losses and signals interleave.
ValidationGatesSubmit ==
  setting.validate => \A i \in Item : accepted[i] => validated[i]

\* A dry run leaves the portal as it was (provider_api.go:490-496).
DryRunAcceptsNothing ==
  setting.dryRun => \A i \in Item : ~accepted[i]

\* After SIGINT or SIGTERM the run ends, though requests have no timeout and the
\* portal may never reply (provider_api.go:206-231).
ApiCancelEndsRun == cancelled ~> (pc = "returned")

-------------------------------------------------------------------------------
(* The inductive invariant behind them (proved in ApiApplyProofs). *)

\* A call is under way exactly while its worker waits for it.
CallFollowsWorker(i) ==
  /\ worker[i] = "none" => stage[i] = "idle"
  /\ worker[i] \notin {"none", "calling"} =>
       stage[i] = "answered" /\ outcome[i] = answer[i]

\* The portal takes nothing in before the submit, which no dry run reaches and
\* which follows a validation, and its verdict decides the answer.
PortalByStage(i) ==
  /\ stage[i] = "submitting" \/ accepted[i] => ~setting.dryRun
  /\ stage[i] \in {"checked", "submitting"} \/ accepted[i] =>
       (setting.validate => validated[i])
  /\ accepted[i] => stage[i] = "answered" /\ answer[i] \in {Renewed, CallError}
  /\ answer[i] = Renewed => accepted[i]
  /\ stage[i] = "answered" <=> answer[i] # NoOutcome

ApiShape ==
  /\ setting \in Settings
  /\ stage \in [Item -> Stage]
  /\ answer \in [Item -> {CallError, Invalid, Rejected, Validated, Renewed,
                          NoOutcome}]
  /\ validated \in [Item -> BOOLEAN]
  /\ accepted \in [Item -> BOOLEAN]

ApiIInv == ApiShape /\ \A i \in Item : CallFollowsWorker(i) /\ PortalByStage(i)

-------------------------------------------------------------------------------
(* What a comment says and this backend does not do. *)

\* "failed" is one of the outcomes ApplyResult.Action reports (provider.go:43)
\* and ApplySummary counts actions (types.go:285-291): the failures the user is
\* told of are the items whose result says "failed".
FailedAreCounted ==
  pc = "returned" =>
    report.failed =
      Cardinality({n \in 1..Len(results) : results[n].reason = "failed"})
===============================================================================
