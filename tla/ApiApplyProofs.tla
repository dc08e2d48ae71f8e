---------------------------- MODULE ApiApplyProofs ----------------------------
(***************************************************************************)
(* Proofs about ApiApply for every plan length, every concurrency and every *)
(* setting: the API backend is a provider in the sense of ApplyRun, so the  *)
(* theorems about the pool hold of it; what the portal takes in and what    *)
(* the user is told follow from the inductive ApiIInv.                      *)
(***************************************************************************)
EXTENDS ApiApply, ApplyRunProofs

\* The answers are told apart.
LEMMA AnswersDiffer ==
  /\ {CallError, Invalid, Rejected, Validated, Renewed} \subseteq Outcome
  /\ NoOutcome \notin {CallError, Invalid, Rejected, Validated, Renewed}
  /\ Renewed \notin {CallError, Invalid, Rejected, Validated}
BY ApiOutcomeAssumption DEF CallError, Invalid, Rejected, Validated, Renewed

\* Only a submit the portal took in makes the pool write "renewed".
LEMMA OnlyRenewedReads ==
  ASSUME NEW o \in {CallError, Invalid, Rejected, Validated, Renewed}
  PROVE  (Reason(o) = "renewed") <=> (o = Renewed)
<1>1. Reason(Renewed) = "renewed"
  BY DEF Reason, Renewed
<1>2. Reason(CallError) # "renewed" /\ Reason(Rejected) # "renewed"
  BY DEF Reason, CallError, Rejected
<1>3. Reason(Invalid) # "renewed"
  BY DEF Reason, Invalid
<1>4. Reason(Validated) # "renewed"
  BY DEF Reason, Validated
<1> QED
  BY <1>1, <1>2, <1>3, <1>4, AnswersDiffer

\* The initial states satisfy the invariant.
LEMMA ApiInitEstablishes == ApiInit => ApiIInv
<1> SUFFICES ASSUME ApiInit PROVE ApiIInv
  OBVIOUS
<1>1. ApiShape
  BY DEF ApiInit, ApiShape, Stage
<1>2. ASSUME NEW i \in Item PROVE CallFollowsWorker(i) /\ PortalByStage(i)
  BY AnswersDiffer DEF ApiInit, Init, CallFollowsWorker, PortalByStage
<1> QED
  BY <1>1, <1>2 DEF ApiIInv

\* A step of one call stays in shape, keeps its own item's clauses and changes
\* nothing of another item.
LEMMA CallStepPreserves ==
  ASSUME ApiIInv, NEW i \in Item, CallStep(i)
  PROVE  ApiIInv'
<1> USE DEF ApiIInv, ApiShape
<1>1. CallSteps(i) /\ UNCHANGED <<worker, outcome, setting>>
  BY DEF CallStep, poolVars
<1>2. CallFollowsWorker(i) /\ PortalByStage(i)
  OBVIOUS
<1>3. worker[i] = "calling"
  BY <1>1, <1>2 DEF CallSteps, Enter, ValidateReply, Proceed, SubmitReply, Lost,
                    CallFollowsWorker
<1>4. ASSUME NEW j \in Item, j # i
      PROVE  UNCHANGED <<stage[j], answer[j], validated[j], accepted[j]>>
  BY <1>1, <1>4 DEF CallSteps, Enter, ValidateReply, Proceed, SubmitReply, Lost,
                    Answer, Advance
<1>5. ApiShape' /\ CallFollowsWorker(i)' /\ PortalByStage(i)'
  <2> USE <1>1, <1>2, <1>3, AnswersDiffer
      DEF CallFollowsWorker, PortalByStage, Stage, Answer, Advance
  <2>1. CASE Enter(i)
    BY <2>1 DEF Enter
  <2>2. CASE ValidateReply(i)
    BY <2>2 DEF ValidateReply
  <2>3. CASE Proceed(i)
    BY <2>3 DEF Proceed
  <2>4. CASE SubmitReply(i)
    BY <2>4 DEF SubmitReply
  <2>5. CASE Lost(i)
    BY <2>5 DEF Lost
  <2> QED
    BY <2>1, <2>2, <2>3, <2>4, <2>5 DEF CallSteps
<1>6. ASSUME NEW j \in Item, j # i
      PROVE  CallFollowsWorker(j)' /\ PortalByStage(j)'
  BY <1>1, <1>4, <1>6 DEF CallFollowsWorker, PortalByStage
<1> QED
  BY <1>5, <1>6

\* The pool's own steps leave the calls alone and move a worker into its call,
\* out of it with the call's answer, or on from there.
LEMMA ApiPoolStepPreserves ==
  ASSUME IInv, ApiIInv,
         ApiMain \/ ApiCancel \/ \E i \in Item : ApiReturn(i) \/ ApiTally(i)
  PROVE  ApiIInv'
<1> USE DEF ApiIInv, ApiShape
<1>1. UNCHANGED <<setting, stage, answer, validated, accepted>>
  BY DEF ApiMain, ApiCancel, ApiReturn, ApiTally, apiVars
<1>2. worker \in [Item -> WorkerState]
      /\ outcome \in [Item -> Outcome \cup {NoOutcome}]
  BY DEF IInv, TypeOK
<1>3. ASSUME NEW j \in Item PROVE CallFollowsWorker(j)'
  <2>1. CASE ApiMain \/ ApiCancel
    <3>1. UNCHANGED outcome
      BY <2>1 DEF ApiMain, Main, Dispatch, Abort, EndLoop, Report, ApiCancel,
                  Cancel
    <3>2. worker'[j] = worker[j] \/ worker'[j] = "calling"
      BY <1>2, <2>1 DEF ApiMain, Main, Dispatch, Abort, EndLoop, Report,
                        ApiCancel, Cancel
    <3> QED
      BY <1>1, <3>1, <3>2 DEF CallFollowsWorker
  <2>2. ASSUME NEW i \in Item, ApiReturn(i) PROVE CallFollowsWorker(j)'
    BY <1>1, <1>2, <2>2 DEF ApiReturn, Return, CallFollowsWorker
  <2>3. ASSUME NEW i \in Item, ApiTally(i) PROVE CallFollowsWorker(j)'
    <3>1. UNCHANGED outcome
      BY <2>3 DEF ApiTally, Tally, Record, Release, Done
    <3>2. \/ worker'[j] = worker[j]
          \/ /\ worker[j] \notin {"none", "calling"}
             /\ worker'[j] \notin {"none", "calling"}
      BY <1>2, <2>3 DEF ApiTally, Tally, Record, Release, Done
    <3> QED
      BY <1>1, <3>1, <3>2 DEF CallFollowsWorker
  <2> QED
    BY <2>1, <2>2, <2>3
<1>4. ASSUME NEW j \in Item PROVE PortalByStage(j)'
  BY <1>1 DEF PortalByStage
<1> QED
  BY <1>1, <1>3, <1>4

LEMMA ApiNextPreserves == IInv /\ ApiIInv /\ [ApiNext]_vars => ApiIInv'
<1> SUFFICES ASSUME IInv, ApiIInv, [ApiNext]_vars PROVE ApiIInv'
  OBVIOUS
<1>1. CASE ApiMain \/ ApiCancel \/ \E i \in Item : ApiReturn(i) \/ ApiTally(i)
  BY <1>1, ApiPoolStepPreserves
<1>2. ASSUME NEW i \in Item, CallStep(i) PROVE ApiIInv'
  BY <1>2, CallStepPreserves
<1>3. CASE UNCHANGED <<poolVars, apiVars>>
  BY <1>3 DEF poolVars, apiVars, ApiIInv, ApiShape, CallFollowsWorker,
              PortalByStage
<1> QED
  BY <1>1, <1>2, <1>3 DEF ApiNext, Terminated, vars

\* As long as the invariant holds, every step of the composition is a step of
\* the pool or leaves it alone: a call returns one of the answers the pool was
\* told of.
LEMMA ApiStepOfPool == ApiIInv /\ [ApiNext]_vars => [Next]_poolVars
<1> SUFFICES ASSUME ApiIInv, [ApiNext]_vars PROVE [Next]_poolVars
  OBVIOUS
<1>1. CASE ApiMain \/ ApiCancel \/ \E i \in Item : ApiTally(i)
  BY <1>1 DEF ApiMain, ApiCancel, ApiTally, Next
<1>2. CASE \E i \in Item : CallStep(i)
  BY <1>2 DEF CallStep
<1>3. ASSUME NEW i \in Item, ApiReturn(i) PROVE Next
  <2>1. answer[i] \in Outcome
    BY <1>3, AnswersDiffer DEF ApiReturn, ApiIInv, ApiShape, PortalByStage
  <2> QED
    BY <1>3, <2>1 DEF ApiReturn, Next, Call
<1>4. CASE Terminated \/ UNCHANGED vars
  BY <1>4 DEF Terminated, vars
<1> QED
  BY <1>1, <1>2, <1>3, <1>4 DEF ApiNext

-------------------------------------------------------------------------------
(* The theorems. *)

\* The two inductive invariants hold together in every run over the API: each
\* needs the other, the pool's for the range of its answers and the call's for
\* the state of its worker.
THEOREM ApiInvariance == ApiSpec => [](IInv /\ ApiIInv)
<1>1. ApiInit => IInv /\ ApiIInv
  BY ApiInitEstablishes, InitEstablishes DEF ApiInit
<1>2. IInv /\ ApiIInv /\ [ApiNext]_vars => (IInv /\ ApiIInv)'
  BY ApiNextPreserves, ApiStepOfPool, NextPreserves
<1> QED
  BY <1>1, <1>2, PTL DEF ApiSpec

\* "authzer apply" over the API is a run of the pool: the theorems of
\* ApplyRunProofs all apply to it.
THEOREM ApiRunsThePool == ApiSpec => Spec
<1>1. ApiInit => Init
  BY DEF ApiInit
<1> QED
  BY <1>1, ApiInvariance, ApiStepOfPool, PTL DEF ApiSpec, Spec

\* What the user is told was renewed was taken in by the portal, and what the
\* portal took in is told so, or told as an error of the call.
THEOREM ApiReportIsHonest == ApiSpec => []RenewedMeansAccepted
<1>1. IInv /\ ApiIInv => RenewedMeansAccepted
  <2> SUFFICES ASSUME IInv, ApiIInv, NEW n \in 1..Len(results)
               PROVE  LET i == results[n].item IN
                      /\ results[n].reason = "renewed" => accepted[i]
                      /\ accepted[i] /\ results[n].reason # "renewed" =>
                           outcome[i] = CallError
    BY DEF RenewedMeansAccepted
  <2> DEFINE i == results[n].item
  <2>1. i \in Recorded /\ results[n] = ResultOf(i)
    BY DEF IInv, ResultsMatch
  <2>2. i \in Item /\ worker[i] \notin {"none", "calling"}
    BY <2>1 DEF Recorded, InState
  <2>3. stage[i] = "answered" /\ outcome[i] = answer[i] /\ PortalByStage(i)
    BY <2>2 DEF ApiIInv, CallFollowsWorker
  <2>4. outcome[i] \in {CallError, Invalid, Rejected, Validated, Renewed}
    BY <2>2, <2>3 DEF ApiIInv, ApiShape, PortalByStage
  <2>5. results[n].reason = Reason(outcome[i])
    BY <2>1 DEF ResultOf
  <2>6. results[n].reason = "renewed" <=> outcome[i] = Renewed
    BY <2>4, <2>5, OnlyRenewedReads
  <2>7. /\ answer[i] = Renewed => accepted[i]
        /\ accepted[i] => answer[i] \in {Renewed, CallError}
    BY <2>3 DEF PortalByStage
  <2> QED
    BY <2>3, <2>6, <2>7
<1> QED
  BY <1>1, ApiInvariance, PTL

\* With a validate endpoint the portal takes in only what it did not refuse.
THEOREM SubmitsAreValidated == ApiSpec => []ValidationGatesSubmit
<1>1. ApiIInv => ValidationGatesSubmit
  BY DEF ApiIInv, PortalByStage, ValidationGatesSubmit
<1> QED
  BY <1>1, ApiInvariance, PTL

\* A dry run over the API, at any level, leaves the portal as it was.
THEOREM ApiDryRunIsSafe == ApiSpec => []DryRunAcceptsNothing
<1>1. ApiIInv => DryRunAcceptsNothing
  BY DEF ApiIInv, PortalByStage, DryRunAcceptsNothing
<1> QED
  BY <1>1, ApiInvariance, PTL

\* Pool and calls keep their shape.
THEOREM ApiTypeCorrect == ApiSpec => []ApiTypeOK
<1>1. IInv /\ ApiIInv => ApiTypeOK
  <2> SUFFICES ASSUME IInv, ApiIInv PROVE ApiTypeOK
    OBVIOUS
  <2>1. \A i \in Item : stage[i] = "answered" => answer[i] \in Outcome
    BY AnswersDiffer DEF ApiIInv, ApiShape, PortalByStage
  <2>2. answer \in [Item -> Outcome \cup {NoOutcome}]
    BY AnswersDiffer DEF ApiIInv, ApiShape
  <2> QED
    BY <2>1, <2>2 DEF IInv, ApiIInv, ApiShape, ApiTypeOK
<1> QED
  BY <1>1, ApiInvariance, PTL
===============================================================================
