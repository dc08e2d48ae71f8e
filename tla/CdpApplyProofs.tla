---------------------------- MODULE CdpApplyProofs ----------------------------
(***************************************************************************)
(* Proofs about CdpApply for every plan length, every concurrency and every *)
(* set of options: the browser backend is a provider in the sense of        *)
(* ApplyRun, so every theorem about the pool holds of it; and the safety    *)
(* properties of tabs and submits follow from the inductive CdpIInv.        *)
(***************************************************************************)
EXTENDS CdpApply, ApplyRunProofs

-------------------------------------------------------------------------------
(* The pool under the browser backend. *)

\* What the backend answers is among the answers the pool was told of.
LEMMA AnswerInOutcome == \A i : AnswerOf(i) \in Outcome
BY CdpOutcomeAssumption DEF AnswerOf

\* Every step of the composition is a step of the pool or leaves it alone.
LEMMA StepOfPool == [CdpNext]_vars => [Next]_poolVars
<1> SUFFICES ASSUME [CdpNext]_vars PROVE [Next]_poolVars
  OBVIOUS
<1>1. CASE CdpMain
  BY <1>1 DEF CdpMain, Next
<1>2. CASE CdpCancel
  BY <1>2 DEF CdpCancel, Next
<1>3. CASE \E i \in Item : TabStep(i) \/ Expire(i)
  BY <1>3 DEF TabStep, Expire
<1>4. ASSUME NEW i \in Item, CdpReturn(i) PROVE Next
  BY <1>4, AnswerInOutcome DEF CdpReturn, Next, Call
<1>5. CASE \E i \in Item : CdpTally(i)
  BY <1>5 DEF CdpTally, Next
<1>6. CASE Terminated \/ UNCHANGED vars
  BY <1>6 DEF Terminated, vars
<1> QED
  BY <1>1, <1>2, <1>3, <1>4, <1>5, <1>6 DEF CdpNext

\* "authzer apply" over the browser is a run of the pool, whatever the portal
\* does: the theorems of ApplyRunProofs all apply to it.
THEOREM CdpRunsThePool == CdpSpec => Spec
<1>1. CdpInit => Init
  BY DEF CdpInit
<1> QED
  BY <1>1, StepOfPool, PTL DEF CdpSpec, Spec

-------------------------------------------------------------------------------
(* The inductive invariant of the tabs. *)

\* The three clauses of CdpIInv that are about one item.
TabClauses(i) == TabFollowsWorker(i) /\ PostedByStage(i) /\ TabByStage(i)

\* There are two modes.
LEMMA TwoModes == opts \in Options => opts.mode \in {"none", "server"}
BY OptionsAssumption DEF OptionType

\* The initial states satisfy the invariant.
LEMMA CdpInitEstablishes == CdpInit => CdpIInv
<1> SUFFICES ASSUME CdpInit PROVE CdpIInv
  OBVIOUS
<1> USE DEF CdpInit
<1>1. TabTypeOK
  BY DEF TabTypeOK, Stage
<1>2. ASSUME NEW i \in Item
      PROVE  TabFollowsWorker(i) /\ PostedByStage(i) /\ TabByStage(i)
  BY DEF Init, TabFollowsWorker, PostedByStage, TabByStage
<1> QED
  BY <1>1, <1>2 DEF CdpIInv

\* A clause depends on nothing but the item's own state.
LEMMA OthersKeep ==
  ASSUME NEW j, TabClauses(j),
         UNCHANGED <<opts, cancelled>>,
         UNCHANGED <<worker[j], outcome[j], stage[j], tab[j], posted[j], cause[j]>>
  PROVE  TabClauses(j)'
<1>1. AnswerOf(j)' = AnswerOf(j)
  BY DEF AnswerOf
<1>2. TabFollowsWorker(j)'
  BY <1>1 DEF TabClauses, TabFollowsWorker
<1>3. PostedByStage(j)'
  BY DEF TabClauses, PostedByStage
<1>4. TabByStage(j)'
  BY DEF TabClauses, TabByStage, InCall
<1> QED
  BY <1>2, <1>3, <1>4 DEF TabClauses

\* What a step of the call does to its item, to the others and to the shape of
\* the state; the call is only made by a worker that is in it.
LEMMA TabStepPreserves ==
  ASSUME CdpIInv, NEW i \in Item, TabStep(i)
  PROVE  CdpIInv'
<1> USE DEF CdpIInv, TabTypeOK
<1>1. TabSteps(i) /\ UNCHANGED <<poolVars, opts, plan>>
  BY DEF TabStep
<1>2. opts.mode \in {"none", "server"}
  BY TwoModes
<1>3. UNCHANGED <<worker, outcome, cancelled, opts, plan>>
  BY <1>1 DEF poolVars
<1>4. worker[i] = "calling" /\ stage[i] # "answered"
  BY <1>1 DEF TabFollowsWorker, TabSteps, Enter, PageReady, DialogReady,
              WaitFails, Submit, Settle, Advance
<1>5. /\ Closed(i) \in [Item -> {"none", "open", "closed"}]
      /\ \A j \in Item \ {i} : Closed(i)[j] = tab[j]
      /\ cancelled \/ Closed(i)[i] # "open"
      /\ Closed(i)[i] # tab[i] => tab[i] = "open" /\ Closed(i)[i] = "closed"
  BY DEF Closed
<1>6. ASSUME NEW why \in {"noSelfLink", "config", "navigate", "page", "dialog",
                          "submit"},
             Fail(i, why), ~posted[i], stage[i] # "settle"
      PROVE  /\ TabTypeOK'
             /\ TabClauses(i)'
             /\ \A j \in Item \ {i} : /\ stage'[j] = stage[j]
                                      /\ tab'[j] = tab[j]
                                      /\ posted'[j] = posted[j]
                                      /\ cause'[j] = cause[j]
  <2>1. TabTypeOK'
    BY <1>3, <1>5, <1>6 DEF Fail, CloseTab, Stage
  <2>2. TabFollowsWorker(i)'
    BY <1>3, <1>4, <1>6 DEF Fail, TabFollowsWorker
  <2>3. PostedByStage(i)'
    BY <1>3, <1>6 DEF Fail, PostedByStage
  <2>4. TabByStage(i)'
    BY <1>2, <1>3, <1>5, <1>6 DEF Fail, TabByStage, CloseTab, InCall
  <2>5. \A j \in Item \ {i} : /\ stage'[j] = stage[j]
                              /\ tab'[j] = tab[j]
                              /\ posted'[j] = posted[j]
                              /\ cause'[j] = cause[j]
    BY <1>5, <1>6 DEF Fail, CloseTab
  <2> QED
    BY <2>1, <2>2, <2>3, <2>4, <2>5 DEF TabClauses
<1>7. /\ TabTypeOK'
      /\ TabClauses(i)'
      /\ \A j \in Item \ {i} : /\ stage'[j] = stage[j]
                               /\ tab'[j] = tab[j]
                               /\ posted'[j] = posted[j]
                               /\ cause'[j] = cause[j]
  <2> USE <1>2, <1>3, <1>4 DEF TabClauses, TabFollowsWorker, PostedByStage,
          TabByStage, InCall, Stage
  <2>1. CASE Enter(i)
    <3>1. ~posted[i] /\ stage[i] = "idle"
      BY <2>1 DEF Enter
    <3>2. CASE \E why \in {"noSelfLink", "config", "navigate"} : Fail(i, why)
      BY <1>6, <3>1, <3>2
    <3>3. CASE /\ Advance(i, "idle", "loading")
               /\ tab' = [tab EXCEPT ![i] = "open"]
               /\ UNCHANGED <<expired, form, posted, cause>>
      BY <3>1, <3>3 DEF Advance
    <3> QED
      BY <2>1, <3>2, <3>3 DEF Enter
  <2>2. CASE PageReady(i)
    BY <2>2 DEF PageReady, Advance
  <2>3. CASE DialogReady(i)
    <3>1. form' \in [Item -> {"blank", "partial", "complete"}]
      BY <2>3 DEF DialogReady
    <3>2. /\ ~posted[i] /\ cause[i] = "" /\ stage[i] = "dialog"
          /\ UNCHANGED <<tab, expired, posted, cause>>
          /\ \/ opts.mode = "none" /\ stage' = [stage EXCEPT ![i] = "submit"]
             \/ /\ opts.mode = "server"
                /\ stage' = [stage EXCEPT ![i] = "answered"]
      BY <2>3 DEF DialogReady
    <3>3. TabTypeOK'
      BY <3>1, <3>2
    <3>4. TabClauses(i)'
      BY <3>2
    <3>5. \A j \in Item \ {i} : /\ stage'[j] = stage[j]
                                /\ tab'[j] = tab[j]
                                /\ posted'[j] = posted[j]
                                /\ cause'[j] = cause[j]
      BY <3>2
    <3> QED
      BY <3>3, <3>4, <3>5
  <2>4. CASE WaitFails(i)
    <3>1. ~posted[i] /\ stage[i] # "settle"
      BY <2>4 DEF WaitFails
    <3> QED
      BY <1>6, <2>4, <3>1 DEF WaitFails
  <2>5. CASE Submit(i)
    <3>1. ~posted[i] /\ stage[i] = "submit" /\ opts.mode = "none"
      BY <2>5 DEF Submit
    <3>2. CASE /\ Advance(i, "submit", "settle")
               /\ posted' = [posted EXCEPT ![i] = TRUE]
               /\ UNCHANGED <<tab, expired, form, cause>>
      BY <3>1, <3>2 DEF Advance
    <3>3. CASE /\ posted' = [posted EXCEPT ![i] = TRUE]
               /\ stage' = [stage EXCEPT ![i] = "answered"]
               /\ cause' = [cause EXCEPT ![i] = "submit"]
               /\ tab' = Closed(i)
               /\ UNCHANGED <<expired, form>>
      BY <1>5, <3>1, <3>3
    <3>4. CASE Fail(i, "submit")
      BY <1>6, <3>1, <3>4
    <3> QED
      BY <2>5, <3>2, <3>3, <3>4 DEF Submit
  <2>6. CASE Settle(i)
    BY <1>5, <2>6 DEF Settle, Advance
  <2> QED
    BY <1>1, <2>1, <2>2, <2>3, <2>4, <2>5, <2>6 DEF TabSteps
<1>8. ASSUME NEW j \in Item, j # i PROVE TabClauses(j)'
  <2>1. TabClauses(j)
    BY DEF TabClauses
  <2>2. UNCHANGED <<worker[j], outcome[j], stage[j], tab[j], posted[j], cause[j]>>
    BY <1>3, <1>7, <1>8
  <2> QED
    BY <1>3, <2>1, <2>2, OthersKeep
<1> QED
  BY <1>7, <1>8 DEF TabClauses

\* The timer touches its own tab only, and in mode "none" only.
LEMMA ExpirePreserves ==
  ASSUME CdpIInv, NEW i \in Item, Expire(i)
  PROVE  CdpIInv'
<1> USE DEF CdpIInv, TabTypeOK
<1>1. opts.mode \in {"none", "server"}
  BY TwoModes
<1>2. UNCHANGED <<worker, outcome, cancelled, opts, plan, stage, form, posted,
                  cause>>
  BY DEF Expire, poolVars
<1>3. /\ tab' \in [Item -> {"none", "open", "closed"}]
      /\ \A j \in Item : j # i => tab'[j] = tab[j]
      /\ opts.mode = "server" => tab' = tab
      /\ tab'[i] = "open" => tab[i] = "open"
  BY <1>1, <1>2 DEF Expire, TimedOut, Closed
<1>4. TabTypeOK'
  BY <1>2, <1>3 DEF Expire
<1>5. TabClauses(i)'
  BY <1>2, <1>3 DEF TabClauses, TabFollowsWorker, PostedByStage, TabByStage,
                    InCall, AnswerOf
<1>6. ASSUME NEW j \in Item, j # i PROVE TabClauses(j)'
  <2>1. TabClauses(j)
    BY DEF TabClauses
  <2>2. UNCHANGED <<worker[j], outcome[j], stage[j], tab[j], posted[j], cause[j]>>
    BY <1>2, <1>3, <1>6
  <2> QED
    BY <1>2, <2>1, <2>2, OthersKeep
<1> QED
  BY <1>4, <1>5, <1>6 DEF TabClauses

\* The pool's own steps leave the tabs alone and move a worker into the call
\* with a fresh tab, out of it with the tab's answer, or on from there.
LEMMA PoolStepPreserves ==
  ASSUME IInv, CdpIInv,
         CdpMain \/ \E i \in Item : CdpReturn(i) \/ CdpTally(i)
  PROVE  CdpIInv'
<1> USE DEF CdpIInv, TabTypeOK
<1>1. UNCHANGED cdpVars /\ UNCHANGED cancelled
  BY DEF CdpMain, CdpReturn, CdpTally, Main, Dispatch, Abort, EndLoop, Report,
         Return, Tally, Record, Release, Done
<1>2. worker \in [Item -> WorkerState]
  BY DEF IInv, TypeOK
<1>3. outcome \in [Item -> Outcome \cup {NoOutcome}]
  BY DEF IInv, TypeOK
<1>4. ASSUME NEW j \in Item PROVE TabFollowsWorker(j)'
  <2>1. AnswerOf(j)' = AnswerOf(j)
    BY <1>1 DEF AnswerOf, cdpVars
  <2>2. stage' = stage
    BY <1>1 DEF cdpVars
  <2>3. CASE CdpMain
    <3>1. UNCHANGED outcome
      BY <2>3 DEF CdpMain, Main, Dispatch, Abort, EndLoop, Report
    <3>2. worker'[j] = worker[j] \/ worker'[j] = "calling"
      BY <1>2, <2>3 DEF CdpMain, Main, Dispatch, Abort, EndLoop, Report
    <3> QED
      BY <2>1, <2>2, <3>1, <3>2 DEF TabFollowsWorker
  <2>4. ASSUME NEW i \in Item, CdpReturn(i) PROVE TabFollowsWorker(j)'
    BY <1>2, <1>3, <2>1, <2>2, <2>4 DEF CdpReturn, Return, TabFollowsWorker
  <2>5. ASSUME NEW i \in Item, CdpTally(i) PROVE TabFollowsWorker(j)'
    <3>1. UNCHANGED outcome
      BY <2>5 DEF CdpTally, Tally, Record, Release, Done
    <3>2. \/ worker'[j] = worker[j]
          \/ /\ worker[j] \notin {"none", "calling"}
             /\ worker'[j] \notin {"none", "calling"}
      BY <1>2, <2>5 DEF CdpTally, Tally, Record, Release, Done
    <3> QED
      BY <2>1, <2>2, <3>1, <3>2 DEF TabFollowsWorker
  <2> QED
    BY <2>3, <2>4, <2>5
<1>5. ASSUME NEW j \in Item PROVE PostedByStage(j)' /\ TabByStage(j)'
  BY <1>1 DEF cdpVars, PostedByStage, TabByStage, InCall
<1>6. TabTypeOK'
  BY <1>1 DEF cdpVars
<1> QED
  BY <1>4, <1>5, <1>6

\* An interruption voids the promise about tabs and changes nothing else.
LEMMA CancelPreserves == CdpIInv /\ CdpCancel => CdpIInv'
<1> SUFFICES ASSUME CdpIInv, CdpCancel PROVE CdpIInv'
  OBVIOUS
<1> USE DEF CdpIInv, TabTypeOK
<1>1. /\ cancelled'
      /\ UNCHANGED <<worker, outcome, opts, plan, stage, expired, form, posted,
                     cause>>
  BY DEF CdpCancel, Cancel
<1>2. tab' \in [Item -> {"none", "open", "closed"}]
  BY DEF CdpCancel
<1>3. ASSUME NEW j \in Item PROVE TabClauses(j)'
  BY <1>1 DEF TabClauses, TabFollowsWorker, PostedByStage, TabByStage, AnswerOf
<1> QED
  BY <1>1, <1>2, <1>3 DEF TabClauses

LEMMA CdpNextPreserves == IInv /\ CdpIInv /\ [CdpNext]_vars => CdpIInv'
<1> SUFFICES ASSUME IInv, CdpIInv, [CdpNext]_vars PROVE CdpIInv'
  OBVIOUS
<1>1. CASE CdpMain \/ \E i \in Item : CdpReturn(i) \/ CdpTally(i)
  BY <1>1, PoolStepPreserves
<1>2. CASE CdpCancel
  BY <1>2, CancelPreserves
<1>3. ASSUME NEW i \in Item, TabStep(i) PROVE CdpIInv'
  BY <1>3, TabStepPreserves
<1>4. ASSUME NEW i \in Item, Expire(i) PROVE CdpIInv'
  BY <1>4, ExpirePreserves
<1>5. CASE UNCHANGED <<poolVars, cdpVars>>
  BY <1>5 DEF poolVars, cdpVars, CdpIInv, TabTypeOK, TabFollowsWorker,
              PostedByStage, TabByStage, AnswerOf, InCall
<1> QED
  BY <1>1, <1>2, <1>3, <1>4, <1>5 DEF CdpNext, Terminated, vars

-------------------------------------------------------------------------------
(* The theorems. *)

\* The two inductive invariants hold together in every run over the browser.
THEOREM CdpInvariance == CdpSpec => [](IInv /\ CdpIInv)
<1>1. CdpSpec => []IInv
  BY CdpRunsThePool, Invariance, PTL
<1> QED
  BY <1>1, CdpInitEstablishes, CdpNextPreserves, PTL DEF CdpSpec

\* The state of pool and tabs keeps its shape, and the backend never gives an
\* answer the pool was not told of.
THEOREM CdpTypeCorrect == CdpSpec => []CdpTypeOK
<1>1. IInv /\ CdpIInv => CdpTypeOK
  BY DEF IInv, CdpIInv, CdpTypeOK
<1> QED
  BY <1>1, CdpInvariance, PTL

\* A dry run at level "server" submits no form, for any plan and any portal.
THEOREM DryRunIsSafe == CdpSpec => []DryRunSubmitsNothing
<1>1. CdpIInv => DryRunSubmitsNothing
  <2> SUFFICES ASSUME CdpIInv, opts.mode = "server", NEW i \in Item
               PROVE  ~posted[i]
    BY DEF DryRunSubmitsNothing
  <2>1. stage[i] \in Stage /\ PostedByStage(i)
    BY DEF CdpIInv, TabTypeOK
  <2>2. posted[i] \in BOOLEAN
    BY DEF CdpIInv, TabTypeOK
  <2> QED
    BY <2>1, <2>2 DEF PostedByStage, Stage
<1> QED
  BY <1>1, CdpInvariance, PTL

\* What the user is told of an item is what the portal saw of it, up to clicks
\* whose reply was lost.
THEOREM ReportIsHonest == CdpSpec => []ReportTellsThePortal
<1>1. IInv /\ CdpIInv => ReportTellsThePortal
  <2> SUFFICES ASSUME IInv, CdpIInv, NEW n \in 1..Len(results)
               PROVE  LET i == results[n].item IN
                      /\ ~results[n].error => posted[i] = (opts.mode = "none")
                      /\ posted[i] /\ results[n].error => cause[i] = "submit"
    BY DEF ReportTellsThePortal
  <2> DEFINE i == results[n].item
  <2>1. i \in Recorded /\ results[n] = ResultOf(i)
    BY DEF IInv, ResultsMatch
  <2>2. i \in Item /\ worker[i] \notin {"none", "calling"}
    BY <2>1 DEF Recorded, InState
  <2>3. stage[i] = "answered" /\ outcome[i] = AnswerOf(i) /\ PostedByStage(i)
    BY <2>2 DEF CdpIInv, TabFollowsWorker
  <2>4. results[n].error = outcome[i].error
    BY <2>1 DEF ResultOf
  <2>5. outcome[i].error = (cause[i] # "")
    <3>1. AnswerOf(i).error = (cause[i] # "")
      BY DEF AnswerOf
    <3> QED
      BY <2>3, <3>1
  <2> QED
    BY <2>3, <2>4, <2>5 DEF PostedByStage
<1> QED
  BY <1>1, CdpInvariance, PTL

\* Tabs are kept in mode "server" and closed in mode "none", unless the user
\* interrupts.
THEOREM TabsKeptOrClosed == CdpSpec => []TabsAsPromised
<1>1. CdpIInv => TabsAsPromised
  BY DEF CdpIInv, TabByStage, TabsAsPromised, InCall
<1> QED
  BY <1>1, CdpInvariance, PTL

\* The concurrency setting bounds the open tabs in mode "none".
THEOREM TabsAreBounded == CdpSpec => []OpenTabsBounded
<1>1. IInv /\ CdpIInv /\ CallsBounded => OpenTabsBounded
  <2> SUFFICES ASSUME IInv, CdpIInv, CallsBounded,
                      opts.mode = "none", ~cancelled
               PROVE  Cardinality({i \in Item : tab[i] = "open"}) <= Concurrency
    BY DEF OpenTabsBounded
  <2> DEFINE Open == {i \in Item : tab[i] = "open"}
  <2>1. Open \subseteq InState({"calling"})
    BY DEF CdpIInv, TabByStage, TabFollowsWorker, InCall, InState
  <2>2. IsFiniteSet(InState({"calling"}))
    BY InStateFinite
  <2>3. Cardinality(Open) <= Cardinality(InState({"calling"}))
    BY <2>1, <2>2, FS_Subset
  <2>4. Cardinality(Open) \in Nat /\ Cardinality(InState({"calling"})) \in Nat
    BY <2>1, <2>2, FS_Subset, FS_CardinalityType
  <2> QED
    BY <2>3, <2>4, PoolAssumption DEF CallsBounded
<1>2. CdpSpec => []CallsBounded
  BY CdpRunsThePool, PoolIsBounded, PTL
<1> QED
  BY <1>1, <1>2, CdpInvariance, PTL
===============================================================================
