------------------------------- MODULE CdpApply -------------------------------
(***************************************************************************)
(* "authzer apply" with the browser backend: the pool of ApplyRun with its *)
(* provider call filled in by CDPProvider.Apply and renewResource          *)
(* (cmd/provider_cdp.go, cmd/cdp.go), which drives one browser tab per     *)
(* item, and the portal that receives the submitted forms.                 *)
(*                                                                         *)
(* A chromedp call on a tab whose context is done returns an error; a wait *)
(* for an element returns when the element shows up or the context is      *)
(* done, and may otherwise wait for ever.  The tab's context descends from *)
(* the browser's, hence from the root context that SIGINT cancels; in mode *)
(* "none" it also descends from the per-item timeout, in mode "server" it  *)
(* does not.                                                               *)
(***************************************************************************)
EXTENDS ApplyRun

CONSTANT
  Options        \* the settings a run may have been started with

\* mode: the --dry-run level; timed: survey.timeout > 0; acceptFlag: the
\* --accept-terms flag; acceptConfig: the viper key acceptTerms.
OptionType == [mode : {"none", "server"}, timed : BOOLEAN,
               acceptFlag : BOOLEAN, acceptConfig : BOOLEAN]

ASSUME OptionsAssumption == Options \subseteq OptionType

VARIABLES
  opts,          \* the run's settings
  plan,          \* plan[i]: a rule with or without a selfLink, or none at all
  stage,         \* stage[i]: how far renewResource has got
  tab,           \* tab[i]: "none", "open" or "closed"
  expired,       \* expired[i]: the per-item timeout has fired
  form,          \* form[i]: "blank", "partial" (a field refused), "complete"
  posted,        \* posted[i]: the portal received the submit click
  cause          \* cause[i]: class of Resource.Error, "" when none

cdpVars == <<opts, plan, stage, tab, expired, form, posted, cause>>
vars == <<poolVars, cdpVars>>

Stage == {"idle", "loading", "dialog", "submit", "settle", "answered"}

\* What the planner hands over: the rules first, then the memberships no rule
\* covers, which come with an empty Rule.
Plans ==
  {p \in [Item -> {"linked", "unlinked", "undeclared"}] :
     \A i, j \in Item : p[i] = "undeclared" /\ i < j => p[j] = "undeclared"}

\* The call is under way and its timeout context, if any, is armed.
InCall(i) == stage[i] \notin {"idle", "answered"}

CdpInit ==
  /\ Init
  /\ opts \in Options
  /\ plan \in Plans
  /\ stage = [i \in Item |-> "idle"]
  /\ tab = [i \in Item |-> "none"]
  /\ expired = [i \in Item |-> FALSE]
  /\ form = [i \in Item |-> "blank"]
  /\ posted = [i \in Item |-> FALSE]
  /\ cause = [i \in Item |-> ""]

-------------------------------------------------------------------------------
(* The tab's context and its target. *)

\* Fault: the tab never hangs off the timeout context, as if tabParent were
\* always parentCtx.
NeverTimedOut(i) == FALSE

\* Fault: the tab hangs off the timeout context in both modes, as if
\* tabParent were always ctx.
TimedOutInBothModes(i) == expired[i]

\* tabParent is ctx, and so bounded by the timeout, unless the tab is to be
\* left open (leaveOpen).
TimedOut(i) == expired[i] /\ opts.mode # "server"

\* Fault: the browser context does not descend from the root context.
AliveOnBackground(i) == ~TimedOut(i)

Alive(i) == ~cancelled /\ ~TimedOut(i)

\* tabCancel: the target is closed.  On a context that was already cancelled
\* it does nothing more.
Closed(i) ==
  IF tab[i] = "open" /\ ~cancelled THEN [tab EXCEPT ![i] = "closed"] ELSE tab

\* Fault: a failing call returns without closing its tab.
KeepTab(i) == tab

\* closeTab of renewResource: only when the tab is not to be left open.
CloseTab(i) == IF opts.mode = "server" THEN tab ELSE Closed(i)

\* renewResource returns with res.Error set.
Fail(i, why) ==
  /\ stage' = [stage EXCEPT ![i] = "answered"]
  /\ cause' = [cause EXCEPT ![i] = why]
  /\ tab' = CloseTab(i)
  /\ UNCHANGED <<expired, form, posted>>

Advance(i, from, to) ==
  /\ stage[i] = from
  /\ stage' = [stage EXCEPT ![i] = to]

-------------------------------------------------------------------------------
(* One call of CDPProvider.Apply. *)

\* A Rule without selfLink is refused before any tab; unreadable portal
\* scripts fail the call before any tab; otherwise the first chromedp.Run of
\* the new context creates the tab and starts the navigation.
Enter(i) ==
  /\ worker[i] = "calling"
  /\ stage[i] = "idle"
  /\ \/ plan[i] # "linked" /\ Fail(i, "noSelfLink")
     \/ plan[i] = "linked" /\ \E why \in {"config", "navigate"} : Fail(i, why)
     \/ /\ plan[i] = "linked"
        /\ Alive(i)
        /\ Advance(i, "idle", "loading")
        /\ tab' = [tab EXCEPT ![i] = "open"]
        /\ UNCHANGED <<expired, form, posted, cause>>

\* WaitVisible(readySelector) comes back; the page info is read, the trigger
\* button found and clicked.
PageReady(i) ==
  /\ Alive(i)
  /\ Advance(i, "loading", "dialog")
  /\ UNCHANGED <<tab, expired, form, posted, cause>>

\* The fields renewResource tries to fill; T&Cs only under the viper key.
Attempted ==
  {"permission", "justification"} \cup
  (IF opts.acceptConfig THEN {"terms"} ELSE {})

\* Fault: the branch on the dry-run level is gone.
SubmitInBothModes(i) ==
  /\ stage[i] = "dialog"
  /\ Alive(i)
  /\ form' = [form EXCEPT ![i] = "complete"]
  /\ stage' = [stage EXCEPT ![i] = "submit"]
  /\ UNCHANGED <<tab, expired, posted, cause>>

\* WaitVisible(dialogReadySelector) comes back.  Option click and form polling
\* are best effort, then each attempted field is filled or its error logged.
\* In mode "server" the call ends here, without an error in either case.
DialogReady(i) ==
  /\ stage[i] = "dialog"
  /\ Alive(i)
  /\ \E filled \in SUBSET Attempted :
        form' = [form EXCEPT ![i] =
                   IF filled = Attempted THEN "complete" ELSE "partial"]
  /\ stage' = [stage EXCEPT ![i] =
                 IF opts.mode = "none" THEN "submit" ELSE "answered"]
  /\ UNCHANGED <<tab, expired, posted, cause>>

\* A wait, or one of the calls that follow it, ends in an error.
WaitFails(i) ==
  \/ stage[i] = "loading" /\ Fail(i, "page")
  \/ stage[i] = "dialog" /\ Fail(i, "dialog")

\* Find the submit button and click it.  The click runs as a script in the
\* page, so the portal may have acted on it although its reply is lost.
Submit(i) ==
  /\ stage[i] = "submit"
  /\ \/ /\ Alive(i)
        /\ Advance(i, "submit", "settle")
        /\ posted' = [posted EXCEPT ![i] = TRUE]
        /\ UNCHANGED <<tab, expired, form, cause>>
     \/ /\ Alive(i)
        /\ posted' = [posted EXCEPT ![i] = TRUE]
        /\ stage' = [stage EXCEPT ![i] = "answered"]
        /\ cause' = [cause EXCEPT ![i] = "submit"]
        /\ tab' = Closed(i)
        /\ UNCHANGED <<expired, form>>
     \/ Fail(i, "submit")

\* Sleep the settle delay, close the tab, return without an error.
Settle(i) ==
  /\ Advance(i, "settle", "answered")
  /\ tab' = Closed(i)
  /\ UNCHANGED <<expired, form, posted, cause>>

\* context.WithTimeout fires; chromedp closes a tab whose context is done.
Expire(i) ==
  /\ opts.timed
  /\ InCall(i)
  /\ ~expired[i]
  /\ expired' = [expired EXCEPT ![i] = TRUE]
  /\ UNCHANGED <<poolVars, opts, plan, stage, form, posted, cause>>
  /\ tab' = IF TimedOut(i)' THEN Closed(i) ELSE tab

-------------------------------------------------------------------------------
(* The pool with its provider call filled in. *)

TabSteps(i) ==
  \/ Enter(i) \/ PageReady(i) \/ DialogReady(i) \/ WaitFails(i)
  \/ Submit(i) \/ Settle(i)

TabStep(i) == TabSteps(i) /\ UNCHANGED <<poolVars, opts, plan>>

\* Fault: the result says "failed" but carries no Error.
AnswerWithoutError(i) ==
  [action |-> IF cause[i] # "" THEN "failed"
              ELSE IF opts.mode = "none" THEN "renewed" ELSE "prepared",
   error |-> FALSE]

\* The ApplyResult built from the returned Resource.
AnswerOf(i) ==
  [action |-> IF cause[i] # "" THEN "failed"
              ELSE IF opts.mode = "none" THEN "renewed" ELSE "prepared",
   error |-> cause[i] # ""]

\* Every answer the CDP provider can give is one the pool expects.
ASSUME CdpOutcomeAssumption ==
  {[action |-> "failed", error |-> TRUE],
   [action |-> "renewed", error |-> FALSE],
   [action |-> "prepared", error |-> FALSE]} \subseteq Outcome

\* Fault: the worker does not look at what renewResource returned.
ReturnEarly(i) ==
  /\ stage[i] # "idle"
  /\ Return(i, AnswerOf(i))
  /\ UNCHANGED cdpVars

CdpReturn(i) ==
  /\ stage[i] = "answered"
  /\ Return(i, AnswerOf(i))
  /\ UNCHANGED cdpVars

\* The signal reaches every tab's context; whether an open tab is still closed
\* before the browser connection goes away is a race inside chromedp.
CdpCancel ==
  /\ Cancel
  /\ \E lost \in SUBSET {i \in Item : tab[i] = "open"} :
        tab' = [i \in Item |-> IF i \in lost THEN "closed" ELSE tab[i]]
  /\ UNCHANGED <<opts, plan, stage, expired, form, posted, cause>>

CdpMain == Main /\ UNCHANGED cdpVars
CdpTally(i) == Tally(i) /\ UNCHANGED cdpVars

CdpNext ==
  \/ CdpMain
  \/ CdpCancel
  \/ \E i \in Item : TabStep(i) \/ Expire(i) \/ CdpReturn(i) \/ CdpTally(i)
  \/ Terminated /\ UNCHANGED cdpVars

\* The steps that come back whatever the page does.
Prompt(i) ==
  /\ Enter(i) \/ Submit(i) \/ Settle(i)
  /\ UNCHANGED <<poolVars, opts, plan>>

\* A wait on a dead context comes back with an error.
GiveUp(i) == ~Alive(i) /\ WaitFails(i) /\ UNCHANGED <<poolVars, opts, plan>>

\* Goroutines are scheduled, chromedp answers, timers fire.  Nothing is assumed
\* of the portal: a page or a dialog may never become visible.
CdpFairness ==
  /\ WF_vars(CdpMain)
  /\ \A i \in Item : /\ WF_vars(Prompt(i))
                     /\ WF_vars(GiveUp(i))
                     /\ WF_vars(Expire(i))
                     /\ WF_vars(CdpReturn(i))
                     /\ WF_vars(CdpTally(i))

CdpSpec == CdpInit /\ [][CdpNext]_vars
CdpFairSpec == CdpSpec /\ CdpFairness

-------------------------------------------------------------------------------
(* Properties. *)

\* Shape of the state of the tabs.
TabTypeOK ==
  /\ opts \in Options
  /\ plan \in Plans
  /\ stage \in [Item -> Stage]
  /\ tab \in [Item -> {"none", "open", "closed"}]
  /\ expired \in [Item -> BOOLEAN]
  /\ form \in [Item -> {"blank", "partial", "complete"}]
  /\ posted \in [Item -> BOOLEAN]
  /\ cause \in [Item -> {"", "noSelfLink", "config", "navigate", "page",
                         "dialog", "submit"}]

\* Shape of the tabs and of the pool they feed: every answer of the backend is
\* one of the Outcome the pool was told of.
CdpTypeOK ==
  /\ TypeOK
  /\ TabTypeOK

\* What the portal saw and what the user is told agree (provider_cdp.go:130-145
\* with cdp.go:549-576): a result without an error is a submitted form in mode
\* "none" and a form nobody submitted in mode "server"; and a form that was
\* submitted under a result with an error is one whose click was reported lost.
ReportTellsThePortal ==
  \A k \in 1..Len(results) :
    LET i == results[k].item IN
    /\ ~results[k].error => posted[i] = (opts.mode = "none")
    /\ posted[i] /\ results[k].error => cause[i] = "submit"

\* A dry run submits nothing, whatever fails, expires or is interrupted
\* (cdp.go:549; apply.go:41-43 "stop before submit").
DryRunSubmitsNothing ==
  opts.mode = "server" => \A i \in Item : ~posted[i]

\* Tabs are kept and closed as promised unless the user interrupts
\* (cdp.go:405-406): in mode "server" no tab that was opened is ever closed, not
\* even by a timeout; in mode "none" no tab outlives its call.
TabsAsPromised ==
  ~cancelled =>
    \A i \in Item :
      /\ opts.mode = "server" => tab[i] # "closed"
      /\ opts.mode = "none" /\ stage[i] = "answered" => tab[i] # "open"

\* "concurrency: concurrent browser tabs" (root.go:67): in mode "none" the pool
\* bounds the open tabs too, since a tab is closed before its slot is free.
OpenTabsBounded ==
  opts.mode = "none" /\ ~cancelled =>
    Cardinality({i \in Item : tab[i] = "open"}) <= Concurrency

\* With survey.timeout set, a run in mode "none" ends even if no page and no
\* dialog ever becomes visible (cdp.go:417-421, 463-474, 505-513).
TimeoutEndsRun ==
  (opts.mode = "none" /\ opts.timed) ~> (pc = "returned")

\* After SIGINT or SIGTERM the run ends, in both modes and without a timeout:
\* no worker stays in a wait and the loop does not wait for a slot for ever.
CancelEndsRun == cancelled ~> (pc = "returned")

-------------------------------------------------------------------------------
(* The inductive invariant behind the safety properties (CdpApplyProofs). *)

\* A tab is driven by its worker during the provider call and at no other time,
\* and the worker leaves the call with what renewResource answered.
TabFollowsWorker(i) ==
  /\ worker[i] = "none" => stage[i] = "idle"
  /\ worker[i] \notin {"none", "calling"} =>
       stage[i] = "answered" /\ outcome[i] = AnswerOf(i)

\* The portal has the form exactly from the click on.
PostedByStage(i) ==
  /\ stage[i] \in {"submit", "settle"} => opts.mode = "none"
  /\ stage[i] \in {"idle", "loading", "dialog", "submit"} =>
       ~posted[i] /\ cause[i] = ""
  /\ stage[i] = "settle" => posted[i] /\ cause[i] = ""
  /\ stage[i] = "answered" =>
       /\ cause[i] = "" => posted[i] = (opts.mode = "none")
       /\ cause[i] # "" /\ posted[i] => opts.mode = "none" /\ cause[i] = "submit"

TabByStage(i) ==
  ~cancelled =>
    /\ opts.mode = "server" => tab[i] # "closed"
    /\ opts.mode = "none" /\ tab[i] = "open" => InCall(i)

CdpIInv ==
  /\ TabTypeOK
  /\ \A i \in Item : TabFollowsWorker(i) /\ PostedByStage(i) /\ TabByStage(i)

-------------------------------------------------------------------------------
(* What the documentation says and this backend does not do. *)

\* "expiring undeclared memberships are renewed automatically" (apply.go:45-47,
\* README.md:25-27): such an item may fail, but not because of what the planner
\* handed over.
UndeclaredRenewable ==
  \A i \in Item : plan[i] = "undeclared" => cause[i] # "noSelfLink"

\* "To accept terms automatically, pass --accept-terms" (README.md:224): under
\* the flag, a form submitted with every attempted field filled has its T&Cs
\* ticked.
AcceptFlagTicksTerms ==
  \A i \in Item :
    opts.acceptFlag /\ posted[i] /\ form[i] = "complete" =>
      "terms" \in Attempted
===============================================================================
