------------------------------- MODULE ApplyRun -------------------------------
(***************************************************************************)
(* The execution phase of "authzer apply" (cmd/apply.go, runApply from the *)
(* semaphore on): one main goroutine walks the plan, a buffered channel    *)
(* `sem` limits how many worker goroutines run, every worker calls         *)
(* provider.Apply once, tallies the answer under resultsMu, gives its slot *)
(* back and leaves the wait group.  SIGINT or SIGTERM cancels the context  *)
(* at any moment.                                                          *)
(*                                                                         *)
(* The provider call is open here: Return(i, o) lets it answer anything in *)
(* Outcome.  CdpApply fills the call in with the browser automation.       *)
(***************************************************************************)
EXTENDS Integers, FiniteSets, Sequences

CONSTANTS
  NumItems,      \* len(actionable)
  Concurrency,   \* the "concurrency" setting, capacity of sem
  Outcome        \* answers of provider.Apply: [action, error]

ASSUME PoolAssumption == NumItems \in Nat /\ Concurrency \in Nat
ASSUME OutcomeAssumption == \A o \in Outcome : o.error \in BOOLEAN

VARIABLES
  pc,            \* main goroutine: "dispatch", "wait", "returned"
  next,          \* index of the item the loop looks at
  cancelled,     \* ctx.Err() # nil
  sem,           \* tokens in the channel
  wg,            \* the wait group's counter
  worker,        \* worker[i]: where item i's goroutine is
  outcome,       \* outcome[i]: what provider.Apply answered, or NoOutcome
  completed,     \* the atomic progress counter
  succeeded,     \* tallies and results, all three guarded by resultsMu
  failed,
  results,
  report         \* what runApply reads once wg.Wait returns

poolVars == <<pc, next, cancelled, sem, wg, worker, outcome, completed,
              succeeded, failed, results, report>>

Item == 1..NumItems

WorkerState ==
  {"none", "calling", "counted", "recorded", "released", "done"}

NoOutcome == [action |-> "none", error |-> FALSE]
NoReport == [succeeded |-> 0, failed |-> 0, items |-> 0]

InState(S) == {i \in Item : worker[i] \in S}

Init ==
  /\ pc = "dispatch"
  /\ next = 1
  /\ cancelled = FALSE
  /\ sem = 0
  /\ wg = 0
  /\ worker = [i \in Item |-> "none"]
  /\ outcome = [i \in Item |-> NoOutcome]
  /\ completed = 0
  /\ succeeded = 0
  /\ failed = 0
  /\ results = <<>>
  /\ report = NoReport

-------------------------------------------------------------------------------
(* The main goroutine. *)

\* Fault: one worker too many is let in.
DispatchOneMore ==
  /\ pc = "dispatch"
  /\ next <= NumItems
  /\ sem <= Concurrency
  /\ sem' = sem + 1
  /\ wg' = wg + 1
  /\ worker' = [worker EXCEPT ![next] = "calling"]
  /\ next' = next + 1
  /\ UNCHANGED <<pc, cancelled, outcome, completed, succeeded, failed,
                 results, report>>

\* Fault: the goroutine starts without taking a slot.
DispatchWithoutSlot ==
  /\ pc = "dispatch"
  /\ next <= NumItems
  /\ sem < Concurrency
  /\ wg' = wg + 1
  /\ worker' = [worker EXCEPT ![next] = "calling"]
  /\ next' = next + 1
  /\ UNCHANGED <<pc, cancelled, sem, outcome, completed, succeeded, failed,
                 results, report>>

\* The select statement takes the send when the channel has room; then
\* wg.Add(1) and the go statement.  Go picks at random when ctx.Done() is
\* ready too, so a cancelled context does not disable this step.
Dispatch ==
  /\ pc = "dispatch"
  /\ next <= NumItems
  /\ sem < Concurrency
  /\ sem' = sem + 1
  /\ wg' = wg + 1
  /\ worker' = [worker EXCEPT ![next] = "calling"]
  /\ next' = next + 1
  /\ UNCHANGED <<pc, cancelled, outcome, completed, succeeded, failed,
                 results, report>>

\* Fault: the loop gives up when the channel is full, cancelled or not.
AbortWhenFull ==
  /\ pc = "dispatch"
  /\ next <= NumItems
  /\ cancelled \/ sem = Concurrency
  /\ pc' = "wait"
  /\ UNCHANGED <<next, cancelled, sem, wg, worker, outcome, completed,
                 succeeded, failed, results, report>>

\* case <-ctx.Done(): break applyLoop.
Abort ==
  /\ pc = "dispatch"
  /\ next <= NumItems
  /\ cancelled
  /\ pc' = "wait"
  /\ UNCHANGED <<next, cancelled, sem, wg, worker, outcome, completed,
                 succeeded, failed, results, report>>

EndLoop ==
  /\ pc = "dispatch"
  /\ next > NumItems
  /\ pc' = "wait"
  /\ UNCHANGED <<next, cancelled, sem, wg, worker, outcome, completed,
                 succeeded, failed, results, report>>

\* Fault: the report is written without waiting for the workers.
ReportWithoutWait ==
  /\ pc = "wait"
  /\ pc' = "returned"
  /\ report' = [succeeded |-> succeeded, failed |-> failed,
                items |-> Len(results)]
  /\ UNCHANGED <<next, cancelled, sem, wg, worker, outcome, completed,
                 succeeded, failed, results>>

\* wg.Wait() returns; the tallies are read without the mutex and reported.
Report ==
  /\ pc = "wait"
  /\ wg = 0
  /\ pc' = "returned"
  /\ report' = [succeeded |-> succeeded, failed |-> failed,
                items |-> Len(results)]
  /\ UNCHANGED <<next, cancelled, sem, wg, worker, outcome, completed,
                 succeeded, failed, results>>

\* SIGINT or SIGTERM: signal.NotifyContext cancels the root context.
Cancel ==
  /\ pc # "returned"
  /\ ~cancelled
  /\ cancelled' = TRUE
  /\ UNCHANGED <<pc, next, sem, wg, worker, outcome, completed, succeeded,
                 failed, results, report>>

-------------------------------------------------------------------------------
(* A worker goroutine. *)

\* provider.Apply answers o, and completed.Add(1) counts it.
Return(i, o) ==
  /\ worker[i] = "calling"
  /\ worker' = [worker EXCEPT ![i] = "counted"]
  /\ outcome' = [outcome EXCEPT ![i] = o]
  /\ completed' = completed + 1
  /\ UNCHANGED <<pc, next, cancelled, sem, wg, succeeded, failed, results,
                 report>>

\* act.Reason: result.Action, or "failed" when either error is set.
Reason(o) == IF o.error THEN "failed" ELSE o.action

ResultOf(i) == [item |-> i, reason |-> Reason(outcome[i]),
                error |-> outcome[i].error]

\* Fault: the error branches forget to return and fall into the ok branch.
RecordFallsThrough(i) ==
  /\ worker[i] = "counted"
  /\ worker' = [worker EXCEPT ![i] = "recorded"]
  /\ failed' = IF outcome[i].error THEN failed + 1 ELSE failed
  /\ succeeded' = succeeded + 1
  /\ results' = IF outcome[i].error
                  THEN results \o <<ResultOf(i), ResultOf(i)>>
                  ELSE Append(results, ResultOf(i))
  /\ UNCHANGED <<pc, next, cancelled, sem, wg, outcome, completed, report>>

\* Fault: result.Error is not looked at, only the call's own error is.
RecordIgnoresError(i) ==
  /\ worker[i] = "counted"
  /\ worker' = [worker EXCEPT ![i] = "recorded"]
  /\ succeeded' = succeeded + 1
  /\ results' = Append(results, ResultOf(i))
  /\ UNCHANGED <<pc, next, cancelled, sem, wg, outcome, completed, failed,
                 report>>

\* The three branches after the call (applyErr, result.Error, neither), each
\* of which tallies and appends in one critical section of resultsMu.
Record(i) ==
  /\ worker[i] = "counted"
  /\ worker' = [worker EXCEPT ![i] = "recorded"]
  /\ \/ /\ outcome[i].error
        /\ failed' = failed + 1
        /\ UNCHANGED succeeded
     \/ /\ ~outcome[i].error
        /\ succeeded' = succeeded + 1
        /\ UNCHANGED failed
  /\ results' = Append(results, ResultOf(i))
  /\ UNCHANGED <<pc, next, cancelled, sem, wg, outcome, completed, report>>

\* Fault: the slot comes back only when the item succeeded.
ReleaseOnSuccess(i) ==
  /\ worker[i] = "recorded"
  /\ worker' = [worker EXCEPT ![i] = "released"]
  /\ sem' = IF outcome[i].error THEN sem ELSE sem - 1
  /\ UNCHANGED <<pc, next, cancelled, wg, outcome, completed, succeeded,
                 failed, results, report>>

\* The deferred <-sem, which runs before the deferred wg.Done().
Release(i) ==
  /\ worker[i] = "recorded"
  /\ worker' = [worker EXCEPT ![i] = "released"]
  /\ sem' = sem - 1
  /\ UNCHANGED <<pc, next, cancelled, wg, outcome, completed, succeeded,
                 failed, results, report>>

Done(i) ==
  /\ worker[i] = "released"
  /\ worker' = [worker EXCEPT ![i] = "done"]
  /\ wg' = wg - 1
  /\ UNCHANGED <<pc, next, cancelled, sem, outcome, completed, succeeded,
                 failed, results, report>>

-------------------------------------------------------------------------------
Main == Dispatch \/ Abort \/ EndLoop \/ Report

\* What a worker does after the provider has answered.
Tally(i) == Record(i) \/ Release(i) \/ Done(i)

Call(i) == \E o \in Outcome : Return(i, o)

Terminated == pc = "returned" /\ UNCHANGED poolVars

Next ==
  \/ Main
  \/ Cancel
  \/ \E i \in Item : Call(i) \/ Tally(i)
  \/ Terminated

\* Goroutines that can run are scheduled, and the provider answers.
Fairness ==
  /\ WF_poolVars(Main)
  /\ \A i \in Item : WF_poolVars(Call(i)) /\ WF_poolVars(Tally(i))

Spec == Init /\ [][Next]_poolVars
FairSpec == Spec /\ Fairness

-------------------------------------------------------------------------------
(* Properties. *)

Holding == InState({"calling", "counted", "recorded"})
Live == InState({"calling", "counted", "recorded", "released"})
Recorded == InState({"recorded", "released", "done"})

Result == [item : Item, reason : {Reason(o) : o \in Outcome}, error : BOOLEAN]

\* Shape of the state, with the channel and the wait group never negative.
TypeOK ==
  /\ pc \in {"dispatch", "wait", "returned"}
  /\ next \in 1..(NumItems + 1)
  /\ cancelled \in BOOLEAN
  /\ sem \in 0..Concurrency
  /\ wg \in 0..NumItems
  /\ worker \in [Item -> WorkerState]
  /\ outcome \in [Item -> Outcome \cup {NoOutcome}]
  /\ completed \in 0..NumItems
  /\ succeeded \in Nat
  /\ failed \in Nat
  /\ results \in Seq(Result)
  /\ report \in [succeeded : Nat, failed : Nat, items : Nat]

\* The semaphore does its work (apply.go:325-337): at no time are more than
\* "concurrency" provider calls in flight, whatever the workers' interleaving
\* and whether or not the run has been cancelled.
CallsBounded == Cardinality(InState({"calling"})) <= Concurrency

\* No result is lost and none is doubled (apply.go:374-404): the results list
\* holds exactly one entry for every worker past its critical section, with
\* that worker's own answer.
ResultsMatch ==
  /\ \A j, k \in 1..Len(results) :
        results[j].item = results[k].item => j = k
  /\ {results[k].item : k \in 1..Len(results)} = Recorded
  /\ \A k \in 1..Len(results) : results[k] = ResultOf(results[k].item)

\* The two tallies partition the results (apply.go:382, 394, 402): failed is
\* the number of entries that carry an error, succeeded that of the others.
TalliesMatch ==
  /\ failed = Cardinality({k \in 1..Len(results) : results[k].error})
  /\ succeeded = Cardinality({k \in 1..Len(results) : ~results[k].error})

\* What the user is told is final and covers the work done (apply.go:407-436):
\* once runApply reports, no worker is alive, every started item is in the
\* report, an item is missing only if the run was cancelled, and the figures
\* still equal the tallies ever after.
ReportIsFinal ==
  pc = "returned" =>
    /\ Live = {}
    /\ Recorded = 1..(next - 1)
    /\ cancelled \/ next = NumItems + 1
    /\ report = [succeeded |-> succeeded, failed |-> failed,
                 items |-> next - 1]

\* The run ends (apply.go:328-407): if the provider answers every call, the
\* loop never waits for a slot for ever and wg.Wait returns.
Ends == <>(pc = "returned")

-------------------------------------------------------------------------------
(* The inductive invariant behind them (proved in ApplyRunProofs). *)

Counted == InState({"counted", "recorded", "released", "done"})

\* The goroutines started are those of the items the loop has passed.
Frontier == \A i \in Item : worker[i] = "none" <=> i >= next

\* A worker past the call has one of the provider's answers in hand.
Answered == \A i \in Counted : outcome[i] \in Outcome

\* Every counter is the number of workers it stands for.
CountersTrue ==
  /\ sem = Cardinality(Holding)
  /\ wg = Cardinality(Live)
  /\ completed = Cardinality(Counted)
  /\ Len(results) = Cardinality(Recorded)

\* The loop is left only at the end of the plan or on cancellation.
LoopLeft == pc # "dispatch" => cancelled \/ next = NumItems + 1

IInv ==
  /\ TypeOK
  /\ Frontier
  /\ Answered
  /\ CountersTrue
  /\ LoopLeft
  /\ ResultsMatch
  /\ TalliesMatch
  /\ ReportIsFinal

-------------------------------------------------------------------------------
(* The abstract batch this pool implements. *)

BatchStatus ==
  [i \in Item |->
     IF worker[i] = "none" THEN "pending"
     ELSE IF worker[i] \in {"calling", "counted"} THEN "running"
     ELSE IF outcome[i].error THEN "failed"
     ELSE "ok"]

Batch == INSTANCE BatchSpec WITH
  Limit <- Concurrency,
  status <- BatchStatus,
  stopping <- cancelled,
  closed <- (pc = "returned")

\* The goroutines, the channel and the wait group together keep the promise of
\* a bounded, ordered, run-once batch (BatchSpec).
ImplementsBatch == Batch!Spec
===============================================================================
