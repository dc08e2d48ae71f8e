------------------------------- MODULE Survey -------------------------------
(***************************************************************************)
(* The deep survey of "authzer get": surveyResources (cmd/get.go) visits   *)
(* the page of every resource it is given, one goroutine and one browser   *)
(* tab each, at most "concurrency" of them at a time; surveyResource       *)
(* (cmd/cdp.go) is one such visit.                                         *)
(*                                                                         *)
(* The module has the actions and no specification of its own: Get starts  *)
(* the pool with Launch and takes the results with Collect.                *)
(***************************************************************************)
EXTENDS Integers, FiniteSets, Sequences

CONSTANTS
  Res,           \* resources of the portal; each stands for its ID, its name
                 \* and the address of its page
  Empty,         \* the empty string: no ID, no selfLink
  Concurrency,   \* the "concurrency" setting
  HasTimeout,    \* survey.timeout is positive
  MaxJobs        \* bound: pages in one survey

ASSUME SurveyAssumption ==
  /\ Empty \notin Res
  /\ Concurrency \in Nat
  /\ HasTimeout \in BOOLEAN
  /\ MaxJobs \in Nat

VARIABLES
  cancelled,     \* the root context is done (SIGINT or SIGTERM)
  main,          \* surveyResources: "off", "dispatch", "wait"
  jobs,          \* the selfLinks to visit
  next,          \* index of the loop
  sem,           \* tokens in the channel
  wg,            \* the wait group's counter
  worker,        \* worker[i]: where the goroutine of job i is
  expired,       \* jobs whose timeout has passed
  found,         \* found[i]: the Resource that surveyResource fills in
  results        \* results[i]: what has been stored for job i

poolVars == <<main, jobs, next, sem, wg, worker, expired, found, results>>
surveyVars == <<cancelled, poolVars>>

Job == 1..MaxJobs

\* seen: the page has given up its ID and name.  Resource.Error and what the
\* pages and forms say besides are only ever shown to the user.
Entry == [link : Res \cup {Empty}, seen : BOOLEAN]

\* The zero Resource, in a slot of `results` that nobody has filled.
Zero == [link |-> Empty, seen |-> FALSE]

WorkerState ==
  {"none", "started", "page", "dialog", "closed", "recorded", "released",
   "done"}

InState(S) == {i \in Job : worker[i] \in S}

\* The jobs that have a tab open, a slot, a place in the wait group.
OpenTabs == InState({"page", "dialog"})
Holding == InState({"started", "page", "dialog", "closed", "recorded"})
Live == InState({"started", "page", "dialog", "closed", "recorded", "released"})

PoolInit ==
  /\ main = "off"
  /\ jobs = <<>>
  /\ next = 1
  /\ sem = 0
  /\ wg = 0
  /\ worker = [i \in Job |-> "none"]
  /\ expired = {}
  /\ found = [i \in Job |-> Zero]
  /\ results = [i \in Job |-> Zero]

Reset(links, m) ==
  /\ main' = m
  /\ jobs' = links
  /\ next' = 1
  /\ sem' = 0
  /\ wg' = 0
  /\ worker' = [i \in Job |-> "none"]
  /\ expired' = {}
  /\ found' = [i \in Job |-> Zero]
  /\ results' = [i \in Job |-> Zero]

\* surveyResources is called: channel, wait group and results are made anew.
\* MaxJobs is a bound of the model; no command may ask for more pages.
Launch(links) == Len(links) \in 0..MaxJobs /\ Reset(links, "dispatch")

\* The process is gone.
PoolOff == Reset(<<>>, "off")

-------------------------------------------------------------------------------
(* surveyResources: the loop. *)

\* The select may take the send even when the context is done.
Dispatch ==
  /\ main = "dispatch"
  /\ next <= Len(jobs)
  /\ sem < Concurrency
  /\ sem' = sem + 1
  /\ wg' = wg + 1
  /\ worker' = [worker EXCEPT ![next] = "started"]
  /\ next' = next + 1
  /\ UNCHANGED <<cancelled, main, jobs, expired, found, results>>

Abort ==
  /\ main = "dispatch"
  /\ next <= Len(jobs)
  /\ cancelled
  /\ main' = "wait"
  /\ UNCHANGED <<cancelled, jobs, next, sem, wg, worker, expired, found,
                 results>>

EndLoop ==
  /\ main = "dispatch"
  /\ next > Len(jobs)
  /\ main' = "wait"
  /\ UNCHANGED <<cancelled, jobs, next, sem, wg, worker, expired, found,
                 results>>

\* The elements of s at the indices in I, in their order: what a loop that skips
\* some of the elements appends.
Rank(I, i) == Cardinality({h \in I : h <= i})
Nth(I, j) == CHOOSE i \in I : Rank(I, i) = j
Subsequence(s, I) == [j \in 1..Cardinality(I) |-> s[Nth(I, j)]]

\* Fault: wg.Wait is forgotten.
CollectableAtOnce == main = "wait"

\* wg.Wait() returns.
Collectable == main = "wait" /\ wg = 0

\* Fault: every slot is passed on.
HasSlot(e) == TRUE

\* The slots without a selfLink are dropped: zero values of jobs that never
\* ran, and jobs that had no address to begin with.
HasLink(e) == e.link # Empty
Processed == Subsequence(results, {i \in DOMAIN jobs : HasLink(results[i])})

\* It returns; what it worked on is forgotten.
Collect ==
  /\ Collectable
  /\ main' = "off"
  /\ jobs' = <<>>
  /\ expired' = {}
  /\ found' = [i \in Job |-> Zero]
  /\ results' = [i \in Job |-> Zero]
  /\ UNCHANGED <<next, sem, wg, worker>>

-------------------------------------------------------------------------------
(* surveyResource: one visit.  Its context descends from the root context   *)
(* and carries the timeout; a return closes the tab (defer tabCancel).      *)

Alive(i) == ~cancelled /\ i \notin expired

Step(i, to) ==
  /\ worker' = [worker EXCEPT ![i] = to]
  /\ UNCHANGED <<cancelled, main, jobs, next, sem, wg, expired, results>>

Fill(i, seen) == found' = [found EXCEPT ![i] = [link |-> jobs[i], seen |-> seen]]

Keep(i) == Fill(i, found[i].seen)

\* Scripts that cannot be read end the visit before a tab is opened.
Visit(i) ==
  /\ worker[i] = "started"
  /\ \E to \in {"page", "closed"} : Step(i, to)
  /\ Fill(i, FALSE)

\* The ready selector shows; the page script names the resource, or the page
\* has no ID to give, or the script fails; the trigger is clicked, or is not
\* found.
PageReady(i) ==
  /\ worker[i] = "page"
  /\ Alive(i)
  /\ jobs[i] # Empty
  /\ \E seen \in BOOLEAN : Fill(i, seen)
  /\ \E to \in {"dialog", "closed"} : Step(i, to)

\* The dialog shows; the bounded searches for the option and for form elements
\* never fail the visit, and whether the form script does makes no difference
\* here.
DialogReady(i) ==
  /\ worker[i] = "dialog"
  /\ Alive(i)
  /\ Step(i, "closed")
  /\ Keep(i)

\* The browser refuses at once: an address it cannot open, a connection lost.
Refused(i) ==
  /\ worker[i] \in {"page", "dialog"}
  /\ Step(i, "closed")
  /\ Keep(i)

Expire(i) ==
  /\ HasTimeout
  /\ worker[i] \in {"page", "dialog"}
  /\ i \notin expired
  /\ expired' = expired \cup {i}
  /\ UNCHANGED <<cancelled, main, jobs, next, sem, wg, worker, found, results>>

\* Fault: the timeout does not reach the waits.
GiveUpOnSignal(i) ==
  /\ worker[i] \in {"page", "dialog"}
  /\ cancelled
  /\ Step(i, "closed")
  /\ Keep(i)

\* A wait on a dead context returns an error; what the page gave up before is
\* kept.
GiveUp(i) ==
  /\ worker[i] \in {"page", "dialog"}
  /\ ~Alive(i)
  /\ Step(i, "closed")
  /\ Keep(i)

-------------------------------------------------------------------------------
(* The rest of the goroutine. *)

\* results[idx] = res, under the mutex; the visit's context is let go.
Record(i) ==
  /\ worker[i] = "closed"
  /\ worker' = [worker EXCEPT ![i] = "recorded"]
  /\ results' = [results EXCEPT ![i] = found[i]]
  /\ found' = [found EXCEPT ![i] = Zero]
  /\ expired' = expired \ {i}
  /\ UNCHANGED <<cancelled, main, jobs, next, sem, wg>>

\* The deferred <-sem runs before the deferred wg.Done().
Release(i) ==
  /\ worker[i] = "recorded"
  /\ worker' = [worker EXCEPT ![i] = "released"]
  /\ sem' = sem - 1
  /\ UNCHANGED <<cancelled, main, jobs, next, wg, expired, found, results>>

Done(i) ==
  /\ worker[i] = "released"
  /\ worker' = [worker EXCEPT ![i] = "done"]
  /\ wg' = wg - 1
  /\ UNCHANGED <<cancelled, main, jobs, next, sem, expired, found, results>>

-------------------------------------------------------------------------------
Loop == Dispatch \/ Abort \/ EndLoop

\* What a goroutine does whatever the page does, and what the page may do.
Prompt(i) == Visit(i) \/ GiveUp(i) \/ Record(i) \/ Release(i) \/ Done(i)
Page(i) == PageReady(i) \/ DialogReady(i) \/ Refused(i)

Survey == Loop \/ \E i \in Job : Prompt(i) \/ Page(i) \/ Expire(i)

-------------------------------------------------------------------------------
SurveyTypeOK ==
  /\ cancelled \in BOOLEAN
  /\ main \in {"off", "dispatch", "wait"}
  /\ jobs \in Seq(Res \cup {Empty})
  /\ Len(jobs) <= MaxJobs
  /\ next \in 1..(MaxJobs + 1)
  /\ sem \in 0..Concurrency
  /\ wg \in 0..MaxJobs
  /\ worker \in [Job -> WorkerState]
  /\ expired \subseteq Job
  /\ found \in [Job -> Entry]
  /\ results \in [Job -> Entry]

\* Every counter is the number of workers it stands for, and only the loop of a
\* survey that is under way has started any.
SurveyCounters ==
  /\ sem = Cardinality(Holding)
  /\ wg = Cardinality(Live)
  /\ \A i \in Job : i >= next => worker[i] = "none"
=============================================================================
