# authzer: a verification project

TLA+ models of `authzer`, a command that keeps portal memberships in line with
a declarative RBAC policy by driving a browser over CDP (or an HTTP API inside
it). The models are written from the Go source, checked with TLC on small
instances and, where it matters most, proved with TLAPS for every value of
their constants. Line numbers refer to `src/`.

## The system

A run of `authzer apply` goes through these parts, in this order:

1. settings and the signal context (`main.go`, `cmd/root.go`);
2. the policy: roles, aggregation, bindings, groups, resolved to a list of rules
   (`cmd/rbac.go`), narrowed to the RESOURCE arguments (`filterRules`);
3. the provider that lists the memberships: browser or API
   (`cmd/provider_cdp.go`, `cmd/provider_api.go`), chosen by a registry;
4. the planner, which compares rules with memberships (`cmd/reconcile.go`);
5. the executor, a pool of worker goroutines that calls the provider once per
   planned item and reports (`cmd/apply.go`);
6. inside a call, the browser automation of one tab (`cmd/cdp.go`).

`get` fills two cache files that the planner, `status` and `describe` read. A
registry file of contexts and trusted sources (`contexts.yaml`) is changed by
`config`, `import` and `trust`, each a short-lived process of its own.

| Component | State it keeps | Operations | What makes it correct |
|---|---|---|---|
| Executor (`apply.go` 317-441) | channel `sem`, wait group, tallies, results, context | dispatch, abort, call, tally, release, report | bounded, once per item, no result lost, true report, ends |
| Browser call (`cdp.go` 403-581, `provider_cdp.go` 108-154) | a tab and its context, timeout, the form | open, wait, click, fill, submit, close | dry run submits nothing, tabs as promised, honest answers, ends |
| Planner (`reconcile.go`, `root.go` 149-196, `apply.go` 474-697) | lookup maps, claimed names, the plan | filter, plan a rule, plan an undeclared membership | every membership judged once, nothing held is requested, preview = plan |
| RBAC policy (`rbac.go`) | maps of roles and groups, ordered bindings | parse, aggregate, resolve | every granted resource once, last binding wins |
| API backend (`provider_api.go`) | cached list and its mutex, a tab for requests | list, check, validate, submit | no submit before a validation or in a dry run, honest answers, failures counted as failures |
| Provider registry (`provider.go`, `provider_registry.go`) | kind to provider | register, look up | one provider per kind |
| Survey (`get.go` 233-281, `cdp.go` 848-1037) | channel, wait group, results, tabs | dispatch, visit, record, collect | bounded, no tab left over, ends |
| Get and caches (`get.go`, `status.go`, `describe.go`) | two cache files | list, survey, write, read, summarise | a refresh is complete, status agrees with get |
| Context registry (`context.go`, `config.go`) | `contexts.yaml` | load, save, register, use | current context exists; no entry lost by commands that do not overlap |
| Import (`import.go`) | a directory of files, then the registry | verify, render, write, register | registered implies complete |
| Trust (`trust.go`) | trusted sources in the registry | add, remove, verify | a source is verified by what was trusted when asked |
| Launch (`launch.go`) | browser process, CDP port | start, poll | ready or an error, never both |
| Doctor, azcli, audit log | none, none, an append-only file | probe, run, append | - |

What is hard here is concurrency in the executor (goroutines, a channel, a wait
group, an atomic, a mutex and a context cancelled by a signal), the relation
between that pool and tabs whose lifetime depends on the dry-run level, waits on
a page that may never come back, a submit whose acknowledgement may be lost, a
join over two keys through a cache of another age, files shared by
processes that do not lock and cut off by crashes, and loops over Go maps whose
order reaches the result. `PROJECT.json` lists each hazard at its line with
the properties that watch it.

## Modules

| Module | Models | Role |
|---|---|---|
| `BatchSpec` | what `apply` promises of a batch, for any backend | abstract specification |
| `ApplyRun` | the pool of `runApply`, provider call open | implements `BatchSpec` |
| `CdpApply` | `ApplyRun` with `CDPProvider.Apply` and `renewResource` as its call | composition |
| `ApiApply` | `ApplyRun` with `APIProvider.Apply` as its call | composition |
| `Reconcile` | `filterRules`, `Reconcile`, the planner of `--dry-run=client` | component |
| `Rbac` | `parsePolicy`, `resolveAggregation`, `Policy.Resolve` | component |
| `Survey` | the pool of `surveyResources` and the visit of `surveyResource` | actions only, a part of `Get` |
| `Get` | `get` (and the listing of `apply`) over the two cache files, the answer of `status` | composition with `Survey` |
| `AtomicRegistry` | `contexts.yaml` changed by one command at a time | abstract specification |
| `ContextRegistry` | `import`, `use`, `trust`, `untrust` as processes over the registry file | component, implements `AtomicRegistry` when commands do not overlap |
| `MC...` | instances for TLC | |
| `ApplyRunProofs`, `CdpApplyProofs`, `ApiApplyProofs`, `ContextRegistryProofs`, `SurveyProofs`, `GetProofs`, `RbacProofs`, `ReconcileProofs` | theorems | |

The definitions named `... Fault:` in a comment are wrong variants of the next
definition, each a mistake the code could contain. No specification uses them.
They exist so that every checked property can be seen to fail: substituting the
variant for the definition makes TLC report a violation of the property.

### ApplyRun

`pc` and `next` are the main goroutine's place in the loop, `worker[i]` that of
item i's goroutine:

    none -> calling -> counted -> recorded -> released -> done
         Dispatch  Return     Record      Release     Done

The deferred calls run in reverse order, hence the slot goes back (`Release`)
before the wait group is told (`Done`). `Dispatch` is enabled when the channel
has room even if the context is cancelled, because Go's `select` picks at random
between ready cases; `Abort` needs the cancellation. `Record` is one step since
each of its three branches tallies and appends in one critical section.
`Cancel` may happen at any moment before the report. `Outcome` is a constant:
each answer says whether either of the two errors was set, and its action.
The audit log, the printed lines and the order of `results` in the output are
not modelled; the order of `results` itself is.

### CdpApply

`stage[i]` cuts `renewResource` where another actor can make a difference:

    idle -> loading -> dialog -> submit -> settle -> answered

`Enter` covers the refusal of a rule without selfLink, unreadable scripts and the
creation of the tab; `PageReady` everything from the ready selector to the
click on the trigger; `DialogReady` from the dialog selector to the filled
form; `Submit` the search for the button and the click. A step that needs the
tab is guarded by `Alive`: the context descends from the one SIGINT cancels, and
from the timeout in mode `none` only. An element may never appear, so the waits
carry no fairness. A click is a script in the page: the second disjunct of
`Submit` is the click the portal acted on and whose reply was lost. Fields that
cannot be filled are logged only, so `form` may be `partial` under a submit. The
loops that look for the option and poll the form are bounded and never fail the
call; they are part of `DialogReady`. An interruption may or may not close open
tabs, which is a race inside chromedp (`CdpCancel`).

`plan` is what the planner hands over: rules with or without a selfLink, then
undeclared memberships, whose `Rule` is empty.

### ApiApply

The second backend answers the same pool. `stage[i]` follows a call of
`APIProvider.Apply` between the points where the portal or a signal can act:

    idle -> validating -> checked -> submitting -> answered

`Enter` skips the validation when no endpoint is configured; `ValidateReply` and
`SubmitReply` are the portal's verdicts; `Proceed` is the branch on the dry run;
`Lost` is a request that ends in an error, before or after the portal acted on
it. `validated[i]` and `accepted[i]` are the portal's side. A rejected validation
(`Invalid`) comes without an `Error`, a rejected submit (`Rejected`) with one.
The tab that carries all requests descends from the root context (`Alive`) and
has no timeout. Its page runs requests one after the other; the model lets
them overlap, which includes every serial order. Requests over plain HTTP
(`doRequestHTTP`) are used by tests only. `List` fills a cached list under a
mutex and `Apply` drops it; the list is read before the pool starts and by
nothing after, so the cache is not part of this module.

### Reconcile

One step per loop iteration, over inputs fixed in the initial state: resolved
rules, listed memberships, the details cache, `excludeResources`, arguments.
`LastOf` is a Go map filled in a loop: the last of several entries of a key
stays. `ClientPlan` is the second copy of the loops (`runApplyClient`), as the
set of entries it prints; `ClientPlanAgrees` compares it with the plan, and asks
of the plan that its entries come in the order of the loops (`Before`): rules
first, then undeclared memberships, each by position. It differs from the first: it joins by name only and requests missing
rules without a selfLink. Abstracted: permissions and roles (carried along,
never compared), dates (to the answer of `isExpiringWithin`; dates in none of
the six formats never expire), letter case (`strings.ToLower` for arguments and
exclusions; names differing in case only are one name here), and the difference
of a daylight-saving hour between the two planners' thresholds.

### Rbac

One step per iteration of a loop, `at` naming the loop under way:

    parse -> aggregate <-> merge,  aggregate -> lookup -> bindings -> rules -> resolved

A document that cannot be decoded or has an unknown kind, an unknown group, a
group without bindings and a role without a document end in `refused`. Files of
documents and a `List` of items reach `addResource` in the same way and are one
sequence here. Both loops of `resolveAggregation` range over a Go map: they take
any element of the set of keys not visited yet (`unvisited`, `others`). `Put` is
the index map `seen` with its replacement in place. The reference the properties
are stated against (`Sources`, `Granting`, `LastWord`, ...) looks at the
documents only and shares nothing with the steps but `Concerns`.

### Survey and Get

`Survey` is the second worker pool of the program. `worker[i]` follows the
goroutine of page i:

    none -> started -> page -> dialog -> closed -> recorded -> released -> done
        Dispatch   Visit  PageReady DialogReady  Record    Release     Done

The tab is open in `page` and `dialog`; every return of `surveyResource` closes
it before the goroutine stores its result, hence `closed` comes before
`recorded`. Each visit may be refused by the browser, expire (`Expire`) or be
interrupted; `found[i]` keeps what the page had given up by then: nothing, or
its ID and name (`seen`). Dispatch and interruption race in a `select` as in
`ApplyRun`. Unlike there, results are stored by index, the timeout covers each
visit, and slots that were never filled are dropped at the end (`Processed`).
Every loop that keeps some elements of a slice in their order is one operator,
`Subsequence`, applied to the indices kept: the processed slots, the deduplicated
listing, the pages of undeclared memberships.

`Get` is one user's sequence of commands:

    idle -> (login ->) listing -> saveList -> writeList -> plan
         -> managed -> undeclared -> saveDetails -> writeDetails -> print -> idle

`apply` takes the first half only, in place (`leave`): what it does afterwards
is `Reconcile` and `ApplyRun`. With the API backend, which first waits for its
login page, and with a details cache at hand, `plan` goes straight to `print`.
The two halves of `os.WriteFile` are steps, so a crash (`Die`), a full disk
(`LoseList`, `LoseDetails`) or both leave an old, a torn or a new file. A torn
file is one whose reading yields no entries. A signal (`Cancel`) is noticed by
the waits and the loop and by nothing else, as in the code: an interrupted get
still writes what it has and prints its summary. `ListRefused` and `PolicyFails`
are the errors of set-up, listing and policy; the argument that matches no rule
is among the latter.

A membership tells its name always, its ID and address perhaps. A page gives its
ID and name, or neither. Rules name a resource by ID or by display name, exactly
or in another letter case; `get`'s summary compares letter by letter and `status`
folds case, and the two copies of the join are two operators (`Missing`,
`Check`). Left out: memberships of kind Group, the content of forms, the filters
of the printed tables, and `--dry-run=client`, which only reads.

### ContextRegistry

A process is one command of the user, `at[p]` its place:

    idle -> verify -> prompt -> files -> first -> load -> save -> write -> idle

Only an import takes the first half. It verifies its source against the trust
lists (`Verify`), waits for the user's values (`Prompted`), writes the files of
the pack one by one (`WriteFile`), looks whether the context will be the first
(`First`) and then registers it. Every command ends with the same three steps:
`Load` reads the registry and changes it in memory (`held`), `Truncate` and
`Write` are the two halves of `os.WriteFile`. `Die` is a kill, a template that
does not render or a write that fails, at any place; a file being written may
stay cut off (`Torn`). The one system call that writes the small registry file
is taken as atomic. An absent, an empty and a truncated registry read alike and
are one value, `Fresh`. `Start` includes the check of `initConfig` that the
current context can be resolved.

`serial` is chosen in the initial state: whether this user runs one command at a
time. Without a lock, overlapping commands lose each other's entries; the code
promises nothing there, and the module claims only what holds all the same
(`CurrentExists`, `RegisteredHasFiles`, `NoFallthrough`). One at a time, the
commands implement `AtomicRegistry` (`SerialIsAtomic`): the refinement maps a
truncated file to what its writer holds, and a crash between the halves is the
abstract `Wipe`.

A trustee is a method with a name. A source's evidence is its host and the
signatures that could be fetched next to it; whether cosign or ssh-keygen
accepts one is whether its signer is trusted.

## What is checked

| Run | Instance | Shows |
|---|---|---|
| `apply_pool` | 4 items, 2 slots, 3 answers | all properties of `ApplyRun`, refinement of `BatchSpec`, termination |
| `cdp_apply` | 2 items, 1 slot, both modes, timeout set | safety of tabs and submits; termination by timeout (mode `none`) and by signal |
| `api_apply` | 3 items, 2 slots, 4 settings | what the portal took in against what is reported; gating by validation and dry run; end by signal |
| `planner` | 2 resources, 2 names, up to 2 rules, 2 memberships, 2 arguments | the join, exhaustively; agreement of the two planners |
| `registry` | 2 processes, 2 contexts, 2 files, 2 trustees, 4 sources | what survives overlaps and crashes; serial commands implement `AtomicRegistry` |
| `rbac` | files of up to 5 of 8 documents in every order, 3 roles, 2 resources | what the resolved list contains and which rule wins, for every order of documents and maps |
| `get` | 2 pages, 1 slot, 5 kinds of command, 2 in a row | tabs, cache files and summary under failures, signals and crashes; a command ends |
| `undeclared_renewal` | all options | violated, see below |
| `accept_terms_flag` | all options | violated, see below |
| `duplicate_names` | as `planner` | violated, see below |
| `api_failures_counted` | 2 items, 2 slots | violated, see below |
| `import_sets_current` | as `registry` | violated, see below |

Bounds. Four items over two slots let the loop block on a full channel twice,
workers overtake each other and a cancellation fall before, between and after
starts. In `cdp_apply` the second item waits for the slot of the first, so a
tab that outlives its slot is seen; tabs interact through the pool only, and the
theorems cover every other size. `api_apply` has a third item for a slot that
becomes free while another call is under way. In `planner` two memberships and two rules are
the least with which names and IDs can cross, and an argument pair can name one
rule twice. In `registry` two processes suffice for every order of two
load-change-save sequences, a key and a domain for a chain in which one method
must not hide the other, and two files for a crash between them; there is one
version of a pack, because a file that is not of the pack at hand can be a torn
one. Processes and contexts are symmetric there: nothing but equality is asked of
them, and all properties of that run are invariants or action properties. No
other run uses symmetry, none a state constraint, and no counter needs a bound.

In `rbac` the eight documents hold two plain roles that overlap, one of them in
two versions, an aggregate role in two versions (one or two selectors, with and
without rules of its own) and a binding to each; five (`MaxDocs`) are enough for
an aggregate, its two members and two bindings. Files that may also lack the
group, bind a user or hold an unknown kind have up to three documents
(`MaxMixed`). In `get` one slot for two pages makes the loop block, and two
commands (`MaxCommands`) are the least with which one finds what another left:
an absent, torn, narrowed or complete cache. The tables have a membership
outside the policy, and two entries without an ID that the API backend takes for
one. `MaxJobs` bounds the pages of one survey; the policies and tables stay
within it (`GetAssumption`), so `Launch` is never held up by it.

Properties that hold under a condition say so in their definition:
`EveryMembershipJudged` needs distinct names, `OnePlanPerMembership` keys that
agree (`KeysAgree`) and distinct rules, `ClientPlanAgrees` a complete details
cache and rules with a selfLink. TLC reaches many states that meet each.

Fairness. `ApplyRun`: weak fairness of the main goroutine and of every worker
(the Go scheduler runs what can run) and of the provider's answer, which is an
assumption about the provider. `CdpApply` discharges it: fairness is assumed of
goroutines, of timers (`Expire`), of chromedp calls on a dead context (`GiveUp`)
and of the calls that come back whatever the page does (`Prompt`), and not of
the appearance of pages, dialogs or signals. Hence `TimeoutEndsRun` is claimed
for mode `none` with a timeout, `CancelEndsRun` for every run that is
interrupted; a mode `server` run on a page that never appears does wait for the
user, as the code does. `ApiApply` assumes the same of goroutines and dead
contexts, and nothing of the portal: `ApiCancelEndsRun` covers a portal that
never replies. `Get` assumes it of goroutines, timers and dead contexts too, and
nothing of pages, tables, replies or the user: `GetEnds` is claimed for the
browser backend with a timeout and, for both backends, once the user interrupts;
the API backend's login page and list request have no timeout and may keep a
command waiting. `Ends`, `TimeoutEndsRun` and `GetEnds` are about a concurrency of
at least 1: with 0 the loop waits for a slot until it is interrupted.

### Where documentation and code differ

- `undeclared_renewal`: the help and README.md:26-27 promise that expiring
  undeclared memberships are renewed. The planner plans it, with an empty
  `Rule`, and `CDPProvider.Apply` refuses what has no selfLink
  (`provider_cdp.go` 148-153). The listing's own `SelfLink` is not passed on.
- `accept_terms_flag`: README.md:224 says that `--accept-terms` ticks terms. The
  backend reads the viper key `acceptTerms` (`provider_cdp.go` 120), which is
  never bound to the flag.
- `duplicate_names`: README.md:25 says that expiring memberships are renewed.
  With one name listed twice (two roles, say), a rule finds the last one and
  `claimedNames` hides the other, which then is in no entry of the plan.
- `api_failures_counted`: `ApplyResult.Action` has the value "failed"
  (`provider.go` 43), and a refused validation uses it with `Error` nil
  (`provider_api.go` 457-480). The pool looks at `Error` alone, counts the item
  as applied and reports no failure.
- `import_sets_current`: the help of `config import` (`import.go` 35-36) and
  README.md:379-380 say that the imported context becomes the current one. It
  does so only when it is the first, or none is current (`import.go` 191-195,
  `context.go` 119-121), as docs/configuration.md:533 says.

### Read, not run

Observations made while modelling that no run checks as such.

- Which of several roles behind one aggregate has the last word on a resource is
  decided by the order of a Go map (`rbac.go` 141, 146), so equal policies may
  resolve to different permissions from run to run. `LastBindingWins` states what
  holds for every order. types.go:109-110 speaks of the order of documents;
  `tlc -config MCRbacOrder.cfg MCRbac` shows two orders that differ.
- An interrupted `get --refresh` overwrites a complete details cache with the
  pages it had reached (`get.go` 189), and a torn or empty cache counts as
  present, so that a plain `get` does not survey again (`get.go` 135, 442-445).
- A declared resource whose page failed is surveyed a second time as undeclared,
  since a failed page has no ID (`get.go` 162, 167), and `describe` then says it
  is not in the policy. Once a page has failed, memberships without an ID are not
  surveyed at all. `RefreshIsComplete` states the conditions without which this
  happens.
- The API backend takes memberships without an ID but with equal roles for
  duplicates, whatever their names (`provider_api.go` 344).
- A membership held under a rule that uses its display name counts as
  "Undeclared" in the summary although the rule is not "Missing" (`get.go`
  494-524).

## What is proved

For every plan length, every concurrency (0 included) and every set of answers
(`PoolAssumption`, `OutcomeAssumption`), `ApplyRunProofs` shows `Spec => []P` for
`TypeOK`, `CallsBounded`, `ResultsMatch`, `TalliesMatch` and `ReportIsFinal`, and
that `ApplyRun` implements `BatchSpec`. None of these is inductive alone: that
at most `Concurrency` calls run follows from the channel's count only if the
count is known to equal the number of workers that hold a slot. `IInv` adds
exactly that (`CountersTrue`), that goroutines started are those the loop has
passed (`Frontier`), that workers past the call hold an answer (`Answered`) and
when the loop may be left (`LoopLeft`). The counting is in two lemmas on how a
set of workers selected by state changes when one worker moves. The refinement
maps a worker in its call, or not yet past its critical section, to `running`.
Each of `Dispatch`, `Record` and `Report` is then one step of the batch, `Cancel`
is its `Stop`, and all else stutters.

`CdpApplyProofs` shows first that every step of `CdpApply` is a step of the pool
or leaves it alone (`CdpRunsThePool`), which carries all of the above over to
the browser backend; then, with the inductive `CdpIInv` (a tab is driven only
during its worker's call; the portal has the form exactly from the click on;
tabs by stage and mode), that a dry run submits nothing, that reports agree with
the portal, and that tabs are kept, closed and bounded as promised, for every
option set within `OptionType`.

`ApiApplyProofs` does the same for the API backend. That a call returns one of
the answers the pool expects is itself part of the invariant here, so the two
invariants are proved together (`ApiInvariance`) and `ApiRunsThePool` follows.
`ApiIInv` ties the portal's side to the stage of the call (`PortalByStage`) and
the stage to the worker (`CallFollowsWorker`).

`SurveyProofs` and `GetProofs` hold for any policy, table, number of pages and
concurrency, and any sequence of commands, crashes and failed writes. `PoolInv`
says what the counters of the survey count and that no goroutine lives between
surveys; everything the pool does and everything `Get` does to it keeps it, with
`Phases` tying the pool to the command's place. From it follows
`TabsComeAndGo`. `StatusAgrees` needs that what is printed is what is in the
files by then (`Saved`) and that the two joins agree over the same memberships
and details (`JoinsAgree`), which is about the operators alone.

`RefreshIsComplete` is the longest argument of these. What a survey returns is
known only if each goroutine is known to carry its own job's address through
fill and store, and the loop to have started every job unless a signal came
(`Carried`); when the wait group is at zero all of them are `done`, so every slot
holds the address of its job (`AllRecorded`). Which slots are then kept is a
matter of subsequences: the rank of an index among those kept grows with the
index and takes every value, so equal sets of indices give equal lists
(`RankGrows`, `NthType`, `NthOfRank`), and a run of consecutive indices is kept as
it is (`NthOfInterval`), which takes the appended list apart again (`Apart`).
`Surveyed` follows the command: the jobs of the first survey are the rules, the
details are then its results and the jobs of the second what they do not account
for, and the details are at last complete. That an ID seen is one of the policy
(`SeenIsPolicy`) needs every page to have told its ID, hence the condition in the
property. `GetTypeOK` rests on the same invariants; a bound on the loop's index,
for example, needs the jobs to fit, and a command's argument names a last rule
only because it is known to name one.

`RbacProofs` shows for every file and every order of the maps that reading,
aggregating and resolving keep their types (`IInv`), and what the resolved list
is. `PolicyInv` says of each stage what it has drawn from the documents: the map
holds the last document of a role (`RolesRead`); the bindings are those read, in
their order (`BindingsRead`, an increasing enumeration of their positions); an
role that has been visited draws on itself or, if it is an aggregate, on the
plain roles its selectors select, whatever order those were visited in
(`RolesFilled`, `MergedSoFar`, over `Draws`, which mentions no order except that
of the rules within one role); the names taken are those of the bindings that concern the group
(`NamesGathered`); and the list has for each resource the last rule taken
(`RulesTaken`). The first part speaks of maps and therefore of sets, the last of
positions, and both are needed: the order of the maps must not reach the answer,
the order of the bindings must. `EveryResourceOnce` and `LastBindingWins` follow
at `resolved`, where all has been taken.

`ReconcileProofs` holds for any rules, tables, caches, exclusions and arguments.
`PlanInv` says that every entry is the verdict on a rule or on a membership no
rule claimed (`Explained`), that entries come in the order of the loops
(`InOrder`), and that nothing passed so far lacks the entry it should have
(`RulesCovered`, `HeldCovered`), with what the claims mean (`ClaimedByRules`) and what the
arguments selected (`Filtered`). No part is inductive without `Shape`, and
`OnePlanPerMembership` needs all of them: two rules on one membership would be one
rule, a rule's membership is claimed and so never taken up by the second loop.
`LastOf`, the map filled in a loop, is a maximum; that a set of indices has one
is shown from the well-founded inclusion of the sets of indices above.

`ContextRegistryProofs` holds for any number of processes, contexts, files and
trustees, overlapping and dying as they like. That no registry on disk names a
missing context or a context with missing files is inductive only together with
the same of every registry in some command's memory (`Sound(held[p])`), since
that is what the next write puts there, and with what an import has written so
far (`Progress`). From `RegistryIInv` follow `CurrentExists` and
`RegisteredHasFiles`; `NoFallthrough` rests on the step of `Verify` and on
methods having distinct ranks. No step removes a file, and that is needed.

For commands that do not overlap, `SerialIInv` adds that at most one process is
under way and what it may rely on (`Undisturbed`): the files it has written are
as it wrote them, what it holds in memory is a change of the registry that is
still on disk, the registry it truncated is still empty. With that,
`ImportIsWhole` holds, and every step maps to a step of `AtomicRegistry` or a
stutter (`SerialCommandsAreAtomic`): `Truncate` is the abstract change, `Write`
stutters because the abstract registry already was what the writer holds, and a
death between them is `Wipe`.

Model-checked only: the liveness properties (`Ends`, `TimeoutEndsRun`,
`CancelEndsRun`, `ApiCancelEndsRun`, `GetEnds`), which rest on fairness and
enabledness and are out of the prover's reach. Every other property of a passing
run is a theorem. Recursive operators and the folds and filters of the libraries
are opaque to the prover; where a loop had to be reasoned about, the model says
what it selects (`Subsequence`, `Draws`, `ClientPlan`), and TLC evaluates the very
definitions the proofs use.

## Plan

1. Done: `BatchSpec`, `ApplyRun`, `CdpApply`, `Reconcile`, the proofs above.
2. Done: `ApiApply`, the pool over the API backend, and its proofs.
3. Done: `AtomicRegistry`, `ContextRegistry` and its invariance proofs.
4. Done: `Rbac`, `Survey`, `Get`, and the proofs above.
5. Done: proofs of `Rbac` (what the resolved list is), `Reconcile`,
   `ImportIsWhole`, the refinement `SerialIsAtomic`, and `RefreshIsComplete`.
6. Open: `Get` composed with `Reconcile` and `ApplyRun` into repeated runs, with
   convergence as the question; `Launch`.

## What is not modelled and why

Parsing and rendering (YAML, templates, JavaScript, dates), output formats and
logging carry no state the properties depend on. `renewMembership` in `cdp.go`
is called by tests only. Doctor and the Azure CLI wrapper are independent
read-only probes. The precedence of flags, environment and configuration files
is viper's. `describe`, `config view` and the other readers of files, and what
the commands print, change nothing. `Launch` starts a browser and polls its
port: two processes and one poll, still open. The two Azure providers wrap the
`az` command. What the browser does with open tabs after the program has ended is
outside the program. `PROJECT.json` lists every component with its status.
