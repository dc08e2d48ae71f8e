------------------------------ MODULE Reconcile ------------------------------
(***************************************************************************)
(* The planner of "authzer apply": filterRules (cmd/root.go) narrows the   *)
(* policy's rules to the RESOURCE arguments, Reconcile (cmd/reconcile.go)  *)
(* compares them with the memberships the provider listed, first rule by   *)
(* rule, then membership by membership for those no rule claimed.          *)
(* ClientPlan is the second planner, the one of --dry-run=client           *)
(* (runApplyClient in cmd/apply.go), which works from the cache files and  *)
(* has its own copy of the two loops.                                      *)
(*                                                                         *)
(* Rules and memberships are joined over two keys that different sources   *)
(* supply: the resource ID of the policy and the display name of the       *)
(* portal, with the details cache (ID to name) in between.  The inputs are *)
(* fixed in the initial state.  A membership's date is abstracted to       *)
(* whether isExpiringWithin holds of it: a date it cannot parse does not   *)
(* expire.  Names that differ in case only are not distinguished.          *)
(***************************************************************************)
EXTENDS Integers, FiniteSets, Sequences, FiniteSetsExt

CONSTANTS
  Resource,      \* resource IDs
  Name,          \* display names
  Inputs         \* the situations a run may meet

Empty == ""      \* a key that a source does not supply

RuleType == [resource : Resource \cup {Empty}, link : BOOLEAN]

\* Either key may be missing from what a provider lists.
AssignmentType ==
  [id : Resource \cup {Empty}, name : Name \cup {Empty}, expiring : BOOLEAN]

\* policy: what Policy.Resolve returned; assignments: what provider.List
\* returned; nameByID: the details cache; exclude: excludeResources; args: the
\* RESOURCE arguments, a resource ID, a display name or an address each.
InputType ==
  [policy : Seq(RuleType), assignments : Seq(AssignmentType),
   nameByID : [Resource -> Name \cup {Empty}], exclude : SUBSET Name,
   args : Seq(Resource \cup Name \cup {"url"})]

ASSUME InputsAssumption ==
  /\ Empty \notin Resource \cup Name
  /\ "url" \notin Resource \cup Name
  /\ Resource \cap Name = {}
  /\ Inputs \subseteq InputType
  /\ \A n \in Inputs : \A j, k \in DOMAIN n.policy :
        /\ n.policy[j].resource # Empty
        /\ n.policy[j].resource = n.policy[k].resource => j = k

VARIABLES
  input,         \* the run's inputs
  pc,            \* "filter", "rules", "undeclared", "done", "refused"
  rules,         \* the rules filterRules let through
  k,             \* index of the loop that runs
  claimed,       \* claimedNames
  actions        \* the plan so far

vars == <<input, pc, rules, k, claimed, actions>>

Init ==
  /\ input \in Inputs
  /\ pc = "filter"
  /\ rules = <<>>
  /\ k = 1
  /\ claimed = {}
  /\ actions = <<>>

Assignments == input.assignments
Held == DOMAIN input.assignments
Targeted == input.args # <<>>
Excluded(n) == n \in input.exclude

-------------------------------------------------------------------------------
(* filterRules. *)

\* nameByID[id] of a Go map: "" when there is no such key.
DisplayName(d) == IF d = Empty THEN Empty ELSE input.nameByID[d]

\* The last element put in a Go map under a key, 0 when there is none.
LastOf(S) == IF S = {} THEN 0 ELSE Max(S)

\* Index of the policy rule an argument names: by ID, then by display name.
Named(arg) ==
  LET byResource == {j \in DOMAIN input.policy : input.policy[j].resource = arg}
      byName == {j \in DOMAIN input.policy :
                   DisplayName(input.policy[j].resource) = arg}
  IN  IF byResource # {} THEN LastOf(byResource) ELSE LastOf(byName)

\* An address is a rule of its own, with no policy context.
RuleOf(arg) ==
  IF arg = "url" THEN [resource |-> Empty, link |-> TRUE]
                 ELSE input.policy[Named(arg)]

Missing == {j \in DOMAIN input.args :
              input.args[j] # "url" /\ Named(input.args[j]) = 0}

Filter ==
  /\ pc = "filter"
  /\ \/ /\ ~Targeted
        /\ rules' = input.policy
        /\ pc' = "rules"
     \/ /\ Targeted
        /\ Missing = {}
        /\ rules' = [j \in DOMAIN input.args |-> RuleOf(input.args[j])]
        /\ pc' = "rules"
     \/ /\ Missing # {}
        /\ pc' = "refused"
        /\ UNCHANGED rules
  /\ UNCHANGED <<input, k, claimed, actions>>

-------------------------------------------------------------------------------
(* Reconcile. *)

ByName(n) == LastOf({i \in Held : Assignments[i].name = n})
ByID(d) == LastOf({i \in Held : d # Empty /\ Assignments[i].id = d})

\* Fault: the fallback to the ID is missing, as it is in the client's planner.
MatchByNameOnly(r) ==
  IF DisplayName(r.resource) = Empty THEN 0 ELSE ByName(DisplayName(r.resource))

\* The membership a rule is about, by cached name first, then by ID.
Match(r) ==
  LET n == DisplayName(r.resource) IN
  IF n # Empty /\ ByName(n) # 0 THEN ByName(n) ELSE ByID(r.resource)

\* What a membership is due, by the first or by the second loop.
Verdict(i) ==
  IF Excluded(Assignments[i].name) THEN "excluded"
  ELSE IF Targeted \/ Assignments[i].expiring THEN "renew"
  ELSE "current"

\* One ReconcileAction: indices of the rule and of the membership, or 0.
Entry(r, i, action) == [rule |-> r, assignment |-> i, action |-> action]

\* Fault: a missing rule without selfLink is reported instead of skipped.
PlanMissingAsCurrent(r) ==
  actions' = Append(actions, Entry(k, 0, IF r.link THEN "request"
                                                   ELSE "current"))

\* No membership matches: request it, or skip a rule that has no selfLink.
PlanMissing(r) ==
  actions' = IF r.link THEN Append(actions, Entry(k, 0, "request"))
                       ELSE actions

\* Fault: the name put in claimedNames is the cache's, not the membership's.
ClaimDisplayName(i) == claimed \cup {DisplayName(rules[k].resource)}

Claim(i) == claimed \cup {Assignments[i].name}

\* One iteration of the first loop.
PlanRule ==
  /\ pc = "rules"
  /\ k <= Len(rules)
  /\ \/ /\ Match(rules[k]) # 0
        /\ LET i == Match(rules[k]) IN
           /\ claimed' = Claim(i)
           /\ actions' = Append(actions, Entry(k, i, Verdict(i)))
     \/ /\ Match(rules[k]) = 0
        /\ PlanMissing(rules[k])
        /\ UNCHANGED claimed
  /\ k' = k + 1
  /\ UNCHANGED <<input, pc, rules>>

\* Fault: undeclared memberships are planned under RESOURCE arguments too.
EndRulesUntargeted ==
  /\ pc = "rules"
  /\ k > Len(rules)
  /\ pc' = "undeclared"
  /\ k' = 1
  /\ UNCHANGED <<input, rules, claimed, actions>>

\* The second loop runs only without RESOURCE arguments.
EndRules ==
  /\ pc = "rules"
  /\ k > Len(rules)
  /\ pc' = IF Targeted THEN "done" ELSE "undeclared"
  /\ k' = 1
  /\ UNCHANGED <<input, rules, claimed, actions>>

\* Fault: a claimed membership ends the loop instead of being passed over.
PlanUndeclaredBreaks ==
  /\ pc = "undeclared"
  /\ k <= Len(Assignments)
  /\ \/ /\ Assignments[k].name \in claimed
        /\ pc' = "done"
        /\ UNCHANGED <<k, actions>>
     \/ /\ Assignments[k].name \notin claimed
        /\ actions' = Append(actions, Entry(0, k, Verdict(k)))
        /\ k' = k + 1
        /\ UNCHANGED pc
  /\ UNCHANGED <<input, rules, claimed>>

\* One iteration of the second loop.
PlanUndeclared ==
  /\ pc = "undeclared"
  /\ k <= Len(Assignments)
  /\ \/ /\ Assignments[k].name \in claimed
        /\ UNCHANGED actions
     \/ /\ Assignments[k].name \notin claimed
        /\ actions' = Append(actions, Entry(0, k, Verdict(k)))
  /\ k' = k + 1
  /\ UNCHANGED <<input, pc, rules, claimed>>

EndUndeclared ==
  /\ pc = "undeclared"
  /\ k > Len(Assignments)
  /\ pc' = "done"
  /\ UNCHANGED <<input, rules, k, claimed, actions>>

Terminated == pc \in {"done", "refused"} /\ UNCHANGED vars

Next ==
  \/ Filter
  \/ PlanRule \/ EndRules
  \/ PlanUndeclared \/ EndUndeclared
  \/ Terminated

Spec == Init /\ [][Next]_vars
-------------------------------------------------------------------------------
(* runApplyClient. *)

\* The client's planner knows memberships by name only; a rule that is not in
\* the details cache asks for the name "", which a membership may well have.
ClientMatch(r) == ByName(DisplayName(r.resource))

\* Fault: RESOURCE arguments do not force a renewal in the client's plan.
ClientVerdictByDate(i) ==
  IF Excluded(Assignments[i].name) THEN "excluded"
  ELSE IF Assignments[i].expiring THEN "renew"
  ELSE "current"

ClientVerdict(i) == Verdict(i)

\* Unlike Reconcile it requests a missing rule whether or not it has a selfLink.
ClientEntry(j) ==
  LET i == ClientMatch(rules[j]) IN
  Entry(j, i, IF i = 0 THEN "request" ELSE ClientVerdict(i))

\* The names that the client's first loop claims.
ClientClaimed ==
  {Assignments[i].name : i \in {ClientMatch(rules[j]) : j \in DOMAIN rules} \ {0}}

\* What --dry-run=client prints, for caches that hold these very inputs: an entry
\* for each rule and, without arguments, one for each membership not claimed.
ClientPlan ==
  {ClientEntry(j) : j \in DOMAIN rules} \cup
  {Entry(0, i, ClientVerdict(i)) :
     i \in {h \in Held : ~Targeted /\ Assignments[h].name \notin ClientClaimed}}

-------------------------------------------------------------------------------
(* Properties. *)

\* Entries of the plan by kind; each names a rule, a membership or both.
EntryType ==
  {e \in [rule : Nat, assignment : Nat,
          action : {"renew", "request", "current", "excluded"}] :
     /\ e.rule \in 0..Len(rules)
     /\ e.assignment \in 0..Len(Assignments)
     /\ e.assignment = 0 <=> e.action = "request"
     /\ e.rule = 0 => e.assignment # 0}

\* Shape of the state.
TypeOK ==
  /\ input \in Inputs
  /\ pc \in {"filter", "rules", "undeclared", "done", "refused"}
  /\ rules \in Seq(RuleType)
  /\ k \in Nat \ {0}
  /\ claimed \subseteq Name \cup {Empty}
  /\ \A j \in DOMAIN actions : actions[j] \in EntryType

Planned == {actions[j] : j \in DOMAIN actions}

\* No two memberships share a display name.
NamesDistinct ==
  \A i, j \in Held : Assignments[i].name = Assignments[j].name => i = j

\* The details cache and the portal's list tell one story: names and IDs are
\* unique on both sides, and where both know a name for an ID it is the same.
KeysAgree ==
  /\ NamesDistinct
  /\ \A i, j \in Held :
       Assignments[i].id = Assignments[j].id /\ Assignments[i].id # Empty => i = j
  /\ \A c, d \in Resource :
       DisplayName(c) = DisplayName(d) /\ DisplayName(c) # Empty => c = d
  /\ \A i \in Held, d \in Resource :
       DisplayName(d) # Empty =>
         /\ Assignments[i].id = d => Assignments[i].name = DisplayName(d)
         /\ Assignments[i].name = DisplayName(d) => Assignments[i].id \in {d, Empty}

\* No membership falls between the two loops (reconcile.go:75-152): as long as
\* names are distinct, a run without arguments judges every membership by its
\* own date and its own exclusion, whether a rule claimed it by name, by ID or
\* not at all; however stale the details cache is.
EveryMembershipJudged ==
  pc = "done" /\ ~Targeted /\ NamesDistinct =>
    \A i \in Held :
      /\ \E e \in Planned : e.assignment = i
      /\ \A e \in Planned : e.assignment = i =>
           e.action = IF Excluded(Assignments[i].name) THEN "excluded"
                      ELSE IF Assignments[i].expiring THEN "renew"
                      ELSE "current"

\* No membership is planned for twice (reconcile.go:86, 128), so the pool never
\* drives two forms for one membership at once; this needs the two keys to agree,
\* and arguments that do not name one rule twice.
OnePlanPerMembership ==
  KeysAgree /\ (\A i, j \in DOMAIN rules : rules[i] = rules[j] => i = j) =>
    \A i, j \in DOMAIN actions :
      actions[i].assignment = actions[j].assignment /\ actions[i].assignment # 0
        => i = j

\* What is held is renewed, not requested again (reconcile.go:79-84): a rule is
\* requested only if no membership carries its ID or the name cached for it.
HeldIsNotRequested ==
  \A e \in Planned : e.action = "request" =>
    LET d == rules[e.rule].resource IN
    ~ \E i \in Held : /\ d # Empty
                      /\ \/ Assignments[i].id = d
                         \/ /\ DisplayName(d) # Empty
                            /\ Assignments[i].name = DisplayName(d)

\* "If RESOURCE arguments are given, only matching resources are processed"
\* (apply.go:49-51): every entry answers one argument, in order and at most one
\* each, nothing is passed over as current, and an argument that matches nothing
\* stops the run before any plan is made.
ArgumentsDecide ==
  Targeted =>
    /\ \A j \in DOMAIN actions :
         /\ actions[j].rule \in DOMAIN input.args
         /\ rules[actions[j].rule] = RuleOf(input.args[actions[j].rule])
         /\ actions[j].action # "current"
    /\ \A i, j \in DOMAIN actions : i < j => actions[i].rule < actions[j].rule
    /\ Missing # {} => actions = <<>>

\* Entry d comes before entry e in the order of the two loops.
Before(d, e) ==
  \/ d.rule # 0 /\ (e.rule = 0 \/ d.rule < e.rule)
  \/ d.rule = 0 /\ e.rule = 0 /\ d.assignment < e.assignment

\* The details cache knows the portal's name of every membership's ID.
CacheComplete ==
  \A i \in Held :
    /\ Assignments[i].name # Empty
    /\ Assignments[i].id # Empty => DisplayName(Assignments[i].id) = Assignments[i].name

\* The two planners agree (apply.go:514-602, reconcile.go:54-159): with complete
\* caches and rules that all have a selfLink, --dry-run=client prints the plan
\* that the next run carries out, each entry once and in the order of the loops,
\* though it joins by name only.
ClientPlanAgrees ==
  pc = "done" /\ CacheComplete /\ (\A j \in DOMAIN rules : rules[j].link) =>
    /\ Planned = ClientPlan
    /\ \A i, j \in DOMAIN actions : i < j => Before(actions[i], actions[j])

-------------------------------------------------------------------------------
(* What the documentation says and the planner does not do. *)

\* "Memberships that are expiring are renewed" (README.md:25), declared or not;
\* unless they are excluded.
ExpiringArePlanned ==
  pc = "done" /\ ~Targeted =>
    \A i \in Held :
      Assignments[i].expiring /\ ~Excluded(Assignments[i].name) =>
        \E e \in Planned : e.assignment = i /\ e.action = "renew"
==============================================================================
