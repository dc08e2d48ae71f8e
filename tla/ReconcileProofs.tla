---------------------------- MODULE ReconcileProofs ----------------------------
(***************************************************************************)
(* Proofs about Reconcile for any policy, any table of memberships, any    *)
(* details cache, any exclusions and any RESOURCE arguments.               *)
(***************************************************************************)
EXTENDS Reconcile, FiniteSetTheorems, TLAPS

-------------------------------------------------------------------------------
(* The last of some indices. *)

\* A set of indices that is not empty has a greatest element: its indices are
\* ordered by the sets of those above them, and inclusion is well founded.
LEMMA MaxIsGreatest ==
  ASSUME NEW n \in Nat, NEW S \in SUBSET (1..n), S # {}
  PROVE  Max(S) \in S /\ \A y \in S : Max(S) >= y
<1> DEFINE Above(x) == {i \in 1..n : i > x}
           T == {Above(x) : x \in S}
<1>1. T \subseteq FiniteSubsetsOf(1..n) /\ T # {}
  <2>1. IsFiniteSet(1..n)
    BY FS_Interval
  <2>2. \A x \in S : Above(x) \in SUBSET (1..n)
    OBVIOUS
  <2>3. FiniteSubsetsOf(1..n) = SUBSET (1..n)
    BY <2>1, FS_FiniteSubsetsOfFinite
  <2>4. T \subseteq SUBSET (1..n)
    BY <2>2
  <2>5. T # {}
    OBVIOUS
  <2> QED
    BY <2>3, <2>4, <2>5
<1>2. PICK U \in T : \A V \in T : <<V, U>> \notin StrictSubsetOrdering(1..n)
  BY <1>1, FS_StrictSubsetOrderingWellFounded, WFMin
<1>3. PICK x \in S : U = Above(x)
  BY <1>2
<1>4. ASSUME NEW y \in S, y > x PROVE FALSE
  <2>1. Above(y) \subseteq Above(x) /\ y \in Above(x) /\ y \notin Above(y)
    BY <1>4
  <2>2. <<Above(y), U>> \in StrictSubsetOrdering(1..n)
    BY <1>3, <2>1 DEF StrictSubsetOrdering
  <2> QED
    BY <1>2, <2>2
<1>5. \A y \in S : x >= y
  BY <1>4
<1> QED
  BY <1>5 DEF Max

\* The last index that has a property, or 0.
LEMMA LastOfIndices ==
  ASSUME NEW n \in Nat, NEW S \in SUBSET (1..n)
  PROVE  /\ LastOf(S) \in 0..n
         /\ LastOf(S) = 0 <=> S = {}
         /\ LastOf(S) # 0 => LastOf(S) \in S
<1>1. CASE S = {}
  BY <1>1 DEF LastOf
<1>2. CASE S # {}
  <2>1. Max(S) \in S
    BY <1>2, MaxIsGreatest
  <2>2. Max(S) \in 1..n
    BY <2>1
  <2>3. LastOf(S) = Max(S)
    BY <1>2 DEF LastOf
  <2>4. Max(S) # 0 /\ Max(S) \in 0..n
    BY <2>2
  <2> QED
    BY <1>2, <2>1, <2>3, <2>4
<1> QED
  BY <1>1, <1>2

-------------------------------------------------------------------------------
(* The operators. *)

ArgType == Resource \cup Name \cup {"url"}

\* The parts of the inputs.
LEMMA InputParts ==
  ASSUME input \in Inputs
  PROVE  /\ input.policy \in Seq(RuleType)
         /\ input.assignments \in Seq(AssignmentType)
         /\ input.nameByID \in [Resource -> Name \cup {Empty}]
         /\ input.args \in Seq(ArgType)
         /\ Len(input.assignments) \in Nat /\ Held = 1..Len(input.assignments)
         /\ Len(input.policy) \in Nat
         /\ DOMAIN input.policy = 1..Len(input.policy)
<1>1. input \in InputType
  BY InputsAssumption
<1>2. /\ input.policy \in Seq(RuleType)
      /\ input.assignments \in Seq(AssignmentType)
      /\ input.nameByID \in [Resource -> Name \cup {Empty}]
      /\ input.args \in Seq(ArgType)
  BY <1>1 DEF InputType, ArgType
<1>3. /\ Len(input.assignments) \in Nat
      /\ DOMAIN input.assignments = 1..Len(input.assignments)
  BY <1>2
<1>4. Len(input.policy) \in Nat /\ DOMAIN input.policy = 1..Len(input.policy)
  BY <1>2
<1> QED
  BY <1>2, <1>3, <1>4 DEF Held

\* The cache has a name, or none, for every key of a rule.
LEMMA DisplayNames ==
  ASSUME input \in Inputs, NEW d \in Resource \cup {Empty}
  PROVE  DisplayName(d) \in Name \cup {Empty}
BY InputParts DEF DisplayName

\* What an argument names is a rule of the policy, if anything.
LEMMA NamedIsRule ==
  ASSUME input \in Inputs, NEW arg
  PROVE  Named(arg) \in 0..Len(input.policy)
<1> DEFINE byResource == {j \in DOMAIN input.policy : input.policy[j].resource = arg}
           byName == {j \in DOMAIN input.policy :
                        DisplayName(input.policy[j].resource) = arg}
<1>1. /\ Len(input.policy) \in Nat
      /\ byResource \in SUBSET (1..Len(input.policy))
      /\ byName \in SUBSET (1..Len(input.policy))
  BY InputParts
<1> HIDE DEF byResource, byName
<1>2. LastOf(byResource) \in 0..Len(input.policy)
  BY <1>1, LastOfIndices
<1>3. LastOf(byName) \in 0..Len(input.policy)
  BY <1>1, LastOfIndices
<1>4. Named(arg) = IF byResource # {} THEN LastOf(byResource) ELSE LastOf(byName)
  BY DEF Named, byResource, byName
<1> QED
  BY <1>2, <1>3, <1>4

\* Every argument, if none is missing, stands for an address or for a rule of the
\* policy.
LEMMA ArgumentsAreRules ==
  ASSUME input \in Inputs, Missing = {}, NEW j \in DOMAIN input.args
  PROVE  /\ RuleOf(input.args[j]) \in RuleType
         /\ \/ RuleOf(input.args[j]).resource = Empty
            \/ \E h \in DOMAIN input.policy : RuleOf(input.args[j]) = input.policy[h]
<1>1. CASE input.args[j] = "url"
  <2>1. RuleOf(input.args[j]) = [resource |-> Empty, link |-> TRUE]
    BY <1>1 DEF RuleOf
  <2>2. [resource |-> Empty, link |-> TRUE] \in RuleType
    BY DEF RuleType
  <2> QED
    BY <2>1, <2>2
<1>2. CASE input.args[j] # "url"
  <2>1. Named(input.args[j]) # 0
    BY <1>2 DEF Missing
  <2>2. Named(input.args[j]) \in DOMAIN input.policy
    <3>1. Named(input.args[j]) \in 0..Len(input.policy)
      BY NamedIsRule
    <3> QED
      BY <2>1, <3>1, InputParts
  <2>3. RuleOf(input.args[j]) = input.policy[Named(input.args[j])]
    BY <1>2 DEF RuleOf
  <2> QED
    BY <2>2, <2>3, InputParts
<1> QED
  BY <1>1, <1>2

\* Membership i carries what rule r is about: the name cached for its ID, or the
\* ID itself.
CarriesName(i, r) ==
  DisplayName(r.resource) # Empty /\ Assignments[i].name = DisplayName(r.resource)
CarriesID(i, r) == r.resource # Empty /\ Assignments[i].id = r.resource

\* The match of a rule carries one of its keys; without a match none does.
LEMMA MatchCarries ==
  ASSUME input \in Inputs, NEW r \in RuleType
  PROVE  /\ Match(r) \in 0..Len(Assignments)
         /\ Match(r) # 0 => CarriesName(Match(r), r) \/ CarriesID(Match(r), r)
         /\ Match(r) = 0 => \A i \in Held : ~CarriesName(i, r) /\ ~CarriesID(i, r)
<1> DEFINE n == DisplayName(r.resource)
           named == {i \in Held : Assignments[i].name = n}
           known == {i \in Held : r.resource # Empty /\ Assignments[i].id = r.resource}
<1>1. /\ Len(Assignments) \in Nat
      /\ named \in SUBSET (1..Len(Assignments))
      /\ known \in SUBSET (1..Len(Assignments))
  BY InputParts DEF Assignments
<1>2. /\ \A i \in named : n # Empty => CarriesName(i, r)
      /\ \A i \in known : CarriesID(i, r)
      /\ \A i \in Held \ named : ~CarriesName(i, r)
      /\ \A i \in Held \ known : ~CarriesID(i, r)
      /\ n = Empty => \A i \in Held : ~CarriesName(i, r)
  BY DEF CarriesName, CarriesID
<1>3. ByName(n) = LastOf(named) /\ ByID(r.resource) = LastOf(known)
  BY DEF ByName, ByID
<1>4. Match(r) = IF n # Empty /\ ByName(n) # 0 THEN ByName(n) ELSE ByID(r.resource)
  BY DEF Match
<1> HIDE DEF n, named, known
<1>5. /\ LastOf(named) \in 0..Len(Assignments)
      /\ LastOf(named) = 0 <=> named = {}
      /\ LastOf(named) # 0 => LastOf(named) \in named
  BY <1>1, LastOfIndices
<1>6. /\ LastOf(known) \in 0..Len(Assignments)
      /\ LastOf(known) = 0 <=> known = {}
      /\ LastOf(known) # 0 => LastOf(known) \in known
  BY <1>1, LastOfIndices
<1>7. CASE n # Empty /\ ByName(n) # 0
  BY <1>2, <1>3, <1>4, <1>5, <1>7
<1>8. CASE ~(n # Empty /\ ByName(n) # 0)
  <2>1. Match(r) = LastOf(known)
    BY <1>3, <1>4, <1>8
  <2>2. Match(r) = 0 => \A i \in Held : ~CarriesName(i, r)
    BY <1>2, <1>3, <1>5, <1>8
  <2>3. Match(r) = 0 => \A i \in Held : ~CarriesID(i, r)
    BY <1>2, <1>6, <2>1
  <2> QED
    BY <1>2, <1>6, <2>1, <2>2, <2>3
<1> QED
  BY <1>7, <1>8

\* A verdict is one of three, and never a request.
LEMMA Verdicts ==
  ASSUME NEW i
  PROVE  /\ Verdict(i) \in {"excluded", "renew", "current"}
         /\ Targeted => Verdict(i) # "current"
BY DEF Verdict
-------------------------------------------------------------------------------
(* The invariant. *)

\* The membership the first loop finds for rule r.
Found(r) == Match(rules[r])

\* The first loop has been at rule r, the second at membership i.
Ruled(r) == r \in DOMAIN rules /\ (pc = "rules" => r < k)
Looked(i) ==
  /\ i \in Held
  /\ ~Targeted
  /\ pc \in {"undeclared", "done"}
  /\ pc = "undeclared" => i < k

\* An entry of the first loop, and one of the second.
RuleEntry(e) ==
  /\ Ruled(e.rule)
  /\ e.assignment = Found(e.rule)
  /\ e.action = IF e.assignment = 0 THEN "request" ELSE Verdict(e.assignment)

UndeclaredEntry(e) ==
  /\ e.rule = 0
  /\ Looked(e.assignment)
  /\ Assignments[e.assignment].name \notin claimed
  /\ e.action = Verdict(e.assignment)

Explained == \A e \in Planned : RuleEntry(e) \/ UndeclaredEntry(e)

\* The entries come in the order of the two loops.
InOrder == \A i, j \in DOMAIN actions : i < j => Before(actions[i], actions[j])

\* Neither loop leaves out what it should plan.
RulesCovered ==
  \A r \in Nat : Ruled(r) =>
    /\ Found(r) # 0 => Assignments[Found(r)].name \in claimed
    /\ Found(r) # 0 \/ rules[r].link => \E e \in Planned : e.rule = r

HeldCovered ==
  \A i \in Nat : Looked(i) =>
    \/ Assignments[i].name \in claimed
    \/ \E e \in Planned : e.assignment = i

\* A name is claimed on account of a rule.
ClaimedByRules ==
  \A n \in claimed : \E r \in Nat :
    Ruled(r) /\ Found(r) # 0 /\ Assignments[Found(r)].name = n

\* The rules are those of the policy, or one for each argument.
Filtered ==
  /\ pc \in {"filter", "refused"} => rules = <<>> /\ claimed = {} /\ actions = <<>>
  /\ pc = "filter" => k = 1
  /\ pc \notin {"filter", "refused"} =>
       /\ Missing = {}
       /\ rules = IF Targeted
                    THEN [j \in DOMAIN input.args |-> RuleOf(input.args[j])]
                    ELSE input.policy
  /\ pc = "undeclared" => ~Targeted

\* The shape of a plan, without its relation to the inputs.
PlanType ==
  Seq([rule : Nat, assignment : Nat,
       action : {"renew", "request", "current", "excluded"}])

Shape ==
  /\ input \in Inputs
  /\ pc \in {"filter", "rules", "undeclared", "done", "refused"}
  /\ rules \in Seq(RuleType)
  /\ k \in Nat \ {0}
  /\ claimed \subseteq Name \cup {Empty}
  /\ actions \in PlanType

PlanInv ==
  /\ Shape /\ Filtered
  /\ Explained /\ InOrder
  /\ RulesCovered /\ HeldCovered /\ ClaimedByRules

LEMMA PlanInit == Init => PlanInv
<1> SUFFICES ASSUME Init PROVE PlanInv
  OBVIOUS
<1>1. Shape /\ Filtered
  BY DEF Init, Shape, Filtered, PlanType
<1>2. Planned = {} /\ DOMAIN actions = {} /\ DOMAIN rules = {}
  BY DEF Init, Planned
<1>3. \A i : ~Looked(i)
  BY DEF Init, Looked
<1>4. Explained /\ InOrder /\ RulesCovered /\ HeldCovered /\ ClaimedByRules
  BY <1>2, <1>3 DEF Init, Explained, InOrder, RulesCovered, HeldCovered,
                    ClaimedByRules, Ruled
<1> QED
  BY <1>1, <1>4 DEF PlanInv

\* With the inputs and the rules, what they determine stays as it is.
LEMMA InputStays ==
  ASSUME UNCHANGED input
  PROVE  /\ Assignments' = Assignments /\ Held' = Held
         /\ Targeted' = Targeted /\ Missing' = Missing
         /\ \A i : Verdict(i)' = Verdict(i)
<1>1. Assignments' = Assignments /\ Held' = Held /\ Targeted' = Targeted
  BY DEF Assignments, Held, Targeted
<1>2. Missing' = Missing
  BY DEF Missing, Named, DisplayName
<1>3. \A i : Verdict(i)' = Verdict(i)
  BY DEF Verdict, Assignments, Targeted, Excluded
<1> QED
  BY <1>1, <1>2, <1>3

LEMMA RulesStay ==
  ASSUME UNCHANGED <<input, rules>>
  PROVE  \A r : Found(r)' = Found(r)
BY DEF Found, Match, ByName, ByID, DisplayName, Held, Assignments

\* The shape of an entry.
EntryShape == [rule : Nat, assignment : Nat,
               action : {"renew", "request", "current", "excluded"}]

\* A plan grows by an entry that comes after all others.
LEMMA PlanGrows ==
  ASSUME actions \in PlanType, InOrder, NEW e \in EntryShape,
         \A d \in Planned : Before(d, e),
         actions' = Append(actions, e)
  PROVE  actions' \in PlanType /\ InOrder' /\ Planned' = Planned \cup {e}
<1>1. actions \in Seq(EntryShape)
  BY DEF PlanType, EntryShape
<1>2. /\ actions' \in Seq(EntryShape)
      /\ Len(actions) \in Nat
      /\ DOMAIN actions = 1..Len(actions)
      /\ DOMAIN actions' = 1..(Len(actions) + 1)
      /\ \A j \in DOMAIN actions : actions'[j] = actions[j]
      /\ actions'[Len(actions) + 1] = e
  BY <1>1
<1>3. Planned' = Planned \cup {e}
  <2>1. \A x : x \in Planned <=> \E j \in DOMAIN actions : x = actions[j]
    BY DEF Planned
  <2>2. \A x : x \in Planned' <=> \E j \in DOMAIN actions' : x = actions'[j]
    BY DEF Planned
  <2>3. \A x \in Planned' : x \in Planned \cup {e}
    BY <1>2, <2>1, <2>2
  <2>4. \A x \in Planned \cup {e} : x \in Planned'
    BY <1>2, <2>1, <2>2
  <2> QED
    BY <2>3, <2>4
<1>4. ASSUME NEW i \in DOMAIN actions', NEW j \in DOMAIN actions', i < j
      PROVE  Before(actions'[i], actions'[j])
  <2>1. i \in DOMAIN actions /\ actions'[i] = actions[i]
    BY <1>2, <1>4
  <2>2. CASE j \in DOMAIN actions
    <3>1. actions'[j] = actions[j]
      BY <1>2, <2>2
    <3>2. Before(actions[i], actions[j])
      BY <1>4, <2>1, <2>2 DEF InOrder
    <3> QED
      BY <2>1, <3>1, <3>2
  <2>3. CASE j \notin DOMAIN actions
    <3>1. actions'[j] = e
      BY <1>2, <2>3
    <3>2. Before(actions[i], e)
      BY <2>1 DEF Planned
    <3> QED
      BY <2>1, <3>1, <3>2
  <2> QED
    BY <2>2, <2>3
<1>5. InOrder'
  BY <1>4 DEF InOrder
<1>6. actions' \in PlanType
  BY <1>2 DEF PlanType, EntryShape
<1> QED
  BY <1>3, <1>5, <1>6

\* The rules are filtered before anything is planned.
LEMMA FilterKeeps == PlanInv /\ Filter => PlanInv'
<1> SUFFICES ASSUME PlanInv, Filter PROVE PlanInv'
  OBVIOUS
<1> USE DEF PlanInv
<1>1. /\ rules = <<>> /\ claimed = {} /\ actions = <<>> /\ k = 1
      /\ UNCHANGED <<input, k, claimed, actions>>
      /\ pc' \in {"rules", "refused"}
      /\ pc' = "rules" =>
           /\ Missing = {}
           /\ rules' = IF Targeted
                         THEN [j \in DOMAIN input.args |-> RuleOf(input.args[j])]
                         ELSE input.policy
      /\ pc' = "refused" => rules' = <<>>
  <2>1. ~Targeted => Missing = {}
    BY DEF Targeted, Missing
  <2> QED
    BY <2>1 DEF Filter, Filtered
<1>2. rules' \in Seq(RuleType)
  <2>1. CASE pc' = "refused"
    BY <1>1, <2>1
  <2>2. CASE pc' = "rules" /\ ~Targeted
    BY <1>1, <2>2, InputParts DEF Shape
  <2>3. CASE pc' = "rules" /\ Targeted
    <3>1. \A j \in DOMAIN input.args : RuleOf(input.args[j]) \in RuleType
      BY <1>1, <2>3, ArgumentsAreRules DEF Shape
    <3>2. DOMAIN input.args = 1..Len(input.args) /\ Len(input.args) \in Nat
      <4>1. input.args \in Seq(ArgType)
        BY InputParts DEF Shape
      <4> QED
        BY <4>1
    <3>3. rules' = [j \in 1..Len(input.args) |-> RuleOf(input.args[j])]
      BY <1>1, <2>3, <3>2
    <3> QED
      BY <3>1, <3>2, <3>3
  <2> QED
    BY <1>1, <2>1, <2>2, <2>3
<1>3. Shape'
  BY <1>1, <1>2 DEF Shape
<1>4. Filtered'
  <2>1. /\ Targeted' = Targeted /\ Missing' = Missing
        /\ [j \in DOMAIN input.args |-> RuleOf(input.args[j])]'
             = [j \in DOMAIN input.args |-> RuleOf(input.args[j])]
    BY <1>1, InputStays DEF RuleOf, Named, DisplayName
  <2> QED
    BY <1>1, <2>1 DEF Filtered
<1>5. Planned' = {} /\ DOMAIN actions' = {}
  BY <1>1 DEF Planned
<1>6. \A i : ~Looked(i)'
  BY <1>1 DEF Looked
<1>7. \A r \in Nat : ~Ruled(r)'
  <2>1. CASE pc' = "refused"
    BY <1>1, <2>1 DEF Ruled
  <2>2. CASE pc' = "rules"
    <3>1. rules' \in Seq(RuleType)
      BY <1>2
    <3>2. \A r \in DOMAIN rules' : r >= 1
      BY <3>1
    <3> QED
      BY <1>1, <2>2, <3>2 DEF Ruled
  <2> QED
    BY <1>1, <2>1, <2>2
<1>8. Explained' /\ InOrder' /\ RulesCovered' /\ HeldCovered' /\ ClaimedByRules'
  BY <1>1, <1>5, <1>6, <1>7 DEF Explained, InOrder, RulesCovered, HeldCovered,
                                ClaimedByRules
<1> QED
  BY <1>3, <1>4, <1>8

\* During the first loop all entries are of rules it has been at.
LEMMA OnlyRulesYet ==
  ASSUME PlanInv, pc = "rules", NEW d \in Planned
  PROVE  RuleEntry(d) /\ d.rule \in Nat \ {0} /\ d.rule < k
<1>1. RuleEntry(d)
  BY DEF PlanInv, Explained, UndeclaredEntry, Looked
<1>2. rules \in Seq(RuleType)
  BY DEF PlanInv, Shape
<1> QED
  BY <1>1, <1>2 DEF RuleEntry, Ruled

\* The first loop goes on by one rule.
LEMMA RuleStep ==
  ASSUME PlanInv, pc = "rules", k <= Len(rules), k' = k + 1,
         UNCHANGED <<input, pc, rules>>
  PROVE  /\ \A r \in Nat : Ruled(r)' <=> Ruled(r) \/ r = k
         /\ \A i : ~Looked(i) /\ ~Looked(i)'
         /\ \A d \in Planned : RuleEntry(d)'
<1>1. rules \in Seq(RuleType) /\ k \in Nat \ {0}
  BY DEF PlanInv, Shape
<1>2. \A r \in Nat : Ruled(r)' <=> Ruled(r) \/ r = k
  BY <1>1 DEF Ruled
<1>4. \A i : ~Looked(i) /\ ~Looked(i)'
  BY DEF Looked
<1>5. ASSUME NEW d \in Planned PROVE RuleEntry(d)'
  <2>1. RuleEntry(d) /\ d.rule \in Nat
    BY OnlyRulesYet
  <2>2. Found(d.rule)' = Found(d.rule)
    BY RulesStay
  <2>3. Verdict(d.assignment)' = Verdict(d.assignment)
    BY InputStays
  <2> QED
    BY <1>2, <2>1, <2>2, <2>3 DEF RuleEntry
<1> QED
  BY <1>2, <1>4, <1>5

LEMMA PlanRuleKeeps == PlanInv /\ PlanRule => PlanInv'
<1> SUFFICES ASSUME PlanInv, PlanRule PROVE PlanInv'
  OBVIOUS
<1> DEFINE i == Found(k)
<1>1. /\ pc = "rules" /\ k <= Len(rules) /\ k' = k + 1
      /\ UNCHANGED <<input, pc, rules>>
  BY DEF PlanRule
<1>2. /\ input \in Inputs /\ rules \in Seq(RuleType) /\ k \in Nat \ {0}
      /\ claimed \subseteq Name \cup {Empty} /\ actions \in PlanType
  BY DEF PlanInv, Shape
<1>3. rules[k] \in RuleType
  BY <1>1, <1>2
<1>4. i \in 0..Len(Assignments) /\ Len(Assignments) \in Nat
      /\ Held = 1..Len(Assignments)
  BY <1>2, <1>3, MatchCarries, InputParts DEF Found, Assignments
<1>5. /\ \A r \in Nat : Ruled(r)' <=> Ruled(r) \/ r = k
      /\ \A h : ~Looked(h) /\ ~Looked(h)'
      /\ \A d \in Planned : RuleEntry(d)'
  BY <1>1, RuleStep
<1>6. /\ \A r : Found(r)' = Found(r)
      /\ Assignments' = Assignments
      /\ \A h : Verdict(h)' = Verdict(h)
  BY <1>1, RulesStay, InputStays
<1>7. Filtered'
  <2>1. /\ Targeted' = Targeted /\ Missing' = Missing
        /\ [j \in DOMAIN input.args |-> RuleOf(input.args[j])]'
             = [j \in DOMAIN input.args |-> RuleOf(input.args[j])]
    BY <1>1, InputStays DEF RuleOf, Named, DisplayName
  <2> QED
    BY <1>1, <2>1 DEF PlanInv, Filtered
<1>8. HeldCovered'
  BY <1>5 DEF HeldCovered
<1>9. ASSUME NEW a \in {"renew", "request", "current", "excluded"}
      PROVE  \E e \in EntryShape :
               /\ e = Entry(k, i, a)
               /\ e.rule = k /\ e.assignment = i /\ e.action = a
               /\ \A d \in Planned : Before(d, e)
  <2>1. /\ Entry(k, i, a) \in EntryShape
        /\ Entry(k, i, a).rule = k /\ Entry(k, i, a).assignment = i
        /\ Entry(k, i, a).action = a
    BY <1>2, <1>4 DEF Entry, EntryShape
  <2>2. \A d \in Planned : Before(d, Entry(k, i, a))
    BY <1>1, <2>1, OnlyRulesYet DEF Before
  <2> QED
    BY <2>1, <2>2
<1> HIDE DEF i
\* What remains depends on what has become of claimed and actions.
<1>10. ASSUME NEW a \in {"renew", "request", "current", "excluded"},
              a = IF i = 0 THEN "request" ELSE Verdict(i),
              actions' = Append(actions, Entry(k, i, a)),
              claimed' = IF i = 0 THEN claimed
                                  ELSE claimed \cup {Assignments[i].name}
       PROVE  PlanInv'
  <2>0. PICK e \in EntryShape :
          /\ actions' = Append(actions, e)
          /\ e.rule = k /\ e.assignment = i /\ e.action = a
          /\ \A d \in Planned : Before(d, e)
    BY <1>9, <1>10
  <2>1. actions' \in PlanType /\ InOrder' /\ Planned' = Planned \cup {e}
    BY <1>2, <2>0, PlanGrows DEF PlanInv
  <2>2. claimed' \subseteq Name \cup {Empty}
    <3>1. i # 0 => Assignments[i] \in AssignmentType
      BY <1>2, <1>4, InputParts DEF Assignments
    <3> QED
      BY <1>2, <1>10, <3>1 DEF AssignmentType
  <2>3. Shape'
    BY <1>1, <1>2, <2>1, <2>2 DEF Shape, PlanInv
  <2>4. Explained'
    <3>1. Ruled(e.rule)' /\ Found(e.rule)' = i
      BY <1>2, <1>5, <1>6, <2>0 DEF i
    <3>2. RuleEntry(e)'
      BY <1>6, <1>10, <2>0, <3>1 DEF RuleEntry
    <3> QED
      BY <1>5, <2>1, <3>2 DEF Explained
  <2>5. RulesCovered'
    BY <1>1, <1>2, <1>5, <1>6, <1>10, <2>0, <2>1 DEF PlanInv, RulesCovered, i
  <2>6. ClaimedByRules'
    BY <1>2, <1>5, <1>6, <1>10 DEF PlanInv, ClaimedByRules, i
  <2> QED
    BY <1>7, <1>8, <2>1, <2>3, <2>4, <2>5, <2>6 DEF PlanInv
<1>11. CASE i = 0 /\ ~rules[k].link /\ UNCHANGED <<actions, claimed>>
  <2>1. Planned' = Planned /\ InOrder'
    BY <1>11 DEF PlanInv, InOrder, Planned
  <2>2. Shape'
    BY <1>1, <1>2, <1>11 DEF Shape, PlanInv
  <2>3. Explained'
    BY <1>5, <2>1 DEF Explained
  <2>4. RulesCovered' /\ ClaimedByRules'
    BY <1>1, <1>2, <1>5, <1>6, <1>11, <2>1 DEF PlanInv, RulesCovered, ClaimedByRules, i
  <2> QED
    BY <1>7, <1>8, <2>1, <2>2, <2>3, <2>4 DEF PlanInv
<1>12. CASE i # 0
  <2>1. /\ actions' = Append(actions, Entry(k, i, Verdict(i)))
        /\ claimed' = claimed \cup {Assignments[i].name}
    BY <1>12 DEF PlanRule, Claim, i, Found
  <2>2. Verdict(i) \in {"renew", "request", "current", "excluded"}
    BY Verdicts
  <2> QED
    BY <1>10, <1>12, <2>1, <2>2
<1>13. CASE i = 0 /\ rules[k].link
  <2>1. actions' = Append(actions, Entry(k, i, "request")) /\ claimed' = claimed
    BY <1>13 DEF PlanRule, PlanMissing, i, Found
  <2> QED
    BY <1>10, <1>13, <2>1
<1>14. CASE i = 0 /\ ~rules[k].link
  <2>1. UNCHANGED <<actions, claimed>>
    BY <1>14 DEF PlanRule, PlanMissing, i, Found
  <2> QED
    BY <1>11, <1>14, <2>1
<1> QED
  BY <1>12, <1>13, <1>14

\* An entry of the plan is an entry.
LEMMA PlannedShape ==
  ASSUME actions \in PlanType, NEW d \in Planned
  PROVE  d \in EntryShape
<1>1. actions \in Seq(EntryShape)
  BY DEF PlanType, EntryShape
<1> QED
  BY <1>1 DEF Planned

\* A step that plans nothing keeps what relates the plan to where the loops are.
LEMMA NothingPlanned ==
  ASSUME PlanInv, UNCHANGED <<input, rules, claimed, actions>>,
         \A r \in Nat : Ruled(r)' <=> Ruled(r),
         \A i : Looked(i)' <=> Looked(i)
  PROVE  Explained' /\ InOrder' /\ RulesCovered' /\ HeldCovered' /\ ClaimedByRules'
<1>1. /\ \A r : Found(r)' = Found(r)
      /\ Assignments' = Assignments
      /\ \A h : Verdict(h)' = Verdict(h)
      /\ Planned' = Planned
  BY RulesStay, InputStays DEF Planned
<1>2. Explained'
  <2> SUFFICES ASSUME NEW d \in Planned
               PROVE  RuleEntry(d)' \/ UndeclaredEntry(d)'
    BY <1>1 DEF Explained
  <2>1. d.rule \in Nat
    BY PlannedShape DEF PlanInv, Shape, EntryShape
  <2>2. /\ Found(d.rule)' = Found(d.rule)
        /\ Verdict(d.assignment)' = Verdict(d.assignment)
        /\ Ruled(d.rule)' <=> Ruled(d.rule)
        /\ Looked(d.assignment)' <=> Looked(d.assignment)
    BY <1>1, <2>1
  <2>3. CASE RuleEntry(d)
    BY <2>2, <2>3 DEF RuleEntry
  <2>4. CASE UndeclaredEntry(d)
    BY <1>1, <2>2, <2>4 DEF UndeclaredEntry
  <2> QED
    BY <2>3, <2>4 DEF PlanInv, Explained
<1>3. InOrder'
  BY DEF PlanInv, InOrder
<1>4. RulesCovered' /\ HeldCovered' /\ ClaimedByRules'
  BY <1>1 DEF PlanInv, RulesCovered, HeldCovered, ClaimedByRules
<1> QED
  BY <1>2, <1>3, <1>4

\* What Filtered says of a run that has left the filter.
LEMMA FilterStays ==
  ASSUME Filtered, UNCHANGED <<input, rules>>,
         pc \notin {"filter", "refused"}, pc' \notin {"filter", "refused"},
         pc' = "undeclared" => ~Targeted
  PROVE  Filtered'
<1>1. /\ Targeted' = Targeted /\ Missing' = Missing
      /\ [j \in DOMAIN input.args |-> RuleOf(input.args[j])]'
           = [j \in DOMAIN input.args |-> RuleOf(input.args[j])]
  BY InputStays DEF RuleOf, Named, DisplayName
<1> QED
  BY <1>1 DEF Filtered

\* When the first loop ends it has been at every rule.
LEMMA EndRulesKeeps == PlanInv /\ EndRules => PlanInv'
<1> SUFFICES ASSUME PlanInv, EndRules PROVE PlanInv'
  OBVIOUS
<1>1. /\ pc = "rules" /\ k > Len(rules) /\ k' = 1
      /\ pc' = IF Targeted THEN "done" ELSE "undeclared"
      /\ UNCHANGED <<input, rules, claimed, actions>>
  BY DEF EndRules
<1>2. rules \in Seq(RuleType) /\ k \in Nat \ {0} /\ input \in Inputs
  BY DEF PlanInv, Shape
<1>3. ASSUME NEW r \in Nat PROVE Ruled(r)' <=> Ruled(r)
  BY <1>1, <1>2 DEF Ruled
<1>4. ASSUME NEW i PROVE Looked(i)' <=> Looked(i)
  <2>1. Held' = Held /\ Targeted' = Targeted /\ Held = 1..Len(Assignments)
        /\ Len(Assignments) \in Nat
    BY <1>1, <1>2, InputStays, InputParts DEF Assignments
  <2> QED
    BY <1>1, <2>1 DEF Looked
<1>5. Shape' /\ Filtered'
  BY <1>1, FilterStays DEF PlanInv, Shape
<1> QED
  BY <1>1, <1>3, <1>4, <1>5, NothingPlanned DEF PlanInv

\* When the second loop ends it has been at every membership.
LEMMA EndUndeclaredKeeps == PlanInv /\ EndUndeclared => PlanInv'
<1> SUFFICES ASSUME PlanInv, EndUndeclared PROVE PlanInv'
  OBVIOUS
<1>1. /\ pc = "undeclared" /\ k > Len(Assignments) /\ pc' = "done"
      /\ UNCHANGED <<input, rules, k, claimed, actions>>
  BY DEF EndUndeclared
<1>2. k \in Nat \ {0} /\ input \in Inputs
  BY DEF PlanInv, Shape
<1>3. ASSUME NEW r \in Nat PROVE Ruled(r)' <=> Ruled(r)
  BY <1>1 DEF Ruled
<1>4. ASSUME NEW i PROVE Looked(i)' <=> Looked(i)
  <2>1. Held' = Held /\ Targeted' = Targeted /\ Held = 1..Len(Assignments)
        /\ Len(Assignments) \in Nat
    BY <1>1, <1>2, InputStays, InputParts DEF Assignments
  <2> QED
    BY <1>1, <1>2, <2>1 DEF Looked
<1>5. Shape' /\ Filtered'
  BY <1>1, FilterStays DEF PlanInv, Shape
<1> QED
  BY <1>1, <1>3, <1>4, <1>5, NothingPlanned DEF PlanInv

\* The second loop goes on by one membership: what it plans comes after all that
\* is planned, for the entries of rules come first and the others are of
\* memberships it has been at.
LEMMA PlanUndeclaredKeeps == PlanInv /\ PlanUndeclared => PlanInv'
<1> SUFFICES ASSUME PlanInv, PlanUndeclared PROVE PlanInv'
  OBVIOUS
<1>1. /\ pc = "undeclared" /\ k <= Len(Assignments) /\ k' = k + 1
      /\ UNCHANGED <<input, pc, rules, claimed>>
  BY DEF PlanUndeclared
<1>2. /\ input \in Inputs /\ rules \in Seq(RuleType) /\ k \in Nat \ {0}
      /\ actions \in PlanType /\ ~Targeted
  BY <1>1 DEF PlanInv, Shape, Filtered
<1>3. Len(Assignments) \in Nat /\ Held = 1..Len(Assignments) /\ k \in Held
  BY <1>1, <1>2, InputParts DEF Assignments
<1>4. /\ \A r : Found(r)' = Found(r)
      /\ Assignments' = Assignments /\ Held' = Held /\ Targeted' = Targeted
      /\ \A h : Verdict(h)' = Verdict(h)
  BY <1>1, RulesStay, InputStays
<1>5. /\ \A r \in Nat : Ruled(r)' <=> Ruled(r)
      /\ ~Ruled(0)
  BY <1>1, <1>2 DEF Ruled
<1>6. \A i : Looked(i)' <=> Looked(i) \/ i = k
  BY <1>1, <1>2, <1>3, <1>4 DEF Looked
<1>7. Filtered'
  BY <1>1, <1>2, FilterStays DEF PlanInv
<1>8. ASSUME NEW d \in Planned PROVE RuleEntry(d)' \/ UndeclaredEntry(d)'
  <2>1. d.rule \in Nat
    BY <1>2, PlannedShape DEF EntryShape
  <2>2. /\ Found(d.rule)' = Found(d.rule)
        /\ Verdict(d.assignment)' = Verdict(d.assignment)
        /\ Ruled(d.rule)' <=> Ruled(d.rule)
        /\ Looked(d.assignment) => Looked(d.assignment)'
    BY <1>4, <1>5, <1>6, <2>1
  <2>3. CASE RuleEntry(d)
    BY <2>2, <2>3 DEF RuleEntry
  <2>4. CASE UndeclaredEntry(d)
    BY <1>1, <1>4, <2>2, <2>4 DEF UndeclaredEntry
  <2> QED
    BY <2>3, <2>4 DEF PlanInv, Explained
<1>9. RulesCovered' \/ Planned' # Planned
  BY <1>1, <1>4, <1>5 DEF PlanInv, RulesCovered
<1>10. ClaimedByRules'
  BY <1>1, <1>4, <1>5 DEF PlanInv, ClaimedByRules
<1>11. CASE Assignments[k].name \in claimed /\ UNCHANGED actions
  <2>1. Planned' = Planned
    BY <1>11 DEF Planned
  <2>2. Shape' /\ InOrder'
    BY <1>1, <1>2, <1>11 DEF PlanInv, Shape, InOrder
  <2>3. Explained'
    BY <1>8, <2>1 DEF Explained
  <2>4. HeldCovered'
    BY <1>1, <1>4, <1>6, <1>11, <2>1 DEF PlanInv, HeldCovered
  <2> QED
    BY <1>7, <1>9, <1>10, <2>1, <2>2, <2>3, <2>4 DEF PlanInv
<1>12. CASE /\ Assignments[k].name \notin claimed
            /\ actions' = Append(actions, Entry(0, k, Verdict(k)))
  <2>1. PICK e \in EntryShape :
          /\ actions' = Append(actions, e)
          /\ e.rule = 0 /\ e.assignment = k /\ e.action = Verdict(k)
    <3>1. Verdict(k) \in {"renew", "request", "current", "excluded"}
      BY Verdicts
    <3>2. /\ Entry(0, k, Verdict(k)) \in EntryShape
          /\ Entry(0, k, Verdict(k)).rule = 0
          /\ Entry(0, k, Verdict(k)).assignment = k
          /\ Entry(0, k, Verdict(k)).action = Verdict(k)
      BY <1>2, <3>1 DEF Entry, EntryShape
    <3> QED
      BY <1>12, <3>2
  <2>2. ASSUME NEW d \in Planned PROVE Before(d, e)
    <3>1. d.rule \in Nat
      BY <1>2, PlannedShape DEF EntryShape
    <3>2. CASE d.rule # 0
      BY <2>1, <3>2 DEF Before
    <3>3. CASE d.rule = 0
      <4>1. Looked(d.assignment)
        BY <1>5, <3>3 DEF PlanInv, Explained, RuleEntry, UndeclaredEntry
      <4>2. d.assignment < k
        BY <1>1, <4>1 DEF Looked
      <4> QED
        BY <2>1, <3>3, <4>2 DEF Before
    <3> QED
      BY <3>2, <3>3
  <2>3. actions' \in PlanType /\ InOrder' /\ Planned' = Planned \cup {e}
    BY <1>2, <2>1, <2>2, PlanGrows DEF PlanInv
  <2>4. Shape'
    BY <1>1, <1>2, <2>3 DEF PlanInv, Shape
  <2>5. UndeclaredEntry(e)'
    <3>1. Looked(e.assignment)' /\ Verdict(e.assignment)' = Verdict(k)
      BY <1>4, <1>6, <2>1
    <3> QED
      BY <1>1, <1>4, <1>12, <2>1, <3>1 DEF UndeclaredEntry
  <2>6. Explained'
    BY <1>8, <2>3, <2>5 DEF Explained
  <2>7. RulesCovered'
    BY <1>1, <1>4, <1>5, <2>3 DEF PlanInv, RulesCovered
  <2>8. HeldCovered'
    BY <1>1, <1>4, <1>6, <2>1, <2>3 DEF PlanInv, HeldCovered
  <2> QED
    BY <1>7, <1>10, <2>3, <2>4, <2>6, <2>7, <2>8 DEF PlanInv
<1> QED
  BY <1>11, <1>12 DEF PlanUndeclared

\* A step of no consequence.
LEMMA PlanStutters == PlanInv /\ UNCHANGED vars => PlanInv'
<1> SUFFICES ASSUME PlanInv, UNCHANGED vars PROVE PlanInv'
  OBVIOUS
<1>1. UNCHANGED <<input, pc, rules, k, claimed, actions>>
  BY DEF vars
<1>2. \A r \in Nat : Ruled(r)' <=> Ruled(r)
  BY <1>1 DEF Ruled
<1>3. \A i : Looked(i)' <=> Looked(i)
  BY <1>1, InputStays DEF Looked
<1>4. Shape'
  BY <1>1 DEF PlanInv, Shape
<1>5. Filtered'
  <2>1. /\ Targeted' = Targeted /\ Missing' = Missing
        /\ [j \in DOMAIN input.args |-> RuleOf(input.args[j])]'
             = [j \in DOMAIN input.args |-> RuleOf(input.args[j])]
    BY <1>1, InputStays DEF RuleOf, Named, DisplayName
  <2> QED
    BY <1>1, <2>1 DEF PlanInv, Filtered
<1> QED
  BY <1>1, <1>2, <1>3, <1>4, <1>5, NothingPlanned DEF PlanInv

\* At every step of either loop the plan is what the rules and memberships passed
\* so far account for: nothing else, nothing less, and in the loops' order.
THEOREM PlanInvariance == Spec => []PlanInv
<1>1. Init => PlanInv
  BY PlanInit
<1>2. PlanInv /\ [Next]_vars => PlanInv'
  BY FilterKeeps, PlanRuleKeeps, EndRulesKeeps, PlanUndeclaredKeeps,
     EndUndeclaredKeeps, PlanStutters DEF Next, Terminated
<1> QED
  BY <1>1, <1>2, PTL DEF Spec

-------------------------------------------------------------------------------
(* What the plan is good for. *)

\* An entry of the plan, with what its loop knows of it.
LEMMA Entries ==
  ASSUME PlanInv, NEW e \in Planned
  PROVE  /\ e \in EntryShape
         /\ Len(Assignments) \in Nat /\ Held = 1..Len(Assignments)
         /\ e.assignment \in 0..Len(Assignments)
         /\ \/ /\ RuleEntry(e) /\ e.rule \in DOMAIN rules /\ e.rule \in Nat \ {0}
               /\ rules[e.rule] \in RuleType
            \/ UndeclaredEntry(e) /\ e.assignment \in Held
<1>1. e \in EntryShape
  BY PlannedShape DEF PlanInv, Shape
<1>2. /\ input \in Inputs /\ rules \in Seq(RuleType)
      /\ Len(Assignments) \in Nat /\ Held = 1..Len(Assignments)
  BY InputParts DEF PlanInv, Shape, Assignments
<1>3. CASE RuleEntry(e)
  <2>1. /\ e.rule \in DOMAIN rules /\ e.rule \in Nat \ {0}
        /\ rules[e.rule] \in RuleType
    BY <1>2, <1>3 DEF RuleEntry, Ruled
  <2>2. e.assignment \in 0..Len(Assignments)
    BY <1>2, <1>3, <2>1, MatchCarries DEF RuleEntry, Found
  <2> QED
    BY <1>1, <1>2, <1>3, <2>1, <2>2
<1>4. CASE UndeclaredEntry(e)
  BY <1>1, <1>2, <1>4 DEF UndeclaredEntry, Looked
<1> QED
  BY <1>3, <1>4 DEF PlanInv, Explained

\* The state has its type: in particular every entry of a plan refers to a rule or
\* a membership there is, and it is a request exactly when it refers to no
\* membership.
THEOREM PlanTypeCorrect == Spec => []TypeOK
<1>1. ASSUME PlanInv PROVE TypeOK
  <2>1. ASSUME NEW e \in Planned PROVE e \in EntryType
    <3>1. /\ e \in EntryShape /\ e.assignment \in 0..Len(Assignments)
          /\ Len(Assignments) \in Nat /\ Held = 1..Len(Assignments)
          /\ rules \in Seq(RuleType)
      BY <1>1, Entries DEF PlanInv, Shape
    <3>2. CASE RuleEntry(e) /\ e.rule \in DOMAIN rules /\ e.rule \in Nat \ {0}
      <4>1. e.rule \in 0..Len(rules)
        BY <3>1, <3>2
      <4>2. e.assignment = 0 <=> e.action = "request"
        BY <3>2, Verdicts DEF RuleEntry
      <4> QED
        BY <3>1, <3>2, <4>1, <4>2 DEF EntryType, EntryShape
    <3>3. CASE UndeclaredEntry(e) /\ e.assignment \in Held
      <4>1. e.rule = 0 /\ e.assignment # 0 /\ e.action # "request"
        BY <3>1, <3>3, Verdicts DEF UndeclaredEntry
      <4>2. e.rule \in 0..Len(rules)
        BY <3>1, <4>1
      <4> QED
        BY <3>1, <4>1, <4>2 DEF EntryType, EntryShape
    <3> QED
      BY <1>1, <3>2, <3>3, Entries
  <2> QED
    BY <1>1, <2>1 DEF TypeOK, PlanInv, Shape, Planned
<1> QED
  BY <1>1, PlanInvariance, PTL

\* Whoever holds a membership under a rule's ID, or under the name cached for it,
\* is never asked to request it again.
THEOREM HeldNeverRequested == Spec => []HeldIsNotRequested
<1>1. ASSUME PlanInv PROVE HeldIsNotRequested
  <2> SUFFICES ASSUME NEW e \in Planned, e.action = "request", NEW i \in Held,
                      rules[e.rule].resource # Empty,
                      CarriesID(i, rules[e.rule]) \/ CarriesName(i, rules[e.rule])
               PROVE  FALSE
    BY DEF HeldIsNotRequested, CarriesID, CarriesName
  <2>1. RuleEntry(e) /\ rules[e.rule] \in RuleType
    BY <1>1, Entries, Verdicts DEF UndeclaredEntry
  <2>2. Match(rules[e.rule]) = 0
    BY <2>1, Verdicts DEF RuleEntry, Found
  <2> QED
    BY <1>1, <2>1, <2>2, MatchCarries DEF PlanInv, Shape
<1> QED
  BY <1>1, PlanInvariance, PTL

\* Under RESOURCE arguments the plan answers the arguments, one after the other,
\* and nothing else; an argument that names no rule leaves no plan at all.
THEOREM ArgumentsDecidePlan == Spec => []ArgumentsDecide
<1>1. ASSUME PlanInv, Targeted PROVE ArgumentsDecide
  <2>1. ASSUME NEW e \in Planned
        PROVE  /\ RuleEntry(e) /\ e.rule # 0
               /\ e.rule \in DOMAIN input.args
               /\ rules[e.rule] = RuleOf(input.args[e.rule])
               /\ e.action # "current"
    <3>1. RuleEntry(e) /\ e.rule \in DOMAIN rules /\ e.rule # 0
      BY <1>1, Entries DEF UndeclaredEntry, Looked
    <3>2. pc \notin {"filter", "refused"}
      BY <1>1 DEF PlanInv, Filtered, Planned
    <3>3. rules = [j \in DOMAIN input.args |-> RuleOf(input.args[j])]
      BY <1>1, <3>2 DEF PlanInv, Filtered
    <3>4. e.action # "current"
      BY <1>1, <3>1, Verdicts DEF RuleEntry
    <3> QED
      BY <3>1, <3>3, <3>4
  <2>2. ASSUME NEW i \in DOMAIN actions, NEW j \in DOMAIN actions, i < j
        PROVE  actions[i].rule < actions[j].rule
    <3>1. Before(actions[i], actions[j])
      BY <1>1, <2>2 DEF PlanInv, InOrder
    <3>2. actions[i].rule # 0 /\ actions[j].rule # 0
      BY <2>1 DEF Planned
    <3> QED
      BY <3>1, <3>2 DEF Before
  <2>3. Missing # {} => actions = <<>>
    BY <1>1 DEF PlanInv, Filtered
  <2> QED
    BY <2>1, <2>2, <2>3 DEF ArgumentsDecide, Planned
<1>2. PlanInv => ArgumentsDecide
  BY <1>1 DEF ArgumentsDecide
<1> QED
  BY <1>2, PlanInvariance, PTL

\* Without arguments, and with names that tell memberships apart, the two loops
\* together judge every membership, by its own date and its own exclusion.
THEOREM EveryMembershipIsJudged == Spec => []EveryMembershipJudged
<1>1. ASSUME PlanInv, pc = "done", ~Targeted, NamesDistinct, NEW i \in Held
      PROVE  \E e \in Planned : e.assignment = i
  <2>0. i \in Nat
    BY <1>1, InputParts DEF PlanInv, Shape
  <2>1. CASE Assignments[i].name \notin claimed
    BY <1>1, <2>0, <2>1 DEF PlanInv, HeldCovered, Looked
  <2>2. CASE Assignments[i].name \in claimed
    <3>1. PICK r \in Nat :
            /\ Ruled(r) /\ Found(r) # 0
            /\ Assignments[Found(r)].name = Assignments[i].name
      BY <1>1, <2>2 DEF PlanInv, ClaimedByRules
    <3>2. PICK e \in Planned : e.rule = r
      BY <1>1, <3>1 DEF PlanInv, RulesCovered
    <3>3. RuleEntry(e) /\ e.assignment = Found(r) /\ e.assignment \in Held
      <4>1. r # 0
        BY <1>1, <3>1 DEF Ruled, PlanInv, Shape
      <4>2. RuleEntry(e)
        BY <1>1, <3>2, <4>1, Entries DEF UndeclaredEntry
      <4>3. e.assignment = Found(r)
        BY <3>2, <4>2 DEF RuleEntry
      <4>4. e.assignment \in Held
        BY <1>1, <3>1, <4>3, Entries
      <4> QED
        BY <4>2, <4>3, <4>4
    <3>4. e.assignment = i
      BY <1>1, <3>1, <3>3 DEF NamesDistinct
    <3> QED
      BY <3>4
  <2> QED
    BY <2>1, <2>2
<1>2. ASSUME PlanInv, ~Targeted, NEW e \in Planned, e.assignment # 0
      PROVE  e.action = IF Excluded(Assignments[e.assignment].name) THEN "excluded"
                        ELSE IF Assignments[e.assignment].expiring THEN "renew"
                        ELSE "current"
  <2>1. e.action = Verdict(e.assignment)
    BY <1>2 DEF PlanInv, Explained, RuleEntry, UndeclaredEntry
  <2> QED
    BY <1>2, <2>1 DEF Verdict
<1>3. ASSUME PlanInv PROVE EveryMembershipJudged
  <2>1. \A i \in Held : i # 0
    BY <1>3, InputParts DEF PlanInv, Shape
  <2> QED
    BY <1>1, <1>2, <1>3, <2>1 DEF EveryMembershipJudged
<1> QED
  BY <1>3, PlanInvariance, PTL

\* A rule with an ID comes from the policy, which has one rule for an ID.
LEMMA RulesOfPolicy ==
  ASSUME PlanInv, NEW g \in DOMAIN rules, NEW h \in DOMAIN rules,
         rules[g].resource = rules[h].resource, rules[g].resource # Empty
  PROVE  rules[g] = rules[h]
<1>1. ASSUME NEW r \in DOMAIN rules, rules[r].resource # Empty
      PROVE  \E p \in DOMAIN input.policy : rules[r] = input.policy[p]
  <2>1. pc \notin {"filter", "refused"}
    BY DEF PlanInv, Filtered
  <2>2. CASE Targeted
    <3>1. rules = [j \in DOMAIN input.args |-> RuleOf(input.args[j])] /\ Missing = {}
      BY <2>1, <2>2 DEF PlanInv, Filtered
    <3>2. r \in DOMAIN input.args /\ rules[r] = RuleOf(input.args[r])
      BY <3>1
    <3> QED
      BY <1>1, <3>1, <3>2, ArgumentsAreRules DEF PlanInv, Shape
  <2>3. CASE ~Targeted
    BY <2>1, <2>3 DEF PlanInv, Filtered
  <2> QED
    BY <2>2, <2>3
<1>2. PICK p \in DOMAIN input.policy : rules[g] = input.policy[p]
  BY <1>1
<1>3. PICK q \in DOMAIN input.policy : rules[h] = input.policy[q]
  BY <1>1
<1>4. input.policy[p].resource = input.policy[q].resource
  BY <1>2, <1>3
<1>5. p = q
  BY <1>4, InputsAssumption DEF PlanInv, Shape
<1> QED
  BY <1>2, <1>3, <1>5

\* Where the keys agree, rules that are about one membership are about one ID.
LEMMA OneKey ==
  ASSUME input \in Inputs, KeysAgree, NEW i \in Held,
         NEW q \in RuleType, NEW r \in RuleType,
         CarriesName(i, q) \/ CarriesID(i, q),
         CarriesName(i, r) \/ CarriesID(i, r)
  PROVE  q.resource = r.resource /\ q.resource # Empty
<1>1. /\ q.resource \in Resource \cup {Empty} /\ r.resource \in Resource \cup {Empty}
      /\ DisplayName(Empty) = Empty
  BY DEF RuleType, DisplayName
<1>2. q.resource \in Resource /\ r.resource \in Resource
  BY <1>1 DEF CarriesName, CarriesID
<1>3. q.resource # Empty /\ r.resource # Empty
  BY <1>2, InputsAssumption
<1>4. CASE CarriesName(i, q) /\ CarriesName(i, r)
  BY <1>2, <1>3, <1>4 DEF KeysAgree, CarriesName
<1>5. CASE CarriesID(i, q) /\ CarriesID(i, r)
  BY <1>3, <1>5 DEF CarriesID
<1>6. CASE CarriesName(i, q) /\ CarriesID(i, r)
  BY <1>2, <1>3, <1>6 DEF KeysAgree, CarriesName, CarriesID
<1>7. CASE CarriesID(i, q) /\ CarriesName(i, r)
  BY <1>2, <1>3, <1>7 DEF KeysAgree, CarriesName, CarriesID
<1> QED
  BY <1>4, <1>5, <1>6, <1>7

\* No membership is planned for twice: not by two rules, for these would be one;
\* not by a rule and as undeclared, for a rule claims the name; and not twice as
\* undeclared, for the second loop passes every membership once.
THEOREM OnePlanEach == Spec => []OnePlanPerMembership
<1>1. ASSUME PlanInv, KeysAgree, \A g, h \in DOMAIN rules : rules[g] = rules[h] => g = h,
             NEW d \in Planned, NEW e \in Planned, Before(d, e),
             d.assignment = e.assignment, d.assignment # 0
      PROVE  FALSE
  <2> USE <1>1
  <2>1. CASE RuleEntry(d) /\ RuleEntry(e)
    <3>1. /\ d.rule \in DOMAIN rules /\ e.rule \in DOMAIN rules
          /\ rules[d.rule] \in RuleType /\ rules[e.rule] \in RuleType
          /\ d.rule \in Nat \ {0} /\ e.rule \in Nat \ {0}
          /\ d.assignment \in Held
      <4>1. ~Ruled(0)
        BY DEF Ruled, PlanInv, Shape
      <4> QED
        BY <2>1, <4>1, Entries DEF RuleEntry, UndeclaredEntry
    <3>2. /\ CarriesName(d.assignment, rules[d.rule])
             \/ CarriesID(d.assignment, rules[d.rule])
          /\ CarriesName(d.assignment, rules[e.rule])
             \/ CarriesID(d.assignment, rules[e.rule])
      BY <2>1, <3>1, MatchCarries DEF RuleEntry, Found, PlanInv, Shape
    <3>3. /\ rules[d.rule].resource = rules[e.rule].resource
          /\ rules[d.rule].resource # Empty
      BY <3>1, <3>2, OneKey DEF PlanInv, Shape
    <3>4. d.rule = e.rule
      BY <3>1, <3>3, RulesOfPolicy
    <3> QED
      BY <3>1, <3>4 DEF Before
  <2>2. ASSUME NEW a \in Planned, NEW b \in Planned, RuleEntry(a), UndeclaredEntry(b),
               a.assignment = b.assignment, a.assignment # 0
        PROVE  FALSE
    <3>1. a.rule \in Nat
      BY PlannedShape DEF PlanInv, Shape, EntryShape
    <3> QED
      BY <2>2, <3>1 DEF RuleEntry, UndeclaredEntry, PlanInv, RulesCovered
  <2>3. CASE UndeclaredEntry(d) /\ UndeclaredEntry(e)
    <3>1. d.assignment < e.assignment
      BY <2>3 DEF UndeclaredEntry, Before
    <3>2. d.assignment \in Nat
      BY PlannedShape DEF PlanInv, Shape, EntryShape
    <3> QED
      BY <3>1, <3>2
  <2> QED
    BY <2>1, <2>2, <2>3 DEF PlanInv, Explained
<1>2. ASSUME PlanInv PROVE OnePlanPerMembership
  <2> SUFFICES ASSUME KeysAgree,
                      \A g, h \in DOMAIN rules : rules[g] = rules[h] => g = h,
                      NEW i \in DOMAIN actions, NEW j \in DOMAIN actions,
                      actions[i].assignment = actions[j].assignment,
                      actions[i].assignment # 0
               PROVE  i = j
    BY DEF OnePlanPerMembership
  <2>1. i \in Nat /\ j \in Nat
    <3>1. actions \in Seq(EntryShape)
      BY <1>2 DEF PlanInv, Shape, PlanType, EntryShape
    <3> QED
      BY <3>1
  <2>2. actions[i] \in Planned /\ actions[j] \in Planned
    BY DEF Planned
  <2>3. CASE i < j
    <3>1. Before(actions[i], actions[j])
      BY <1>2, <2>3 DEF PlanInv, InOrder
    <3> QED
      BY <1>1, <1>2, <2>2, <3>1
  <2>4. CASE j < i
    <3>1. Before(actions[j], actions[i])
      BY <1>2, <2>4 DEF PlanInv, InOrder
    <3> QED
      BY <1>1, <1>2, <2>2, <3>1
  <2> QED
    BY <2>1, <2>3, <2>4
<1> QED
  BY <1>2, PlanInvariance, PTL

-------------------------------------------------------------------------------
(* The client's planner. *)

\* With a complete details cache a name finds whatever an ID finds.
LEMMA ClientMatches ==
  ASSUME input \in Inputs, CacheComplete, NEW r \in RuleType
  PROVE  ClientMatch(r) = Match(r)
<1> DEFINE n == DisplayName(r.resource)
           named == {i \in Held : Assignments[i].name = n}
           known == {i \in Held : r.resource # Empty /\ Assignments[i].id = r.resource}
<1>1. /\ Len(Assignments) \in Nat
      /\ named \in SUBSET (1..Len(Assignments))
      /\ known \in SUBSET (1..Len(Assignments))
  BY InputParts DEF Assignments
<1>2. known \subseteq named /\ (n = Empty => named = {})
  BY DEF CacheComplete
<1>3. /\ ClientMatch(r) = LastOf(named)
      /\ ByName(n) = LastOf(named) /\ ByID(r.resource) = LastOf(known)
  BY DEF ClientMatch, ByName, ByID
<1>4. Match(r) = IF n # Empty /\ ByName(n) # 0 THEN ByName(n) ELSE ByID(r.resource)
  BY DEF Match
<1> HIDE DEF n, named, known
<1>5. LastOf(named) = 0 <=> named = {}
  BY <1>1, LastOfIndices
<1>6. LastOf(known) = 0 <=> known = {}
  BY <1>1, LastOfIndices
<1> QED
  BY <1>2, <1>3, <1>4, <1>5, <1>6

\* --dry-run=client prints the plan that the next run carries out.
THEOREM ClientPlansTheSame == Spec => []ClientPlanAgrees
<1>1. ASSUME PlanInv, pc = "done", CacheComplete, \A j \in DOMAIN rules : rules[j].link
      PROVE  Planned = ClientPlan
  <2> USE <1>1
  <2>1. /\ rules \in Seq(RuleType) /\ DOMAIN rules \subseteq Nat \ {0}
        /\ \A j \in DOMAIN rules : rules[j] \in RuleType
        /\ \A r : Ruled(r) <=> r \in DOMAIN rules
        /\ \A i : Looked(i) <=> i \in Held /\ ~Targeted
        /\ Held \subseteq Nat \ {0}
    <3>1. rules \in Seq(RuleType)
      BY DEF PlanInv, Shape
    <3>2. Held \subseteq Nat \ {0}
      BY InputParts DEF PlanInv, Shape
    <3> QED
      BY <3>1, <3>2 DEF Ruled, Looked
  <2>2. \A j \in DOMAIN rules : ClientMatch(rules[j]) = Found(j)
    BY <2>1, ClientMatches DEF Found, PlanInv, Shape
  <2>3. \A j \in DOMAIN rules :
          ClientEntry(j) = Entry(j, Found(j), IF Found(j) = 0 THEN "request"
                                                             ELSE Verdict(Found(j)))
    BY <2>2 DEF ClientEntry, ClientVerdict
  <2>4. ClientClaimed = claimed
    <3>1. ASSUME NEW c \in ClientClaimed PROVE c \in claimed
      <4>1. PICK j \in DOMAIN rules :
              Found(j) # 0 /\ c = Assignments[Found(j)].name
        BY <2>2 DEF ClientClaimed
      <4> QED
        BY <2>1, <4>1 DEF PlanInv, RulesCovered
    <3>2. ASSUME NEW c \in claimed PROVE c \in ClientClaimed
      <4>1. PICK j \in Nat :
              /\ Ruled(j) /\ Found(j) # 0
              /\ Assignments[Found(j)].name = c
        BY DEF PlanInv, ClaimedByRules
      <4>2. ClientMatch(rules[j]) = Found(j) /\ j \in DOMAIN rules
        BY <2>1, <2>2, <4>1
      <4> QED
        BY <4>1, <4>2 DEF ClientClaimed
    <3> QED
      BY <3>1, <3>2
  <2>5. \A e \in Planned : e = Entry(e.rule, e.assignment, e.action)
    BY PlannedShape DEF PlanInv, Shape, EntryShape, Entry
  <2>6. ASSUME NEW e \in Planned PROVE e \in ClientPlan
    <3>1. CASE RuleEntry(e)
      <4>1. e.rule \in DOMAIN rules /\ e = ClientEntry(e.rule)
        BY <2>1, <2>3, <2>5, <3>1 DEF RuleEntry
      <4> QED
        BY <4>1 DEF ClientPlan
    <3>2. CASE UndeclaredEntry(e)
      <4>1. /\ e = Entry(0, e.assignment, ClientVerdict(e.assignment))
            /\ e.assignment \in Held /\ ~Targeted
            /\ Assignments[e.assignment].name \notin ClientClaimed
        BY <2>1, <2>4, <2>5, <3>2 DEF UndeclaredEntry, ClientVerdict
      <4> QED
        BY <4>1 DEF ClientPlan
    <3> QED
      BY <3>1, <3>2 DEF PlanInv, Explained
  <2>7. ASSUME NEW j \in DOMAIN rules PROVE ClientEntry(j) \in Planned
    <3>1. PICK e \in Planned : e.rule = j
      BY <2>1 DEF PlanInv, RulesCovered
    <3>2. RuleEntry(e)
      BY <2>1, <3>1 DEF PlanInv, Explained, UndeclaredEntry
    <3>3. e = ClientEntry(j)
      BY <2>3, <2>5, <3>1, <3>2 DEF RuleEntry
    <3> QED
      BY <3>3
  <2>8. ASSUME NEW i \in Held, ~Targeted, Assignments[i].name \notin ClientClaimed
        PROVE  Entry(0, i, ClientVerdict(i)) \in Planned
    <3>1. PICK e \in Planned : e.assignment = i
      BY <2>1, <2>4, <2>8 DEF PlanInv, HeldCovered
    <3>2. UndeclaredEntry(e)
      <4>1. ~RuleEntry(e)
        BY <2>1, <2>4, <2>8, <3>1 DEF PlanInv, RulesCovered, RuleEntry
      <4> QED
        BY <4>1 DEF PlanInv, Explained
    <3>3. e = Entry(0, i, ClientVerdict(i))
      BY <2>5, <3>1, <3>2 DEF UndeclaredEntry, ClientVerdict
    <3> QED
      BY <3>3
  <2>9. \A c \in ClientPlan : c \in Planned
    BY <2>7, <2>8 DEF ClientPlan
  <2> QED
    BY <2>6, <2>9
<1>2. PlanInv => ClientPlanAgrees
  BY <1>1 DEF ClientPlanAgrees, PlanInv, InOrder
<1> QED
  BY <1>2, PlanInvariance, PTL

===============================================================================
