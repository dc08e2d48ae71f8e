-------------------------------- MODULE Rbac --------------------------------
(***************************************************************************)
(* The policy of a run (cmd/rbac.go): parsePolicy reads the documents of   *)
(* the policy file one by one into maps of roles and groups and a list of  *)
(* bindings, resolveAggregation fills the aggregate roles from the roles   *)
(* their selectors match, and Resolve turns one group into a flat list of  *)
(* rules in which a later rule for a resource replaces an earlier one.     *)
(*                                                                         *)
(* The loops over Go maps visit their keys in any order, and that order    *)
(* reaches the result.  A rule's kind and selfLink, a group's              *)
(* justification and the names of bindings are carried along and left out. *)
(***************************************************************************)
EXTENDS Integers, Sequences, FiniteSets

CONSTANTS
  RoleName, GroupName, Resource, Permission,
  Label,         \* label keys
  LabelValue,    \* label values; "" is what a Go map has for a missing key
  Policies       \* the policy files a run may meet

RuleType == [resource : Resource, permission : Permission]

\* A LabelSelector is the set of the key-value pairs of its matchLabels.
SelectorType == SUBSET (Label \X LabelValue)

BodyType ==
  [labels : [Label -> LabelValue], rules : Seq(RuleType),
   aggregate : BOOLEAN, selectors : SUBSET SelectorType]

RoleDoc == [kind : {"Role"}, name : RoleName, body : BodyType]
GroupDoc == [kind : {"Group"}, name : GroupName]
BindingType == [subjects : SUBSET ({"Group", "User"} \X GroupName),
                role : RoleName]
BindingDoc == [kind : {"RoleBinding"}, binding : BindingType]
OtherDoc == [kind : {"Other"}]
DocType == RoleDoc \cup GroupDoc \cup BindingDoc \cup OtherDoc

ASSUME PolicyAssumption ==
  /\ "" \in LabelValue
  /\ Policies \subseteq Seq(DocType)

VARIABLES
  docs,          \* the documents of the file, those of a List unwrapped
  group,         \* the group that is asked for
  at,            \* "parse", "aggregate", "merge", "lookup", "bindings", "rules",
                 \* "resolved", "refused"
  pos,           \* the next document, binding or role of the loop under way
  roles,         \* Policy.Roles, a function on the names read
  groups,        \* the keys of Policy.Groups
  bindings,      \* Policy.RoleBindings
  unvisited,     \* roles the outer loop of resolveAggregation has to visit
  current,       \* in "merge": the set of the one role being filled
  others,        \* roles its inner loop has to visit
  merged,        \* the rules it has collected
  roleNames,     \* roles bound to the group, in the order of the bindings
  nextRule,      \* the next rule of role roleNames[pos]
  rules          \* the list Resolve builds

input == <<docs, group>>
policy == <<roles, groups, bindings>>
aggregation == <<unvisited, current, others, merged>>
resolution == <<roleNames, nextRule, rules>>
vars == <<input, at, pos, policy, aggregation, resolution>>

Init ==
  /\ docs \in Policies
  /\ group \in GroupName
  /\ at = "parse"
  /\ pos = 1
  /\ roles = [n \in {} |-> {}]
  /\ groups = {}
  /\ bindings = <<>>
  /\ unvisited = {} /\ current = {} /\ others = {} /\ merged = <<>>
  /\ roleNames = <<>> /\ nextRule = 1 /\ rules = <<>>

-------------------------------------------------------------------------------
(* parsePolicy and addResource. *)

Updated(f, n, b) == [m \in DOMAIN f \cup {n} |-> IF m = n THEN b ELSE f[m]]

\* A role or group replaces an earlier one of its name; bindings pile up.
Add(d) ==
  \/ /\ d.kind = "Role"
     /\ roles' = Updated(roles, d.name, d.body)
     /\ UNCHANGED <<groups, bindings>>
  \/ /\ d.kind = "Group"
     /\ groups' = groups \cup {d.name}
     /\ UNCHANGED <<roles, bindings>>
  \/ /\ d.kind = "RoleBinding"
     /\ bindings' = Append(bindings, d.binding)
     /\ UNCHANGED <<roles, groups>>

Read ==
  /\ at = "parse"
  /\ pos <= Len(docs)
  /\ Add(docs[pos])
  /\ pos' = pos + 1
  /\ UNCHANGED <<input, at, aggregation, resolution>>

\* One document of an unknown kind, or one that cannot be decoded, and there is
\* no policy at all.
ReadUnknown ==
  /\ at = "parse"
  /\ pos <= Len(docs)
  /\ docs[pos].kind = "Other"
  /\ at' = "refused"
  /\ UNCHANGED <<input, pos, policy, aggregation, resolution>>

Parsed ==
  /\ at = "parse"
  /\ pos > Len(docs)
  /\ at' = "aggregate"
  /\ unvisited' = DOMAIN roles
  /\ UNCHANGED <<input, pos, policy, current, others, merged, resolution>>

-------------------------------------------------------------------------------
(* resolveAggregation: two loops over the map of roles, each in any order. *)

MatchesAll(labels, required) == \A p \in required : labels[p[1]] = p[2]

\* Fault: every selector has to match.
MatchesEvery(labels, selectors) ==
  \A s \in selectors : MatchesAll(labels, s)

MatchesAny(labels, selectors) ==
  \E s \in selectors : MatchesAll(labels, s)

VisitPlain ==
  /\ at = "aggregate"
  /\ \E n \in unvisited :
        /\ ~roles[n].aggregate
        /\ unvisited' = unvisited \ {n}
  /\ UNCHANGED <<input, at, pos, policy, current, others, merged, resolution>>

VisitAggregate ==
  /\ at = "aggregate"
  /\ \E n \in unvisited :
        /\ roles[n].aggregate
        /\ unvisited' = unvisited \ {n}
        /\ current' = {n}
  /\ at' = "merge"
  /\ others' = DOMAIN roles
  /\ merged' = <<>>
  /\ UNCHANGED <<input, pos, policy, resolution>>

\* Aggregate roles are not members of each other.
Member(m, n) ==
  /\ ~roles[m].aggregate
  /\ MatchesAny(roles[m].labels, roles[n].selectors)

Merge ==
  /\ at = "merge"
  /\ \E m \in others : \E n \in current :
        /\ others' = others \ {m}
        /\ merged' = IF Member(m, n) THEN merged \o roles[m].rules ELSE merged
  /\ UNCHANGED <<input, at, pos, policy, unvisited, current, resolution>>

\* The rules the aggregate role was written with are replaced.
Filled(n) == [roles EXCEPT ![n].rules = merged]

Fill ==
  /\ at = "merge"
  /\ others = {}
  /\ \E n \in current : roles' = Filled(n)
  /\ at' = "aggregate"
  /\ current' = {}
  /\ UNCHANGED <<input, pos, groups, bindings, unvisited, others, merged,
                 resolution>>

Aggregated ==
  /\ at = "aggregate"
  /\ unvisited = {}
  /\ at' = "lookup"
  /\ UNCHANGED <<input, pos, policy, aggregation, resolution>>

-------------------------------------------------------------------------------
(* Policy.Resolve. *)

\* A binding concerns the group when a subject of kind Group has its name.
Concerns(b) == <<"Group", group>> \in b.subjects

Lookup ==
  /\ at = "lookup"
  /\ group \in groups
  /\ at' = "bindings"
  /\ pos' = 1
  /\ UNCHANGED <<input, policy, aggregation, resolution>>

\* The role of every binding that concerns the group, in their order, one role
\* as often as it is bound.
Bind ==
  /\ at = "bindings"
  /\ pos <= Len(bindings)
  /\ roleNames' = IF Concerns(bindings[pos])
                    THEN Append(roleNames, bindings[pos].role)
                    ELSE roleNames
  /\ pos' = pos + 1
  /\ UNCHANGED <<input, at, policy, aggregation, nextRule, rules>>

Bound ==
  /\ at = "bindings"
  /\ pos > Len(bindings)
  /\ roleNames # <<>>
  /\ at' = "rules"
  /\ pos' = 1
  /\ UNCHANGED <<input, policy, aggregation, resolution>>

\* An unknown group, or one no binding concerns.
LookupFails ==
  /\ \/ at = "lookup" /\ group \notin groups
     \/ at = "bindings" /\ pos > Len(bindings) /\ roleNames = <<>>
  /\ at' = "refused"
  /\ UNCHANGED <<input, pos, policy, aggregation, resolution>>

\* Fault: a resource that has a rule already keeps it.
PutFirst(list, r) ==
  IF \E i \in DOMAIN list : list[i].resource = r.resource
    THEN list
    ELSE Append(list, r)

\* A later rule takes the place of the earlier one for its resource.
Put(list, r) ==
  IF \E i \in DOMAIN list : list[i].resource = r.resource
    THEN [i \in DOMAIN list |->
            IF list[i].resource = r.resource THEN r ELSE list[i]]
    ELSE Append(list, r)

TakeRule ==
  /\ at = "rules"
  /\ pos <= Len(roleNames)
  /\ roleNames[pos] \in DOMAIN roles
  /\ nextRule <= Len(roles[roleNames[pos]].rules)
  /\ rules' = Put(rules, roles[roleNames[pos]].rules[nextRule])
  /\ nextRule' = nextRule + 1
  /\ UNCHANGED <<input, at, pos, policy, aggregation, roleNames>>

\* Fault: the index of the rules restarts one too low.
NextRoleFromZero ==
  /\ at = "rules"
  /\ pos <= Len(roleNames)
  /\ roleNames[pos] \in DOMAIN roles
  /\ nextRule > Len(roles[roleNames[pos]].rules)
  /\ pos' = pos + 1
  /\ nextRule' = 0
  /\ UNCHANGED <<input, at, policy, aggregation, roleNames, rules>>

NextRole ==
  /\ at = "rules"
  /\ pos <= Len(roleNames)
  /\ roleNames[pos] \in DOMAIN roles
  /\ nextRule > Len(roles[roleNames[pos]].rules)
  /\ pos' = pos + 1
  /\ nextRule' = 1
  /\ UNCHANGED <<input, at, policy, aggregation, roleNames, rules>>

RoleMissing ==
  /\ at = "rules"
  /\ pos <= Len(roleNames)
  /\ roleNames[pos] \notin DOMAIN roles
  /\ at' = "refused"
  /\ UNCHANGED <<input, pos, policy, aggregation, resolution>>

Answer ==
  /\ at = "rules"
  /\ pos > Len(roleNames)
  /\ at' = "resolved"
  /\ UNCHANGED <<input, pos, policy, aggregation, resolution>>

-------------------------------------------------------------------------------
Terminated == at \in {"resolved", "refused"} /\ UNCHANGED vars

Next ==
  \/ Read \/ ReadUnknown \/ Parsed
  \/ VisitPlain \/ VisitAggregate \/ Merge \/ Fill \/ Aggregated
  \/ Lookup \/ Bind \/ Bound \/ LookupFails
  \/ TakeRule \/ NextRole \/ RoleMissing \/ Answer
  \/ Terminated

Spec == Init /\ [][Next]_vars

-------------------------------------------------------------------------------
(* Properties.  The reference below looks at the documents only. *)

At == {"parse", "aggregate", "merge", "lookup", "bindings", "rules",
       "resolved", "refused"}

\* Shape of the state.
TypeOK ==
  /\ docs \in Seq(DocType)
  /\ group \in GroupName
  /\ at \in At
  /\ pos \in Nat \ {0}
  /\ DOMAIN roles \subseteq RoleName
  /\ \A n \in DOMAIN roles : roles[n] \in BodyType
  /\ groups \subseteq GroupName
  /\ bindings \in Seq(BindingType)
  /\ unvisited \subseteq DOMAIN roles
  /\ current \subseteq DOMAIN roles
  /\ others \subseteq DOMAIN roles
  /\ merged \in Seq(RuleType)
  /\ roleNames \in Seq(RoleName)
  /\ nextRule \in Nat \ {0}
  /\ rules \in Seq(RuleType)

RoleDocs(n) == {i \in DOMAIN docs : docs[i].kind = "Role" /\ docs[i].name = n}
Defined == {n \in RoleName : RoleDocs(n) # {}}

\* The document of role n that counts, and what it says.
LastDoc(n) == CHOOSE i \in RoleDocs(n) : \A k \in RoleDocs(n) : k <= i
Meant(n) == docs[LastDoc(n)].body

\* What a selector may ask of role m; a missing label counts as "".
Labels(m) == {<<l, Meant(m).labels[l]>> : l \in Label}

\* The roles whose rules make up those of role n.
Sources(n) ==
  IF ~Meant(n).aggregate
    THEN {n}
    ELSE {m \in Defined : /\ ~Meant(m).aggregate
                          /\ \E s \in Meant(n).selectors : s \subseteq Labels(m)}

Speaks(n, x) == \E i \in DOMAIN Meant(n).rules : Meant(n).rules[i].resource = x

\* The last rule that plain role n, which speaks of x, has for it.
LastWord(n, x) ==
  Meant(n).rules[CHOOSE i \in DOMAIN Meant(n).rules :
     /\ Meant(n).rules[i].resource = x
     /\ \A k \in DOMAIN Meant(n).rules :
           Meant(n).rules[k].resource = x => k <= i]

\* The bindings of the group whose role has a rule for x.
Granting(x) ==
  {i \in DOMAIN docs :
     /\ docs[i].kind = "RoleBinding"
     /\ Concerns(docs[i].binding)
     /\ docs[i].binding.role \in Defined
     /\ \E m \in Sources(docs[i].binding.role) : Speaks(m, x)}

\* The last of them, and the roles it draws a rule for x from.
Decisive(x) == CHOOSE i \in Granting(x) : \A k \in Granting(x) : k <= i
Speakers(x) ==
  {m \in Sources(docs[Decisive(x)].binding.role) : Speaks(m, x)}

NoResourceTwice ==
  \A i, k \in DOMAIN rules : rules[i].resource = rules[k].resource => i = k

\* The answer names exactly the resources that some binding of the group
\* grants, directly or through aggregation, each of them once: no order of the
\* documents or of the maps loses one or lists it twice, and a role written
\* twice counts as its last version (rbac.go:103-152, 196-215).
EveryResourceOnce ==
  at = "resolved" =>
    /\ {rules[i].resource : i \in DOMAIN rules}
         = {x \in Resource : Granting(x) # {}}
    /\ NoResourceTwice

\* The last binding of the group that grants a resource decides its permission
\* (types.go:109-110, rbac.go:208-214): the rule is the last word of one of the
\* roles behind that binding, of the role itself unless it aggregates, whatever
\* earlier bindings, rules and replaced documents say.
LastBindingWins ==
  at = "resolved" =>
    \A i \in DOMAIN rules :
       LET x == rules[i].resource
       IN  \E m \in Speakers(x) : rules[i] = LastWord(m, x)

\* types.go:109-110 keeps the order of the documents because it "matters for
\* last-write-wins deduplication of overlapping rules".  Taken at its word: of
\* several overlapping rules behind the decisive binding the last one in the
\* file wins.  The order of a Go map decides instead (rbac.go:142).
DocumentOrderDecides ==
  at = "resolved" =>
    \A i \in DOMAIN rules :
       LET x == rules[i].resource
           last == CHOOSE m \in Speakers(x) :
                      \A o \in Speakers(x) : LastDoc(o) <= LastDoc(m)
       IN  rules[i] = LastWord(last, x)
=============================================================================
