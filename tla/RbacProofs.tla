----------------------------- MODULE RbacProofs -----------------------------
(***************************************************************************)
(* Proofs about Rbac for every policy file and every order of the maps:    *)
(* the state keeps its shape, the resolved list names every resource the   *)
(* group is granted, once and no other, and the last binding decides.      *)
(***************************************************************************)
EXTENDS Rbac, TLAPS

\* The parts of TypeOK, by who writes them.
PolicyOK ==
  /\ DOMAIN roles \subseteq RoleName
  /\ \A n \in DOMAIN roles : roles[n] \in BodyType
  /\ groups \subseteq GroupName
  /\ bindings \in Seq(BindingType)

AggregationOK ==
  /\ unvisited \subseteq DOMAIN roles
  /\ current \subseteq DOMAIN roles
  /\ others \subseteq DOMAIN roles
  /\ merged \in Seq(RuleType)

ResolutionOK ==
  /\ roleNames \in Seq(RoleName)
  /\ nextRule \in Nat \ {0}
  /\ rules \in Seq(RuleType)

InputOK ==
  /\ docs \in Seq(DocType)
  /\ group \in GroupName

PlaceOK == at \in At /\ pos \in Nat \ {0}

LEMMA TypeOKParts ==
  TypeOK <=> InputOK /\ PlaceOK /\ PolicyOK /\ AggregationOK /\ ResolutionOK
BY DEF TypeOK, InputOK, PlaceOK, PolicyOK, AggregationOK, ResolutionOK

LEMMA TypeOKNext ==
  InputOK' /\ PlaceOK' /\ PolicyOK' /\ AggregationOK' /\ ResolutionOK'
  => TypeOK'
BY DEF TypeOK, InputOK, PlaceOK, PolicyOK, AggregationOK, ResolutionOK

-------------------------------------------------------------------------------
(* The operators. *)

\* A body of the right type is a record with rules of the right type.
LEMMA BodyRules ==
  ASSUME NEW b \in BodyType
  PROVE  /\ b.rules \in Seq(RuleType)
         /\ \A rs \in Seq(RuleType) : [b EXCEPT !.rules = rs] \in BodyType
BY DEF BodyType

\* Adding a document keeps the policy well formed and drops no role.
LEMMA AddKeeps ==
  ASSUME NEW d \in DocType, Add(d), PolicyOK
  PROVE  PolicyOK' /\ DOMAIN roles \subseteq DOMAIN roles'
<1>1. CASE d.kind = "Role" /\ Add(d)
  <2>1. /\ roles' = Updated(roles, d.name, d.body)
        /\ UNCHANGED <<groups, bindings>>
    BY <1>1 DEF Add
  <2>2. d.name \in RoleName /\ d.body \in BodyType
    BY <1>1 DEF DocType, RoleDoc, GroupDoc, BindingDoc, OtherDoc
  <2>3. /\ DOMAIN roles' = DOMAIN roles \cup {d.name}
        /\ \A n \in DOMAIN roles' :
              roles'[n] = IF n = d.name THEN d.body ELSE roles[n]
    BY <2>1 DEF Updated
  <2> QED
    BY <2>1, <2>2, <2>3 DEF PolicyOK
<1>2. CASE d.kind = "Group" /\ Add(d)
  <2>1. groups' = groups \cup {d.name} /\ UNCHANGED <<roles, bindings>>
    BY <1>2 DEF Add
  <2>2. d.name \in GroupName
    BY <1>2 DEF DocType, RoleDoc, GroupDoc, BindingDoc, OtherDoc
  <2> QED
    BY <2>1, <2>2 DEF PolicyOK
<1>3. CASE d.kind = "RoleBinding" /\ Add(d)
  <2>1. bindings' = Append(bindings, d.binding) /\ UNCHANGED <<roles, groups>>
    BY <1>3 DEF Add
  <2>2. d.binding \in BindingType
    BY <1>3 DEF DocType, RoleDoc, GroupDoc, BindingDoc, OtherDoc
  <2> QED
    BY <2>1, <2>2 DEF PolicyOK
<1> QED
  BY <1>1, <1>2, <1>3 DEF Add

\* Put keeps a list of rules one, and lists no resource that it did not list
\* before twice.
LEMMA PutKeeps ==
  ASSUME NEW list \in Seq(RuleType), NEW r \in RuleType
  PROVE  /\ Put(list, r) \in Seq(RuleType)
         /\ (\A i, k \in DOMAIN list : list[i].resource = list[k].resource => i = k)
            => \A i, k \in DOMAIN Put(list, r) :
                  Put(list, r)[i].resource = Put(list, r)[k].resource => i = k
<1>1. CASE \E i \in DOMAIN list : list[i].resource = r.resource
  <2>1. Put(list, r) = [i \in DOMAIN list |->
                          IF list[i].resource = r.resource THEN r ELSE list[i]]
    BY <1>1 DEF Put
  <2>2. DOMAIN list = 1..Len(list) /\ Len(list) \in Nat
    OBVIOUS
  <2>3. \A i \in DOMAIN list : list[i] \in RuleType
    OBVIOUS
  <2>4. Put(list, r) \in Seq(RuleType)
    BY <2>1, <2>2, <2>3
  <2>5. \A i \in DOMAIN list : Put(list, r)[i].resource = list[i].resource
    BY <2>1
  <2> QED
    BY <2>1, <2>4, <2>5
<1>2. CASE ~ \E i \in DOMAIN list : list[i].resource = r.resource
  <2>1. Put(list, r) = Append(list, r)
    BY <1>2 DEF Put
  <2>2. /\ Put(list, r) \in Seq(RuleType)
        /\ DOMAIN Put(list, r) = DOMAIN list \cup {Len(list) + 1}
        /\ Put(list, r)[Len(list) + 1] = r
        /\ \A i \in DOMAIN list : Put(list, r)[i] = list[i]
    BY <2>1
  <2> QED
    BY <1>2, <2>2
<1> QED
  BY <1>1, <1>2
-------------------------------------------------------------------------------
(* The invariant. *)

IInv == TypeOK /\ NoResourceTwice

LEMMA InitEstablishes == Init => IInv
<1> SUFFICES ASSUME Init PROVE IInv
  OBVIOUS
<1>1. InputOK
  BY PolicyAssumption DEF Init, InputOK
<1>2. PlaceOK
  BY DEF Init, PlaceOK, At
<1>3. PolicyOK
  BY DEF Init, PolicyOK
<1>4. AggregationOK /\ ResolutionOK
  BY DEF Init, AggregationOK, ResolutionOK
<1>5. NoResourceTwice
  BY DEF Init, NoResourceTwice
<1> QED
  BY <1>1, <1>2, <1>3, <1>4, <1>5, TypeOKParts DEF IInv

\* The documents are read one by one.
LEMMA ReadPreserves == IInv /\ Read => IInv'
<1> SUFFICES ASSUME IInv, Read PROVE IInv'
  OBVIOUS
<1>1. InputOK /\ PlaceOK /\ PolicyOK /\ AggregationOK /\ ResolutionOK
  BY TypeOKParts DEF IInv
<1>2. /\ Add(docs[pos]) /\ pos' = pos + 1 /\ pos <= Len(docs)
      /\ UNCHANGED <<docs, group, at, unvisited, current, others, merged,
                     roleNames, nextRule, rules>>
  BY DEF Read, input, aggregation, resolution
<1>3. docs[pos] \in DocType
  BY <1>1, <1>2 DEF InputOK, PlaceOK
<1>4. PolicyOK' /\ DOMAIN roles \subseteq DOMAIN roles'
  BY <1>1, <1>2, <1>3, AddKeeps
<1>5. AggregationOK'
  BY <1>1, <1>2, <1>4 DEF AggregationOK
<1>6. InputOK' /\ PlaceOK' /\ ResolutionOK'
  BY <1>1, <1>2 DEF InputOK, PlaceOK, ResolutionOK
<1>7. NoResourceTwice'
  BY <1>2 DEF IInv, NoResourceTwice
<1> QED
  BY <1>4, <1>5, <1>6, <1>7, TypeOKNext DEF IInv

\* The steps of the two aggregation loops but the last.
LEMMA AggregationPreserves ==
  IInv /\ (VisitPlain \/ VisitAggregate \/ Merge) => IInv'
<1> SUFFICES ASSUME IInv, VisitPlain \/ VisitAggregate \/ Merge PROVE IInv'
  OBVIOUS
<1>1. InputOK /\ PlaceOK /\ PolicyOK /\ AggregationOK /\ ResolutionOK
  BY TypeOKParts DEF IInv
<1>2. /\ UNCHANGED <<docs, group, pos, roles, groups, bindings, roleNames,
                     nextRule, rules>>
      /\ at' \in At
  BY <1>1 DEF VisitPlain, VisitAggregate, Merge, input, policy, resolution,
             PlaceOK, At
<1>3. AggregationOK'
  <2>1. CASE VisitPlain
    BY <2>1, <1>1, <1>2 DEF VisitPlain, AggregationOK
  <2>2. CASE VisitAggregate
    BY <2>2, <1>1, <1>2 DEF VisitAggregate, AggregationOK
  <2>3. CASE Merge
    <3>1. PICK m \in others, n \in current :
            /\ others' = others \ {m}
            /\ merged' = IF Member(m, n) THEN merged \o roles[m].rules ELSE merged
      BY <2>3 DEF Merge
    <3>2. roles[m].rules \in Seq(RuleType)
      BY <1>1, BodyRules DEF AggregationOK, PolicyOK
    <3>3. merged' \in Seq(RuleType)
      BY <1>1, <3>1, <3>2 DEF AggregationOK
    <3>4. UNCHANGED <<unvisited, current>>
      BY <2>3 DEF Merge
    <3> QED
      BY <1>1, <1>2, <3>1, <3>3, <3>4 DEF AggregationOK
  <2> QED
    BY <2>1, <2>2, <2>3
<1>4. InputOK' /\ PlaceOK' /\ PolicyOK' /\ ResolutionOK'
  BY <1>1, <1>2 DEF InputOK, PlaceOK, PolicyOK, ResolutionOK
<1>5. NoResourceTwice'
  BY <1>2 DEF IInv, NoResourceTwice
<1> QED
  BY <1>3, <1>4, <1>5, TypeOKNext DEF IInv

\* An aggregate role takes the collected rules.
LEMMA FillPreserves == IInv /\ Fill => IInv'
<1> SUFFICES ASSUME IInv, Fill PROVE IInv'
  OBVIOUS
<1>1. InputOK /\ PlaceOK /\ PolicyOK /\ AggregationOK /\ ResolutionOK
  BY TypeOKParts DEF IInv
<1>2. /\ UNCHANGED <<docs, group, pos, groups, bindings, unvisited, others,
                     merged, roleNames, nextRule, rules>>
      /\ at' = "aggregate" /\ current' = {}
  BY DEF Fill, input, resolution
<1>3. PICK n \in current : roles' = Filled(n)
  BY DEF Fill
<1>4. n \in DOMAIN roles /\ merged \in Seq(RuleType)
  BY <1>1 DEF AggregationOK
<1>5. /\ DOMAIN roles' = DOMAIN roles
      /\ \A m \in DOMAIN roles :
            roles'[m] = IF m = n THEN [roles[n] EXCEPT !.rules = merged]
                                 ELSE roles[m]
  BY <1>3, <1>4 DEF Filled
<1>6. PolicyOK'
  <2>1. [roles[n] EXCEPT !.rules = merged] \in BodyType
    BY <1>1, <1>4, BodyRules DEF PolicyOK
  <2> QED
    BY <1>1, <1>2, <1>5, <2>1 DEF PolicyOK
<1>7. AggregationOK'
  BY <1>1, <1>2, <1>5 DEF AggregationOK
<1>8. InputOK' /\ PlaceOK' /\ ResolutionOK'
  BY <1>1, <1>2 DEF InputOK, PlaceOK, ResolutionOK, At
<1>9. NoResourceTwice'
  BY <1>2 DEF IInv, NoResourceTwice
<1> QED
  BY <1>6, <1>7, <1>8, <1>9, TypeOKNext DEF IInv

\* The rules of the bound roles are taken one by one.
LEMMA TakeRulePreserves == IInv /\ TakeRule => IInv'
<1> SUFFICES ASSUME IInv, TakeRule PROVE IInv'
  OBVIOUS
<1>1. InputOK /\ PlaceOK /\ PolicyOK /\ AggregationOK /\ ResolutionOK
  BY TypeOKParts DEF IInv
<1> DEFINE list == roles[roleNames[pos]].rules
           r == list[nextRule]
<1>2. /\ roleNames[pos] \in DOMAIN roles /\ nextRule <= Len(list)
      /\ rules' = Put(rules, r) /\ nextRule' = nextRule + 1
      /\ UNCHANGED <<docs, group, at, pos, roles, groups, bindings, unvisited,
                     current, others, merged, roleNames>>
  BY DEF TakeRule, input, policy, aggregation
<1>3. list \in Seq(RuleType)
  BY <1>1, <1>2, BodyRules DEF PolicyOK
<1>4. r \in RuleType
  BY <1>1, <1>2, <1>3 DEF ResolutionOK
<1>5. rules \in Seq(RuleType)
  BY <1>1 DEF ResolutionOK
<1> HIDE DEF r, list
<1>6. ResolutionOK'
  BY <1>1, <1>2, <1>4, <1>5, PutKeeps DEF ResolutionOK
<1>7. NoResourceTwice'
  BY <1>2, <1>4, <1>5, PutKeeps DEF IInv, NoResourceTwice
<1>8. InputOK' /\ PlaceOK' /\ PolicyOK' /\ AggregationOK'
  BY <1>1, <1>2 DEF InputOK, PlaceOK, PolicyOK, AggregationOK
<1> QED
  BY <1>6, <1>7, <1>8, TypeOKNext DEF IInv

\* The roles of the group's bindings are gathered.
LEMMA BindPreserves == IInv /\ Bind => IInv'
<1> SUFFICES ASSUME IInv, Bind PROVE IInv'
  OBVIOUS
<1>1. InputOK /\ PlaceOK /\ PolicyOK /\ AggregationOK /\ ResolutionOK
  BY TypeOKParts DEF IInv
<1>2. /\ pos <= Len(bindings) /\ pos' = pos + 1
      /\ roleNames' = IF Concerns(bindings[pos])
                        THEN Append(roleNames, bindings[pos].role)
                        ELSE roleNames
      /\ UNCHANGED <<docs, group, at, roles, groups, bindings, unvisited,
                     current, others, merged, nextRule, rules>>
  BY DEF Bind, input, policy, aggregation
<1>3. bindings[pos].role \in RoleName
  <2>1. bindings[pos] \in BindingType
    BY <1>1, <1>2 DEF PolicyOK, PlaceOK
  <2> QED
    BY <2>1 DEF BindingType
<1>4. roleNames' \in Seq(RoleName)
  BY <1>1, <1>2, <1>3 DEF ResolutionOK
<1>5. ResolutionOK' /\ PlaceOK'
  BY <1>1, <1>2, <1>4 DEF ResolutionOK, PlaceOK
<1>6. InputOK' /\ PolicyOK' /\ AggregationOK'
  BY <1>1, <1>2 DEF InputOK, PolicyOK, AggregationOK
<1>7. NoResourceTwice'
  BY <1>2 DEF IInv, NoResourceTwice
<1> QED
  BY <1>5, <1>6, <1>7, TypeOKNext DEF IInv

\* Every other step only moves on.
LEMMA MovePreserves ==
  IInv /\ (\/ ReadUnknown \/ Parsed \/ Aggregated \/ Lookup \/ Bound
           \/ LookupFails \/ NextRole \/ RoleMissing \/ Answer
           \/ Terminated \/ UNCHANGED vars) => IInv'
<1> SUFFICES ASSUME IInv,
                    \/ ReadUnknown \/ Parsed \/ Aggregated \/ Lookup \/ Bound
                    \/ LookupFails \/ NextRole \/ RoleMissing \/ Answer
                    \/ Terminated \/ UNCHANGED vars
             PROVE  IInv'
  OBVIOUS
<1>1. InputOK /\ PlaceOK /\ PolicyOK /\ AggregationOK /\ ResolutionOK
  BY TypeOKParts DEF IInv
<1>2. UNCHANGED <<docs, group, roles, groups, bindings, current, others,
                  merged, roleNames, rules>>
  BY DEF ReadUnknown, Parsed, Aggregated, Lookup, Bound, LookupFails, NextRole,
         RoleMissing, Answer, Terminated, vars, input, policy, aggregation,
         resolution
<1>3. at' \in At /\ pos' \in Nat \ {0}
  BY <1>1 DEF ReadUnknown, Parsed, Aggregated, Lookup, Bound, LookupFails,
              NextRole, RoleMissing, Answer, Terminated, vars, PlaceOK, At
<1>4. unvisited' \subseteq DOMAIN roles /\ nextRule' \in Nat \ {0}
  BY <1>1 DEF ReadUnknown, Parsed, Aggregated, Lookup, Bound, LookupFails,
              NextRole, RoleMissing, Answer, Terminated, vars, aggregation,
              resolution, AggregationOK, ResolutionOK
<1>5. InputOK' /\ PlaceOK' /\ PolicyOK' /\ AggregationOK' /\ ResolutionOK'
  BY <1>1, <1>2, <1>3, <1>4 DEF InputOK, PlaceOK, PolicyOK, AggregationOK,
                                ResolutionOK
<1>6. NoResourceTwice'
  BY <1>2 DEF IInv, NoResourceTwice
<1> QED
  BY <1>5, <1>6, TypeOKNext DEF IInv

LEMMA NextPreserves == IInv /\ [Next]_vars => IInv'
BY ReadPreserves, AggregationPreserves, FillPreserves, TakeRulePreserves,
   BindPreserves, MovePreserves DEF Next

\* Reading, aggregating and resolving keep the policy well formed, whatever the
\* file holds (rbac.go:60-221).
THEOREM PolicyTypeCorrect == Spec => []TypeOK
<1>1. IInv => TypeOK
  BY DEF IInv
<1> QED
  BY <1>1, InitEstablishes, NextPreserves, PTL DEF Spec

\* At no time does the list being built name a resource twice, so apply drives
\* no resource by two rules (rbac.go:203-218).
THEOREM RulesAreDistinct == Spec => []NoResourceTwice
<1>1. IInv => NoResourceTwice
  BY DEF IInv
<1> QED
  BY <1>1, InitEstablishes, NextPreserves, PTL DEF Spec

-------------------------------------------------------------------------------
(* What the answer owes to the documents: lists of rules. *)

\* Rule q is the last of the list for its resource.
IsLast(list, q) ==
  \A j \in DOMAIN list : list[j].resource = list[q].resource => j <= q

\* A list draws on the words of the roles in M: it has a rule for exactly the
\* resources they have rules for, and its last rule for a resource is the last
\* one of some role in M.
Draws(list, M, W) ==
  /\ \A m \in M : \A j \in DOMAIN W[m] :
        \E q \in DOMAIN list : list[q].resource = W[m][j].resource
  /\ \A q \in DOMAIN list : \E m \in M : \E j \in DOMAIN W[m] :
        W[m][j].resource = list[q].resource
  /\ \A q \in DOMAIN list : IsLast(list, q) =>
        \E m \in M : \E j \in DOMAIN W[m] :
           W[m][j] = list[q] /\ IsLast(W[m], j)

LEMMA DrawsNothing ==
  ASSUME NEW W
  PROVE  Draws(<<>>, {}, W)
BY DEF Draws

LEMMA DrawsOwn ==
  ASSUME NEW W, NEW n
  PROVE  Draws(W[n], {n}, W)
BY DEF Draws

\* A list followed by the words of one more role draws on that role too.
LEMMA DrawsMore ==
  ASSUME NEW W, NEW M, NEW m, NEW list \in Seq(RuleType),
         W[m] \in Seq(RuleType), Draws(list, M, W)
  PROVE  Draws(list \o W[m], M \cup {m}, W)
<1> DEFINE more == list \o W[m]
<1>1. /\ Len(list) \in Nat /\ Len(W[m]) \in Nat
      /\ DOMAIN list = 1..Len(list) /\ DOMAIN W[m] = 1..Len(W[m])
      /\ DOMAIN more = 1..(Len(list) + Len(W[m]))
      /\ \A q \in DOMAIN list : q \in DOMAIN more /\ more[q] = list[q]
      /\ \A j \in DOMAIN W[m] : /\ Len(list) + j \in DOMAIN more
                                /\ more[Len(list) + j] = W[m][j]
  OBVIOUS
<1> HIDE DEF more
<1>2. ASSUME NEW q \in DOMAIN more, q \notin DOMAIN list
      PROVE  /\ q - Len(list) \in DOMAIN W[m]
             /\ more[q] = W[m][q - Len(list)]
  <2>1. q - Len(list) \in DOMAIN W[m] /\ Len(list) + (q - Len(list)) = q
    BY <1>1, <1>2
  <2> QED
    BY <1>1, <2>1
<1>3. ASSUME NEW l \in M \cup {m}, NEW j \in DOMAIN W[l]
      PROVE  \E q \in DOMAIN more : more[q].resource = W[l][j].resource
  <2>1. CASE l \in M
    BY <1>1, <2>1 DEF Draws
  <2>2. CASE l = m
    BY <1>1, <2>2
  <2> QED
    BY <2>1, <2>2
<1>4. ASSUME NEW q \in DOMAIN more
      PROVE  \E l \in M \cup {m} : \E j \in DOMAIN W[l] :
                W[l][j].resource = more[q].resource
  <2>1. CASE q \in DOMAIN list
    BY <1>1, <2>1 DEF Draws
  <2>2. CASE q \notin DOMAIN list
    BY <1>2, <2>2
  <2> QED
    BY <2>1, <2>2
<1>5. ASSUME NEW q \in DOMAIN more, IsLast(more, q)
      PROVE  \E l \in M \cup {m} : \E j \in DOMAIN W[l] :
                W[l][j] = more[q] /\ IsLast(W[l], j)
  <2>1. CASE q \in DOMAIN list
    <3>1. IsLast(list, q)
      BY <1>1, <1>5, <2>1 DEF IsLast
    <3>2. PICK l \in M : \E j \in DOMAIN W[l] : W[l][j] = list[q] /\ IsLast(W[l], j)
      BY <2>1, <3>1 DEF Draws
    <3> QED
      BY <1>1, <2>1, <3>2
  <2>2. CASE q \notin DOMAIN list
    <3> DEFINE j == q - Len(list)
    <3>1. j \in DOMAIN W[m] /\ more[q] = W[m][j] /\ q \in Int
      BY <1>1, <1>2, <2>2
    <3>2. ASSUME NEW h \in DOMAIN W[m], W[m][h].resource = W[m][j].resource
          PROVE  h <= j
      <4>1. Len(list) + h <= q
        BY <1>1, <1>5, <3>1, <3>2 DEF IsLast
      <4> QED
        BY <1>1, <3>1, <4>1
    <3>3. IsLast(W[m], j)
      BY <3>2 DEF IsLast
    <3> QED
      BY <3>1, <3>3
  <2> QED
    BY <2>1, <2>2
<1> QED
  BY <1>3, <1>4, <1>5 DEF Draws, more

\* Rule r is in the list that Put returns, with the other resources' rules.
LEMMA PutTakes ==
  ASSUME NEW list \in Seq(RuleType), NEW r \in RuleType
  PROVE  /\ \E i \in DOMAIN Put(list, r) : Put(list, r)[i] = r
         /\ \A i \in DOMAIN Put(list, r) :
               \/ Put(list, r)[i] = r
               \/ /\ Put(list, r)[i].resource # r.resource
                  /\ \E j \in DOMAIN list : list[j] = Put(list, r)[i]
         /\ \A j \in DOMAIN list : \E i \in DOMAIN Put(list, r) :
               Put(list, r)[i].resource = list[j].resource
<1>1. CASE \E i \in DOMAIN list : list[i].resource = r.resource
  <2>1. Put(list, r) = [i \in DOMAIN list |->
                          IF list[i].resource = r.resource THEN r ELSE list[i]]
    BY <1>1 DEF Put
  <2>2. \A i \in DOMAIN list : Put(list, r)[i].resource = list[i].resource
    BY <2>1
  <2> QED
    BY <1>1, <2>1, <2>2
<1>2. CASE ~ \E i \in DOMAIN list : list[i].resource = r.resource
  <2>1. Put(list, r) = Append(list, r)
    BY <1>2 DEF Put
  <2>2. /\ DOMAIN Put(list, r) = DOMAIN list \cup {Len(list) + 1}
        /\ Put(list, r)[Len(list) + 1] = r
        /\ \A i \in DOMAIN list : Put(list, r)[i] = list[i]
    BY <2>1
  <2> QED
    BY <1>2, <2>2
<1> QED
  BY <1>1, <1>2

-------------------------------------------------------------------------------
(* Enumerations. *)

\* Function g lists the n numbers of D from the least to the greatest.
Enumerates(g, n, D) ==
  /\ \A i, j \in 1..n : i < j => g[i] < g[j]
  /\ \A d \in D : \E j \in 1..n : g[j] = d

LEMMA EnumeratesNothing ==
  \E g \in [1..0 -> {}] : Enumerates(g, 0, {})
<1>1. [j \in 1..0 |-> 0] \in [1..0 -> {}]
  OBVIOUS
<1>2. Enumerates([j \in 1..0 |-> 0], 0, {})
  BY DEF Enumerates
<1> QED
  BY <1>1, <1>2

\* A number greater than all of D comes last.
LEMMA EnumeratesMore ==
  ASSUME NEW n \in Nat, NEW D \in SUBSET Nat, NEW d \in Nat,
         \A c \in D : c < d,
         NEW g \in [1..n -> D], Enumerates(g, n, D)
  PROVE  \E h \in [1..(n + 1) -> D \cup {d}] :
            /\ Enumerates(h, n + 1, D \cup {d})
            /\ \A j \in 1..n : h[j] = g[j]
            /\ h[n + 1] = d
<1> DEFINE h == [j \in 1..(n + 1) |-> IF j = n + 1 THEN d ELSE g[j]]
<1>1. \A j \in 1..n : j \in 1..(n + 1) /\ h[j] = g[j]
  OBVIOUS
<1>2. n + 1 \in 1..(n + 1) /\ h[n + 1] = d
  OBVIOUS
<1>3. h \in [1..(n + 1) -> D \cup {d}]
  <2>1. \A j \in 1..(n + 1) : j # n + 1 => j \in 1..n
    OBVIOUS
  <2> QED
    BY <2>1
<1> HIDE DEF h
<1>4. ASSUME NEW i \in 1..(n + 1), NEW j \in 1..(n + 1), i < j PROVE h[i] < h[j]
  <2>1. i \in 1..n
    BY <1>4
  <2>2. CASE j \in 1..n
    BY <1>1, <1>4, <2>1, <2>2 DEF Enumerates
  <2>3. CASE j = n + 1
    <3>1. g[i] \in D
      BY <2>1
    <3> QED
      BY <1>1, <1>2, <2>1, <2>3, <3>1
  <2> QED
    BY <2>2, <2>3
<1>5. ASSUME NEW c \in D \cup {d} PROVE \E j \in 1..(n + 1) : h[j] = c
  <2>1. CASE c = d
    BY <1>2, <2>1
  <2>2. CASE c \in D
    BY <1>1, <2>2 DEF Enumerates
  <2> QED
    BY <2>1, <2>2
<1> QED
  BY <1>1, <1>2, <1>3, <1>4, <1>5 DEF Enumerates

-------------------------------------------------------------------------------
(* What the answer owes to the documents: the invariant. *)

\* The documents read so far.
DocsRead == {i \in DOMAIN docs : at = "parse" => i < pos}

BindingDocs == {i \in DOMAIN docs : docs[i].kind = "RoleBinding"}

\* The rules that each role is written with, in the document that counts.
Words == [n \in Defined |-> Meant(n).rules]

\* Document i is the last of role n that has been read, and the map holds what it
\* says; but the rules of an aggregate role are not those it is written with.
HoldsDoc(n, i) ==
  /\ i \in RoleDocs(n) \cap DocsRead
  /\ \A j \in RoleDocs(n) \cap DocsRead : j <= i
  /\ roles[n].labels = docs[i].body.labels
  /\ roles[n].aggregate = docs[i].body.aggregate
  /\ roles[n].selectors = docs[i].body.selectors
  /\ ~roles[n].aggregate => roles[n].rules = docs[i].body.rules

RolesRead ==
  /\ DOMAIN roles = {n \in RoleName : RoleDocs(n) \cap DocsRead # {}}
  /\ \A n \in DOMAIN roles : \E i \in DOMAIN docs : HoldsDoc(n, i)

\* The bindings are those of the documents read, in their order.
BindingsRead ==
  \E g \in [1..Len(bindings) -> BindingDocs \cap DocsRead] :
    /\ Enumerates(g, Len(bindings), BindingDocs \cap DocsRead)
    /\ \A j \in 1..Len(bindings) : bindings[j] = docs[g[j]].binding

\* The roles that have been visited draw on their sources.
RolesFilled ==
  at # "parse" =>
    \A n \in DOMAIN roles \ (unvisited \cup current) :
       Draws(roles[n].rules, Sources(n), Words)

\* An aggregate role is being filled with the rules of the sources visited.
MergedSoFar ==
  /\ at = "merge" =>
       \E n \in DOMAIN roles :
          /\ current = {n} /\ roles[n].aggregate
          /\ Draws(merged, Sources(n) \ others, Words)
  /\ at # "merge" => current = {}
  /\ at \in {"lookup", "bindings", "rules", "resolved"} => unvisited = {}

\* The roles of the bindings that concern the group, in the order of those.
Concerning == {j \in DOMAIN bindings : /\ Concerns(bindings[j])
                                       /\ at = "bindings" => j < pos}

NamesGathered ==
  IF at \in {"bindings", "rules", "resolved"}
    THEN \E h \in [1..Len(roleNames) -> Concerning] :
           /\ Enumerates(h, Len(roleNames), Concerning)
           /\ \A j \in 1..Len(roleNames) : roleNames[j] = bindings[h[j]].role
    ELSE roleNames = <<>>

\* Rule q of the p-th role the group is bound to has been taken.
Given(p) == roles[roleNames[p]].rules
Taken(p, q) ==
  /\ p \in DOMAIN roleNames /\ roleNames[p] \in DOMAIN roles
  /\ q \in DOMAIN Given(p)
  /\ p < pos \/ (p = pos /\ q < nextRule)

\* Rule q of role p is not followed by rule v of role u.
NotAfter(u, v, p, q) == u < p \/ (u = p /\ v <= q)

\* The list has a rule for what has been taken, and it is the last one taken.
RulesTaken ==
  IF at \in {"rules", "resolved"}
    THEN /\ \A p, q \in Nat : Taken(p, q) =>
               \E i \in DOMAIN rules : rules[i].resource = Given(p)[q].resource
         /\ \A i \in DOMAIN rules : \E p, q \in Nat :
               /\ Taken(p, q) /\ rules[i] = Given(p)[q]
               /\ \A u, v \in Nat :
                     Taken(u, v) /\ Given(u)[v].resource = rules[i].resource
                     => NotAfter(u, v, p, q)
         /\ at = "resolved" => pos > Len(roleNames)
    ELSE rules = <<>> /\ nextRule = 1

PolicyInv ==
  /\ IInv
  /\ at # "refused" =>
       /\ RolesRead /\ BindingsRead
       /\ RolesFilled /\ MergedSoFar
       /\ NamesGathered /\ RulesTaken

\* The documents stay as they are, and with them what they mean.
LEMMA DocsStay ==
  ASSUME UNCHANGED docs
  PROVE  /\ \A n : RoleDocs(n)' = RoleDocs(n)
         /\ BindingDocs' = BindingDocs
         /\ Words' = Words
         /\ \A n : Sources(n)' = Sources(n)
<1>1. \A n : RoleDocs(n)' = RoleDocs(n)
  BY DEF RoleDocs
<1>2. \A n : LastDoc(n)' = LastDoc(n)
  BY DEF LastDoc, RoleDocs
<1>3. \A n : Meant(n)' = Meant(n)
  BY <1>2 DEF Meant
<1>4. Defined' = Defined
  BY <1>1 DEF Defined
<1>5. Words' = Words
  BY <1>3, <1>4 DEF Words
<1>6. \A n : Labels(n)' = Labels(n)
  BY <1>3 DEF Labels
<1>7. \A n : Sources(n)' = Sources(n)
  BY <1>3, <1>4, <1>6 DEF Sources
<1>8. BindingDocs' = BindingDocs
  BY DEF BindingDocs
<1> QED
  BY <1>1, <1>5, <1>7, <1>8

\* Once all documents are read, the map of roles holds what the roles mean.
LEMMA RolesMean ==
  ASSUME IInv, at \notin {"parse", "refused"}, RolesRead
  PROVE  /\ DOMAIN roles = Defined
         /\ \A n \in Defined :
              /\ Meant(n) \in BodyType
              /\ Words[n] \in Seq(RuleType)
              /\ roles[n] \in BodyType
              /\ roles[n].labels = Meant(n).labels
              /\ roles[n].aggregate = Meant(n).aggregate
              /\ roles[n].selectors = Meant(n).selectors
              /\ ~roles[n].aggregate => roles[n].rules = Words[n]
<1>1. DocsRead = DOMAIN docs
  BY DEF DocsRead
<1>2. \A n : RoleDocs(n) \cap DocsRead = RoleDocs(n)
  BY <1>1 DEF RoleDocs
<1>3. DOMAIN roles = Defined
  BY <1>2 DEF RolesRead, Defined
<1>4. ASSUME NEW n \in Defined
      PROVE  /\ Meant(n) \in BodyType /\ Words[n] \in Seq(RuleType)
             /\ roles[n] \in BodyType
             /\ roles[n].labels = Meant(n).labels
             /\ roles[n].aggregate = Meant(n).aggregate
             /\ roles[n].selectors = Meant(n).selectors
             /\ ~roles[n].aggregate => roles[n].rules = Words[n]
  <2>1. PICK i \in DOMAIN docs : HoldsDoc(n, i)
    BY <1>3, <1>4 DEF RolesRead
  <2>2. i \in RoleDocs(n) /\ \A j \in RoleDocs(n) : j <= i
    BY <1>2, <2>1 DEF HoldsDoc
  <2>3. docs \in Seq(DocType) /\ DOMAIN docs \subseteq Nat
    BY DEF IInv, TypeOK
  <2>4. LastDoc(n) = i
    <3>1. /\ LastDoc(n) \in RoleDocs(n)
          /\ \A j \in RoleDocs(n) : j <= LastDoc(n)
      BY <2>2 DEF LastDoc
    <3>2. LastDoc(n) \in Nat /\ i \in Nat
      BY <2>3, <3>1 DEF RoleDocs
    <3>3. i <= LastDoc(n) /\ LastDoc(n) <= i
      BY <2>2, <3>1
    <3> QED
      BY <3>2, <3>3
  <2>5. Meant(n) = docs[i].body /\ Words[n] = docs[i].body.rules
    BY <1>4, <2>4 DEF Meant, Words
  <2>6. docs[i].body \in BodyType
    <3>1. docs[i] \in DocType /\ docs[i].kind = "Role"
      BY <2>2, <2>3 DEF RoleDocs
    <3> QED
      BY <3>1 DEF DocType, RoleDoc, GroupDoc, BindingDoc, OtherDoc
  <2>7. docs[i].body.rules \in Seq(RuleType)
    BY <2>6, BodyRules
  <2>8. roles[n] \in BodyType
    BY <1>3, <1>4 DEF IInv, TypeOK
  <2> QED
    BY <2>1, <2>5, <2>6, <2>7, <2>8 DEF HoldsDoc
<1> QED
  BY <1>3, <1>4

\* The loop finds the sources of an aggregate role: a label that is missing and a
\* selector that asks for "" are no exception.
LEMMA MembersAreSources ==
  ASSUME IInv, at \notin {"parse", "refused"}, RolesRead,
         NEW m \in Defined, NEW n \in Defined, roles[n].aggregate
  PROVE  Member(m, n) <=> m \in Sources(n)
<1>1. /\ roles[m].labels = Meant(m).labels
      /\ roles[m].aggregate = Meant(m).aggregate
      /\ Meant(n).aggregate
      /\ roles[n].selectors = Meant(n).selectors
      /\ Meant(n).selectors \subseteq SelectorType
  <2>1. Meant(n) \in BodyType /\ Meant(n).selectors = roles[n].selectors
    BY RolesMean
  <2>2. Meant(n).selectors \subseteq SelectorType
    BY <2>1 DEF BodyType
  <2> QED
    BY <2>1, <2>2, RolesMean
<1>2. ASSUME NEW s \in Meant(n).selectors
      PROVE  MatchesAll(roles[m].labels, s) <=> s \subseteq Labels(m)
  <2>1. s \subseteq Label \X LabelValue
    BY <1>1, <1>2 DEF SelectorType
  <2>2. \A p \in s : p = <<p[1], p[2]>> /\ p[1] \in Label
    BY <2>1
  <2>3. ASSUME NEW p \in s
        PROVE  Meant(m).labels[p[1]] = p[2] <=> p \in Labels(m)
    <3>1. p = <<p[1], p[2]>> /\ p[1] \in Label
      BY <2>2, <2>3
    <3>2. Meant(m).labels[p[1]] = p[2] => p \in Labels(m)
      BY <3>1 DEF Labels
    <3>3. p \in Labels(m) => Meant(m).labels[p[1]] = p[2]
      BY <3>1 DEF Labels
    <3> QED
      BY <3>2, <3>3
  <2> QED
    BY <1>1, <2>3 DEF MatchesAll
<1>3. Member(m, n) <=> ~Meant(m).aggregate
                       /\ \E s \in Meant(n).selectors : s \subseteq Labels(m)
  BY <1>1, <1>2 DEF Member, MatchesAny
<1>4. m \in Sources(n) <=> ~Meant(m).aggregate
                           /\ \E s \in Meant(n).selectors : s \subseteq Labels(m)
  BY <1>1 DEF Sources
<1> QED
  BY <1>3, <1>4

\* The sources of a role that is defined are defined.
LEMMA SourcesDefined ==
  ASSUME NEW n \in Defined
  PROVE  Sources(n) \subseteq Defined
BY DEF Sources

-------------------------------------------------------------------------------
(* What a step leaves alone. *)

LEMMA ReadingStays ==
  ASSUME RolesRead, BindingsRead, UNCHANGED <<docs, roles, bindings>>,
         DocsRead' = DocsRead
  PROVE  RolesRead' /\ BindingsRead'
<1>1. \A n, i : HoldsDoc(n, i)' <=> HoldsDoc(n, i)
  BY DocsStay DEF HoldsDoc
<1>2. RolesRead'
  BY <1>1, DocsStay DEF RolesRead
<1>3. BindingsRead'
  BY DocsStay DEF BindingsRead
<1> QED
  BY <1>2, <1>3

LEMMA NothingGathered ==
  ASSUME NamesGathered, RulesTaken, UNCHANGED <<roleNames, nextRule, rules>>,
         at \in {"parse", "aggregate", "merge"},
         at' \in {"parse", "aggregate", "merge", "lookup"}
  PROVE  NamesGathered' /\ RulesTaken'
BY DEF NamesGathered, RulesTaken

LEMMA FillingStays ==
  ASSUME RolesFilled, MergedSoFar,
         UNCHANGED <<docs, roles, unvisited, current, others, merged>>,
         at \in {"lookup", "bindings", "rules", "resolved"},
         at' \in {"lookup", "bindings", "rules", "resolved"}
  PROVE  RolesFilled' /\ MergedSoFar'
BY DocsStay DEF RolesFilled, MergedSoFar

-------------------------------------------------------------------------------
(* The steps. *)

LEMMA PolicyInit == Init => PolicyInv
<1> SUFFICES ASSUME Init PROVE PolicyInv
  OBVIOUS
<1>1. IInv
  BY InitEstablishes
<1>2. DocsRead = {}
  <2>1. docs \in Seq(DocType)
    BY <1>1 DEF IInv, TypeOK
  <2> QED
    BY <2>1 DEF Init, DocsRead
<1>3. RolesRead
  BY <1>2 DEF Init, RolesRead
<1>4. BindingsRead
  <2>1. Len(bindings) = 0 /\ BindingDocs \cap DocsRead = {} /\ 1..0 = {}
    BY <1>2 DEF Init
  <2>2. PICK g \in [1..0 -> {}] : Enumerates(g, 0, {})
    BY EnumeratesNothing
  <2> QED
    BY <2>1, <2>2 DEF BindingsRead
<1>5. RolesFilled /\ MergedSoFar /\ NamesGathered /\ RulesTaken
  BY DEF Init, RolesFilled, MergedSoFar, NamesGathered, RulesTaken
<1> QED
  BY <1>1, <1>3, <1>4, <1>5 DEF PolicyInv

\* The map holds the last document of each role, the list all bindings.
LEMMA ReadKeeps == PolicyInv /\ Read => PolicyInv'
<1> SUFFICES ASSUME PolicyInv, Read PROVE PolicyInv'
  OBVIOUS
<1>1. IInv /\ IInv' /\ InputOK /\ PlaceOK /\ PolicyOK
  BY ReadPreserves, TypeOKParts DEF PolicyInv, IInv
<1> DEFINE d == docs[pos]
<1>2. /\ at = "parse" /\ pos <= Len(docs) /\ pos' = pos + 1 /\ Add(d)
      /\ UNCHANGED <<docs, group, at, unvisited, current, others, merged,
                     roleNames, nextRule, rules>>
  BY DEF Read, input, aggregation, resolution
<1>3. RolesRead /\ BindingsRead /\ RolesFilled /\ MergedSoFar
      /\ NamesGathered /\ RulesTaken
  BY <1>2 DEF PolicyInv
<1>4. docs \in Seq(DocType) /\ DOMAIN docs = 1..Len(docs) /\ Len(docs) \in Nat
      /\ pos \in Nat \ {0} /\ pos \in DOMAIN docs /\ d \in DocType
  BY <1>1, <1>2 DEF InputOK, PlaceOK
<1>5. /\ DocsRead' = DocsRead \cup {pos}
      /\ \A j \in DocsRead : j < pos
      /\ DocsRead \subseteq Nat
  BY <1>2, <1>4 DEF DocsRead
<1>6. RolesFilled' /\ MergedSoFar' /\ NamesGathered' /\ RulesTaken'
  BY <1>2, <1>3, NothingGathered DEF RolesFilled, MergedSoFar
<1>7. RolesRead'
  <2>1. CASE d.kind = "Role"
    <3>1. /\ roles' = Updated(roles, d.name, d.body)
          /\ d.name \in RoleName
      BY <1>2, <1>4, <2>1 DEF Add, DocType, RoleDoc, GroupDoc, BindingDoc, OtherDoc
    <3>2. PICK c \in RoleName, p \in DOMAIN docs : c = d.name /\ p = pos
      BY <1>4, <3>1
    <3>3. /\ DOMAIN roles' = DOMAIN roles \cup {c}
          /\ roles'[c] = docs[p].body
          /\ \A n \in DOMAIN roles : n # c => roles'[n] = roles[n]
      BY <3>1, <3>2 DEF Updated
    <3>4. \A n : RoleDocs(n)' \cap DocsRead'
                   = (RoleDocs(n) \cap DocsRead) \cup {j \in {p} : n = c}
      <4>1. \A n : p \in RoleDocs(n) <=> n = c
        BY <2>1, <3>2 DEF RoleDocs
      <4>2. \A n : RoleDocs(n)' = RoleDocs(n)
        BY <1>2, DocsStay
      <4> QED
        BY <1>5, <3>2, <4>1, <4>2
    <3>5. HoldsDoc(c, p)'
      <4>1. p \in RoleDocs(c)' \cap DocsRead'
        BY <3>4
      <4>2. ASSUME NEW j \in RoleDocs(c)' \cap DocsRead' PROVE j <= p
        <5>1. j \in DocsRead \/ j = p
          BY <3>4, <4>2
        <5>2. p \in Nat /\ (j \in DocsRead => j < p /\ j \in Nat)
          BY <1>4, <1>5, <3>2
        <5> QED
          BY <5>1, <5>2
      <4> QED
        BY <1>2, <3>3, <4>1, <4>2 DEF HoldsDoc
    <3>6. ASSUME NEW n \in DOMAIN roles, n # c
          PROVE  \E i \in DOMAIN docs : HoldsDoc(n, i)'
      <4>1. PICK i \in DOMAIN docs : HoldsDoc(n, i)
        BY <1>3, <3>6 DEF RolesRead
      <4>2. RoleDocs(n)' \cap DocsRead' = RoleDocs(n) \cap DocsRead
        BY <3>4, <3>6
      <4> QED
        BY <1>2, <3>3, <3>6, <4>1, <4>2 DEF HoldsDoc
    <3>7. DOMAIN roles' = {n \in RoleName : RoleDocs(n)' \cap DocsRead' # {}}
      BY <1>3, <3>3, <3>4 DEF RolesRead
    <3>8. \A n \in DOMAIN roles' : \E i \in DOMAIN docs : HoldsDoc(n, i)'
      BY <3>3, <3>5, <3>6
    <3> QED
      BY <1>2, <3>7, <3>8 DEF RolesRead
  <2>2. CASE d.kind # "Role"
    <3>1. roles' = roles
      BY <1>2, <2>2 DEF Add
    <3>2. \A n : RoleDocs(n)' \cap DocsRead' = RoleDocs(n) \cap DocsRead
      BY <1>2, <1>5, <2>2, DocsStay DEF RoleDocs
    <3>3. \A n, i : HoldsDoc(n, i)' <=> HoldsDoc(n, i)
      BY <1>2, <3>1, <3>2 DEF HoldsDoc
    <3> QED
      BY <1>2, <1>3, <3>1, <3>2, <3>3 DEF RolesRead
  <2> QED
    BY <2>1, <2>2
<1>8. BindingsRead'
  <2> DEFINE D == BindingDocs \cap DocsRead
  <2>1. PICK g \in [1..Len(bindings) -> D] :
          /\ Enumerates(g, Len(bindings), D)
          /\ \A j \in 1..Len(bindings) : bindings[j] = docs[g[j]].binding
    BY <1>3 DEF BindingsRead
  <2>2. CASE d.kind = "RoleBinding"
    <3>1. bindings' = Append(bindings, d.binding)
      BY <1>2, <2>2 DEF Add
    <3>2. /\ Len(bindings) \in Nat /\ Len(bindings') = Len(bindings) + 1
          /\ \A j \in 1..Len(bindings) : bindings'[j] = bindings[j]
          /\ bindings'[Len(bindings) + 1] = d.binding
      BY <1>1, <3>1 DEF PolicyOK
    <3>3. BindingDocs' \cap DocsRead' = D \cup {pos}
      BY <1>2, <1>4, <1>5, <2>2, DocsStay DEF BindingDocs
    <3>4. D \in SUBSET Nat /\ pos \in Nat /\ \A c \in D : c < pos
      BY <1>4, <1>5
    <3> HIDE DEF D
    <3>5. PICK h \in [1..(Len(bindings) + 1) -> D \cup {pos}] :
            /\ Enumerates(h, Len(bindings) + 1, D \cup {pos})
            /\ \A j \in 1..Len(bindings) : h[j] = g[j]
            /\ h[Len(bindings) + 1] = pos
      BY <2>1, <3>2, <3>4, EnumeratesMore
    <3>6. ASSUME NEW j \in 1..Len(bindings')
          PROVE  bindings'[j] = docs'[h[j]].binding
      <4>1. CASE j \in 1..Len(bindings)
        BY <1>2, <2>1, <3>2, <3>5, <4>1
      <4>2. CASE j = Len(bindings) + 1
        BY <1>2, <3>2, <3>5, <4>2
      <4> QED
        BY <3>2, <4>1, <4>2
    <3> QED
      BY <3>2, <3>3, <3>5, <3>6 DEF BindingsRead
  <2>3. CASE d.kind # "RoleBinding"
    <3>1. bindings' = bindings
      BY <1>2, <2>3 DEF Add
    <3>2. BindingDocs' \cap DocsRead' = D
      BY <1>2, <1>5, <2>3, DocsStay DEF BindingDocs
    <3> QED
      BY <1>2, <2>1, <3>1, <3>2 DEF BindingsRead
  <2> QED
    BY <2>2, <2>3
<1> QED
  BY <1>1, <1>3, <1>6, <1>7, <1>8 DEF PolicyInv

\* The end of the file, and the start of the outer loop.
LEMMA ParsedKeeps == PolicyInv /\ Parsed => PolicyInv'
<1> SUFFICES ASSUME PolicyInv, Parsed PROVE PolicyInv'
  OBVIOUS
<1>1. IInv /\ IInv' /\ InputOK /\ PlaceOK
  BY MovePreserves, TypeOKParts DEF PolicyInv, IInv
<1>2. /\ at = "parse" /\ pos > Len(docs) /\ at' = "aggregate"
      /\ unvisited' = DOMAIN roles
      /\ UNCHANGED <<docs, group, pos, roles, groups, bindings, current, others,
                     merged, roleNames, nextRule, rules>>
  BY DEF Parsed, input, policy, resolution
<1>3. RolesRead /\ BindingsRead /\ MergedSoFar /\ NamesGathered /\ RulesTaken
  BY <1>2 DEF PolicyInv
<1>4. DocsRead' = DocsRead
  BY <1>1, <1>2 DEF DocsRead, InputOK, PlaceOK
<1>5. RolesRead' /\ BindingsRead'
  BY <1>2, <1>3, <1>4, ReadingStays
<1>6. RolesFilled' /\ MergedSoFar'
  BY <1>2, <1>3 DEF RolesFilled, MergedSoFar
<1>7. NamesGathered' /\ RulesTaken'
  BY <1>2, <1>3, NothingGathered
<1> QED
  BY <1>1, <1>5, <1>6, <1>7 DEF PolicyInv

\* A plain role is its own source, and is left as it is.
LEMMA VisitPlainKeeps == PolicyInv /\ VisitPlain => PolicyInv'
<1> SUFFICES ASSUME PolicyInv, VisitPlain PROVE PolicyInv'
  OBVIOUS
<1>1. IInv /\ IInv'
  BY AggregationPreserves DEF PolicyInv
<1>2. PICK n \in unvisited : ~roles[n].aggregate /\ unvisited' = unvisited \ {n}
  BY DEF VisitPlain
<1>3. /\ at = "aggregate"
      /\ UNCHANGED <<docs, group, at, pos, roles, groups, bindings, current,
                     others, merged, roleNames, nextRule, rules>>
  BY DEF VisitPlain, input, policy, resolution
<1>4. /\ RolesRead /\ BindingsRead /\ RolesFilled /\ MergedSoFar
      /\ NamesGathered /\ RulesTaken
  BY <1>3 DEF PolicyInv
<1>5. RolesRead' /\ BindingsRead'
  BY <1>3, <1>4, ReadingStays DEF DocsRead
<1>6. Draws(roles[n].rules, Sources(n), Words)
  <2>1. n \in DOMAIN roles
    BY <1>1 DEF IInv, TypeOK
  <2>2. Sources(n) = {n} /\ roles[n].rules = Words[n]
    BY <1>1, <1>2, <1>3, <1>4, <2>1, RolesMean DEF Sources
  <2> QED
    BY <2>2, DrawsOwn
<1>7. RolesFilled'
  BY <1>2, <1>3, <1>4, <1>6, DocsStay DEF RolesFilled
<1>8. MergedSoFar'
  BY <1>3, <1>4 DEF MergedSoFar
<1>9. NamesGathered' /\ RulesTaken'
  BY <1>3, <1>4, NothingGathered
<1> QED
  BY <1>1, <1>5, <1>7, <1>8, <1>9 DEF PolicyInv

\* The collection for an aggregate role starts from nothing.
LEMMA VisitAggregateKeeps == PolicyInv /\ VisitAggregate => PolicyInv'
<1> SUFFICES ASSUME PolicyInv, VisitAggregate PROVE PolicyInv'
  OBVIOUS
<1>1. IInv /\ IInv'
  BY AggregationPreserves DEF PolicyInv
<1>2. PICK n \in unvisited :
        roles[n].aggregate /\ unvisited' = unvisited \ {n} /\ current' = {n}
  BY DEF VisitAggregate
<1>3. /\ at = "aggregate" /\ at' = "merge"
      /\ others' = DOMAIN roles /\ merged' = <<>>
      /\ UNCHANGED <<docs, group, pos, roles, groups, bindings, roleNames,
                     nextRule, rules>>
  BY DEF VisitAggregate, input, policy, resolution
<1>4. /\ RolesRead /\ BindingsRead /\ RolesFilled /\ MergedSoFar
      /\ NamesGathered /\ RulesTaken
  BY <1>3 DEF PolicyInv
<1>5. RolesRead' /\ BindingsRead'
  BY <1>3, <1>4, ReadingStays DEF DocsRead
<1>6. n \in DOMAIN roles /\ Sources(n) \subseteq DOMAIN roles
  <2>1. n \in DOMAIN roles /\ DOMAIN roles = Defined
    BY <1>1, <1>3, <1>4, RolesMean DEF IInv, TypeOK
  <2> QED
    BY <2>1, SourcesDefined
<1>7. RolesFilled'
  BY <1>2, <1>3, <1>4, DocsStay DEF RolesFilled, MergedSoFar
<1>8. MergedSoFar'
  <2>1. Sources(n) \ others' = {} /\ Sources(n)' = Sources(n) /\ Words' = Words
    BY <1>3, <1>6, DocsStay
  <2>2. Draws(merged', Sources(n)' \ others', Words')
    BY <1>3, <2>1, DrawsNothing
  <2> QED
    BY <1>2, <1>3, <1>6, <2>2 DEF MergedSoFar
<1>9. NamesGathered' /\ RulesTaken'
  BY <1>3, <1>4, NothingGathered
<1> QED
  BY <1>1, <1>5, <1>7, <1>8, <1>9 DEF PolicyInv

\* Each role visited adds its words if it is a source, and nothing otherwise.
LEMMA MergeKeeps == PolicyInv /\ Merge => PolicyInv'
<1> SUFFICES ASSUME PolicyInv, Merge PROVE PolicyInv'
  OBVIOUS
<1>1. IInv /\ IInv'
  BY AggregationPreserves DEF PolicyInv
<1>2. /\ at = "merge"
      /\ UNCHANGED <<docs, group, at, pos, roles, groups, bindings, unvisited,
                     current, roleNames, nextRule, rules>>
  BY DEF Merge, input, policy, resolution
<1>3. /\ RolesRead /\ BindingsRead /\ RolesFilled /\ MergedSoFar
      /\ NamesGathered /\ RulesTaken
  BY <1>2 DEF PolicyInv
<1>4. PICK n \in DOMAIN roles :
        /\ current = {n} /\ roles[n].aggregate
        /\ Draws(merged, Sources(n) \ others, Words)
  BY <1>2, <1>3 DEF MergedSoFar
<1>5. PICK m \in others :
        /\ others' = others \ {m}
        /\ merged' = IF Member(m, n) THEN merged \o roles[m].rules ELSE merged
  BY <1>4 DEF Merge
<1>6. RolesRead' /\ BindingsRead'
  BY <1>2, <1>3, ReadingStays DEF DocsRead
<1>7. RolesFilled'
  BY <1>2, <1>3, DocsStay DEF RolesFilled
<1>8. m \in Defined /\ n \in Defined /\ merged \in Seq(RuleType)
  BY <1>1, <1>2, <1>3, RolesMean DEF IInv, TypeOK
<1>9. Draws(merged', Sources(n) \ others', Words)
  <2>1. CASE Member(m, n)
    <3>1. m \in Sources(n)
      BY <1>1, <1>2, <1>3, <1>4, <1>8, <2>1, MembersAreSources
    <3>2. Sources(n) \ others' = (Sources(n) \ others) \cup {m}
      BY <1>5, <3>1
    <3>3. roles[m].rules = Words[m] /\ Words[m] \in Seq(RuleType)
      BY <1>1, <1>2, <1>3, <1>8, <2>1, RolesMean DEF Member
    <3>4. Draws(merged \o Words[m], (Sources(n) \ others) \cup {m}, Words)
      BY <1>4, <1>8, <3>3, DrawsMore
    <3> QED
      BY <1>5, <2>1, <3>2, <3>3, <3>4
  <2>2. CASE ~Member(m, n)
    <3>1. m \notin Sources(n)
      BY <1>1, <1>2, <1>3, <1>4, <1>8, <2>2, MembersAreSources
    <3>2. Sources(n) \ others' = Sources(n) \ others
      BY <1>5, <3>1
    <3> QED
      BY <1>4, <1>5, <2>2, <3>2
  <2> QED
    BY <2>1, <2>2
<1>10. MergedSoFar'
  <2>1. Sources(n)' = Sources(n) /\ Words' = Words
    BY <1>2, DocsStay
  <2> QED
    BY <1>2, <1>4, <1>9, <2>1 DEF MergedSoFar
<1>11. NamesGathered' /\ RulesTaken'
  BY <1>2, <1>3, NothingGathered
<1> QED
  BY <1>1, <1>6, <1>7, <1>10, <1>11 DEF PolicyInv

\* With every role visited, the aggregate role draws on all its sources.
LEMMA FillKeeps == PolicyInv /\ Fill => PolicyInv'
<1> SUFFICES ASSUME PolicyInv, Fill PROVE PolicyInv'
  OBVIOUS
<1>1. IInv /\ IInv'
  BY FillPreserves DEF PolicyInv
<1>2. /\ at = "merge" /\ others = {} /\ at' = "aggregate" /\ current' = {}
      /\ UNCHANGED <<docs, group, pos, groups, bindings, unvisited, others,
                     merged, roleNames, nextRule, rules>>
  BY DEF Fill, input, resolution
<1>3. /\ RolesRead /\ BindingsRead /\ RolesFilled /\ MergedSoFar
      /\ NamesGathered /\ RulesTaken
  BY <1>2 DEF PolicyInv
<1>4. PICK n \in DOMAIN roles :
        /\ current = {n} /\ roles[n].aggregate
        /\ Draws(merged, Sources(n), Words)
  <2>1. \A n : Sources(n) \ others = Sources(n)
    BY <1>2
  <2> QED
    BY <1>2, <1>3, <2>1 DEF MergedSoFar
<1>5. roles' = Filled(n) /\ roles[n] \in BodyType
  BY <1>1, <1>4 DEF Fill, IInv, TypeOK
<1>6. /\ DOMAIN roles' = DOMAIN roles
      /\ roles'[n] = [roles[n] EXCEPT !.rules = merged]
      /\ \A m \in DOMAIN roles : m # n => roles'[m] = roles[m]
  BY <1>4, <1>5 DEF Filled
<1>7. /\ roles'[n].labels = roles[n].labels
      /\ roles'[n].aggregate = roles[n].aggregate
      /\ roles'[n].selectors = roles[n].selectors
      /\ roles'[n].rules = merged
  BY <1>5, <1>6 DEF BodyType
<1>8. RolesRead'
  <2>1. DocsRead' = DocsRead
    BY <1>2 DEF DocsRead
  <2>2. \A m \in DOMAIN roles, i \in DOMAIN docs : HoldsDoc(m, i) => HoldsDoc(m, i)'
    BY <1>2, <1>4, <1>6, <1>7, <2>1, DocsStay DEF HoldsDoc
  <2> QED
    BY <1>2, <1>3, <1>6, <2>1, <2>2, DocsStay DEF RolesRead
<1>9. BindingsRead'
  BY <1>2, <1>3, DocsStay DEF BindingsRead, DocsRead
<1>10. RolesFilled'
  <2>1. ASSUME NEW m \in DOMAIN roles \ unvisited
        PROVE  Draws(roles'[m].rules, Sources(m), Words)
    <3>1. CASE m = n
      BY <1>4, <1>7, <3>1
    <3>2. CASE m # n
      BY <1>2, <1>3, <1>4, <1>6, <2>1, <3>2 DEF RolesFilled
    <3> QED
      BY <3>1, <3>2
  <2>2. Words' = Words /\ \A m : Sources(m)' = Sources(m)
    BY <1>2, DocsStay
  <2> QED
    BY <1>2, <1>6, <2>1, <2>2 DEF RolesFilled
<1>11. MergedSoFar'
  BY <1>2 DEF MergedSoFar
<1>12. NamesGathered' /\ RulesTaken'
  BY <1>2, <1>3, NothingGathered
<1> QED
  BY <1>1, <1>8, <1>9, <1>10, <1>11, <1>12 DEF PolicyInv

\* No role is left to visit.
LEMMA AggregatedKeeps == PolicyInv /\ Aggregated => PolicyInv'
<1> SUFFICES ASSUME PolicyInv, Aggregated PROVE PolicyInv'
  OBVIOUS
<1>1. IInv /\ IInv'
  BY MovePreserves DEF PolicyInv
<1>2. /\ at = "aggregate" /\ unvisited = {} /\ at' = "lookup"
      /\ UNCHANGED <<docs, group, pos, roles, groups, bindings, unvisited,
                     current, others, merged, roleNames, nextRule, rules>>
  BY DEF Aggregated, input, policy, aggregation, resolution
<1>3. /\ RolesRead /\ BindingsRead /\ RolesFilled /\ MergedSoFar
      /\ NamesGathered /\ RulesTaken
  BY <1>2 DEF PolicyInv
<1>4. RolesRead' /\ BindingsRead'
  BY <1>2, <1>3, ReadingStays DEF DocsRead
<1>5. RolesFilled' /\ MergedSoFar'
  BY <1>2, <1>3, DocsStay DEF RolesFilled, MergedSoFar
<1>6. NamesGathered' /\ RulesTaken'
  BY <1>2, <1>3, NothingGathered
<1> QED
  BY <1>1, <1>4, <1>5, <1>6 DEF PolicyInv

\* No binding has been looked at yet.
LEMMA LookupKeeps == PolicyInv /\ Lookup => PolicyInv'
<1> SUFFICES ASSUME PolicyInv, Lookup PROVE PolicyInv'
  OBVIOUS
<1>1. IInv /\ IInv'
  BY MovePreserves DEF PolicyInv
<1>2. /\ at = "lookup" /\ at' = "bindings" /\ pos' = 1
      /\ UNCHANGED <<docs, group, roles, groups, bindings, unvisited,
                     current, others, merged, roleNames, nextRule, rules>>
  BY DEF Lookup, input, policy, aggregation, resolution
<1>3. /\ RolesRead /\ BindingsRead /\ RolesFilled /\ MergedSoFar
      /\ NamesGathered /\ RulesTaken
  BY <1>2 DEF PolicyInv
<1>4. RolesRead' /\ BindingsRead'
  BY <1>2, <1>3, ReadingStays DEF DocsRead
<1>5. RolesFilled' /\ MergedSoFar'
  BY <1>2, <1>3, FillingStays
<1>6. NamesGathered'
  <2>1. roleNames = <<>> /\ Len(roleNames') = 0
    BY <1>2, <1>3 DEF NamesGathered
  <2>2. Concerning' = {}
    <3>1. bindings \in Seq(BindingType)
      BY <1>1 DEF IInv, TypeOK
    <3> QED
      BY <1>2, <3>1 DEF Concerning
  <2>3. PICK h \in [1..0 -> {}] : Enumerates(h, 0, {})
    BY EnumeratesNothing
  <2> QED
    BY <1>2, <2>1, <2>2, <2>3 DEF NamesGathered
<1>7. RulesTaken'
  BY <1>2, <1>3 DEF RulesTaken
<1> QED
  BY <1>1, <1>4, <1>5, <1>6, <1>7 DEF PolicyInv

\* A binding that concerns the group comes after those gathered before it.
LEMMA BindKeeps == PolicyInv /\ Bind => PolicyInv'
<1> SUFFICES ASSUME PolicyInv, Bind PROVE PolicyInv'
  OBVIOUS
<1>1. IInv /\ IInv'
  BY BindPreserves DEF PolicyInv
<1>2. /\ at = "bindings" /\ pos <= Len(bindings) /\ pos' = pos + 1
      /\ roleNames' = IF Concerns(bindings[pos])
                        THEN Append(roleNames, bindings[pos].role)
                        ELSE roleNames
      /\ UNCHANGED <<docs, group, at, roles, groups, bindings, unvisited,
                     current, others, merged, nextRule, rules>>
  BY DEF Bind, input, policy, aggregation
<1>3. /\ RolesRead /\ BindingsRead /\ RolesFilled /\ MergedSoFar
      /\ NamesGathered /\ RulesTaken
  BY <1>2 DEF PolicyInv
<1>4. RolesRead' /\ BindingsRead'
  BY <1>2, <1>3, ReadingStays DEF DocsRead
<1>5. RolesFilled' /\ MergedSoFar'
  BY <1>2, <1>3, FillingStays
<1>6. RulesTaken'
  BY <1>2, <1>3 DEF RulesTaken
<1>7. /\ DOMAIN bindings = 1..Len(bindings) /\ Len(bindings) \in Nat
      /\ pos \in Nat \ {0} /\ pos \in DOMAIN bindings
      /\ roleNames \in Seq(RoleName) /\ Len(roleNames) \in Nat
  <2>1. bindings \in Seq(BindingType) /\ roleNames \in Seq(RoleName)
        /\ pos \in Nat \ {0}
    BY <1>1 DEF IInv, TypeOK
  <2> QED
    BY <1>2, <2>1
<1>8. /\ Concerning' = Concerning \cup {j \in {pos} : Concerns(bindings[pos])}
      /\ Concerning \in SUBSET Nat
      /\ \A j \in Concerning : j < pos
  BY <1>2, <1>7 DEF Concerning, Concerns
<1>9. PICK h \in [1..Len(roleNames) -> Concerning] :
        /\ Enumerates(h, Len(roleNames), Concerning)
        /\ \A j \in 1..Len(roleNames) : roleNames[j] = bindings[h[j]].role
  BY <1>2, <1>3 DEF NamesGathered
<1>10. NamesGathered'
  <2>1. CASE Concerns(bindings[pos])
    <3>1. /\ Len(roleNames') = Len(roleNames) + 1
          /\ \A j \in 1..Len(roleNames) : roleNames'[j] = roleNames[j]
          /\ roleNames'[Len(roleNames) + 1] = bindings[pos].role
      BY <1>2, <1>7, <2>1
    <3>2. Concerning' = Concerning \cup {pos}
      BY <1>8, <2>1
    <3>3. PICK g \in [1..(Len(roleNames) + 1) -> Concerning \cup {pos}] :
            /\ Enumerates(g, Len(roleNames) + 1, Concerning \cup {pos})
            /\ \A j \in 1..Len(roleNames) : g[j] = h[j]
            /\ g[Len(roleNames) + 1] = pos
      <4>1. /\ Len(roleNames) \in Nat /\ pos \in Nat
            /\ Concerning \in SUBSET Nat /\ \A j \in Concerning : j < pos
        BY <1>7, <1>8
      <4> QED
        BY <1>9, <4>1, EnumeratesMore
    <3>4. ASSUME NEW j \in 1..Len(roleNames')
          PROVE  roleNames'[j] = bindings'[g[j]].role
      <4>1. CASE j \in 1..Len(roleNames)
        BY <1>2, <1>9, <3>1, <3>3, <4>1
      <4>2. CASE j = Len(roleNames) + 1
        BY <1>2, <3>1, <3>3, <4>2
      <4> QED
        BY <1>7, <3>1, <4>1, <4>2
    <3> QED
      BY <1>2, <3>1, <3>2, <3>3, <3>4 DEF NamesGathered
  <2>2. CASE ~Concerns(bindings[pos])
    <3>1. roleNames' = roleNames /\ Concerning' = Concerning
      BY <1>2, <1>8, <2>2
    <3> QED
      BY <1>2, <1>9, <3>1 DEF NamesGathered
  <2> QED
    BY <2>1, <2>2
<1> QED
  BY <1>1, <1>4, <1>5, <1>6, <1>10 DEF PolicyInv

\* All bindings have been looked at, and no rule has been taken.
LEMMA BoundKeeps == PolicyInv /\ Bound => PolicyInv'
<1> SUFFICES ASSUME PolicyInv, Bound PROVE PolicyInv'
  OBVIOUS
<1>1. IInv /\ IInv'
  BY MovePreserves DEF PolicyInv
<1>2. /\ at = "bindings" /\ pos > Len(bindings) /\ at' = "rules" /\ pos' = 1
      /\ UNCHANGED <<docs, group, roles, groups, bindings, unvisited,
                     current, others, merged, roleNames, nextRule, rules>>
  BY DEF Bound, input, policy, aggregation, resolution
<1>3. /\ RolesRead /\ BindingsRead /\ RolesFilled /\ MergedSoFar
      /\ NamesGathered /\ RulesTaken
  BY <1>2 DEF PolicyInv
<1>4. RolesRead' /\ BindingsRead'
  BY <1>2, <1>3, ReadingStays DEF DocsRead
<1>5. RolesFilled' /\ MergedSoFar'
  BY <1>2, <1>3, FillingStays
<1>6. /\ bindings \in Seq(BindingType) /\ pos \in Nat
      /\ roleNames \in Seq(RoleName)
      /\ \A n \in DOMAIN roles : roles[n].rules \in Seq(RuleType)
  BY <1>1, BodyRules DEF IInv, TypeOK
<1>7. NamesGathered'
  <2>1. Concerning' = Concerning
    BY <1>2, <1>6 DEF Concerning, Concerns
  <2> QED
    BY <1>2, <1>3, <2>1 DEF NamesGathered
<1>8. RulesTaken'
  <2>1. rules' = <<>> /\ nextRule' = 1
    BY <1>2, <1>3 DEF RulesTaken
  <2>2. ASSUME NEW p \in Nat, NEW q \in Nat PROVE ~Taken(p, q)'
    <3>1. p \in DOMAIN roleNames => p >= 1
      BY <1>6
    <3>2. p \in DOMAIN roleNames /\ roleNames[p] \in DOMAIN roles
          => \A v \in DOMAIN roles[roleNames[p]].rules : v >= 1
      BY <1>6
    <3> QED
      BY <1>2, <2>1, <3>1, <3>2 DEF Taken, Given
  <2> QED
    BY <1>2, <2>1, <2>2 DEF RulesTaken
<1> QED
  BY <1>1, <1>4, <1>5, <1>7, <1>8 DEF PolicyInv

\* While rules are taken only the list of them grows.
LEMMA TakingStays ==
  ASSUME PolicyInv, at = "rules", at' \in {"rules", "resolved"},
         UNCHANGED <<docs, group, roles, groups, bindings, unvisited, current,
                     others, merged, roleNames>>
  PROVE  /\ RolesRead' /\ BindingsRead' /\ RolesFilled' /\ MergedSoFar'
         /\ NamesGathered'
         /\ \A p : Given(p)' = Given(p)
         /\ RulesTaken
<1>1. /\ RolesRead /\ BindingsRead /\ RolesFilled /\ MergedSoFar
      /\ NamesGathered /\ RulesTaken
  BY DEF PolicyInv
<1>2. RolesRead' /\ BindingsRead'
  BY <1>1, ReadingStays DEF DocsRead
<1>3. RolesFilled' /\ MergedSoFar'
  BY <1>1, FillingStays
<1>4. NamesGathered'
  <2>1. Concerning' = Concerning
    BY DEF Concerning, Concerns
  <2> QED
    BY <1>1, <2>1 DEF NamesGathered
<1> QED
  BY <1>1, <1>2, <1>3, <1>4 DEF Given

\* The rule taken comes after all that have been, and takes the place of the one
\* for its resource.
LEMMA TakeRuleKeeps == PolicyInv /\ TakeRule => PolicyInv'
<1> SUFFICES ASSUME PolicyInv, TakeRule PROVE PolicyInv'
  OBVIOUS
<1>1. IInv /\ IInv'
  BY TakeRulePreserves DEF PolicyInv
<1>2. PICK c \in Nat \ {0}, d \in Nat \ {0} : c = pos /\ d = nextRule
  BY <1>1 DEF IInv, TypeOK
<1>3. /\ at = "rules" /\ c <= Len(roleNames) /\ roleNames[c] \in DOMAIN roles
      /\ d <= Len(Given(c))
      /\ rules' = Put(rules, Given(c)[d]) /\ nextRule' = d + 1
      /\ UNCHANGED <<docs, group, at, pos, roles, groups, bindings, unvisited,
                     current, others, merged, roleNames>>
  BY <1>2 DEF TakeRule, Given, input, policy, aggregation
<1>4. /\ RolesRead' /\ BindingsRead' /\ RolesFilled' /\ MergedSoFar'
      /\ NamesGathered'
      /\ \A p : Given(p)' = Given(p)
      /\ RulesTaken
  BY <1>3, TakingStays
<1>5. /\ roleNames \in Seq(RoleName) /\ c \in DOMAIN roleNames
      /\ Given(c) \in Seq(RuleType) /\ d \in DOMAIN Given(c)
      /\ Given(c)[d] \in RuleType /\ rules \in Seq(RuleType)
  <2>1. roleNames \in Seq(RoleName) /\ rules \in Seq(RuleType)
    BY <1>1 DEF IInv, TypeOK
  <2>2. Given(c) \in Seq(RuleType)
    BY <1>1, <1>3, BodyRules DEF IInv, TypeOK, Given
  <2> QED
    BY <1>2, <1>3, <2>1, <2>2
<1> DEFINE r == Given(c)[d]
<1>6. /\ \E i \in DOMAIN rules' : rules'[i] = r
      /\ \A i \in DOMAIN rules' :
            \/ rules'[i] = r
            \/ /\ rules'[i].resource # r.resource
               /\ \E j \in DOMAIN rules : rules[j] = rules'[i]
      /\ \A j \in DOMAIN rules : \E i \in DOMAIN rules' :
            rules'[i].resource = rules[j].resource
  <2>1. r \in RuleType
    BY <1>5
  <2>2. rules' = Put(rules, r)
    BY <1>3
  <2> HIDE DEF r
  <2> QED
    BY <1>5, <2>1, <2>2, PutTakes
<1> HIDE DEF r
<1>7. ASSUME NEW p \in Nat, NEW q \in Nat
      PROVE  Taken(p, q)' <=> Taken(p, q) \/ (p = c /\ q = d)
  <2>1. Taken(p, q)' <=> /\ p \in DOMAIN roleNames /\ roleNames[p] \in DOMAIN roles
                         /\ q \in DOMAIN Given(p)
                         /\ p < c \/ (p = c /\ q < d + 1)
    BY <1>2, <1>3, <1>4 DEF Taken
  <2>2. Taken(p, q) <=> /\ p \in DOMAIN roleNames /\ roleNames[p] \in DOMAIN roles
                        /\ q \in DOMAIN Given(p)
                        /\ p < c \/ (p = c /\ q < d)
    BY <1>2 DEF Taken
  <2>3. q < d + 1 <=> q < d \/ q = d
    OBVIOUS
  <2>4. c \in DOMAIN roleNames /\ roleNames[c] \in DOMAIN roles /\ d \in DOMAIN Given(c)
    BY <1>3, <1>5
  <2> QED
    BY <2>1, <2>2, <2>3, <2>4
<1>8. /\ \A p, q \in Nat : Taken(p, q) =>
            \E i \in DOMAIN rules : rules[i].resource = Given(p)[q].resource
      /\ \A i \in DOMAIN rules : \E p, q \in Nat :
            /\ Taken(p, q) /\ rules[i] = Given(p)[q]
            /\ \A u, v \in Nat :
                  Taken(u, v) /\ Given(u)[v].resource = rules[i].resource
                  => NotAfter(u, v, p, q)
  BY <1>3, <1>4 DEF RulesTaken
<1>9. ASSUME NEW p \in Nat, NEW q \in Nat, Taken(p, q)'
      PROVE  \E i \in DOMAIN rules' : rules'[i].resource = Given(p)[q].resource
  <2>1. CASE p = c /\ q = d
    BY <1>6, <2>1 DEF r
  <2>2. CASE Taken(p, q)
    <3>1. PICK j \in DOMAIN rules : rules[j].resource = Given(p)[q].resource
      BY <1>8, <2>2
    <3> QED
      BY <1>6, <3>1
  <2> QED
    BY <1>7, <1>9, <2>1, <2>2
<1>10. ASSUME NEW i \in DOMAIN rules'
       PROVE  \E p, q \in Nat :
                 /\ Taken(p, q)' /\ rules'[i] = Given(p)[q]
                 /\ \A u, v \in Nat :
                       Taken(u, v)' /\ Given(u)[v].resource = rules'[i].resource
                       => NotAfter(u, v, p, q)
  <2>1. CASE rules'[i] = r
    <3>1. Taken(c, d)' /\ rules'[i] = Given(c)[d]
      BY <1>7, <2>1 DEF r
    <3>2. ASSUME NEW u \in Nat, NEW v \in Nat, Taken(u, v)'
          PROVE  NotAfter(u, v, c, d)
      <4>1. (u = c /\ v = d) \/ Taken(u, v)
        BY <1>7, <3>2
      <4>2. Taken(u, v) => u < c \/ (u = c /\ v < d)
        BY <1>2 DEF Taken
      <4>3. v < d => v <= d
        OBVIOUS
      <4> QED
        BY <4>1, <4>2, <4>3 DEF NotAfter
    <3> QED
      BY <3>1, <3>2
  <2>2. CASE rules'[i] # r
    <3>1. rules'[i].resource # r.resource
      BY <1>6, <2>2
    <3>2. PICK j \in DOMAIN rules : rules[j] = rules'[i]
      BY <1>6, <2>2
    <3>3. PICK p \in Nat, q \in Nat :
            /\ Taken(p, q) /\ rules[j] = Given(p)[q]
            /\ \A u, v \in Nat :
                  Taken(u, v) /\ Given(u)[v].resource = rules[j].resource
                  => NotAfter(u, v, p, q)
      BY <1>8
    <3>4. ASSUME NEW u \in Nat, NEW v \in Nat,
                 Taken(u, v)', Given(u)[v].resource = rules'[i].resource
          PROVE  NotAfter(u, v, p, q)
      <4>1. ~(u = c /\ v = d)
        BY <3>1, <3>4 DEF r
      <4> QED
        BY <1>7, <3>2, <3>3, <3>4, <4>1
    <3>5. Taken(p, q)'
      BY <1>7, <3>3
    <3> QED
      BY <3>2, <3>3, <3>4, <3>5
  <2> QED
    BY <2>1, <2>2
<1>11. ASSUME NEW i \in DOMAIN rules'
       PROVE  \E p, q \in Nat :
                 /\ Taken(p, q)' /\ rules'[i] = Given(p)'[q]
                 /\ \A u, v \in Nat :
                       Taken(u, v)' /\ Given(u)'[v].resource = rules'[i].resource
                       => NotAfter(u, v, p, q)
  <2>1. PICK p \in Nat, q \in Nat :
          /\ Taken(p, q)' /\ rules'[i] = Given(p)[q]
          /\ \A u, v \in Nat :
                Taken(u, v)' /\ Given(u)[v].resource = rules'[i].resource
                => NotAfter(u, v, p, q)
    BY <1>10
  <2> QED
    BY <1>4, <2>1
<1>12. RulesTaken'
  <2>1. \A p, q \in Nat : Taken(p, q)' =>
          \E i \in DOMAIN rules' : rules'[i].resource = Given(p)'[q].resource
    BY <1>4, <1>9
  <2>2. at' = "rules"
    BY <1>3
  <2> QED
    BY <1>11, <2>1, <2>2 DEF RulesTaken, NotAfter
<1> QED
  BY <1>1, <1>4, <1>12 DEF PolicyInv

\* A role whose rules have all been taken is left behind, and after the last one
\* the list is the answer.
LEMMA MoveOnKeeps == PolicyInv /\ (NextRole \/ Answer) => PolicyInv'
<1> SUFFICES ASSUME PolicyInv, NextRole \/ Answer PROVE PolicyInv'
  OBVIOUS
<1>1. IInv /\ IInv'
  BY MovePreserves DEF PolicyInv
<1>2. /\ at = "rules" /\ at' \in {"rules", "resolved"}
      /\ UNCHANGED <<docs, group, roles, groups, bindings, unvisited, current,
                     others, merged, roleNames, rules>>
  BY DEF NextRole, Answer, input, policy, aggregation, resolution
<1>3. /\ RolesRead' /\ BindingsRead' /\ RolesFilled' /\ MergedSoFar'
      /\ NamesGathered'
      /\ \A p : Given(p)' = Given(p)
      /\ RulesTaken
  BY <1>2, TakingStays
<1>4. /\ roleNames \in Seq(RoleName) /\ pos \in Nat \ {0} /\ nextRule \in Nat \ {0}
      /\ \A n \in DOMAIN roles : roles[n].rules \in Seq(RuleType)
  BY <1>1, BodyRules DEF IInv, TypeOK
<1>5. ASSUME NEW p \in Nat, NEW q \in Nat
      PROVE  Taken(p, q)' <=> Taken(p, q)
  <2>1. CASE Answer
    BY <1>2, <1>3, <2>1 DEF Answer, Taken, resolution
  <2>2. CASE NextRole
    <3>1. /\ pos \in DOMAIN roleNames /\ roleNames[pos] \in DOMAIN roles
          /\ nextRule > Len(Given(pos))
          /\ pos' = pos + 1 /\ nextRule' = 1
      BY <1>4, <2>2 DEF NextRole, Given
    <3>2. Given(pos) \in Seq(RuleType)
      BY <1>4, <3>1 DEF Given
    <3>3. q \in DOMAIN Given(pos) => q < nextRule
      BY <1>4, <3>1, <3>2
    <3>4. p \in DOMAIN roleNames /\ roleNames[p] \in DOMAIN roles
          /\ q \in DOMAIN Given(p) => q >= 1
      BY <1>4 DEF Given
    <3> QED
      BY <1>2, <1>3, <1>4, <3>1, <3>3, <3>4 DEF Taken
  <2> QED
    BY <2>1, <2>2
<1>6. at' = "resolved" => pos' > Len(roleNames')
  BY <1>2 DEF NextRole, Answer
<1>7. RulesTaken'
  BY <1>2, <1>3, <1>5, <1>6 DEF RulesTaken, NotAfter
<1> QED
  BY <1>1, <1>3, <1>7 DEF PolicyInv

LEMMA RefusalKeeps ==
  PolicyInv /\ (ReadUnknown \/ LookupFails \/ RoleMissing) => PolicyInv'
<1> SUFFICES ASSUME PolicyInv, ReadUnknown \/ LookupFails \/ RoleMissing
             PROVE  PolicyInv'
  OBVIOUS
<1>1. IInv'
  BY MovePreserves DEF PolicyInv
<1>2. at' = "refused"
  BY DEF ReadUnknown, LookupFails, RoleMissing
<1> QED
  BY <1>1, <1>2 DEF PolicyInv

LEMMA PolicyStutters == PolicyInv /\ UNCHANGED vars => PolicyInv'
<1> SUFFICES ASSUME PolicyInv, UNCHANGED vars PROVE PolicyInv'
  OBVIOUS
<1>1. UNCHANGED <<docs, group, at, pos, roles, groups, bindings, unvisited,
                  current, others, merged, roleNames, nextRule, rules>>
  BY DEF vars, input, policy, aggregation, resolution
<1>2. IInv'
  BY MovePreserves DEF PolicyInv
<1>3. CASE at # "refused"
  <2>1. /\ RolesRead /\ BindingsRead /\ RolesFilled /\ MergedSoFar
        /\ NamesGathered /\ RulesTaken
    BY <1>3 DEF PolicyInv
  <2>2. RolesRead' /\ BindingsRead'
    BY <1>1, <2>1, ReadingStays DEF DocsRead
  <2>3. RolesFilled' /\ MergedSoFar'
    BY <1>1, <2>1, DocsStay DEF RolesFilled, MergedSoFar
  <2>4. Concerning' = Concerning
    BY <1>1 DEF Concerning, Concerns
  <2>5. NamesGathered'
    BY <1>1, <2>1, <2>4 DEF NamesGathered
  <2>6. /\ \A p : Given(p)' = Given(p)
        /\ \A p, q : Taken(p, q)' <=> Taken(p, q)
    BY <1>1 DEF Given, Taken
  <2>7. RulesTaken'
    BY <1>1, <2>1, <2>6 DEF RulesTaken, NotAfter
  <2> QED
    BY <1>2, <2>2, <2>3, <2>5, <2>7 DEF PolicyInv
<1>4. CASE at = "refused"
  BY <1>1, <1>2, <1>4 DEF PolicyInv
<1> QED
  BY <1>3, <1>4

\* Until a policy is refused, the maps hold the last document of every role, the
\* aggregate roles visited draw on their sources, the bindings and the names taken
\* from them are in the order of the documents, and the list has the last rule
\* taken for each resource.
THEOREM PolicyInvariance == Spec => []PolicyInv
<1>1. PolicyInv /\ [Next]_vars => PolicyInv'
  BY ReadKeeps, ParsedKeeps, VisitPlainKeeps, VisitAggregateKeeps, MergeKeeps,
     FillKeeps, AggregatedKeeps, LookupKeeps, BindKeeps, BoundKeeps,
     TakeRuleKeeps, MoveOnKeeps, RefusalKeeps, PolicyStutters
  DEF Next, Terminated
<1> QED
  BY <1>1, PolicyInit, PTL DEF Spec

-------------------------------------------------------------------------------
(* What the answer owes to the documents: the answer. *)

\* The documents that bind the group.
GroupBindings ==
  {i \in DOMAIN docs : docs[i].kind = "RoleBinding" /\ Concerns(docs[i].binding)}

\* The names gathered are the roles of those documents, in their order.
LEMMA NamesOfDocs ==
  ASSUME PolicyInv, at \in {"rules", "resolved"}
  PROVE  \E f \in [1..Len(roleNames) -> GroupBindings] :
           /\ Enumerates(f, Len(roleNames), GroupBindings)
           /\ \A p \in 1..Len(roleNames) : roleNames[p] = docs[f[p]].binding.role
<1>1. /\ BindingsRead /\ NamesGathered
      /\ BindingDocs \cap DocsRead = BindingDocs
      /\ Concerning = {j \in DOMAIN bindings : Concerns(bindings[j])}
      /\ DOMAIN bindings = 1..Len(bindings)
  <2>1. DocsRead = DOMAIN docs /\ bindings \in Seq(BindingType)
    BY DEF DocsRead, PolicyInv, IInv, TypeOK
  <2> QED
    BY <2>1 DEF PolicyInv, BindingDocs, Concerning
<1>2. PICK g \in [1..Len(bindings) -> BindingDocs] :
        /\ Enumerates(g, Len(bindings), BindingDocs)
        /\ \A j \in 1..Len(bindings) : bindings[j] = docs[g[j]].binding
  BY <1>1 DEF BindingsRead
<1>3. PICK h \in [1..Len(roleNames) -> Concerning] :
        /\ Enumerates(h, Len(roleNames), Concerning)
        /\ \A p \in 1..Len(roleNames) : roleNames[p] = bindings[h[p]].role
  BY <1>1 DEF NamesGathered
<1> DEFINE f == [p \in 1..Len(roleNames) |-> g[h[p]]]
<1>4. ASSUME NEW p \in 1..Len(roleNames)
      PROVE  /\ h[p] \in 1..Len(bindings)
             /\ f[p] = g[h[p]] /\ f[p] \in GroupBindings
             /\ roleNames[p] = docs[f[p]].binding.role
  <2>1. h[p] \in 1..Len(bindings) /\ Concerns(bindings[h[p]]) /\ f[p] = g[h[p]]
    BY <1>1, <1>3
  <2>2. g[h[p]] \in BindingDocs /\ bindings[h[p]] = docs[g[h[p]]].binding
    BY <1>2, <2>1
  <2> QED
    BY <1>3, <2>1, <2>2 DEF GroupBindings, BindingDocs
<1>5. f \in [1..Len(roleNames) -> GroupBindings]
  BY <1>4
<1> HIDE DEF f
<1>6. \A i, j \in 1..Len(roleNames) : i < j => f[i] < f[j]
  BY <1>2, <1>3, <1>4 DEF Enumerates
<1>7. ASSUME NEW d \in GroupBindings PROVE \E p \in 1..Len(roleNames) : f[p] = d
  <2>1. PICK j \in 1..Len(bindings) : g[j] = d
    BY <1>2 DEF GroupBindings, BindingDocs, Enumerates
  <2>2. j \in Concerning
    BY <1>1, <1>2, <2>1 DEF GroupBindings
  <2>3. PICK p \in 1..Len(roleNames) : h[p] = j
    BY <1>3, <2>2 DEF Enumerates
  <2> QED
    BY <1>4, <2>1, <2>3
<1> QED
  BY <1>4, <1>5, <1>6, <1>7 DEF Enumerates

\* At the end every rule of every role bound to the group has been taken, and
\* these roles draw on their sources.
LEMMA AllTaken ==
  ASSUME PolicyInv, at = "resolved"
  PROVE  /\ DOMAIN roles = Defined
         /\ \A n \in Defined : Draws(roles[n].rules, Sources(n), Words)
         /\ \A n \in Defined : roles[n].rules \in Seq(RuleType)
         /\ \A n \in Defined : Words[n] \in Seq(RuleType)
         /\ roleNames \in Seq(RoleName) /\ rules \in Seq(RuleType)
         /\ \A p, q \in Nat : Taken(p, q) <=>
               /\ p \in DOMAIN roleNames /\ roleNames[p] \in Defined
               /\ q \in DOMAIN Given(p)
<1>1. IInv /\ RolesRead /\ RolesFilled /\ MergedSoFar /\ RulesTaken
  BY DEF PolicyInv
<1>2. DOMAIN roles = Defined
  BY <1>1, RolesMean
<1>3. \A n \in Defined : Words[n] \in Seq(RuleType)
  BY <1>1, RolesMean
<1>4. \A n \in Defined : Draws(roles[n].rules, Sources(n), Words)
  BY <1>1, <1>2 DEF RolesFilled, MergedSoFar
<1>5. \A n \in Defined : roles[n].rules \in Seq(RuleType)
  BY <1>1, <1>2, BodyRules DEF IInv, TypeOK
<1>6. roleNames \in Seq(RoleName) /\ rules \in Seq(RuleType) /\ pos \in Nat
      /\ pos > Len(roleNames)
  BY <1>1 DEF IInv, TypeOK, RulesTaken
<1>7. \A p \in DOMAIN roleNames : p < pos
  BY <1>6
<1>8. \A p, q \in Nat : Taken(p, q) <=>
        /\ p \in DOMAIN roleNames /\ roleNames[p] \in Defined
        /\ q \in DOMAIN Given(p)
  BY <1>2, <1>7 DEF Taken
<1> QED
  BY <1>2, <1>3, <1>4, <1>5, <1>6, <1>8

\* A document grants a resource exactly if its role has a rule for it.
LEMMA GrantsAreGiven ==
  ASSUME PolicyInv, at = "resolved", NEW x,
         NEW f \in [1..Len(roleNames) -> GroupBindings],
         \A p \in 1..Len(roleNames) : roleNames[p] = docs[f[p]].binding.role,
         NEW p \in 1..Len(roleNames)
  PROVE  f[p] \in Granting(x) <=>
           \E q \in Nat : Taken(p, q) /\ Given(p)[q].resource = x
<1> DEFINE n == roleNames[p]
<1>1. p \in Nat /\ p \in DOMAIN roleNames
  BY AllTaken
<1>2. f[p] \in Granting(x) <=> n \in Defined /\ \E m \in Sources(n) : Speaks(m, x)
  BY DEF Granting, GroupBindings
<1>3. ASSUME n \in Defined
      PROVE  (\E m \in Sources(n) : Speaks(m, x))
             <=> \E q \in DOMAIN Given(p) : Given(p)[q].resource = x
  <2>1. Draws(Given(p), Sources(n), Words)
    BY <1>3, AllTaken DEF Given
  <2>2. ASSUME NEW m \in Sources(n)
        PROVE  Speaks(m, x) <=> \E j \in DOMAIN Words[m] : Words[m][j].resource = x
    <3>1. Words[m] = Meant(m).rules
      BY <1>3, SourcesDefined DEF Words
    <3> QED
      BY <3>1 DEF Speaks
  <2> QED
    BY <2>1, <2>2 DEF Draws
<1>4. n \in Defined => \A q \in DOMAIN Given(p) : q \in Nat
  BY AllTaken DEF Given
<1> QED
  BY <1>1, <1>2, <1>3, <1>4, AllTaken

\* The answer names exactly the resources that the group is granted.
LEMMA AnswerNamesGrants ==
  ASSUME PolicyInv, at = "resolved"
  PROVE  {rules[i].resource : i \in DOMAIN rules}
           = {x \in Resource : Granting(x) # {}}
<1>1. PICK f \in [1..Len(roleNames) -> GroupBindings] :
        /\ Enumerates(f, Len(roleNames), GroupBindings)
        /\ \A p \in 1..Len(roleNames) : roleNames[p] = docs[f[p]].binding.role
  BY NamesOfDocs
<1>2. /\ roleNames \in Seq(RoleName) /\ rules \in Seq(RuleType)
      /\ DOMAIN roleNames = 1..Len(roleNames)
  BY AllTaken
<1>3. /\ \A p, q \in Nat : Taken(p, q) =>
            \E i \in DOMAIN rules : rules[i].resource = Given(p)[q].resource
      /\ \A i \in DOMAIN rules : \E p, q \in Nat :
            Taken(p, q) /\ rules[i] = Given(p)[q]
  BY DEF PolicyInv, RulesTaken
<1>4. ASSUME NEW i \in DOMAIN rules
      PROVE  rules[i].resource \in Resource /\ Granting(rules[i].resource) # {}
  <2>1. PICK p \in Nat, q \in Nat : Taken(p, q) /\ rules[i] = Given(p)[q]
    BY <1>3
  <2>2. p \in 1..Len(roleNames)
    BY <1>2, <2>1 DEF Taken
  <2>3. f[p] \in Granting(rules[i].resource)
    BY <1>1, <2>1, <2>2, GrantsAreGiven
  <2>4. rules[i] \in RuleType
    BY <1>2
  <2> QED
    BY <2>3, <2>4 DEF RuleType
<1>5. ASSUME NEW x \in Resource, NEW d \in Granting(x)
      PROVE  \E i \in DOMAIN rules : rules[i].resource = x
  <2>1. d \in GroupBindings
    BY DEF Granting, GroupBindings
  <2>2. PICK p \in 1..Len(roleNames) : f[p] = d
    BY <1>1, <2>1 DEF Enumerates
  <2>3. PICK q \in Nat : Taken(p, q) /\ Given(p)[q].resource = x
    BY <1>1, <2>2, GrantsAreGiven
  <2> QED
    BY <1>3, <2>3
<1> QED
  BY <1>4, <1>5

\* The last rule of a list for a resource is the list's last word on it.
LEMMA LastIsLastWord ==
  ASSUME NEW m \in Defined, Words[m] \in Seq(RuleType),
         NEW j \in DOMAIN Words[m], IsLast(Words[m], j)
  PROVE  /\ Speaks(m, Words[m][j].resource)
         /\ LastWord(m, Words[m][j].resource) = Words[m][j]
<1> DEFINE x == Words[m][j].resource
           P(i) == /\ Words[m][i].resource = x
                   /\ \A v \in DOMAIN Words[m] : Words[m][v].resource = x => v <= i
           c == CHOOSE i \in DOMAIN Words[m] : P(i)
<1>1. Words[m] = Meant(m).rules
  BY DEF Words
<1>2. P(j)
  BY DEF IsLast
<1>3. c \in DOMAIN Words[m] /\ P(c)
  BY <1>2
<1>4. DOMAIN Words[m] \subseteq Nat
  OBVIOUS
<1>5. c <= j /\ j <= c
  BY <1>2, <1>3
<1>6. c = j
  BY <1>3, <1>4, <1>5
<1>7. LastWord(m, x) = Words[m][c]
  BY <1>1 DEF LastWord
<1> QED
  BY <1>1, <1>6, <1>7 DEF Speaks

\* Each rule of the answer is the last word of a role behind the last document
\* that grants its resource.
LEMMA AnswerIsLastWord ==
  ASSUME PolicyInv, at = "resolved", NEW i \in DOMAIN rules
  PROVE  \E m \in Speakers(rules[i].resource) :
            rules[i] = LastWord(m, rules[i].resource)
<1> DEFINE x == rules[i].resource
<1>1. PICK f \in [1..Len(roleNames) -> GroupBindings] :
        /\ Enumerates(f, Len(roleNames), GroupBindings)
        /\ \A p \in 1..Len(roleNames) : roleNames[p] = docs[f[p]].binding.role
  BY NamesOfDocs
<1>2. PICK p \in Nat, q \in Nat :
        /\ Taken(p, q) /\ rules[i] = Given(p)[q]
        /\ \A u, v \in Nat :
              Taken(u, v) /\ Given(u)[v].resource = x => NotAfter(u, v, p, q)
  BY DEF PolicyInv, RulesTaken
<1> DEFINE n == roleNames[p]
<1>3. /\ p \in 1..Len(roleNames) /\ n \in Defined /\ q \in DOMAIN Given(p)
      /\ Given(p) = roles[n].rules
  <2>1. roleNames \in Seq(RoleName) /\ p \in DOMAIN roleNames /\ n \in Defined
        /\ q \in DOMAIN Given(p)
    BY <1>2, AllTaken
  <2> QED
    BY <2>1 DEF Given
<1>4. Decisive(x) = f[p]
  <2>1. f[p] \in Granting(x)
    BY <1>1, <1>2, <1>3, GrantsAreGiven
  <2>2. ASSUME NEW d \in Granting(x) PROVE d <= f[p]
    <3>1. d \in GroupBindings
      BY DEF Granting, GroupBindings
    <3>2. PICK u \in 1..Len(roleNames) : f[u] = d
      BY <1>1, <3>1 DEF Enumerates
    <3>3. PICK v \in Nat : Taken(u, v) /\ Given(u)[v].resource = x
      BY <1>1, <3>2, GrantsAreGiven
    <3>4. u \in Nat
      BY <3>2
    <3>5. u < p \/ u = p
      BY <1>2, <3>3, <3>4 DEF NotAfter
    <3>6. DOMAIN docs \subseteq Nat
      BY DEF PolicyInv, IInv, TypeOK
    <3>7. f[u] \in Nat /\ f[p] \in Nat
      BY <1>3, <3>6 DEF GroupBindings
    <3>8. u < p => f[u] < f[p]
      BY <1>1, <1>3 DEF Enumerates
    <3> QED
      BY <3>2, <3>5, <3>7, <3>8
  <2>3. Granting(x) \subseteq Nat
    BY DEF Granting, PolicyInv, IInv, TypeOK
  <2>4. /\ Decisive(x) \in Granting(x)
        /\ \A d \in Granting(x) : d <= Decisive(x)
    BY <2>1, <2>2 DEF Decisive
  <2>5. Decisive(x) <= f[p] /\ f[p] <= Decisive(x)
    BY <2>1, <2>2, <2>4
  <2> QED
    BY <2>1, <2>3, <2>4, <2>5
<1>5. IsLast(Given(p), q)
  <2>1. ASSUME NEW v \in DOMAIN Given(p), Given(p)[v].resource = Given(p)[q].resource
        PROVE  v <= q
    <3>1. v \in Nat
      BY <1>3, AllTaken
    <3>2. Taken(p, v)
      BY <1>2, <3>1, AllTaken
    <3>3. NotAfter(p, v, p, q)
      BY <1>2, <2>1, <3>1, <3>2
    <3> QED
      BY <3>3 DEF NotAfter
  <2> QED
    BY <2>1 DEF IsLast
<1>6. PICK m \in Sources(n) : \E j \in DOMAIN Words[m] :
        Words[m][j] = rules[i] /\ IsLast(Words[m], j)
  <2>1. Draws(Given(p), Sources(n), Words)
    BY <1>3, AllTaken
  <2>2. \E m \in Sources(n) : \E j \in DOMAIN Words[m] :
          Words[m][j] = Given(p)[q] /\ IsLast(Words[m], j)
    BY <1>3, <1>5, <2>1 DEF Draws
  <2> QED
    BY <1>2, <2>2
<1>7. m \in Defined /\ Words[m] \in Seq(RuleType)
  BY <1>3, SourcesDefined, AllTaken
<1>8. Speaks(m, x) /\ LastWord(m, x) = rules[i]
  BY <1>6, <1>7, LastIsLastWord
<1>9. m \in Speakers(x)
  BY <1>1, <1>3, <1>4, <1>8 DEF Speakers
<1> QED
  BY <1>8, <1>9

\* No order of the documents or of the maps loses a resource that the group is
\* granted, adds one, or lists one twice (rbac.go:103-152, 196-215).
THEOREM EveryResourceIsListedOnce == Spec => []EveryResourceOnce
<1>1. PolicyInv => EveryResourceOnce
  BY AnswerNamesGrants DEF EveryResourceOnce, PolicyInv, IInv
<1> QED
  BY <1>1, PolicyInvariance, PTL

\* The last binding of the group that grants a resource decides, in whatever order
\* the maps are visited (rbac.go:196-215).
THEOREM LastBindingDecides == Spec => []LastBindingWins
<1>1. PolicyInv => LastBindingWins
  BY AnswerIsLastWord DEF LastBindingWins
<1> QED
  BY <1>1, PolicyInvariance, PTL

=============================================================================
