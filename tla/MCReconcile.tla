---------------------------- MODULE MCReconcile ----------------------------
(* The planners on every situation of two resources, two names, up to two   *)
(* rules, up to two memberships and up to two arguments.                    *)
EXTENDS Reconcile

MCResource == {"r1", "r2"}
MCName == {"n1", "n2"}

\* Policies differ, up to renaming, in their length and in their selfLinks.
MCPolicies ==
  LET links == [1..2 -> BOOLEAN]
      both(l) == <<[resource |-> "r1", link |-> l[1]],
                   [resource |-> "r2", link |-> l[2]]>>
  IN  {SubSeq(both(l), 1, n) : l \in links, n \in 0..2}

MCAssignments == UNION {[1..n -> AssignmentType] : n \in 0..2}

\* By ID, by name, an address, two ways of naming what may be one rule.
MCArgs == {<<>>, <<"r1">>, <<"n1">>, <<"url">>, <<"r1", "n1">>}

MCInputs ==
  [policy : MCPolicies, assignments : MCAssignments,
   nameByID : [MCResource -> MCName \cup {Empty}], exclude : {{}, {"n1"}},
   args : MCArgs]
=============================================================================
