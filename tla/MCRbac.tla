------------------------------- MODULE MCRbac -------------------------------
(* Files of a few documents in every order: plain roles that overlap, one   *)
(* of them written twice, an aggregate role with one or two members,        *)
(* bindings of the group to each, and what makes a policy fail.             *)
EXTENDS Rbac

CONSTANTS
  MaxDocs,       \* documents beside the group's in a sound file
  MaxMixed       \* documents of a file that may lack or break anything

MCRoleName == {"read", "write", "all"}
MCGroupName == {"ops"}
MCResource == {"r1", "r2"}
MCPermission == {"ro", "rw"}
MCLabel == {"bundle"}
MCLabelValue == {"", "sre"}

Grant(x, p) == [resource |-> x, permission |-> p]
RoleOf(n, l, rs, agg, sels) ==
  [kind |-> "Role", name |-> n,
   body |-> [labels |-> [k \in MCLabel |-> l], rules |-> rs,
             aggregate |-> agg, selectors |-> sels]]
BindingOf(s, n) ==
  [kind |-> "RoleBinding", binding |-> [subjects |-> {s}, role |-> n]]

\* `all` selects by label or by the lack of one, and has a rule of its own.
MCSound ==
  {RoleOf("read", "sre", <<Grant("r1", "ro"), Grant("r2", "ro")>>, FALSE, {}),
   RoleOf("write", "sre", <<Grant("r1", "ro"), Grant("r1", "rw")>>, FALSE, {}),
   RoleOf("write", "", <<Grant("r2", "rw")>>, FALSE, {}),
   RoleOf("all", "sre", <<Grant("r1", "rw")>>, TRUE,
          {{<<"bundle", "sre">>}, {<<"bundle", "">>}}),
   RoleOf("all", "", <<>>, TRUE, {{<<"bundle", "sre">>}}),
   BindingOf(<<"Group", "ops">>, "all"),
   BindingOf(<<"Group", "ops">>, "read"),
   BindingOf(<<"Group", "ops">>, "write")}

MCGroup == [kind |-> "Group", name |-> "ops"]

MCMixed ==
  MCSound \cup {MCGroup, BindingOf(<<"User", "ops">>, "write"),
                [kind |-> "Other"]}

\* No document occurs twice in a file.
Arranged(S, max) ==
  {s \in UNION {[1..n -> S] : n \in 0..max} :
     \A i, k \in DOMAIN s : s[i] = s[k] => i = k}

MCPolicies ==
  {<<MCGroup>> \o s : s \in Arranged(MCSound, MaxDocs)}
    \cup Arranged(MCMixed, MaxMixed)
=============================================================================
