--------------------------- MODULE MCContextRegistry ---------------------------
(* ContextRegistry on a small instance: two processes, one key and one domain   *)
(* to trust, sources with and without a signature of that key.                  *)
EXTENDS ContextRegistry, TLC

CONSTANTS p1, p2, c1, c2, none

Key == [method |-> "ssh", name |-> "key"]
Other == [method |-> "ssh", name |-> "stranger"]
Host == [method |-> "domain", name |-> "host"]

MCTrustee == {Key, Host}
MCSource ==
  {Local} \cup
  {[kind |-> "remote", evidence |-> E \cup {Host}] : E \in {{}, {Key}, {Other}}}
MCPack == {"v1"}

Symmetry == Permutations({p1, p2}) \cup Permutations({c1, c2})
================================================================================
