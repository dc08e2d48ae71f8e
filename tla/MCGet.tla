-------------------------------- MODULE MCGet --------------------------------
(* Two resources, a slot less than there are pages, two commands in a row:  *)
(* what the first leaves in the files, whole, torn or narrowed, is what the *)
(* second begins with.                                                      *)
EXTENDS Get

MCRes == {"A", "B"}
MCRole == {"user", "admin"}

Rule(x, by, exact, link) ==
  [res |-> x, by |-> by, exact |-> exact, link |-> link]
Member(x, id, link, role) ==
  [res |-> x, id |-> id, link |-> link, role |-> role]

MCPolicyRules ==
  {<<Rule("A", "id", TRUE, TRUE)>>,
   <<Rule("A", "id", TRUE, TRUE), Rule("B", "name", FALSE, FALSE)>>}

MCListings ==
  {<<Member("A", TRUE, TRUE, "user"), Member("B", TRUE, TRUE, "user")>>,
   <<Member("A", FALSE, TRUE, "user"), Member("A", FALSE, TRUE, "user")>>}

Command(kind, backend, refresh, args) ==
  [kind |-> kind, backend |-> backend, refresh |-> refresh, args |-> args]

MCCommands ==
  {Command("get", "cdp", TRUE, <<>>),
   Command("get", "cdp", FALSE, <<>>),
   Command("get", "cdp", TRUE,
           <<[res |-> "A", by |-> "name"], [res |-> "B", by |-> "url"]>>),
   Command("get", "api", FALSE, <<>>),
   Command("apply", "cdp", FALSE, <<>>)}
=============================================================================
