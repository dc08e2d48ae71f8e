---------------------------- MODULE AtomicRegistry ----------------------------
(***************************************************************************)
(* What the commands that change contexts.yaml promise when they run one   *)
(* after the other: each changes the registry in one step, as its help     *)
(* says, or not at all.  A crash in the middle of the save may leave an    *)
(* empty registry, and nothing else.                                       *)
(***************************************************************************)
CONSTANTS Context, NoContext, Trustee

VARIABLE registry     \* [contexts, current, trusted]

Fresh == [contexts |-> {}, current |-> NoContext, trusted |-> {}]

Init == registry = Fresh

\* The first context ever imported becomes the current one.
Import(c) ==
  /\ registry' = [registry EXCEPT
       !.contexts = @ \cup {c},
       !.current = IF registry.current = NoContext THEN c ELSE @]

Use(c) ==
  /\ c \in registry.contexts
  /\ registry' = [registry EXCEPT !.current = c]

Trust(t) ==
  /\ t \notin registry.trusted
  /\ registry' = [registry EXCEPT !.trusted = @ \cup {t}]

Distrust(t) ==
  /\ t \in registry.trusted
  /\ registry' = [registry EXCEPT !.trusted = @ \ {t}]

Wipe == registry' = Fresh

Next ==
  \/ \E c \in Context : Import(c) \/ Use(c)
  \/ \E t \in Trustee : Trust(t) \/ Distrust(t)
  \/ Wipe

Spec == Init /\ [][Next]_registry
===============================================================================
