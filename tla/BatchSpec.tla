------------------------------ MODULE BatchSpec ------------------------------
(***************************************************************************)
(* What "authzer apply" promises of a batch of planned actions, whatever   *)
(* backend carries them out: the actions are started in plan order, never  *)
(* more than Limit of them run at once, each one runs at most once and     *)
(* ends with one verdict, and the batch closes only when nothing runs and  *)
(* either every action has been started or the user asked to stop.         *)
(*                                                                         *)
(* ApplyRun (the goroutine pool of runApply) implements this module.       *)
(***************************************************************************)
EXTENDS Naturals, FiniteSets

CONSTANTS
  NumItems,   \* number of actionable items in the plan
  Limit       \* how many may run at once

VARIABLES
  status,     \* status[i]: pending, running, ok or failed
  stopping,   \* the user asked to stop
  closed      \* the batch has ended and reported

batchVars == <<status, stopping, closed>>

Item == 1..NumItems

Running == {i \in Item : status[i] = "running"}

Init ==
  /\ status = [i \in Item |-> "pending"]
  /\ stopping = FALSE
  /\ closed = FALSE

Start(i) ==
  /\ ~closed
  /\ status[i] = "pending"
  /\ \A j \in 1..(i - 1) : status[j] # "pending"
  /\ Cardinality(Running) < Limit
  /\ status' = [status EXCEPT ![i] = "running"]
  /\ UNCHANGED <<stopping, closed>>

Finish(i) ==
  /\ status[i] = "running"
  /\ \E verdict \in {"ok", "failed"} :
        status' = [status EXCEPT ![i] = verdict]
  /\ UNCHANGED <<stopping, closed>>

Stop ==
  /\ ~closed
  /\ stopping' = TRUE
  /\ UNCHANGED <<status, closed>>

Close ==
  /\ ~closed
  /\ Running = {}
  /\ stopping \/ \A i \in Item : status[i] # "pending"
  /\ closed' = TRUE
  /\ UNCHANGED <<status, stopping>>

Next ==
  \/ \E i \in Item : Start(i) \/ Finish(i)
  \/ Stop
  \/ Close

Spec == Init /\ [][Next]_batchVars
==============================================================================
