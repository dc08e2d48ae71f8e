----------------------------- MODULE MCApplyRun -----------------------------
(* The pool of ApplyRun on a small instance: more items than slots, and a   *)
(* provider that may succeed, fail, or answer "failed" without an error.    *)
EXTENDS ApplyRun

MCOutcome == {[action |-> "renewed", error |-> FALSE],
              [action |-> "failed", error |-> TRUE],
              [action |-> "failed", error |-> FALSE]}
==============================================================================
