----------------------------- MODULE MCApiApply -----------------------------
(* ApiApply on a small instance, in all four settings.                      *)
EXTENDS ApiApply

MCOutcome == {CallError, Invalid, Rejected, Validated, Renewed}
==============================================================================
