----------------------------- MODULE MCCdpApply -----------------------------
(* CdpApply on small instances.                                             *)
EXTENDS CdpApply

MCOutcome == {[action |-> "failed", error |-> TRUE],
              [action |-> "renewed", error |-> FALSE],
              [action |-> "prepared", error |-> FALSE]}

\* Both modes; the timeout, which only mode "none" obeys, is set in both.
MCOptions == {o \in OptionType : o.timed /\ ~o.acceptFlag /\ ~o.acceptConfig}

\* Every combination of the settings, for the runs about one of them.
MCEveryOption == OptionType
==============================================================================
