-------------------------- MODULE MCEscalationScoring --------------------------
(* Instances of EscalationScoring for TLC. *)
EXTENDS EscalationScoring, TLC

\* A return sent too late, without much to say: the placeholder scores it
\* between its bounds however many returns come before
Late == [days |-> 15, message |-> 10, value |-> 20, reason |-> "changed_mind"]

MCFacts == {Late}

\* Which case and which customer is which makes no difference
MCSymmetry == Permutations(CaseId) \cup Permutations(Customer)
================================================================================
