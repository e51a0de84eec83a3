----------------------------- MODULE MCReturnCase -----------------------------
(* Instances of ReturnCaseWorkflow for TLC. *)
EXTENDS ReturnCaseWorkflow, TLC

\* Workers, order references and document keys are interchangeable
Interchangeable == Permutations(Worker) \cup Permutations(Doc) \cup Permutations(Case)
================================================================================
