-------------------------- MODULE MCWorkflowStages --------------------------
(* Threads and amounts that are treated alike.                              *)
EXTENDS WorkflowStages, TLC

Symmetry == Permutations(Requests) \cup Permutations(Figures)
=============================================================================
