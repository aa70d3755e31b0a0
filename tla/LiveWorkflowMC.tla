--------------------------- MODULE LiveWorkflowMC ---------------------------
(* Small instances of LiveWorkflow for TLC.                                *)
EXTENDS LiveWorkflow, TLC

\* Targets, values and change sets play interchangeable parts.
Symmetry == Permutations(Targets) \cup Permutations(Values) \cup Permutations(ChangeSetIds)
=============================================================================
