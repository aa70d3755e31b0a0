---------------------------- MODULE LiveEditorMC ----------------------------
(* Small instances of LiveEditor for TLC.                                  *)
EXTENDS LiveEditor, TLC

\* Assets, targets and values play interchangeable parts.
Symmetry == Permutations(Assets) \cup Permutations(Targets) \cup Permutations(Values)
=============================================================================
