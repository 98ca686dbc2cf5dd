----------------------------- MODULE MCCostTracker -----------------------------
(* Two tasks that may share a trace, and one trace more than the tracker    *)
(* keeps.                                                                   *)
EXTENDS CostTracker, TLC

Symmetry == Permutations(Tasks) \cup Permutations(Traces)
================================================================================
