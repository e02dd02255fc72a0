----------------------------- MODULE MCReports -----------------------------
(* Reports for TLC: hosts of one and of two exporters, and symmetry. *)
EXTENDS Reports

OneExporter  == "one"
TwoExporters == "two"
MCTotals == OneExporter :> {2} @@ TwoExporters :> {1, 2}

Symmetry ==
  Permutations(Services) \cup Permutations(Workers) \cup Permutations(Pods)
=============================================================================
