------------------------- MODULE MCExportProvenance -------------------------
(* Instances of ExportProvenance: two exporters, the bare and the split    *)
(* layout of a CloudTrail output (names 1 and 2, 3) next to a Splunk       *)
(* output (name 0), so that a re-export can grow, shrink or leave alone.   *)
EXTENDS ExportProvenance, TLC

MCFamilyOf == [n \in Names |-> IF n = 0 THEN "splunk" ELSE "cloudtrail"]
MCLayouts == {{0}, {1}, {2, 3}}
MCLayoutsSmall == {{0}, {1, 2}}
MCIntervals == {{1}, {2}}
MCSymmetry == Permutations(Writers) \cup Permutations(Digests)
=============================================================================
