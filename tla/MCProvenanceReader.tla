------------------------- MODULE MCProvenanceReader -------------------------
(* One exporter at a time and one reader, over a directory with two        *)
(* CloudTrail outputs: name 1, and name 2 or its parts 3 and 4.            *)
EXTENDS ProvenanceReader, TLC

MCFamilyOf == [n \in Names |-> IF n = 1 THEN "day1" ELSE "day2"]
MCLayouts == {{1}, {2}, {3, 4}}
MCIntervals == {{1}, {2}}
MCReports == {{1}, {1, 2}}
MCSymmetry == Permutations(Digests)
=============================================================================
