--------------------------- MODULE MCScanPipeline ---------------------------
(* Model values and symmetry for checking ScanPipeline with TLC. *)
EXTENDS ScanPipeline, TLC

CONSTANTS s1, s2, w1, w2

MCScans == {s1, s2}
MCWorkers == {w1, w2}
MCOneScan == {s1}

Symmetry == Permutations(MCScans) \cup Permutations(MCWorkers)
=============================================================================
