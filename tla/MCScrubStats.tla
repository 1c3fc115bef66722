---------------------------- MODULE MCScrubStats ----------------------------
(* Instances of ScrubStats for TLC: workers are interchangeable.            *)
EXTENDS ScrubStats, TLC
WorkerSymmetry == Permutations(Workers)
=============================================================================
