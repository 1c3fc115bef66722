---------------------------- MODULE MCScrubRound ----------------------------
(* Instances of ScrubRound for TLC: the first segment takes two requests.   *)
EXTENDS ScrubRound
MCChunks == [j \in 0..MaxJobs |-> IF j = 1 THEN 2 ELSE 1]
=============================================================================
