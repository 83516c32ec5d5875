--------------------------- MODULE MCSshdService ---------------------------
(* SshdService with pids and service objects as interchangeable model values. *)
EXTENDS SshdService, TLC

Symmetry == Permutations(Pid) \cup Permutations(Instance)
=============================================================================
