--------------------------- MODULE MCClipJobs ---------------------------
(* Instances of ClipJobs for TLC. *)
EXTENDS ClipJobs, TLC

Symmetry == Permutations(Jobs) \cup Permutations(Workers)
=============================================================================
