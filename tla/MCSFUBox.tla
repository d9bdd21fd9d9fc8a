----------------------------- MODULE MCSFUBox -----------------------------
(* SFUBox on small instances; instances, joins and droplets are alike. *)
EXTENDS SFUBox, TLC

Symmetry == Permutations(Steppers) \cup Permutations(Joiners) \cup Permutations(Droplets)
=============================================================================
