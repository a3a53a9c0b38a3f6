----------------------------- MODULE MCOptions ------------------------------
(* Two administrators may save at once; they and the two values of a setting *)
(* may be exchanged.                                                         *)
EXTENDS Options, TLC

Symmetry == Permutations(Admins) \cup Permutations(Values)

=============================================================================
