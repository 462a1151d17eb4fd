-------------------------- MODULE MCProjectHandoff --------------------------
(* Instances of ProjectHandoff for TLC. *)
EXTENDS ProjectHandoff, TLC

Symmetry == Permutations(Engineer) \cup Permutations(Question)

=============================================================================
