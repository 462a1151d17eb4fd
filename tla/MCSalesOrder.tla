---------------------------- MODULE MCSalesOrder ----------------------------
(* Instances of SalesOrder for TLC. *)
EXTENDS SalesOrder, TLC

Symmetry == Permutations(Staff) \cup Permutations(Request)

=============================================================================
