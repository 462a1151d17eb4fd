---------------------------- MODULE MCEstimation ----------------------------
(* Estimation for TLC; the bounds are in the configurations. *)
EXTENDS Estimation, TLC

\* Requests only stand for themselves, and no liveness is checked.
Interchangeable == Permutations(Request)

=============================================================================
