---------------------------- MODULE MCQuotation ----------------------------
(* Quotation for TLC; the bounds are in the configurations. *)
EXTENDS Quotation

=============================================================================
