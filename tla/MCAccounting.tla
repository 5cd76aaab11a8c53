--------------------------- MODULE MCAccounting ---------------------------
(* A small instance of Accounting for TLC. *)
EXTENDS Accounting
=============================================================================
