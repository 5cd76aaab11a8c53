------------------------------ MODULE MCSystem ------------------------------
(* A small instance of System for TLC: two programs side by side.          *)
EXTENDS System, TLC

MCLoad == "low" :> 0 @@ "high" :> 2
MCSize == "low" :> 1 @@ "high" :> 1
=============================================================================
