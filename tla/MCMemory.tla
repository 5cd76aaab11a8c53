------------------------------ MODULE MCMemory ------------------------------
(* Small instances of Memory for TLC: four programs in eight cells.  low    *)
(* and mid overlap; gap lies over the free cell before high and the first   *)
(* cell of high; high claims the cell after the last one.                   *)
EXTENDS Memory, TLC

MCLoad == "low" :> 0 @@ "mid" :> 1 @@ "gap" :> 3 @@ "high" :> 4
MCSize == "low" :> 2 @@ "mid" :> 1 @@ "gap" :> 2 @@ "high" :> 4
=============================================================================
