----------------------------- MODULE MCProdCom -----------------------------
(* Small instances of ProdCom for TLC. *)
EXTENDS ProdCom

NoStrings == [a \in {} |-> 0]
=============================================================================
