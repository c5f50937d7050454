---------------------------- MODULE MCThreadPool ----------------------------
(* An instance of ThreadPool for TLC: a product, a node without an         *)
(* operation, and one whose rows are split by thread.                      *)
EXTENDS ThreadPool

MCKind == [n \in Nodes |-> CASE n = 0 -> "product" [] n = 1 -> "empty" [] OTHER -> "rows"]
=============================================================================
