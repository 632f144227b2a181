--------------------------- MODULE MCExpressions ---------------------------
(* Every expression of a few operators, over all the pairs of ranks. *)
EXTENDS Expressions
=============================================================================
