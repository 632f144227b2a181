------------------------------ MODULE MCPipeline ------------------------------
(* gobee translate over two files, edited while it runs. *)
EXTENDS Pipeline
=============================================================================
