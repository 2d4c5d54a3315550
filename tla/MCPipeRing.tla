----------------------------- MODULE MCPipeRing -----------------------------
(* The model-checking instance of PipeRing. *)
EXTENDS PipeRing
=============================================================================
