---------------------------- MODULE MCPipeCreate ----------------------------
(* The model-checking instance of PipeCreate. *)
EXTENDS PipeCreate
=============================================================================
