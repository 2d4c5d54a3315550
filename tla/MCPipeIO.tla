------------------------------ MODULE MCPipeIO ------------------------------
(* Constant values for the model-checking instances of PipeIO. *)
EXTENDS PipeIO, MCProcSched

OnePipe == {1}
=============================================================================
