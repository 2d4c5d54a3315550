----------------------------- MODULE MCKeyboard -----------------------------
(* The model-checking instances of Keyboard. *)
EXTENDS Keyboard, MCProcSched
=============================================================================
