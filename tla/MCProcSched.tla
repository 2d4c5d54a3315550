---------------------------- MODULE MCProcSched ----------------------------
(* Constant values for the model-checking instances of ProcSched. *)
EXTENDS ProcSched

OneNormal    == <<2>>
ThreeNormal  == <<2, 2, 2>>
OneRealtime  == <<0>>
AllButIdle   == Pids \ {PID_INIT}
=============================================================================
