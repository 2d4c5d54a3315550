------------------------------ MODULE MCKHeap ------------------------------
(* The model-checking instance of KHeap. *)
EXTENDS KHeap
=============================================================================
