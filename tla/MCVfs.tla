------------------------------- MODULE MCVfs -------------------------------
(* Constant values for the model-checking instance of Vfs.  Where boot had no *)
(* memory for the device, /dev/stdout becomes a second regular file.          *)
EXTENDS Vfs

CONSTANTS p1, p2

TwoProcs   == {p1, p2}
Symmetric  == Permutations(TwoProcs)

ShortNames == [n \in {"a", "dev", "stdout"} |-> <<n>>]
OneDevice  == <<"stdout">>
TwoPaths   == {<<"a">>, <<"dev", "stdout">>}
TwoWrites  == {<<2>>, <<1, 2>>}
FlagSets   == {{"CREAT"}, {"TRUNC"}, {"CREAT", "APPEND"}}
=============================================================================
