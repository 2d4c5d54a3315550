----------------------------- MODULE Allocator -----------------------------
(***************************************************************************)
(* What kheap.h promises of the kernel heap: a block handed out lies in    *)
(* the heap, holds as many bytes as were asked for and shares no byte with *)
(* another block that is still in use; a request may fail.                 *)
(***************************************************************************)
EXTENDS Integers

CONSTANTS Lo, Hi           \* the heap's addresses: Lo .. Hi - 1

VARIABLE allocated         \* the blocks in use, [ptr, size, aligned]

Init == allocated = {}

Disjoint(a, b) == a.ptr + a.size <= b.ptr \/ b.ptr + b.size <= a.ptr

Alloc(b) ==
  /\ b.size > 0 /\ Lo <= b.ptr /\ b.ptr + b.size <= Hi
  /\ \A a \in allocated : Disjoint(a, b)
  /\ allocated' = allocated \cup {b}

Free(b) == allocated' = allocated \ {b}

Next ==
  \/ \E b \in allocated' \ allocated : Alloc(b)
  \/ \E b \in allocated : Free(b)

Spec == Init /\ [][Next]_allocated
=============================================================================
