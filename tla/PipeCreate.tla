----------------------------- MODULE PipeCreate -----------------------------
(***************************************************************************)
(* pipe_create() of pipe.c with its failures: seven allocations, two       *)
(* descriptors, and the cleanup after any of them has failed.  PipeIO has  *)
(* the pipe that is created.                                               *)
(***************************************************************************)
EXTENDS Naturals, Sequences, SequencesExt

\* What is allocated, in this order: the pipe_t, the two pipe_end_t's and their
\* vnodes, and the two file_t's.
Objects == <<"pipe", "rend", "rv", "wend", "wv", "rf", "wf">>

VARIABLES
  step,                    \* the step that is next: 1 to 7 allocate, 8 and 9 install
  kfreed                   \* the arguments of kfree(), in order

vars == <<step, kfreed>>

Init == step = 1 /\ kfreed = <<>>

\* kmalloc() has memory, or fd_install() finds a free descriptor.
succeeds ==
  /\ step <= 9
  /\ step' = step + 1
  /\ UNCHANGED kfreed

\* vfs_close() of the read end's and of the write end's only file_t.  The second
\* one leaves the pipe without readers and writers.
close_first  == <<"rend", "rv", "rf">>
close_second == <<"wend", "pipe", "wv", "wf">>

\* The files that are closed before the jump to a label.
closed(s) ==
  CASE s <= 6 -> <<>>
    [] s = 7  -> close_first
    [] s > 7  -> close_first \o close_second

\* The labels err_free_wv to err_free_pipe, entered at the one for step s.
unwind(s) == Reverse(SubSeq(Objects, 1, IF s <= 5 THEN s - 1 ELSE 5))

\* kmalloc() returns NULL, or fd_install() -1: pipe_create() returns -1.
fails ==
  /\ step <= 9
  /\ kfreed' = closed(step) \o unwind(step)
  /\ step' = 11

Next == succeeds \/ fails

Spec == Init /\ [][Next]_vars

\* A call that fails frees each object at most once: the pipe_t once both ends
\* are closed, as pipe_maybe_free() says, and not again.  The code does not meet
\* this.
FreedOnce == \A i, j \in DOMAIN kfreed : kfreed[i] = kfreed[j] => i = j
=============================================================================
