------------------------------ MODULE PipeRing ------------------------------
(***************************************************************************)
(* The ring buffer of a pipe_t: the copying loops of pipe_read_op() and    *)
(* pipe_write_op(), which PipeIO abstracts to the number of bytes.  One    *)
(* step is one batch; interrupts are disabled while it is copied.          *)
(***************************************************************************)
EXTENDS Integers, Sequences, FiniteSetsExt

CONSTANTS PIPE_BUFSZ, Bytes

ASSUME RingAssumption ==
  PIPE_BUFSZ \in Nat \ {0} /\ \E n \in 0 .. 31 : PIPE_BUFSZ = 2 ^ n

VARIABLES buf, head, count,
          dst              \* the bytes the last batch of a read has copied out

vars == <<buf, head, count, dst>>

Slots == 0 .. PIPE_BUFSZ - 1

\* x & (PIPE_BUFSZ - 1), PIPE_BUFSZ being a power of two.
Masked(x) == x % PIPE_BUFSZ

Init ==
  /\ buf = [i \in Slots |-> 0]      \* pipe_create() clears the pipe_t
  /\ head = 0 /\ count = 0 /\ dst = <<>>

\* Mutant: the free space is taken to be one byte larger.
Bug_space == PIPE_BUFSZ - count + 1

space == PIPE_BUFSZ - count

\* Mutant: the write position is the head.
Bug_tail == head

tail == Masked(head + count)

\* A batch of pipe_write_op() that has the bytes src to go.
write_batch(src) ==
  LET batch == Min({Len(src), space})
  IN  /\ batch > 0
      /\ buf' = [i \in Slots |->
                   IF \E j \in 1 .. batch : i = Masked(tail + j - 1)
                   THEN src[Max({j \in 1 .. batch : i = Masked(tail + j - 1)})]
                   ELSE buf[i]]
      /\ count' = count + batch
      /\ UNCHANGED <<head, dst>>

\* A batch of pipe_read_op() that has len bytes to go.
read_batch(len) ==
  LET batch == Min({len, count})
  IN  /\ batch > 0
      /\ dst' = [j \in 1 .. batch |-> buf[Masked(head + j - 1)]]
      /\ head' = Masked(head + batch)
      /\ count' = count - batch
      /\ UNCHANGED buf

Next ==
  \E n \in 1 .. PIPE_BUFSZ + 1 :
    \/ \E src \in [1 .. n -> Bytes] : write_batch(src)
    \/ read_batch(n)

Spec == Init /\ [][Next]_vars

-----------------------------------------------------------------------------
(* Properties *)

\* Every variable has the type of the C object it stands for.
TypeOK == buf \in [Slots -> Bytes \cup {0}] /\ head \in Slots /\ count \in 0 .. PIPE_BUFSZ

\* The ring is a first-in first-out queue of PIPE_BUFSZ bytes, wherever head is
\* and however a batch wraps around: no byte is lost, repeated or reordered.
Queue == INSTANCE Fifo WITH Items <- Bytes, Cap <- PIPE_BUFSZ, last <- dst,
           queue <- [i \in 1 .. count |-> buf[Masked(head + i - 1)]]
IsFifo == Queue!Spec
=============================================================================
