-------------------------------- MODULE Fifo --------------------------------
(***************************************************************************)
(* What a ring buffer promises: a bounded queue of items.  last is what    *)
(* the most recent read returned.                                          *)
(***************************************************************************)
EXTENDS Naturals, Sequences

CONSTANTS Items, Cap

VARIABLES queue, last

Init == queue = <<>> /\ last = <<>>

\* Items are put at the end, as many as there is room for.
Put(items) ==
  /\ Len(queue) + Len(items) <= Cap
  /\ queue' = queue \o items
  /\ UNCHANGED last

\* The first n items are taken out.
Take(n) ==
  /\ last' = SubSeq(queue, 1, n)
  /\ queue' = SubSeq(queue, n + 1, Len(queue))

Next ==
  \/ \E n \in 1 .. Cap : \E items \in [1 .. n -> Items] : Put(items)
  \/ \E n \in 1 .. Len(queue) : Take(n)

Spec == Init /\ [][Next]_<<queue, last>>
=============================================================================
