----------------------------- MODULE FlatMemory -----------------------------
(***************************************************************************)
(* What paging promises to the programs above it: an array of words.  A    *)
(* page comes into being with some contents, once, and from then on a word *)
(* holds what was last stored at its address.                              *)
(***************************************************************************)
EXTENDS Integers, Sequences

CONSTANTS
  Pages, PageWords,        \* numbers of the pages looked at, words of a page
  Unmapped,                \* what there is where no page is
  Stores                   \* what is ever stored: a set of [address, data]

VARIABLE contents          \* the words of every page

Init == contents = [p \in Pages |-> Unmapped]

Map(p) ==
  /\ contents[p] = Unmapped /\ contents'[p] # Unmapped
  /\ contents' = [contents EXCEPT ![p] = contents'[p]]

Store(s) ==
  LET homes == {(s.address + k - 1) \div PageWords : k \in DOMAIN s.data}
      stored(p, i) == LET k == p * PageWords + i - s.address + 1
                      IN  IF k \in DOMAIN s.data THEN s.data[k] ELSE contents[p][i]
  IN  /\ homes \subseteq Pages /\ \A p \in homes : contents[p] # Unmapped
      /\ contents' = [p \in Pages |-> IF p \in homes THEN [i \in 0 .. PageWords - 1 |-> stored(p, i)]
                                      ELSE contents[p]]

Next == (\E p \in Pages : Map(p)) \/ (\E s \in Stores : Store(s))

Spec == Init /\ [][Next]_contents
=============================================================================
