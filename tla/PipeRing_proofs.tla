--------------------------- MODULE PipeRing_proofs ---------------------------
(***************************************************************************)
(* Proof that the ring buffer of a pipe is a first-in first-out queue, for *)
(* every size of the buffer and every set of bytes.                        *)
(***************************************************************************)
EXTENDS PipeRing, SequenceTheorems, TLAPS

-----------------------------------------------------------------------------
(* The mask *)

\* Within one turn round the ring the places are different.
LEMMA MaskedInjective ==
  ASSUME NEW h \in Slots, NEW a \in Slots, NEW b \in Slots, Masked(h + a) = Masked(h + b)
  PROVE  a = b
<1>1. PIPE_BUFSZ \in Nat \ {0}
  BY RingAssumption
<1>2. QED
  BY <1>1, SMTT(60) DEF Masked, Slots

\* A place is a slot, and masking twice is masking once.
LEMMA MaskedTwice ==
  ASSUME NEW h \in Slots, NEW a \in 0 .. PIPE_BUFSZ, NEW b \in Nat, a + b < PIPE_BUFSZ
  PROVE  Masked(Masked(h + a) + b) = Masked(h + (a + b))
<1>1. PIPE_BUFSZ \in Nat \ {0}
  BY RingAssumption
<1>2. Masked(h + a) = IF h + a < PIPE_BUFSZ THEN h + a ELSE h + a - PIPE_BUFSZ
  BY <1>1, SMTT(60) DEF Masked, Slots
<1>3. CASE h + a < PIPE_BUFSZ
  <2>1. Masked(h + a) + b = h + (a + b)
    BY <1>1, <1>2, <1>3 DEF Slots
  <2>2. QED
    BY <2>1
<1>4. CASE h + a >= PIPE_BUFSZ
  <2>1. Masked(h + a) + b = h + (a + b) - PIPE_BUFSZ
    BY <1>1, <1>2, <1>4 DEF Slots
  <2>2. /\ h + (a + b) - PIPE_BUFSZ \in Nat /\ h + (a + b) - PIPE_BUFSZ < PIPE_BUFSZ
    BY <1>1, <1>4 DEF Slots
  <2>3. Masked(h + (a + b) - PIPE_BUFSZ) = Masked(h + (a + b))
    BY <1>1, <1>4, <2>2, SMTT(60) DEF Masked, Slots
  <2>4. QED
    BY <2>1, <2>3
<1>5. QED
  BY <1>1, <1>3, <1>4 DEF Slots

\* What the mask gives is a slot.
LEMMA MaskedSlot ==
  ASSUME NEW x \in Nat
  PROVE  Masked(x) \in Slots
<1>1. PIPE_BUFSZ \in Nat \ {0}
  BY RingAssumption
<1>2. QED
  BY <1>1, SMTT(60) DEF Masked, Slots

\* The smaller of two numbers.
LEMMA MinOfTwo ==
  ASSUME NEW a \in Nat, NEW b \in Nat
  PROVE  Min({a, b}) = IF a <= b THEN a ELSE b
<1>1. CASE a <= b
  <2>1. \A x \in {a, b} : (\A y \in {a, b} : x =< y) <=> x = a
    BY <1>1
  <2>2. QED
    BY <2>1, <1>1 DEF Min
<1>2. CASE ~(a <= b)
  <2>1. \A x \in {a, b} : (\A y \in {a, b} : x =< y) <=> x = b
    BY <1>2
  <2>2. QED
    BY <2>1, <1>2 DEF Min
<1>3. QED
  BY <1>1, <1>2

\* The largest element of a singleton.
LEMMA MaxOfOne ==
  ASSUME NEW k \in Nat
  PROVE  Max({k}) = k
BY DEF Max

-----------------------------------------------------------------------------
(* The copying loops *)

\* What a batch of a write leaves in the ring: the k-th byte is k places on
\* from the tail, and the places that were in use before keep their bytes.
LEMMA WriteEffect ==
  ASSUME TypeOK, NEW n \in Nat, NEW src \in [1 .. n -> Bytes], write_batch(src)
  PROVE  \E batch \in 1 .. PIPE_BUFSZ - count :
           /\ batch <= n
           /\ head' = head /\ dst' = dst /\ count' = count + batch
           /\ DOMAIN buf' = Slots
           /\ \A k \in 1 .. batch : buf'[Masked(head + (count + k - 1))] = src[k]
           /\ \A k \in 1 .. count : buf'[Masked(head + (k - 1))] = buf[Masked(head + (k - 1))]
           /\ \A i \in Slots : buf'[i] \in Bytes \cup {0}
<1>1. PIPE_BUFSZ \in Nat \ {0}
  BY RingAssumption
<1> DEFINE batch == Min({Len(src), space})
<1>2. Len(src) = n /\ space \in Nat /\ space = PIPE_BUFSZ - count
  BY <1>1 DEF space, TypeOK
<1>3. batch > 0 /\ batch \in Nat /\ batch <= n /\ batch <= PIPE_BUFSZ - count
  <2>1. batch > 0
    BY DEF write_batch
  <2>2. Min({n, space}) = IF n <= space THEN n ELSE space
    BY <1>2, MinOfTwo
  <2>3. QED
    BY <1>1, <1>2, <2>1, <2>2
<1> DEFINE place(k) == Masked(tail + k - 1)
<1>4. /\ count' = count + batch /\ head' = head /\ dst' = dst
      /\ buf' = [i \in Slots |->
                   IF \E j \in 1 .. batch : i = place(j)
                   THEN src[Max({j \in 1 .. batch : i = place(j)})] ELSE buf[i]]
  BY DEF write_batch
<1> HIDE DEF batch
<1>5. ASSUME NEW k \in 1 .. batch
      PROVE  place(k) = Masked(head + (count + k - 1)) /\ place(k) \in Slots
  <2>1. /\ head \in Slots /\ count \in 0 .. PIPE_BUFSZ /\ k - 1 \in Nat
        /\ count + (k - 1) < PIPE_BUFSZ
    BY <1>1, <1>3 DEF TypeOK
  <2>2. Masked(Masked(head + count) + (k - 1)) = Masked(head + (count + (k - 1)))
    BY <2>1, MaskedTwice
  <2>3. tail \in Nat
    <3>1. head + count \in Nat
      BY <2>1, <1>1 DEF Slots
    <3>2. tail \in Slots
      BY <3>1, MaskedSlot DEF tail
    <3>3. QED
      BY <3>2, <1>1 DEF Slots
  <2>4. tail + k - 1 = tail + (k - 1) /\ count + k - 1 = count + (k - 1)
    BY <2>1, <2>3
  <2>5. head + (count + (k - 1)) \in Nat
    BY <2>1, <1>1 DEF Slots
  <2>6. QED
    BY <2>2, <2>4, <2>5, MaskedSlot DEF tail
<1>6. ASSUME NEW j \in 1 .. batch, NEW k \in 1 .. batch, place(j) = place(k)
      PROVE  j = k
  <2>1. /\ head \in Slots /\ count + j - 1 \in Slots /\ count + k - 1 \in Slots
    BY <1>1, <1>3 DEF TypeOK, Slots
  <2>2. Masked(head + (count + j - 1)) = Masked(head + (count + k - 1))
    BY <1>5, <1>6
  <2>3. count + j - 1 = count + k - 1
    BY <2>1, <2>2, MaskedInjective
  <2>4. QED
    BY <2>3 DEF TypeOK
<1>7. ASSUME NEW j \in 1 .. batch, NEW k \in 1 .. count
      PROVE  place(j) # Masked(head + (k - 1))
  <2>1. /\ head \in Slots /\ count + j - 1 \in Slots /\ k - 1 \in Slots
    BY <1>1, <1>3 DEF TypeOK, Slots
  <2>2. Masked(head + (count + j - 1)) = Masked(head + (k - 1)) => count + j - 1 = k - 1
    BY <2>1, MaskedInjective
  <2>3. count + j - 1 # k - 1
    BY DEF TypeOK
  <2>4. QED
    BY <2>2, <2>3, <1>5
<1> HIDE DEF place
<1>8. ASSUME NEW k \in 1 .. batch PROVE buf'[place(k)] = src[k]
  <2>1. {j \in 1 .. batch : place(k) = place(j)} = {k}
    BY <1>6
  <2>2. Max({k}) = k
    BY <1>3, MaxOfOne
  <2>3. QED
    BY <1>4, <1>5, <2>1, <2>2
<1>9. ASSUME NEW k \in 1 .. count
      PROVE  buf'[Masked(head + (k - 1))] = buf[Masked(head + (k - 1))]
  <2>1. Masked(head + (k - 1)) \in Slots
    <3>1. head + (k - 1) \in Nat
      BY <1>1 DEF TypeOK, Slots
    <3>2. QED
      BY <3>1, MaskedSlot
  <2>2. QED
    BY <1>4, <1>7, <2>1
<1>10. ASSUME NEW i \in Slots PROVE buf'[i] \in Bytes \cup {0}
  <2>1. CASE \E j \in 1 .. batch : i = place(j)
    <3>1. PICK k \in 1 .. batch : i = place(k)
      BY <2>1
    <3>2. buf'[i] = src[k] /\ k \in 1 .. n
      BY <3>1, <1>8, <1>3
    <3>3. QED
      BY <3>2
  <2>2. CASE ~ \E j \in 1 .. batch : i = place(j)
    BY <1>4, <2>2 DEF TypeOK
  <2>3. QED
    BY <2>1, <2>2
<1>11. QED
  <2>1. DOMAIN buf' = Slots
    BY <1>4
  <2>2. \A k \in 1 .. batch : buf'[Masked(head + (count + k - 1))] = src[k]
    BY <1>5, <1>8
  <2>3. batch \in 1 .. PIPE_BUFSZ - count
    BY <1>3, <1>1 DEF TypeOK
  <2>4. QED
    BY Zenon, <1>3, <1>4, <1>9, <1>10, <2>1, <2>2, <2>3

\* What a batch of a read copies out, and where it leaves the head.
LEMMA ReadEffect ==
  ASSUME TypeOK, NEW n \in Nat, read_batch(n)
  PROVE  \E batch \in 1 .. count :
           /\ buf' = buf /\ count' = count - batch
           /\ head' = Masked(head + batch) /\ head' \in Slots
           /\ dst' = [k \in 1 .. batch |-> buf[Masked(head + k - 1)]]
<1> DEFINE batch == Min({n, count})
<1>1. PIPE_BUFSZ \in Nat \ {0}
  BY RingAssumption
<1>2. batch \in 1 .. count
  <2>1. batch > 0
    BY DEF read_batch
  <2>2. batch = IF n <= count THEN n ELSE count
    BY <1>1, MinOfTwo DEF TypeOK
  <2>3. QED
    BY <1>1, <2>1, <2>2 DEF TypeOK
<1>3. /\ buf' = buf /\ head' = Masked(head + batch) /\ count' = count - batch
      /\ dst' = [k \in 1 .. batch |-> buf[Masked(head + k - 1)]]
  BY DEF read_batch
<1> HIDE DEF batch
<1>4. head + batch \in Nat
  BY <1>1, <1>2 DEF TypeOK, Slots
<1>5. head' \in Slots
  BY <1>3, <1>4, MaskedSlot
<1>6. QED
  BY <1>2, <1>3, <1>5

\* The variables keep their types.
THEOREM RingTypes == Spec => []TypeOK
<1>1. PIPE_BUFSZ \in Nat \ {0}
  BY RingAssumption
<1>2. Init => TypeOK
  BY <1>1 DEF Init, TypeOK, Slots
<1>3. TypeOK /\ [Next]_vars => TypeOK'
  <2> SUFFICES ASSUME TypeOK, [Next]_vars PROVE TypeOK'
    OBVIOUS
  <2>1. CASE UNCHANGED vars
    BY <2>1 DEF TypeOK, vars
  <2>2. ASSUME NEW n \in 1 .. PIPE_BUFSZ + 1, NEW src \in [1 .. n -> Bytes], write_batch(src)
        PROVE  TypeOK'
    <3>1. PICK batch \in 1 .. PIPE_BUFSZ - count :
            head' = head /\ count' = count + batch /\ \A i \in Slots : buf'[i] \in Bytes \cup {0}
      BY <1>1, <2>2, WriteEffect
    <3>2. buf' = [i \in Slots |-> buf'[i]]
      BY <2>2 DEF write_batch
    <3>3. buf' \in [Slots -> Bytes \cup {0}]
      BY <3>1, <3>2
    <3>4. QED
      BY <1>1, <3>1, <3>3 DEF TypeOK
  <2>3. ASSUME NEW n \in 1 .. PIPE_BUFSZ + 1, read_batch(n) PROVE TypeOK'
    <3>1. PICK batch \in 1 .. count : buf' = buf /\ count' = count - batch /\ head' \in Slots
      BY <1>1, <2>3, ReadEffect
    <3>2. QED
      BY <1>1, <3>1 DEF TypeOK
  <2>4. QED
    BY <2>1, <2>2, <2>3 DEF Next
<1>4. QED
  BY <1>2, <1>3, PTL DEF Spec

-----------------------------------------------------------------------------
(* The queue *)

\* A function on 1 .. n is a sequence of length n.
LEMMA FunctionIsSeq ==
  ASSUME NEW S, NEW n \in Nat, NEW f \in [1 .. n -> S]
  PROVE  f \in Seq(S) /\ Len(f) = n
BY LenProperties

\* When a sequence is the concatenation of two.
LEMMA ConcatPointwise ==
  ASSUME NEW S, NEW s \in Seq(S), NEW w \in Seq(S), NEW u \in Seq(S),
         Len(u) = Len(s) + Len(w),
         \A i \in 1 .. Len(s) : u[i] = s[i],
         \A i \in 1 .. Len(w) : u[Len(s) + i] = w[i]
  PROVE  u = s \o w
<1>1. /\ s \o w \in Seq(S) /\ Len(s \o w) = Len(s) + Len(w)
      /\ \A i \in 1 .. Len(s) + Len(w) :
           (s \o w)[i] = IF i <= Len(s) THEN s[i] ELSE w[i - Len(s)]
  BY ConcatProperties
<1>2. Len(s) \in Nat /\ Len(w) \in Nat
  BY LenProperties
<1>3. ASSUME NEW i \in 1 .. Len(u) PROVE u[i] = (s \o w)[i]
  <2>1. CASE i <= Len(s)
    BY <1>1, <1>2, <2>1
  <2>2. CASE i > Len(s)
    <3>1. i - Len(s) \in 1 .. Len(w) /\ Len(s) + (i - Len(s)) = i
      BY <1>2, <2>2
    <3>2. u[i] = w[i - Len(s)]
      BY <3>1
    <3>3. QED
      BY <1>1, <1>2, <2>2, <3>2
  <2>3. QED
    BY <1>2, <2>1, <2>2
<1>4. QED
  BY <1>1, <1>3, SeqEqual

\* When a sequence is a part of another.
LEMMA SubSeqPointwise ==
  ASSUME NEW S, NEW s \in Seq(S), NEW u \in Seq(S), NEW m \in 1 .. Len(s) + 1, NEW n \in 0 .. Len(s),
         m <= n + 1, Len(u) = n - m + 1, \A i \in 1 .. Len(u) : u[i] = s[m + i - 1]
  PROVE  u = SubSeq(s, m, n)
<1>1. Len(s) \in Nat /\ DOMAIN s = 1 .. Len(s)
  BY LenProperties
<1>2. \A i \in m .. n : s[i] \in S
  BY <1>1
<1>3. /\ SubSeq(s, m, n) \in Seq(S)
      /\ Len(SubSeq(s, m, n)) = IF m <= n THEN n - m + 1 ELSE 0
      /\ \A i \in 1 .. n - m + 1 : SubSeq(s, m, n)[i] = s[m + i - 1]
  <2>1. m \in Int /\ n \in Int
    BY <1>1
  <2>2. QED
    BY SMTT(60), <1>2, <2>1, SubSeqProperties
<1>4. Len(SubSeq(s, m, n)) = Len(u)
  BY <1>1, <1>3
<1>5. \A i \in 1 .. Len(u) : u[i] = SubSeq(s, m, n)[i]
  BY <1>1, <1>3
<1>6. QED
  BY <1>3, <1>4, <1>5, SeqEqual

\* The ring read from the head on.
Contents == [i \in 1 .. count |-> buf[Masked(head + i - 1)]]

\* It is a sequence of count bytes.
LEMMA ContentsSeq ==
  TypeOK => Contents \in Seq(Bytes \cup {0}) /\ Len(Contents) = count
<1> SUFFICES ASSUME TypeOK PROVE Contents \in Seq(Bytes \cup {0}) /\ Len(Contents) = count
  OBVIOUS
<1>1. PIPE_BUFSZ \in Nat \ {0}
  BY RingAssumption
<1>2. ASSUME NEW i \in 1 .. count PROVE buf[Masked(head + i - 1)] \in Bytes \cup {0}
  <2>1. head + i - 1 \in Nat
    BY <1>1 DEF TypeOK, Slots
  <2>2. Masked(head + i - 1) \in Slots
    BY <2>1, MaskedSlot
  <2>3. QED
    BY <2>2 DEF TypeOK
<1>3. Contents \in [1 .. count -> Bytes \cup {0}] /\ count \in Nat
  BY <1>1, <1>2 DEF Contents, TypeOK
<1>4. QED
  BY <1>3, FunctionIsSeq

\* A batch of a write puts its bytes at the end of the queue.
LEMMA WritePuts ==
  ASSUME TypeOK, TypeOK', NEW n \in Nat, NEW src \in [1 .. n -> Bytes], write_batch(src)
  PROVE  \E m \in 1 .. PIPE_BUFSZ : \E items \in [1 .. m -> Bytes] :
           /\ Len(Contents) + Len(items) <= PIPE_BUFSZ
           /\ Contents' = Contents \o items
           /\ dst' = dst
<1>1. PIPE_BUFSZ \in Nat \ {0}
  BY RingAssumption
<1>2. PICK batch \in 1 .. PIPE_BUFSZ - count :
        /\ batch <= n
        /\ head' = head /\ dst' = dst /\ count' = count + batch
        /\ \A k \in 1 .. batch : buf'[Masked(head + (count + k - 1))] = src[k]
        /\ \A k \in 1 .. count : buf'[Masked(head + (k - 1))] = buf[Masked(head + (k - 1))]
  BY WriteEffect
<1> DEFINE items == [k \in 1 .. batch |-> src[k]]
<1>3. items \in [1 .. batch -> Bytes] /\ batch \in Nat
  BY <1>1, <1>2 DEF TypeOK
<1>4. items \in Seq(Bytes \cup {0}) /\ Len(items) = batch
  <2>1. items \in [1 .. batch -> Bytes \cup {0}]
    BY <1>3
  <2>2. QED
    BY <1>3, <2>1, FunctionIsSeq
<1>5. /\ Contents \in Seq(Bytes \cup {0}) /\ Len(Contents) = count
      /\ Contents' \in Seq(Bytes \cup {0}) /\ Len(Contents') = count + batch
  <2>1. (TypeOK => Contents \in Seq(Bytes \cup {0}) /\ Len(Contents) = count)'
    BY ContentsSeq, PTL
  <2>2. QED
    BY <1>2, <2>1, ContentsSeq
<1>6. ASSUME NEW i \in 1 .. count PROVE Contents'[i] = Contents[i]
  <2>1. head + i - 1 = head + (i - 1)
    BY <1>1 DEF TypeOK, Slots
  <2>2. i \in 1 .. count + batch
    BY <1>1, <1>2 DEF TypeOK
  <2>3. Contents'[i] = buf'[Masked(head + i - 1)]
    BY <1>2, <2>2 DEF Contents
  <2>4. QED
    BY <1>2, <2>1, <2>3 DEF Contents
<1>7. ASSUME NEW i \in 1 .. batch PROVE Contents'[count + i] = items[i]
  <2>1. head + (count + i) - 1 = head + (count + i - 1)
    BY <1>1, <1>2 DEF TypeOK, Slots
  <2>2. count + i \in 1 .. count + batch
    BY <1>1, <1>2 DEF TypeOK
  <2>3. Contents'[count + i] = buf'[Masked(head + (count + i) - 1)]
    BY <1>2, <2>2 DEF Contents
  <2>4. QED
    BY <1>2, <2>1, <2>3
<1>8. Contents' = Contents \o items
  <2> HIDE DEF items
  <2>1. /\ Len(Contents') = Len(Contents) + Len(items)
        /\ \A i \in 1 .. Len(Contents) : Contents'[i] = Contents[i]
        /\ \A i \in 1 .. Len(items) : Contents'[Len(Contents) + i] = items[i]
    BY SMTT(60), <1>4, <1>5, <1>6, <1>7
  <2>2. QED
    BY ZenonT(60), <1>4, <1>5, <2>1, ConcatPointwise
<1>9. QED
  <2>1. batch \in 1 .. PIPE_BUFSZ /\ count + batch <= PIPE_BUFSZ
    BY <1>1, <1>2 DEF TypeOK
  <2> HIDE DEF items
  <2>2. QED
    BY Zenon, <1>2, <1>3, <1>4, <1>5, <1>8, <2>1

\* A batch of a read takes its bytes from the front of the queue.
LEMMA ReadTakes ==
  ASSUME TypeOK, TypeOK', NEW n \in Nat, read_batch(n)
  PROVE  \E m \in 1 .. Len(Contents) :
           /\ dst' = SubSeq(Contents, 1, m)
           /\ Contents' = SubSeq(Contents, m + 1, Len(Contents))
<1>1. PIPE_BUFSZ \in Nat \ {0}
  BY RingAssumption
<1>2. PICK batch \in 1 .. count :
        /\ buf' = buf /\ count' = count - batch /\ head' = Masked(head + batch)
        /\ dst' = [k \in 1 .. batch |-> buf[Masked(head + k - 1)]]
  BY ReadEffect
<1>3. count \in Nat /\ batch \in Nat /\ batch <= count /\ count <= PIPE_BUFSZ /\ head \in Slots
  BY <1>1, <1>2 DEF TypeOK
<1>4. /\ Contents \in Seq(Bytes \cup {0}) /\ Len(Contents) = count
      /\ Contents' \in Seq(Bytes \cup {0}) /\ Len(Contents') = count - batch
  <2>1. (TypeOK => Contents \in Seq(Bytes \cup {0}) /\ Len(Contents) = count)'
    BY ContentsSeq, PTL
  <2>2. QED
    BY <1>2, <2>1, ContentsSeq
<1>5. dst' = SubSeq(Contents, 1, batch)
  <2>1. \A k \in 1 .. batch : dst'[k] = Contents[k]
    BY <1>2, <1>3 DEF Contents
  <2>2. dst' \in [1 .. batch -> Bytes \cup {0}]
    <3>1. \A k \in 1 .. batch : Contents[k] \in Bytes \cup {0}
      BY <1>3, <1>4
    <3>2. QED
      BY Zenon, <1>2, <2>1, <3>1
  <2>3. dst' \in Seq(Bytes \cup {0}) /\ Len(dst') = batch
    BY <1>3, <2>2, FunctionIsSeq
  <2>4. \A k \in 1 .. Len(dst') : dst'[k] = Contents[1 + k - 1]
    BY <1>3, <2>1, <2>3
  <2>5. 1 \in 1 .. Len(Contents) + 1 /\ batch \in 0 .. Len(Contents) /\ 1 <= batch + 1
        /\ Len(dst') = batch - 1 + 1
    BY <1>3, <1>4, <2>3
  <2>6. QED
    BY <1>4, <2>3, <2>4, <2>5, SubSeqPointwise
<1>6. ASSUME NEW i \in 1 .. count - batch PROVE Contents'[i] = Contents[batch + 1 + i - 1]
  <2>1. Contents'[i] = buf[Masked(head' + i - 1)]
    BY <1>2 DEF Contents
  <2>2. /\ batch \in 0 .. PIPE_BUFSZ /\ i - 1 \in Nat /\ batch + (i - 1) < PIPE_BUFSZ
    BY <1>1, <1>3
  <2>3. Masked(Masked(head + batch) + (i - 1)) = Masked(head + (batch + (i - 1)))
    BY <1>3, <2>2, MaskedTwice
  <2>4. Masked(head + batch) \in Nat
    <3>1. head + batch \in Nat
      BY <1>1, <1>3 DEF Slots
    <3>2. Masked(head + batch) \in Slots
      BY <3>1, MaskedSlot
    <3>3. QED
      BY <1>1, <3>2 DEF Slots
  <2>5. head' + i - 1 = Masked(head + batch) + (i - 1)
    BY <1>2, <2>4
  <2>6. /\ head + (batch + (i - 1)) = head + (batch + 1 + i - 1) - 1
        /\ batch + 1 + i - 1 \in 1 .. count
    BY <1>1, <1>3 DEF Slots
  <2>7. Contents[batch + 1 + i - 1] = buf[Masked(head + (batch + 1 + i - 1) - 1)]
    BY <2>6 DEF Contents
  <2>8. QED
    BY <2>1, <2>3, <2>5, <2>6, <2>7
<1>7. Contents' = SubSeq(Contents, batch + 1, Len(Contents))
  <2>1. \A i \in 1 .. Len(Contents') : Contents'[i] = Contents[batch + 1 + i - 1]
    BY <1>4, <1>6
  <2>2. /\ batch + 1 \in 1 .. Len(Contents) + 1 /\ Len(Contents) \in 0 .. Len(Contents)
        /\ batch + 1 <= Len(Contents) + 1
        /\ Len(Contents') = Len(Contents) - (batch + 1) + 1
    BY <1>3, <1>4
  <2>3. QED
    BY <1>4, <2>1, <2>2, SubSeqPointwise
<1>8. QED
  BY <1>4, <1>5, <1>7

\* The ring is a first-in first-out queue of PIPE_BUFSZ bytes: its copying loops
\* implement the queue for every size of the buffer, wherever the head is and
\* however a batch wraps around.
THEOREM RingIsFifo == Spec => IsFifo
<1>1. Init => Queue!Init
  <2> SUFFICES ASSUME Init PROVE Queue!Init
    OBVIOUS
  <2>1. count = 0 /\ dst = <<>>
    BY DEF Init
  <2>2. [i \in 1 .. 0 |-> buf[Masked(head + i - 1)]] = <<>>
    BY SMTT(60)
  <2>3. QED
    BY <2>1, <2>2 DEF Queue!Init
<1>2. TypeOK /\ TypeOK' /\ [Next]_vars => [Queue!Next]_<<Contents, dst>>
  <2> SUFFICES ASSUME TypeOK, TypeOK', [Next]_vars PROVE [Queue!Next]_<<Contents, dst>>
    OBVIOUS
  <2>1. CASE UNCHANGED vars
    BY <2>1 DEF vars, Contents
  <2>2. ASSUME NEW n \in 1 .. PIPE_BUFSZ + 1, NEW src \in [1 .. n -> Bytes], write_batch(src)
        PROVE  Queue!Next
    <3>1. n \in Nat
      BY RingAssumption
    <3>2. PICK m \in 1 .. PIPE_BUFSZ : \E items \in [1 .. m -> Bytes] :
            /\ Len(Contents) + Len(items) <= PIPE_BUFSZ
            /\ Contents' = Contents \o items
            /\ dst' = dst
      BY <2>2, <3>1, WritePuts
    <3>3. PICK items \in [1 .. m -> Bytes] :
            /\ Len(Contents) + Len(items) <= PIPE_BUFSZ
            /\ Contents' = Contents \o items
            /\ dst' = dst
      BY Zenon, <3>2
    <3>4. Queue!Put(items)
      BY Zenon, <3>3 DEF Queue!Put, Contents
    <3>5. QED
      BY <3>4 DEF Queue!Next
  <2>3. ASSUME NEW n \in 1 .. PIPE_BUFSZ + 1, read_batch(n)
        PROVE  Queue!Next
    <3>1. n \in Nat
      BY RingAssumption
    <3>2. PICK m \in 1 .. Len(Contents) :
            /\ dst' = SubSeq(Contents, 1, m)
            /\ Contents' = SubSeq(Contents, m + 1, Len(Contents))
      BY <2>3, <3>1, ReadTakes
    <3>3. Queue!Take(m)
      BY Zenon, <3>2 DEF Queue!Take, Contents
    <3>4. QED
      BY Zenon, <3>2, <3>3 DEF Queue!Next, Contents
  <2>4. QED
    BY <2>1, <2>2, <2>3 DEF Next
<1>3. QED
  BY <1>1, <1>2, RingTypes, PTL DEF Spec, IsFifo, Queue!Spec, Contents
=============================================================================
