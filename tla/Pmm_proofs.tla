----------------------------- MODULE Pmm_proofs -----------------------------
(***************************************************************************)
(* Proofs about the physical memory manager, for any number of frames, any *)
(* page size, any memory map and any kernel image.                         *)
(***************************************************************************)
EXTENDS Pmm, FiniteSetTheorems, TLAPS

\* The conjunction that is inductive.  HeldExact makes a frame that is freed one
\* of the usable ones, CountExact needs the finiteness that TypeOK brings.
PmmInv == TypeOK /\ HeldExact /\ CountExact /\ LowestFrameFirst

\* There are finitely many frames.
LEMMA FramesFinite == IsFiniteSet(Frames) /\ Cardinality(Frames) = PMM_MAX_FRAMES
<1>1. 0 \in Int /\ PMM_MAX_FRAMES - 1 \in Int
  BY FramesAssumption
<1>2. QED
  BY <1>1, FS_Interval, FramesAssumption DEF Frames

\* pmm_init() establishes the invariant: what it counts up and down on the way is
\* the number of frames left reserved.
LEMMA PmmInit == Init => PmmInv
<1> SUFFICES ASSUME Init PROVE PmmInv
  OBVIOUS
<1>1. PICK map \in MemoryMaps, k \in KernelImages :
        LET image == FullFrames(k.start, k.end - k.start)
        IN  /\ usable = Available(map) \ image
            /\ bitmap = Frames \ usable
            /\ pmm_total_frames = Cardinality(Available(map))
            /\ pmm_used_frames = PMM_MAX_FRAMES - Cardinality(Available(map))
                                   + Cardinality(Available(map) \cap image)
            /\ pmm_alloc_search = 1
            /\ held = {}
  BY ZenonT(60) DEF Init
<1> DEFINE A == Available(map)
           I == FullFrames(k.start, k.end - k.start)
<1>2. A \subseteq Frames /\ 0 \notin A
  BY DEF Available, FullFrames
<1>3. I \subseteq Frames
  BY DEF FullFrames
<1>4. /\ usable = A \ I /\ bitmap = Frames \ usable
      /\ pmm_total_frames = Cardinality(A)
      /\ pmm_used_frames = PMM_MAX_FRAMES - Cardinality(A) + Cardinality(A \cap I)
      /\ pmm_alloc_search = 1 /\ held = {}
  BY <1>1
<1> HIDE DEF A, I
<1>5. IsFiniteSet(A) /\ IsFiniteSet(A \cap I) /\ IsFiniteSet(A \ I)
  BY <1>2, FramesFinite, FS_Subset
<1>6. /\ Cardinality(A) \in Nat /\ Cardinality(A \cap I) \in Nat /\ Cardinality(A \ I) \in Nat
  BY <1>5, FS_CardinalityType
<1>7. Cardinality(A) = Cardinality(A \ I) + Cardinality(A \cap I)
  <2>1. Cardinality(A \ I) = Cardinality(A) - Cardinality(A \cap I)
    BY ZenonT(60), <1>5, FS_Difference
  <2>2. QED
    BY <2>1, <1>6
<1>8. Cardinality(bitmap) = PMM_MAX_FRAMES - Cardinality(A \ I)
  <2>1. Cardinality(Frames \ (A \ I)) = Cardinality(Frames) - Cardinality(Frames \cap (A \ I))
    BY ZenonT(60), FramesFinite, <1>5, FS_Difference
  <2>2. Frames \cap (A \ I) = A \ I
    BY <1>2
  <2>3. QED
    BY ZenonT(60), <2>1, <2>2, <1>4, FramesFinite
<1>9. CountExact
  BY <1>4, <1>6, <1>7, <1>8, FramesAssumption DEF CountExact
<1>10. Cardinality(A) <= PMM_MAX_FRAMES
  BY <1>2, FramesFinite, FS_Subset
<1>11. TypeOK
  <2>1. pmm_alloc_search \in Frames \ {0}
    BY <1>4, FramesAssumption DEF Frames
  <2>2. pmm_total_frames \in 0 .. PMM_MAX_FRAMES /\ pmm_used_frames \in 0 .. PMM_MAX_FRAMES
    BY <1>4, <1>6, <1>7, <1>10, FramesAssumption
  <2>3. QED
    BY ZenonT(60), <2>1, <2>2, <1>2, <1>4 DEF TypeOK
<1>12. HeldExact
  BY <1>2, <1>4 DEF HeldExact
<1>13. LowestFrameFirst
  BY <1>4 DEF LowestFrameFirst
<1>14. QED
  BY <1>9, <1>11, <1>12, <1>13 DEF PmmInv

\* Under the invariant an allocation finds the lowest free frame.
LEMMA FoundLowest ==
  ASSUME PmmInv, NEW frame \in Found
  PROVE  /\ frame \in usable \ held /\ frame \notin bitmap
         /\ \A g \in 1 .. frame - 1 : g \in bitmap
<1>1. pmm_alloc_search \in Nat /\ pmm_alloc_search >= 1 /\ PMM_MAX_FRAMES \in Nat
  BY FramesAssumption DEF PmmInv, TypeOK, Frames
<1>2. \A f \in 1 .. pmm_alloc_search - 1 : f \in bitmap
  BY DEF PmmInv, LowestFrameFirst
<1>3. /\ frame \in pmm_alloc_search .. PMM_MAX_FRAMES - 1 /\ frame \notin bitmap
      /\ \A g \in pmm_alloc_search .. PMM_MAX_FRAMES - 1 : g \notin bitmap => frame <= g
  BY <1>1, <1>2 DEF Found
<1>4. frame \in Frames
  BY <1>1, <1>3 DEF Frames
<1>5. frame \in usable \ held
  BY <1>3, <1>4 DEF PmmInv, HeldExact
<1>6. ASSUME NEW g \in 1 .. frame - 1 PROVE g \in bitmap
  <2>1. CASE g <= pmm_alloc_search - 1
    BY <2>1, <1>1, <1>2, <1>3
  <2>2. CASE g >= pmm_alloc_search
    BY <2>2, <1>1, <1>3
  <2>3. QED
    BY <2>1, <2>2, <1>1, <1>3
<1>7. QED
  BY <1>3, <1>5, <1>6

\* Every step preserves the invariant.
LEMMA PmmNext == PmmInv /\ [Next]_vars => PmmInv'
<1> SUFFICES ASSUME PmmInv, [Next]_vars PROVE PmmInv'
  OBVIOUS
<1>a. IsFiniteSet(bitmap) /\ Cardinality(bitmap) \in Nat
  BY FramesFinite, FS_Subset, FS_CardinalityType DEF PmmInv, TypeOK
<1>b. PMM_MAX_FRAMES \in Nat /\ PMM_MAX_FRAMES >= 2
  BY FramesAssumption
<1>1. CASE UNCHANGED vars
  BY <1>1 DEF PmmInv, TypeOK, HeldExact, CountExact, LowestFrameFirst, vars
<1>2. CASE pmm_alloc_frame
  <2>1. PICK frame \in Found :
          /\ bitmap' = bitmap \cup {frame}
          /\ pmm_used_frames' = pmm_used_frames + 1
          /\ pmm_alloc_search' = hint(frame)
          /\ held' = held \cup {frame}
    BY <1>2 DEF pmm_alloc_frame
  <2>2. UNCHANGED <<pmm_total_frames, usable>>
    BY <1>2 DEF pmm_alloc_frame, bootVars
  <2>3. /\ frame \in usable \ held /\ frame \notin bitmap
        /\ \A g \in 1 .. frame - 1 : g \in bitmap
    BY FoundLowest
  <2>4. frame \in Frames /\ frame # 0
    BY <2>3 DEF PmmInv, TypeOK, HeldExact
  <2>5. Cardinality(bitmap') = Cardinality(bitmap) + 1
    BY ZenonT(60), <2>1, <2>3, <1>a, FS_AddElement
  <2>6. CountExact'
    BY <2>1, <2>5 DEF PmmInv, CountExact
  <2>7. bitmap' \subseteq Frames
    BY <2>1, <2>4 DEF PmmInv, TypeOK
  <2>8. Cardinality(bitmap') <= PMM_MAX_FRAMES
    BY <2>7, FramesFinite, FS_Subset
  <2>9. pmm_alloc_search' \in Frames \ {0}
    BY <2>1, <2>4, <1>b DEF hint, Frames
  <2>10. TypeOK'
    <3>1. pmm_used_frames' \in 0 .. PMM_MAX_FRAMES
      BY <2>5, <2>6, <2>8, <1>a, <1>b DEF CountExact
    <3>2. QED
      BY <3>1, <2>1, <2>2, <2>4, <2>7, <2>9 DEF PmmInv, TypeOK
  <2>11. HeldExact'
    BY <2>1, <2>2, <2>3 DEF PmmInv, HeldExact
  <2>12. LowestFrameFirst'
    <3>1. CASE frame + 1 >= PMM_MAX_FRAMES
      BY <3>1, <2>1 DEF hint, LowestFrameFirst
    <3>2. CASE ~(frame + 1 >= PMM_MAX_FRAMES)
      <4>1. pmm_alloc_search' = frame + 1
        BY <3>2, <2>1 DEF hint
      <4>2. \A g \in 1 .. frame : g = frame \/ g \in 1 .. frame - 1
        BY <2>4 DEF Frames
      <4>3. (frame + 1) - 1 = frame
        BY <2>4 DEF Frames
      <4>4. QED
        BY <4>1, <4>2, <4>3, <2>1, <2>3 DEF LowestFrameFirst
    <3>3. QED
      BY <3>1, <3>2
  <2>13. QED
    BY <2>6, <2>10, <2>11, <2>12 DEF PmmInv
<1>3. CASE pmm_alloc_fails
  BY <1>1, <1>3 DEF pmm_alloc_fails
<1>4. ASSUME NEW frame \in usable, pmm_free_frame(frame) PROVE PmmInv'
  <2>1. CASE UNCHANGED vars
    BY <2>1, <1>1
  <2>2. CASE /\ frame # 0 /\ frame \in bitmap
             /\ bitmap' = bitmap \ {frame}
             /\ pmm_used_frames' = pmm_used_frames - 1
             /\ pmm_alloc_search' = IF frame < pmm_alloc_search THEN frame ELSE pmm_alloc_search
             /\ held' = held \ {frame}
             /\ UNCHANGED bootVars
    <3>1. frame \in Frames
      BY DEF PmmInv, TypeOK
    <3>2. Cardinality(bitmap') = Cardinality(bitmap) - 1
      BY <2>2, <1>a, FS_RemoveElement
    <3>3. CountExact'
      BY <2>2, <3>2 DEF PmmInv, CountExact
    <3>4. bitmap' \subseteq Frames /\ IsFiniteSet(bitmap') /\ Cardinality(bitmap') \in Nat
      BY <2>2, <1>a, FramesFinite, FS_Subset, FS_CardinalityType DEF PmmInv, TypeOK
    <3>5. Cardinality(bitmap') <= PMM_MAX_FRAMES
      BY <3>4, FramesFinite, FS_Subset
    <3>6. pmm_alloc_search' \in Frames \ {0}
      BY <2>2, <3>1 DEF PmmInv, TypeOK
    <3>7. TypeOK'
      <4>1. pmm_used_frames' \in 0 .. PMM_MAX_FRAMES
        BY <3>3, <3>4, <3>5, <1>b DEF CountExact
      <4>2. QED
        BY <4>1, <2>2, <3>4, <3>6 DEF PmmInv, TypeOK, bootVars
    <3>8. HeldExact'
      BY <2>2 DEF PmmInv, HeldExact, bootVars
    <3>9. LowestFrameFirst'
      <4>1. pmm_alloc_search \in Nat /\ frame \in Nat
        BY <3>1 DEF PmmInv, TypeOK, Frames
      <4>2. \A g \in 1 .. pmm_alloc_search' - 1 : g # frame /\ g \in 1 .. pmm_alloc_search - 1
        BY <4>1, <2>2
      <4>3. QED
        BY <4>2, <2>2 DEF PmmInv, LowestFrameFirst
    <3>10. QED
      BY <3>3, <3>7, <3>8, <3>9 DEF PmmInv
  <2>3. QED
    BY <1>4, <2>1, <2>2 DEF pmm_free_frame
<1>5. QED
  BY <1>1, <1>2, <1>3, <1>4 DEF Next

\* For any memory map, kernel image and sequence of calls, pmm_alloc_frame()
\* hands out only frames that pmm_init() left available and that nobody holds,
\* frees and double frees keep the bitmap and the counter exact, and the search
\* hint never skips a free frame.
THEOREM PmmCorrect == Spec => [](TypeOK /\ HeldExact /\ CountExact /\ LowestFrameFirst)
<1>1. Spec => []PmmInv
  BY PmmInit, PmmNext, PTL DEF Spec
<1>2. QED
  BY <1>1, PTL DEF PmmInv

\* pmm_used_frames always counts the set bits of the bitmap, so pmm_free_count()
\* tells the truth after any sequence of frees, double frees and refusals.
THEOREM PmmCount == Spec => []CountExact
BY PmmCorrect, PTL

\* pmm_alloc_frame() never skips a free frame: none lies below its search hint.
THEOREM PmmLowest == Spec => []LowestFrameFirst
BY PmmCorrect, PTL
=============================================================================
