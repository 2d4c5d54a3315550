------------------------------- MODULE KHeap -------------------------------
(***************************************************************************)
(* The kernel heap, kheap.c: boundary tags, first fit, immediate           *)
(* coalescing, growth by whole pages.                                      *)
(*                                                                         *)
(* mem is the heap's memory, word by word, at byte addresses.  A tag word  *)
(* is the block size plus the allocated bit.  The owner of a block fills   *)
(* its payload with Junk, a word that looks like a tag, before the next    *)
(* call; pages fresh from the PMM hold Junk too.                           *)
(***************************************************************************)
EXTENDS Integers, FiniteSets, FiniteSetsExt, TLC

CONSTANTS
  HEAP_START, HEAP_MAX, HEAP_INITIAL, PAGE_SIZE,
  Sizes,                   \* arguments of kmalloc()
  AlignedSizes             \* arguments of kmalloc_aligned()

WSIZE     == 4
DWSIZE    == 8
MIN_BLOCK == DWSIZE + DWSIZE
Junk      == 8             \* looks like the tag of a free block, but no block is that small

ASSUME HeapAssumption ==
  /\ HEAP_START \in Nat \ {0} /\ PAGE_SIZE \in Nat \ {0} /\ HEAP_INITIAL \in Nat
  /\ PAGE_SIZE % DWSIZE = 0 /\ HEAP_START % PAGE_SIZE = 0 /\ HEAP_MAX % PAGE_SIZE = 0
  /\ HEAP_START + HEAP_INITIAL + MIN_BLOCK + DWSIZE <= HEAP_MAX
  /\ Sizes \subseteq Nat /\ AlignedSizes \subseteq Nat

VARIABLES mem, heap_brk, heap_virt_mapped,
          live             \* what the callers hold: [ptr, size, aligned]

vars == <<mem, heap_brk, heap_virt_mapped, live>>

Words == {HEAP_START + WSIZE * i : i \in 0 .. (HEAP_MAX - HEAP_START) \div WSIZE - 1}
heap_listp == HEAP_START + 2 * WSIZE

ALIGN(s) == ((s + DWSIZE - 1) \div DWSIZE) * DWSIZE

-----------------------------------------------------------------------------
(* Blocks of the memory m; bp is the address of a payload. *)

PACK(size, alloc)  == size + alloc
GET_SIZE(m, a)     == m[a] - (m[a] % DWSIZE)
GET_ALLOC(m, a)    == m[a] % 2
HDRP(bp)           == bp - WSIZE
FTRP(m, bp)        == bp + GET_SIZE(m, HDRP(bp)) - DWSIZE
NEXT_BLKP(m, bp)   == bp + GET_SIZE(m, HDRP(bp))
PREV_BLKP(m, bp)   == bp - GET_SIZE(m, bp - DWSIZE)

\* Header and footer of the block at bp become size and alloc.
Tagged(m, bp, size, alloc) ==
  [m EXCEPT ![HDRP(bp)] = PACK(size, alloc), ![bp + size - DWSIZE] = PACK(size, alloc)]

\* Mutants: the block before is never merged; its size is forgotten in the
\* three-way merge.
Bug_coalesce_prev(m, bp) ==
  LET next == NEXT_BLKP(m, bp)
      size == GET_SIZE(m, HDRP(bp))
                + (IF GET_ALLOC(m, HDRP(next)) = 0 THEN GET_SIZE(m, HDRP(next)) ELSE 0)
  IN  [mem |-> Tagged(m, bp, size, 0), bp |-> bp]
Bug_coalesce_size(m, bp) ==
  LET prev  == PREV_BLKP(m, bp)
      next  == NEXT_BLKP(m, bp)
      first == IF GET_ALLOC(m, FTRP(m, prev)) = 0 THEN prev ELSE bp
      size  == GET_SIZE(m, HDRP(bp))
                + (IF GET_ALLOC(m, HDRP(next)) = 0 THEN GET_SIZE(m, HDRP(next))
                   ELSE IF first = prev THEN GET_SIZE(m, HDRP(prev)) ELSE 0)
  IN  [mem |-> Tagged(m, first, size, 0), bp |-> first]

\* coalesce(): the free block at bp and those of its two neighbours that are
\* free become one block.
coalesce(m, bp) ==
  LET prev  == PREV_BLKP(m, bp)
      next  == NEXT_BLKP(m, bp)
      prev_free == GET_ALLOC(m, FTRP(m, prev)) = 0
      next_free == GET_ALLOC(m, HDRP(next)) = 0
      first == IF prev_free THEN prev ELSE bp
      size  == GET_SIZE(m, HDRP(bp)) + (IF prev_free THEN GET_SIZE(m, HDRP(prev)) ELSE 0)
                                     + (IF next_free THEN GET_SIZE(m, HDRP(next)) ELSE 0)
  IN  [mem |-> Tagged(m, first, size, 0), bp |-> first]

\* Mutant: whatever is left over is split off.
Bug_place(m, bp, asize) ==
  LET csize == GET_SIZE(m, HDRP(bp))
  IN  IF csize > asize
      THEN Tagged(Tagged(m, bp, asize, 1), bp + asize, csize - asize, 0)
      ELSE Tagged(m, bp, csize, 1)

\* place(): allocate asize bytes at the front of the free block at bp and split
\* the rest off if it is large enough for a block.
place(m, bp, asize) ==
  LET csize == GET_SIZE(m, HDRP(bp))
  IN  IF csize - asize >= MIN_BLOCK
      THEN Tagged(Tagged(m, bp, asize, 1), bp + asize, csize - asize, 0)
      ELSE Tagged(m, bp, csize, 1)

\* Mutant: the allocated bit is not looked at.
Bug_first_fit(asize) ==
  LET walk[bp \in {w + WSIZE : w \in Words}] ==
        IF GET_SIZE(mem, HDRP(bp)) = 0 THEN 0
        ELSE IF GET_SIZE(mem, HDRP(bp)) >= asize THEN bp
        ELSE walk[NEXT_BLKP(mem, bp)]
  IN  walk[NEXT_BLKP(mem, heap_listp)]

\* The walk of kmalloc(): the first free block of at least asize bytes, or 0 at
\* the epilogue.
first_fit(asize) ==
  LET walk[bp \in {w + WSIZE : w \in Words}] ==
        IF GET_SIZE(mem, HDRP(bp)) = 0 THEN 0
        ELSE IF GET_ALLOC(mem, HDRP(bp)) = 0 /\ GET_SIZE(mem, HDRP(bp)) >= asize THEN bp
        ELSE walk[NEXT_BLKP(mem, bp)]
  IN  walk[NEXT_BLKP(mem, heap_listp)]

-----------------------------------------------------------------------------
(* Growth *)

\* ensure_mapped(end): the values that heap_virt_mapped may have afterwards.
\* Pages are mapped one by one until end is covered, the ceiling is reached or
\* the PMM has no frame left; those mapped before a failure stay mapped.
ensure_mapped(mapped, end) ==
  LET need == IF end > mapped THEN (end - mapped + PAGE_SIZE - 1) \div PAGE_SIZE ELSE 0
      room == (HEAP_MAX - mapped) \div PAGE_SIZE
  IN  {mapped + n * PAGE_SIZE : n \in 0 .. Min({need, room})}

\* The memory of extend_heap() once the pages are there: the epilogue becomes
\* the header of a free block, a new epilogue follows, and a free block before
\* it is merged.
grown(m, brk, size) ==
  coalesce([Tagged(m, brk + WSIZE, size, 0) EXCEPT ![brk + size] = PACK(0, 1)], brk + WSIZE)

\* Mutant: the result of ensure_mapped() is not looked at.
Bug_extend_heap(size) ==
  {grown(mem, heap_brk, size) @@ [brk |-> heap_brk + size, mapped |-> v]
   : v \in ensure_mapped(heap_virt_mapped, heap_brk + size + WSIZE)}

\* extend_heap(size): the possible outcomes, bp = 0 for a failure.
extend_heap(size) ==
  LET end == heap_brk + size + WSIZE
  IN  {IF v >= end
       THEN grown(mem, heap_brk, size) @@ [brk |-> heap_brk + size, mapped |-> v]
       ELSE [mem |-> mem, bp |-> 0, brk |-> heap_brk, mapped |-> v]
       : v \in ensure_mapped(heap_virt_mapped, end)}

\* Mutant: no room for the tags.
Bug_block_size(size) == Max({ALIGN(size), MIN_BLOCK})

\* The block size that kmalloc(size) looks for.  The sum is a size_t and would
\* wrap round to a smaller block just below 2^32, which no caller asks for.
block_size(size) == Max({ALIGN(size) + DWSIZE, MIN_BLOCK})

\* kmalloc(size): the possible outcomes.
kmalloc(size) ==
  LET asize == block_size(size)
      bp    == first_fit(asize)
      none  == [mem |-> mem, bp |-> 0, brk |-> heap_brk, mapped |-> heap_virt_mapped]
  IN  IF size = 0 THEN {none}
      ELSE IF bp # 0 THEN {[none EXCEPT !.mem = place(mem, bp, asize), !.bp = bp]}
      ELSE {IF e.bp = 0 THEN e ELSE [e EXCEPT !.mem = place(e.mem, e.bp, asize)]
            : e \in extend_heap(ALIGN(Max({asize, PAGE_SIZE})))}

-----------------------------------------------------------------------------
(* The callers *)

\* The owner of the size bytes at ptr fills them.
Filled(m, ptr, size) ==
  [w \in Words |-> IF ptr <= w /\ w < ptr + size THEN Junk ELSE m[w]]

\* kheap_init(): padding, prologue, epilogue and the first free block.
Init ==
  LET brk   == HEAP_START + 3 * WSIZE
      first == Max({ALIGN(HEAP_INITIAL), MIN_BLOCK})
      bare  == [w \in Words |-> CASE w = HEAP_START -> 0
                                  [] w \in {HEAP_START + WSIZE, HEAP_START + 2 * WSIZE}
                                       -> PACK(DWSIZE, 1)
                                  [] w = brk -> PACK(0, 1)
                                  [] OTHER -> Junk]
  IN  /\ mem = grown(bare, brk, first).mem
      /\ heap_brk = brk + first
      /\ heap_virt_mapped = Max(ensure_mapped(HEAP_START + PAGE_SIZE, brk + first + WSIZE))
      /\ live = {}

\* A call of kmalloc(size).
Malloc(size) ==
  \E r \in kmalloc(size) :
    /\ heap_brk' = r.brk /\ heap_virt_mapped' = r.mapped
    /\ \/ r.bp = 0 /\ mem' = r.mem /\ UNCHANGED live
       \/ /\ r.bp # 0
          /\ mem' = Filled(r.mem, r.bp, size)
          /\ live' = live \cup {[ptr |-> r.bp, size |-> size, aligned |-> 0]}

\* kmalloc_aligned(size): a block with room for an aligned address in it, and
\* the block's own address in the word before that.
kmalloc_aligned(size) ==
  \E r \in kmalloc(size + PAGE_SIZE + WSIZE) :
    LET up == ((r.bp + WSIZE + PAGE_SIZE - 1) \div PAGE_SIZE) * PAGE_SIZE
    IN  /\ heap_brk' = r.brk /\ heap_virt_mapped' = r.mapped
        /\ \/ r.bp = 0 /\ mem' = r.mem /\ UNCHANGED live
           \/ /\ r.bp # 0
              /\ mem' = Filled([r.mem EXCEPT ![up - WSIZE] = r.bp], up, size)
              /\ live' = live \cup {[ptr |-> up, size |-> size, aligned |-> 1]}

\* Mutant: kfree() of an aligned block.
Bug_original(b) == b.ptr

\* The address that kfree_aligned() and kfree() free for the block b.
original(b) == IF b.aligned = 1 THEN mem[b.ptr - WSIZE] ELSE b.ptr

\* kfree() or kfree_aligned() of a block the caller holds.
kfree(b) ==
  LET bp == original(b)
  IN  /\ mem' = coalesce(Tagged(mem, bp, GET_SIZE(mem, HDRP(bp)), 0), bp).mem
      /\ live' = live \ {b}
      /\ UNCHANGED <<heap_brk, heap_virt_mapped>>

Next ==
  \/ \E s \in Sizes : Malloc(s)
  \/ \E s \in AlignedSizes : kmalloc_aligned(s)
  \/ \E b \in live : kfree(b)

Spec == Init /\ [][Next]_vars

-----------------------------------------------------------------------------
(* Properties *)

\* Every variable has its type, and the epilogue is in mapped memory.
TypeOK ==
  /\ mem \in [Words -> Nat]
  /\ heap_brk \in Words /\ heap_virt_mapped \in HEAP_START .. HEAP_MAX
  /\ heap_brk + WSIZE <= heap_virt_mapped

\* The payload addresses that a walk over the headers visits.
Blocks ==
  LET walk[bp \in {w + WSIZE : w \in Words}] ==
        IF GET_SIZE(mem, HDRP(bp)) = 0 THEN {bp} ELSE {bp} \cup walk[NEXT_BLKP(mem, bp)]
  IN  walk[heap_listp]

\* The tags describe the heap whatever was allocated, split, freed, merged and
\* grown before: the walk of kmalloc() ends at the epilogue, every block is
\* aligned and large enough, and its footer repeats its header.
TagsExact ==
  /\ Max(Blocks) = heap_brk + WSIZE
  /\ \A bp \in Blocks \ {heap_listp, heap_brk + WSIZE} :
       /\ bp % DWSIZE = 0 /\ GET_SIZE(mem, HDRP(bp)) >= MIN_BLOCK
       /\ mem[FTRP(mem, bp)] = mem[HDRP(bp)]

\* Coalescing is immediate and complete: no two free blocks are neighbours.
Coalesced ==
  \A bp \in Blocks \ {heap_brk + WSIZE} :
    GET_ALLOC(mem, HDRP(bp)) = 1 \/ GET_ALLOC(mem, HDRP(NEXT_BLKP(mem, bp))) = 1

\* No block is lost or freed twice: the allocated blocks are exactly those that
\* callers hold, reached through the back pointer for an aligned one.
AllocatedExact ==
  {bp \in Blocks \ {heap_listp, heap_brk + WSIZE} : GET_ALLOC(mem, HDRP(bp)) = 1}
    = {original(b) : b \in live}

\* The allocator never writes a tag into a payload that is in use.
PayloadIntact ==
  \A b \in live, w \in Words : b.ptr <= w /\ w < b.ptr + b.size => mem[w] = Junk

\* The heap implements the allocator of kheap.h within its range of addresses.
Alloc == INSTANCE Allocator WITH Lo <- HEAP_START, Hi <- HEAP_MAX, allocated <- live
Allocates == Alloc!Spec
=============================================================================
