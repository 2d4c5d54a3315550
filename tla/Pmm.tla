-------------------------------- MODULE Pmm --------------------------------
(***************************************************************************)
(* The physical memory manager, pmm.c: a bitmap of page frames, set up     *)
(* from the boot loader's memory map, with two counters and a search hint. *)
(***************************************************************************)
EXTENDS Integers, FiniteSets

CONSTANTS
  PMM_MAX_FRAMES,
  PAGE_SIZE,
  UINT_MOD,                \* the counters are uint32_t: 2^32 in the kernel
  MemoryMaps,              \* boot loader's maps: sets of [addr, len, type]
  KernelImages             \* the kernel's place in memory, [start, end]

ASSUME FramesAssumption ==
  /\ PMM_MAX_FRAMES \in Nat /\ PMM_MAX_FRAMES >= 2 /\ PAGE_SIZE \in Nat \ {0}
  /\ UINT_MOD \in Nat /\ UINT_MOD > PMM_MAX_FRAMES

MULTIBOOT_MEMORY_AVAILABLE == 1

Frames == 0 .. PMM_MAX_FRAMES - 1
Top    == PMM_MAX_FRAMES * PAGE_SIZE     \* the 4 GB of physical addresses

VARIABLES
  bitmap,                  \* the frames whose bit is set: reserved or allocated
  pmm_total_frames, pmm_used_frames, pmm_alloc_search,
  usable,                  \* the frames that pmm_init() left available
  kernel,                  \* the kernel image
  held                     \* the frames that callers of pmm_alloc_frame() hold

bootVars == <<pmm_total_frames, usable, kernel>>
vars == <<bitmap, pmm_total_frames, pmm_used_frames, pmm_alloc_search, usable, kernel, held>>

\* The frames that pmm_mark_region_available() and pmm_mark_region_reserved()
\* visit: those that lie in the region with their whole page.
FullFrames(base, len) ==
  {f \in Frames : base <= f * PAGE_SIZE /\ (f + 1) * PAGE_SIZE <= base + len}

\* What the loop over the memory map makes available, frame 0 excepted.  An
\* entry is cut off at 4 GB, and its length is then a uint32_t.  The fallback to
\* mem_upper is a map with one entry that ends below 4 GB, for the code does not
\* cut that one off.
Available(map) ==
  {f \in Frames \ {0} : \E e \in map :
     LET top == IF e.addr + e.len > Top THEN Top ELSE e.addr + e.len
     IN  /\ e.type = MULTIBOOT_MEMORY_AVAILABLE /\ e.addr < Top
         /\ f \in FullFrames(e.addr, (top - e.addr) % Top)}

\* pmm_init(): everything is reserved, the map's available regions are not,
\* and the kernel image is again.
Init ==
  \E map \in MemoryMaps, k \in KernelImages :
    LET image == FullFrames(k.start, k.end - k.start)
    IN  /\ kernel = k
        /\ usable = Available(map) \ image
        /\ bitmap = Frames \ usable
        /\ pmm_total_frames = Cardinality(Available(map))
        /\ pmm_used_frames = PMM_MAX_FRAMES - Cardinality(Available(map))
                               + Cardinality(Available(map) \cap image)
        /\ pmm_alloc_search = 1
        /\ held = {}

\* Mutant: the bit of the frame at the hint is not tested.
Bug_Found == {pmm_alloc_search}

\* The frames that the two passes of pmm_alloc_frame() can find: the first clear
\* bit from the search hint upwards, or else the first one below it.
Found ==
  LET clear(lo, hi) == {f \in lo .. hi : f \notin bitmap}
      pass0 == clear(pmm_alloc_search, PMM_MAX_FRAMES - 1)
      pass1 == clear(1, pmm_alloc_search - 1)
      scan  == IF pass0 # {} THEN pass0 ELSE pass1
  IN  {f \in scan : \A g \in scan : f <= g}

\* Mutant: the hint runs past the last frame.
Bug_hint(frame) == frame + 1

\* The search hint after frame has been allocated.
hint(frame) == IF frame + 1 >= PMM_MAX_FRAMES THEN 1 ELSE frame + 1

\* pmm_alloc_frame() that finds a frame.
pmm_alloc_frame ==
  /\ pmm_total_frames # 0
  /\ \E frame \in Found :
       /\ bitmap' = bitmap \cup {frame}
       /\ pmm_used_frames' = pmm_used_frames + 1
       /\ pmm_alloc_search' = hint(frame)
       /\ held' = held \cup {frame}
  /\ UNCHANGED bootVars

\* pmm_alloc_frame() that returns 0.
pmm_alloc_fails ==
  /\ pmm_total_frames = 0 \/ Found = {}
  /\ UNCHANGED vars

\* Mutants: the hint is not lowered; a frame that is free already is counted.
Bug_pmm_free_hint(frame) ==
  /\ frame # 0 /\ frame \in bitmap
  /\ bitmap' = bitmap \ {frame}
  /\ pmm_used_frames' = pmm_used_frames - 1
  /\ held' = held \ {frame}
  /\ UNCHANGED <<bootVars, pmm_alloc_search>>
Bug_pmm_free_twice(frame) ==
  /\ frame # 0
  /\ bitmap' = bitmap \ {frame}
  /\ pmm_used_frames' = pmm_used_frames - 1
  /\ pmm_alloc_search' = IF frame < pmm_alloc_search THEN frame ELSE pmm_alloc_search
  /\ held' = held \ {frame}
  /\ UNCHANGED bootVars

\* pmm_free_frame(): frame 0 and a frame that is free already are left alone.
pmm_free_frame(frame) ==
  \/ /\ frame = 0 \/ frame \notin bitmap
     /\ UNCHANGED vars
  \/ /\ frame # 0 /\ frame \in bitmap
     /\ bitmap' = bitmap \ {frame}
     /\ pmm_used_frames' = pmm_used_frames - 1
     /\ pmm_alloc_search' = IF frame < pmm_alloc_search THEN frame ELSE pmm_alloc_search
     /\ held' = held \ {frame}
     /\ UNCHANGED bootVars

pmm_get_free_frames == (pmm_total_frames - pmm_used_frames) % UINT_MOD

\* A caller frees a frame that it holds, or held before and frees twice.
Next ==
  \/ pmm_alloc_frame
  \/ pmm_alloc_fails
  \/ \E f \in usable : pmm_free_frame(f)

Spec == Init /\ [][Next]_vars

-----------------------------------------------------------------------------
(* Properties *)

\* Every variable has the type of the C object it stands for.
TypeOK ==
  /\ bitmap \subseteq Frames /\ usable \subseteq Frames /\ held \subseteq Frames
  /\ pmm_total_frames \in 0 .. PMM_MAX_FRAMES
  /\ pmm_used_frames \in 0 .. PMM_MAX_FRAMES
  /\ pmm_alloc_search \in Frames \ {0}

\* No frame is handed out twice, lost or taken from what pmm_init() reserved:
\* the set bits are those of the reserved frames and of the frames held.
HeldExact ==
  /\ held \subseteq usable /\ 0 \notin usable
  /\ bitmap = (Frames \ usable) \cup held

\* pmm_used_frames counts the set bits, through the boot and through every
\* allocation, free and double free.
CountExact == pmm_used_frames = Cardinality(bitmap)

\* No frame below the search hint is free: an allocation always returns the
\* lowest free frame and fails only when there is none at all.
LowestFrameFirst == 1 .. pmm_alloc_search - 1 \subseteq bitmap

\* No frame that holds a byte of the kernel image is ever handed out.  The code
\* does not meet this.
KernelReserved ==
  \A f \in held : kernel.end <= f * PAGE_SIZE \/ (f + 1) * PAGE_SIZE <= kernel.start

\* pmm_get_free_frames() is the number of frames that can be allocated.  The code
\* does not meet this.
FreeCountRight == pmm_get_free_frames = Cardinality(usable \ held)
=============================================================================
