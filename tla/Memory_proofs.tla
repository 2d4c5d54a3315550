---------------------------- MODULE Memory_proofs ----------------------------
(***************************************************************************)
(* Proofs about memory as a whole, for any number of frames and entries,   *)
(* any memory map and any set of programs.                                 *)
(***************************************************************************)
EXTENDS Memory, Pmm_proofs

\* vmm_map_page() asks the physical memory manager for a frame or leaves it alone.
LEMMA MapUsesPmm ==
  ASSUME NEW page, NEW phys, vmm_map_page(page, phys)
  PROVE  [Next]_vars
BY DEF vmm_map_page, Next

\* So does every step of the loader.
LEMMA LoaderUsesPmm ==
  ASSUME ElfStep
  PROVE  [Next]_vars
<1>1. CASE \E p \in Programs : elf_load(p)
  BY <1>1 DEF elf_load
<1>2. CASE elf_skip_segment \/ elf_bad_segment \/ elf_load_segment \/ elf_copy_faults \/ elf_done
  BY SMTT(60), <1>2 DEF elf_skip_segment, elf_bad_segment, elf_load_segment, elf_copy_faults, elf_done
<1>3. CASE elf_next_page
  BY Zenon, <1>3 DEF elf_next_page, Next
<1>4. CASE elf_map_page
  BY <1>4, MapUsesPmm DEF elf_map_page
<1>5. CASE elf_zero_page \/ elf_copy
  BY <1>5 DEF elf_zero_page, elf_copy
<1>6. QED
  BY <1>1, <1>2, <1>3, <1>4, <1>5 DEF ElfStep

\* Every step of the whole is one of the physical memory manager or leaves it
\* alone.
LEMMA StepUsesPmm == MemoryNext => [Next]_vars
<1> SUFFICES ASSUME MemoryNext PROVE [Next]_vars
  OBVIOUS
<1>1. CASE Boot
  BY SMTT(60), <1>1 DEF Boot, vmm_init_directory, vmm_init_table0, Next
<1>2. CASE ensure_mapped
  BY Zenon, <1>2 DEF ensure_mapped, Next
<1>3. CASE heap_map_page
  BY <1>3, MapUsesPmm DEF heap_map_page
<1>4. CASE MapStops
  BY <1>4 DEF MapStops
<1>5. CASE ElfStep
  BY <1>5, LoaderUsesPmm
<1>6. CASE ProgramStores
  BY <1>6 DEF ProgramStores
<1>7. CASE OthersTake
  BY <1>7 DEF OthersTake, Next
<1>8. CASE OthersReturn
  BY <1>8 DEF OthersReturn, Next
<1>9. QED
  BY <1>1, <1>2, <1>3, <1>4, <1>5, <1>6, <1>7, <1>8 DEF MemoryNext

\* Paging, the heap and the loader use the physical memory manager as its
\* specification allows: every behaviour of memory as a whole is one of Pmm.
THEOREM MemoryUsesPmm == MemorySpec => Spec
<1>1. MemoryInit => Init
  BY DEF MemoryInit
<1>2. [MemoryNext]_memoryVars => [Next]_vars
  BY StepUsesPmm DEF memoryVars
<1>3. QED
  BY <1>1, <1>2, PTL DEF MemorySpec, Spec

\* No frame is handed out twice, lost, or taken from what pmm_init() reserved,
\* under everything that paging, the heap and the loader do.
THEOREM MemoryHeld == MemorySpec => []HeldExact
<1>1. Spec => []HeldExact
  BY PmmCorrect, PTL
<1>2. QED
  BY <1>1, MemoryUsesPmm, PTL

\* The count and the search hint of the frame allocator are right under all the
\* traffic that paging, the ELF loader and the heap put on it.
THEOREM MemoryCount == MemorySpec => [](CountExact /\ LowestFrameFirst)
<1>1. Spec => [](CountExact /\ LowestFrameFirst)
  BY PmmCount, PmmLowest, PTL
<1>2. QED
  BY <1>1, MemoryUsesPmm, PTL
=============================================================================
