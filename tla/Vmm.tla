-------------------------------- MODULE Vmm --------------------------------
(***************************************************************************)
(* The virtual memory manager, vmm.c: the kernel's page directory and its  *)
(* page tables, which live in frames of the physical memory manager and    *)
(* are written through the very translation they define.  A page and a     *)
(* frame are their numbers, a frame holds ENTRIES words.  Nothing calls    *)
(* vmm_unmap_page(), vmm_map_range(), vmm_get_phys() or the functions for  *)
(* further address spaces, and every mapping is VMM_KERNEL_RW.             *)
(***************************************************************************)
EXTENDS Pmm

CONSTANTS
  ENTRIES,                 \* words of a frame: 1024 in the kernel
  Junk                     \* a word of memory that nobody has cleared

ASSUME VmmAssumption ==
  /\ ENTRIES \in Nat /\ ENTRIES > 1
  /\ Junk \in Nat

Index == 0 .. ENTRIES - 1
Cleared == [i \in Index |-> 0]

\* A table entry: the frame's address, with VMM_PRESENT in the lowest bit.
Entry(frame)  == 2 * frame + 1
Present(word) == word % 2 = 1
FrameOf(word) == word \div 2

PD_INDEX(page) == page \div ENTRIES
PT_INDEX(page) == page % ENTRIES

VARIABLES
  mem,                     \* the words of every frame
  page_directory           \* its frame; 0 before vmm_init()

vmmVars == <<mem, page_directory>>

\* The processor's walk of the tables: the frame of a page, if it has one.
Walk(page) ==
  LET pde == mem[page_directory][PD_INDEX(page)]
      pte == mem[FrameOf(pde)][PT_INDEX(page)]
  IN  IF page_directory # 0 /\ Present(pde) /\ Present(pte) THEN {FrameOf(pte)} ELSE {}

\* What the code reaches when it uses the physical address of a table as a
\* pointer, as it does everywhere once paging is on.
At(table) == Walk(table)

\* The page directory entry of a page, as the code reads it.
Pde(page) == {mem[d][PD_INDEX(page)] : d \in At(page_directory)}

\* The page table of a page, where there is one and the code can reach it.
TableOf(page) == UNION {At(FrameOf(pde)) : pde \in {w \in Pde(page) : Present(w)}}

\* Mutant: every page looks unmapped.
Bug_vmm_is_mapped(page) == FALSE

vmm_is_mapped(page) == \E t \in TableOf(page) : Present(mem[t][PT_INDEX(page)])

\* Mutant: the new table is not cleared.
Bug_new_table(frame) == mem[frame]

\* create_table() clears the frame of a new table.
new_table(frame) == Cleared

\* vmm_map_page(), with create_table(): the page gets a frame, its table is
\* allocated if the directory has none.
vmm_map_page(page, phys) ==
  /\ \/ /\ \E t \in TableOf(page) : mem' = [mem EXCEPT ![t][PT_INDEX(page)] = Entry(phys)]
        /\ UNCHANGED vars
     \/ /\ \E d \in At(page_directory) : ~Present(mem[d][PD_INDEX(page)])
        /\ \E frame \in Found, d \in At(page_directory) : \E t \in At(frame) :
             mem' = [mem EXCEPT ![t] = [new_table(t) EXCEPT ![PT_INDEX(page)] = Entry(phys)],
                                ![d][PD_INDEX(page)] = Entry(frame)]
        /\ pmm_alloc_frame
  /\ UNCHANGED page_directory

\* vmm_map_page() does not return: a table cannot be reached at its physical
\* address, or there is no frame for one and the kernel panics.
map_page_stops(page) ==
  \/ Pde(page) = {}
  \/ \E pde \in Pde(page) :
       IF Present(pde) THEN TableOf(page) = {} ELSE \A frame \in Found : At(frame) = {}

\* vmm_init(): the frame of the page directory, before paging is on ...
vmm_init_directory ==
  /\ page_directory = 0
  /\ \E frame \in Found :
       /\ page_directory' = frame
       /\ mem' = [mem EXCEPT ![frame] = Cleared]
  /\ pmm_alloc_frame

\* ... and page table 0, which maps the first ENTRIES pages to themselves.
vmm_init_table0 ==
  /\ \E frame \in Found :
       mem' = [mem EXCEPT ![frame] = [i \in Index |-> Entry(i)],
                          ![page_directory][0] = Entry(frame)]
  /\ pmm_alloc_frame
  /\ UNCHANGED page_directory

-----------------------------------------------------------------------------

\* The tables that the directory has, the frames of all, and the pages mapped
\* above the first ENTRIES.
Directory == {i \in Index : Present(mem[page_directory][i])}
Tables == {page_directory} \cup {FrameOf(mem[page_directory][i]) : i \in Directory}
MappedPages ==
  {p \in UNION {i * ENTRIES .. i * ENTRIES + ENTRIES - 1 : i \in Directory \ {0}} : Walk(p) # {}}
=============================================================================
