------------------------------- MODULE Memory -------------------------------
(***************************************************************************)
(* Memory as a whole: vmm_init() at boot, the heap that maps pages as it   *)
(* grows, programs that are loaded and store into their image, and other   *)
(* callers of the physical memory manager, who take and return frames.     *)
(***************************************************************************)
EXTENDS Elf

CONSTANTS
  HEAP_START, HEAP_MAX,    \* pages of the heap, from the first to before the last
  Variables,               \* [program -> addresses that it stores to]
  Value,                   \* what it stores
  MaxLoose                 \* bound on the frames that others hold

ASSUME MemoryAssumption ==
  /\ HEAP_START \in Nat /\ HEAP_MAX \in Nat /\ ENTRIES <= HEAP_START
  /\ Value \in Nat /\ MaxLoose \in Nat

VARIABLES
  heap_virt_mapped,        \* first page of the heap that is not mapped
  loose                    \* frames held by others

memoryVars == <<vars, vmmVars, elfVars, heap_virt_mapped, loose>>
keep == <<loaded, heap_virt_mapped, loose>>

MemoryInit ==
  /\ Init
  /\ mem = [f \in Frames |-> [i \in Index |-> Junk]]
  /\ page_directory = 0
  /\ step = [Idle EXCEPT !.op = "boot"]
  /\ loaded = {}
  /\ heap_virt_mapped = HEAP_START
  /\ loose = {}

\* vmm_init(), of which a missing frame is the end.
Boot ==
  \/ /\ Doing("boot") /\ vmm_init_directory
     /\ step' = [step EXCEPT !.op = "table0"]
     /\ UNCHANGED keep
  \/ /\ Doing("table0") /\ vmm_init_table0
     /\ step' = Idle
     /\ UNCHANGED keep
  \/ /\ Doing("boot") \/ Doing("table0")
     /\ pmm_alloc_fails
     /\ step' = [step EXCEPT !.op = "stopped"]
     /\ UNCHANGED <<vmmVars, keep>>

\* ensure_mapped(), one page of the heap: the frame ...
ensure_mapped ==
  /\ Doing("idle") /\ heap_virt_mapped + 1 <= HEAP_MAX
  /\ \/ /\ pmm_alloc_frame
        /\ \E frame \in Found :
             step' = [Idle EXCEPT !.op = "heap", !.page = heap_virt_mapped, !.frame = frame]
     \/ pmm_alloc_fails /\ UNCHANGED step
  /\ UNCHANGED <<vmmVars, keep>>

\* ... and its mapping.
heap_map_page ==
  /\ Doing("heap")
  /\ vmm_map_page(step.page, step.frame)
  /\ step' = Idle
  /\ heap_virt_mapped' = heap_virt_mapped + 1
  /\ UNCHANGED <<loaded, loose>>

\* vmm_map_page() panics or faults under the heap or the loader.
MapStops ==
  /\ Doing("heap") \/ Doing("map")
  /\ map_page_stops(step.page)
  /\ step' = [step EXCEPT !.op = "stopped"]
  /\ UNCHANGED <<vars, vmmVars, keep>>

\* A program that has been started stores to a variable of its own.
ProgramStores ==
  /\ Doing("idle")
  /\ \E p \in loaded : \E a \in Variables[p] : mem' = Poke(a, <<Value>>)
  /\ UNCHANGED <<vars, page_directory, step, keep>>

\* Another caller takes a frame and fills it, or returns one, maybe twice.
OthersTake ==
  /\ Doing("idle") /\ Cardinality(loose) < MaxLoose
  /\ pmm_alloc_frame
  /\ loose' = loose \cup Found
  /\ mem' = [f \in Frames |-> IF f \in Found THEN [i \in Index |-> Junk] ELSE mem[f]]
  /\ UNCHANGED <<page_directory, elfVars, heap_virt_mapped>>
OthersReturn ==
  /\ Doing("idle")
  /\ \E frame \in usable :
       /\ frame \notin held \ loose
       /\ pmm_free_frame(frame)
       /\ loose' = loose \ {frame}
  /\ UNCHANGED <<vmmVars, elfVars, heap_virt_mapped>>

MemoryNext ==
  \/ Boot \/ ensure_mapped \/ heap_map_page \/ MapStops
  \/ ElfStep /\ UNCHANGED <<heap_virt_mapped, loose>>
  \/ ProgramStores \/ OthersTake \/ OthersReturn

MemorySpec == MemoryInit /\ [][MemoryNext]_memoryVars

-----------------------------------------------------------------------------
(* Properties *)

InFlight == {step.frame} \ ({0} \cup UNION {Walk(p) : p \in {step.page}})

\* Every frame that was allocated serves one purpose and none is lost, whatever
\* fails on the way: it is the directory, a table, the memory of exactly one
\* page, on its way to be mapped, or somebody else's.
RolesExact ==
  page_directory # 0 /\ ~Doing("table0") =>
    LET backing == UNION {Walk(p) : p \in MappedPages}
    IN  /\ held = Tables \cup backing \cup loose \cup InFlight
        /\ Cardinality(held) = Cardinality(Tables) + Cardinality(MappedPages)
                                 + Cardinality(loose) + Cardinality(InFlight)

\* The program whose load is about to return its entry point: the headers to
\* load, the words of a segment, and the headers whose file part has the word a.
LoadReturns == Doing("segment") /\ step.seg > Binary[step.prog].phnum
Headers     == Binary[step.prog].phdrs
Loadable    == {i \in DOMAIN Headers : Headers[i].type = PT_LOAD}
Image       == UNION {Headers[i].vaddr .. Headers[i].vaddr + Headers[i].memsz - 1 : i \in Loadable}
Sources(a)  == {i \in Loadable : a - Headers[i].vaddr \in 0 .. Headers[i].filesz - 1}
Peek(a)     == {mem[f][a % ENTRIES] : f \in Walk(a \div ENTRIES)}

\* When elf_load() is about to return an entry point, every word of the image that
\* the file has is at its address, also where segments meet in a page or overlap
\* (the last one wins), and every other word is zero if the load mapped its page,
\* whatever loads failed or programs ran before.
LoadedExact ==
  LoadReturns => \A a \in Image :
    IF Sources(a) = {} THEN a \div ENTRIES \in step.fresh => Peek(a) = {0}
    ELSE \E i \in Sources(a) : /\ \A j \in Sources(a) : j <= i
                              /\ Peek(a) = {Headers[i].data[a - Headers[i].vaddr + 1]}

\* What the file does not have is zero in all of the image.  The code does not meet
\* this: a page that this program, another one or a load that failed has left
\* mapped is taken over as it is.
BssClean == LoadReturns => \A a \in Image : Sources(a) = {} => Peek(a) = {0}

\* vmm_map_page() gives up only for want of a frame: the code reaches every table
\* at its physical address.  It does not once frames lie above the identity map.
TablesReachable ==
  Doing("heap") \/ Doing("map") => (map_page_stops(step.page) => Found = {})

\* Tables, frames and the identity map together are an array of words: mapping
\* a page changes no other page, every store lands in its address alone.
SegmentsOf(p) == {Binary[p].phdrs[i] : i \in DOMAIN Binary[p].phdrs}
Seen ==
  HEAP_START .. HEAP_MAX - 1 \cup
  UNION {ph.vaddr \div ENTRIES .. (ph.vaddr + ph.memsz - 1) \div ENTRIES :
           ph \in {h \in UNION {SegmentsOf(p) : p \in Programs} : h.vaddr + h.memsz < Space}}

Flat == INSTANCE FlatMemory WITH
  Pages <- Seen,
  PageWords <- ENTRIES,
  Unmapped <- <<>>,
  Stores <- {[address |-> p * ENTRIES, data |-> [i \in 1 .. ENTRIES |-> 0]] : p \in Seen}
            \cup UNION {{[address |-> h.vaddr, data |-> h.data] : h \in SegmentsOf(p)} : p \in Programs}
            \cup UNION {{[address |-> a, data |-> <<Value>>] : a \in Variables[p]} : p \in Programs},
  contents <- [p \in Seen |-> IF Walk(p) = {} THEN <<>> ELSE mem[CHOOSE f \in Walk(p) : TRUE]]

IsFlatMemory == Flat!Spec
=============================================================================
