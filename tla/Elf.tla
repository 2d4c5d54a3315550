-------------------------------- MODULE Elf --------------------------------
(***************************************************************************)
(* The loader of executables, elf.c, as sys_execve() calls it: one program *)
(* header after the other, page by page, into the one address space there  *)
(* is.  Addresses and sizes count words.  The kernel does one thing at a   *)
(* time, step says which: interrupts are off in a system call.             *)
(***************************************************************************)
EXTENDS Vmm, Sequences

CONSTANTS
  Programs,                \* names of files that a process may execute
  Binary                   \* the file of each: [valid, phnum, phdrs]; a program
                           \* header is [type, vaddr, filesz, memsz, data], where
                           \* data is what the file has of the filesz words

PT_LOAD == 1
Space == ENTRIES * ENTRIES * ENTRIES     \* the 4 GB of virtual addresses

ASSUME ElfAssumption ==
  \A p \in Programs : \A i \in DOMAIN Binary[p].phdrs :
    LET ph == Binary[p].phdrs[i]
    IN  ENTRIES * ENTRIES <= ph.vaddr /\ Len(ph.data) <= ph.filesz

VARIABLES
  step,                    \* what the kernel is doing: [op, prog, seg, page, frame], and
                           \* fresh, the pages that the load under way has cleared
  loaded                   \* programs that were started at least once

elfVars == <<step, loaded>>

Doing(op) == step.op = op
Idle == [op |-> "idle", prog |-> "", seg |-> 0, page |-> 0, frame |-> 0, fresh |-> {}]

\* The pages of the words from address on are mapped.
Accessible(address, data) ==
  \A k \in DOMAIN data : Walk((address + k - 1) \div ENTRIES) # {}

\* Memory after data has been stored from address on, in the frames its words
\* are mapped to.
Poke(address, data) ==
  LET page(a) == a \div ENTRIES
      hit(f, i) == {k \in DOMAIN data : /\ (address + k - 1) % ENTRIES = i
                                        /\ f \in Walk(page(address + k - 1))}
  IN  [f \in Frames |->
        IF \E i \in Index : hit(f, i) # {}
        THEN [i \in Index |-> IF hit(f, i) = {} THEN mem[f][i]
                                                ELSE data[CHOOSE k \in hit(f, i) : TRUE]]
        ELSE mem[f]]

phdr == Binary[step.prog].phdrs[step.seg]
InHeaders == Doing("segment") /\ step.seg <= Binary[step.prog].phnum
HasHeader == InHeaders /\ step.seg \in DOMAIN Binary[step.prog].phdrs

\* elf_load(): open the file, read and check its header.
elf_load(prog) ==
  /\ Doing("idle")
  /\ step' = IF Binary[prog].valid THEN [Idle EXCEPT !.op = "segment", !.prog = prog, !.seg = 1]
                                   ELSE step
  /\ UNCHANGED <<vars, vmmVars, loaded>>

NextSegment == step' = [step EXCEPT !.op = "segment", !.seg = @ + 1, !.page = 0]
fail == step' = Idle

\* A header that is not loaded, or occupies no memory.
elf_skip_segment ==
  /\ HasHeader
  /\ phdr.type # PT_LOAD \/ (phdr.memsz = 0 /\ phdr.filesz = 0)
  /\ NextSegment
  /\ UNCHANGED <<vars, vmmVars, loaded>>

\* A header the file does not have, or a corrupt one.
elf_bad_segment ==
  /\ InHeaders
  /\ HasHeader => phdr.type = PT_LOAD /\ phdr.filesz > phdr.memsz
  /\ fail
  /\ UNCHANGED <<vars, vmmVars, loaded>>

page_start == phdr.vaddr \div ENTRIES
page_end   == ((phdr.vaddr + phdr.memsz + ENTRIES - 1) % Space) \div ENTRIES

\* elf_load_segment() begins.
elf_load_segment ==
  /\ HasHeader
  /\ phdr.type = PT_LOAD /\ phdr.filesz <= phdr.memsz /\ phdr.memsz # 0
  /\ step' = [step EXCEPT !.op = "pages", !.page = page_start]
  /\ UNCHANGED <<vars, vmmVars, loaded>>

\* Its loop over the pages: a mapped page is left as it is, another gets a frame.
elf_next_page ==
  /\ Doing("pages") /\ step.page < page_end
  /\ IF vmm_is_mapped(step.page)
     THEN step' = [step EXCEPT !.page = @ + 1] /\ UNCHANGED vars
     ELSE \/ /\ pmm_alloc_frame
             /\ \E frame \in Found : step' = [step EXCEPT !.op = "map", !.frame = frame]
          \/ pmm_alloc_fails /\ fail
  /\ UNCHANGED <<vmmVars, loaded>>

elf_map_page ==
  /\ Doing("map")
  /\ vmm_map_page(step.page, step.frame)
  /\ step' = [step EXCEPT !.op = "zero"]
  /\ UNCHANGED loaded

\* A page that got its frame just now is done.
PageDone == step' = [step EXCEPT !.op = "pages", !.page = @ + 1, !.frame = 0,
                                 !.fresh = @ \cup {step.page}]

\* Mutant: the page is not cleared.
Bug_elf_zero_page ==
  /\ Doing("zero")
  /\ PageDone
  /\ UNCHANGED <<vars, vmmVars, loaded>>

elf_zero_page ==
  /\ Doing("zero")
  /\ mem' = Poke(step.page * ENTRIES, [i \in 1 .. ENTRIES |-> 0])
  /\ PageDone
  /\ UNCHANGED <<vars, page_directory, loaded>>

\* The file's words are copied to their address; a short read fails the load.
elf_copy ==
  /\ Doing("pages") /\ step.page >= page_end
  /\ Accessible(phdr.vaddr, phdr.data)
  /\ mem' = Poke(phdr.vaddr, phdr.data)
  /\ IF Len(phdr.data) < phdr.filesz THEN fail ELSE NextSegment
  /\ UNCHANGED <<vars, page_directory, loaded>>

\* No page was mapped, for the end of the segment wrapped round: the copy faults.
elf_copy_faults ==
  /\ Doing("pages") /\ step.page >= page_end
  /\ ~Accessible(phdr.vaddr, phdr.data)
  /\ step' = [step EXCEPT !.op = "stopped"]
  /\ UNCHANGED <<vars, vmmVars, loaded>>

\* Every header is done: elf_load() returns the entry point and the process
\* starts there.
elf_done ==
  /\ Doing("segment") /\ step.seg > Binary[step.prog].phnum
  /\ step' = Idle
  /\ loaded' = loaded \cup {step.prog}
  /\ UNCHANGED <<vars, vmmVars>>

ElfStep ==
  \/ \E p \in Programs : elf_load(p)
  \/ elf_skip_segment \/ elf_bad_segment \/ elf_load_segment
  \/ elf_next_page \/ elf_map_page \/ elf_zero_page \/ elf_copy \/ elf_copy_faults \/ elf_done
=============================================================================
