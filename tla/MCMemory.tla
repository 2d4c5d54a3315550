------------------------------ MODULE MCMemory ------------------------------
(***************************************************************************)
(* The model-checking instance of Memory: sixteen frames, all inside the   *)
(* identity map, and pages of sixteen words.                               *)
(***************************************************************************)
EXTENDS Memory

Low(len)  == [addr |-> 0, len |-> len, type |-> 1]
Hole      == [addr |-> 10, len |-> 6, type |-> 2]
High(len) == [addr |-> 17, len |-> len, type |-> 1]

\* RAM below and above a hole, from the boot sector on; a map that reaches past
\* the 4 GB; one with overlapping entries; none at all.
Maps == {{Low(10), Hole, High(30)}, {Hole, High(99)}, {Low(10), Low(6), High(18)}, {}}

\* The kernel starts on a page boundary and ends within a page.
Images == {[start |-> 20, end |-> 30]}

Header(type, vaddr, filesz, memsz, data) ==
  [type |-> type, vaddr |-> vaddr, filesz |-> filesz, memsz |-> memsz, data |-> data]
File(valid, phnum, phdrs) == [valid |-> valid, phnum |-> phnum, phdrs |-> phdrs]

\* Two segments that meet in a page, the second with a bss in the next one; a
\* second program with its bss there, and segments that overlap; a file cut off
\* within its second segment, after its first has filled a word of both bsses;
\* one that has lost a header; headers that are corrupt, that wrap round, or are
\* no header at all.
Page(n) == n * ENTRIES
Names == {"sh", "ls", "cut", "lost", "corrupt", "wraps", "text"}
Files ==
  [sh |-> File(TRUE, 3, <<Header(PT_LOAD, Page(17) + 12, 2, 2, <<2, 4>>),
                          Header(6, Page(17), 0, 0, <<>>),
                          Header(PT_LOAD, Page(17) + 14, 1, 4, <<6>>)>>),
   ls |-> File(TRUE, 2, <<Header(PT_LOAD, Page(18), 1, 4, <<9>>),
                          Header(PT_LOAD, Page(18) + 3, 1, 2, <<3>>)>>),
   cut |-> File(TRUE, 2, <<Header(PT_LOAD, Page(18) + 1, 1, 1, <<8>>),
                           Header(PT_LOAD, Page(33), 3, 4, <<8, 8>>)>>),
   lost |-> File(TRUE, 1, <<>>),
   corrupt |-> File(TRUE, 1, <<Header(PT_LOAD, Page(33), 2, 1, <<8, 8>>)>>),
   wraps |-> File(TRUE, 1, <<Header(PT_LOAD, Space - 1, 1, 4, <<8>>)>>),
   text |-> File(FALSE, 0, <<>>)]
Data == [p \in Names |-> IF p = "sh" THEN {Page(17) + 14, Page(18) + 1} ELSE {}]
=============================================================================
