# A TLA+ model of the Orion kernel

Orion is a small 32-bit x86 kernel in C for one CPU. This directory holds TLA+
models of its parts, TLC configurations that check them on small instances, and
proofs that TLAPS checks for every size. Names in the modules are the names of
the source; `PROJECT.json` maps each definition to its lines.

## 1. The system

The kernel boots, sets up memory, devices and one process (idle, PID 1) and
starts the scheduler. From then on control enters it through the timer interrupt
(100 Hz), the keyboard interrupt and `int 0x80`. All three run with interrupts
disabled from entry to the next `iret`, so **a handler is atomic except where it
calls `sched_yield()`**, which saves the rest of the handler on the process's own
kernel stack and lets somebody else run. That is where the interleavings are:
`proc_wait()`, `pipe_block()` and `kbd_read()` stop in the middle and go on later.

| Part (source) | State | Operations | What is hard, and what must hold |
|---|---|---|---|
| processes (`proc.c`, `fork.c`, `exec.c`) | process table, pid bitmap and hint, `waiting`, `wait_for_pid` | create, fork, exec, exit, wait, sleep, wake, destroy | exit racing wait; a restart of a blocked process; pids reused. Table and bitmap agree, no exit is lost, a blocked process has a waker |
| scheduler (`sched.c`) | ready queue, current process, tick flag, timeslices | tick, switch, yield, start | queue and states are kept in step by hand. Queue exact, one owner of the CPU, nobody keeps it or lacks it for ever |
| timer (`timer.c`) | tick counter | interrupt | deadlines against a counter that wraps |
| system calls (`syscall.c`, `syscall.asm`) | frame of the caller | 14 calls | each ends in the scheduler |
| pipes (`pipe.c`) | ring, end counts, one sleeper per end | create, read, write, close | block and wake across processes, close while asleep, cleanup. No lost wakeup, first in first out, freed once |
| descriptors, files (`fd.c`, `vfs.c`) | tables, reference counts | install, close, clone, dup2 | counts are exact; nothing is freed in use |
| keyboard, stdin (`keyboard.c`, `devfs.c`) | ring, waiter, modifiers | interrupt, read | key racing a reader that goes to sleep; ring full |
| kernel heap (`kheap.c`) | boundary-tagged blocks | kmalloc, kmalloc_aligned, kfree | tags exact after split, merge, growth and failure; blocks disjoint |
| frames (`pmm.c`) | bitmap, counters, hint | boot, alloc, free | rounding at boot, double free; no frame twice |
| page tables (`vmm.c`) | directory, tables | init, map, test | tables allocated on the way, memory running out halfway. Every frame has one role; mapping a page disturbs no other |
| file systems (`vfs.c`, `ramfs.c`, `devfs.c`) | mounts, vnodes, inodes, `file_t`s with offsets | open, read, write, mkdir, unlink | truncation under others, shared offsets, failing allocations. Tree, counts and buffers exact; reads return what was written |
| ELF loader (`elf.c`) | pages of the image | load | failure after the first segment, segments that meet in a page, a second start. The image arrives intact, no frame is lost |
| boot, descriptor tables, console, strings | hardware tables | – | set once, or pure output |

## 2. Modules

| Module | Models | Composes or implements |
|---|---|---|
| `ProcSched` | processes, scheduler, timer, process system calls | implements `Lifecycle` (the state diagram of `proc.h`, on the process states and the owner of the CPU) |
| `PipeIO` | pipes, descriptors, file references, their system calls | on top of `ProcSched`: fork, exec, exit and wait with their effect on files |
| `PipeRing` | the copying loops over a pipe's ring | implements `Fifo` |
| `PipeCreate` | `pipe_create()` with each of its failures | – |
| `Keyboard` | interrupt handler, ring, reads from stdin | on top of `ProcSched`; its ring implements `Fifo` |
| `KHeap` | the heap's words, byte for byte | implements `Allocator` (disjoint blocks, each with its contents) |
| `Pmm` | boot from a memory map, allocation, free | – |
| `Vmm` | directory and tables in frames, `vmm_map_page()` | on top of `Pmm` |
| `Elf` | `elf_load()`, page by page | on top of `Vmm` |
| `Memory` | boot, heap growth, loads, programs and other users of frames | composes the three above; implements `FlatMemory` (an array of words) |
| `Ramfs` | the vnode operations of the RAM file system | – |
| `Vfs` | mounts, paths, open files, descriptors, boot of the file systems | on top of `Ramfs`; implements `FileStore` (named sequences of bytes, open files with a position) |
| `ProcSched_proofs`, `ProcSchedInv_proofs`, `ProcSchedWait_proofs`, `Pmm_proofs`, `Memory_proofs`, `PipeRing_proofs` | theorems | – |
| `MC*` | values for the constants of the instances | – |

### ProcSched

One function per field of `pcb_t` (`state`, `ppid`, `priority`, `timeslice`,
`wakeup_tick`, `wait_for_pid`, `waiting`), and `frame[p]`: where process *p*
resumes. `"idle"` is the idle loop, `"user"` the program, `"wait"` the line after `sched_yield()` in
`proc_wait()`, `"io"` the one in a read or write. Every action is a whole handler
including the `sched_switch_esp()` on the way out:

- `timer_handler`: the counter, `sched_tick()` with the wakeups in pid order, the
  switch;
- `sys_fork`, `sys_fork_fails`, `sys_exec`, `sys_execve`, `sys_exit`, `sys_sleep`,
  `sys_wait`, `sys_yield`; `sys_yield` also stands for the calls that change nothing
  (`SYS_GETPID`, unknown numbers, errors);
- `proc_wait_resume`: the rest of `proc_wait()` up to its return or next sleep;
- `sched_start`, once.

`pid_alloc`, `sched_add`, `sched_remove` (which moves the last entry into the gap),
`Candidates` and `Best` (first in queue order wins) are the code's functions and
loops. Ticks wrap at `TICK_MOD`; the kernel has 2^32. Running out of memory is a
nondeterministic outcome. Names, exit codes and accounting are left out, and
`proc_set_priority()` and `proc_set_timeslice()`, which nothing calls. The kernel
creates only the idle process itself: the other processes of the initial state
(`UserPrios`) are the programs of the instance, queued as idle is.

Three constants name restrictions on what programs do, and section 6 says what
happens without them: `ExecTargets` (whom `SYS_EXEC` is used on), `SleepMayWrap`,
and in the modules above `SharedEnds` and `SharedStdin`.

### PipeIO, PipeRing, PipeCreate

`PipeIO` keeps of a pipe its counts, its two sleepers and its references, and of a
blocked call how much is left; bytes are in `PipeRing`. A read or write runs until
it is done or sleeps in `pipe_block()`; `io_resume` is the rest of the loop. Closing
(`vfs_close`, `pipe_close`) wakes the other side in the same step, also from within
exit-and-reap. `sys_pipe` is the success of `pipe_create()`; `PipeCreate` has the
nine places where it can fail and the list of `kfree()` calls that follow.

### Keyboard

`press` is the handler for a key that is not a modifier; releases of such keys
return early and change nothing. The two tables are represented by a letter, a
digit and a key without a character, which are the cases the code tells apart.

### KHeap, Pmm

`KHeap` has the words of the heap as a function from addresses, and the macros as
operators, so that a block's neighbours are found as in the code. The contents that
callers write are `Filled`, the only external definition. `Pmm` starts from any map
in `MemoryMaps` and any image in `KernelImages`; the bitmap is the set of set bits.
`held` is a history variable: what callers were given and have not returned.

### Vmm, Elf, Memory

`mem` is the physical memory, a word per place in a frame; directory and tables are
frames like others, and an entry is a number with `VMM_PRESENT` in its lowest bit.
`Walk` is what the processor makes of them. The code reaches a table by using its
physical address as a pointer, which works where that address is mapped to itself:
`At` says so, and `map_page_stops` is the fault or panic otherwise. Memory that was
never written holds `Junk`, an entry that looks present.

`Elf` has one action per step of the loops in `elf_load()` and `elf_load_segment()`:
header, page, frame, mapping, clearing, copy; `step` is the place in the code, and
`step.fresh` a history of the pages that the load has mapped and cleared itself.
Nothing runs between the steps of a load, so interleaving is not at issue: the steps
are apart because each can fail and leave behind what the ones before have done.
`Memory` adds who else draws on the frames: `ensure_mapped()` of the heap, the
programs that store into their images once started, and callers that take and
return frames, twice perhaps (`OthersTake`, `OthersReturn`; external). An address
counts words, `ENTRIES` of them to a page as to a table.

### Ramfs, Vfs

A vnode stands for itself and its `ramfs_inode_t`. The operations of `Ramfs` are
operators from the table of vnodes to the possible tables after it, for every
`kmalloc()` may fail; `Vfs` has an action per system call and per step of the boot.
A path is the sequence of its components. Of a name only its length matters, and
only where the code cuts it: `Pieces` says into what. Standard descriptors, `dup2`
and blocking reads are in `PipeIO` and `Keyboard`. `O_RDONLY` and `O_WRONLY` are left
out because no code looks at them: `vfs_write()` writes through a read-only file.

## 3. Runs

States are distinct states found by TLC with two workers.

| Run | Shows | Instance | States |
|---|---|---|---|
| `procs` | queue exact (`QueueExact`), one owner (`CpuOwner`), bitmap = table (`PidsExact`), lowest pid first, no exit lost (`NoLostExit`) | 4 pids, one program that multiplies; fork, exec (of pids 2 and 3), execve, wait, exit, yield | 222,827 |
| `sleep` | a blocked process has one waker; a sleep ends at its tick (`SleepExact`) and does end (`SleepEnds`); nobody keeps the CPU for ever but by calling `SYS_EXECVE` once per slice (`Preempted`) | 3 pids, 5 ticks, sleeps of 0, 1 and 3 ticks; fork, exec, execve, wait, exit | 10,749 |
| `pipes` | no sleeper misses its wakeup (`NoLostIo`), references exact, a pipe outlives its calls, processes follow the diagram (`FollowsDiagram`) | 3 pids, 1 pipe of 2 bytes, 2 descriptors, lengths 1 and 3; all calls but exec, execve and yield | 177,395 |
| `pipeexec` | stale sleepers left by `SYS_EXEC` harm neither the queue nor the pipe | 3 pids, real-time program, pipe of 1 byte | 125,347 |
| `heap` | tags exact, no two free neighbours, allocated blocks are those handed out, contents intact; implements `Allocator` | 112 bytes in 7 pages, sizes 0, 9, 20, aligned 4 | 285,116 |
| `memory` | no frame twice or lost (`HeldExact`), counter = bits, lowest frame first; every frame has one role (`RolesExact`), an image arrives intact (`LoadedExact`); implements `FlatMemory` | 16 frames, 4 maps, 2 heap pages, 7 binaries, of which two are sound, 1 frame with others | 102,654 |
| `files` | every vnode in one directory (`TreeExact`), counts exact (`CountsExact`), files fit their buffers, appending overwrites nothing (`AppendAtEnd`); implements `FileStore` | 2 processes, 4 vnodes, 2 open files, 2 paths, files of 2 bytes | 36,764 |
| `ring` | the ring implements `Fifo` | 4 slots, 2 byte values | 4,061 |
| `keyboard` | no reader sleeps on a key, characters in order | 3 pids, ring of 4, a digit, a function key, shift, caps lock | 228,900 |
| `starve` | *violation* of `RoundRobin` | three programs | |
| `sharedend` | *violation* of `NoLostIo` with a shared end | 4 pids | |
| `pipecreate` | *violation* of `FreedOnce` | – | |

**Why the bounds are enough.** Four pids besides PID 0 give idle, a parent and two
children, so that two exits, a targeted wait and a reused pid meet; three are enough
where the question is between a sleeper and its waker. All that `procs` checks is
proved for any number of pids, too. The pipe is shorter than the
longest call, so that calls block midway on both sides, and than two calls, so that
batches wrap. Five ticks are more than the longest sleep, so that deadlines meet
every value of the counter. Seven heap pages of 16 bytes allow growth to merge
with a free tail, and to fail at once, at the ceiling, or after the first of two
pages; sizes 9 and 20 are rounded, and splitting leaves blocks of the smallest size.
Of the memory maps one has a partial frame at the edge of each region, one reaches
past the end, one overlaps and one is empty; the sound ones leave fewer frames than
heap, image and others ask for, so that each of them is the one to find none. The
first sound binary has two segments that meet in a page and a bss that reaches the
next; the second has its bss there too, and segments that overlap; a third, cut off
in its second segment, leaves a word in both. So a load meets pages that it maps
itself and pages that others have used, on a first start as on a later one. The
others lack a header, are corrupt, wrap round or are no ELF at all. Files of two bytes grow their buffer once and can have a gap; two `file_t`s for
two processes with one descriptor each are shared by fork, opened twice, and run
out.

**Deadlock** is checked in every run but `pipecreate`, where a call ends, and
`memory`, where the kernel may panic. A kernel with an idle process can always take
a tick.

**Fairness** (`FairSpec`) is weak for `sched_start` and `proc_wait_resume`: the CPU
goes on executing the kernel. It is strong for `timer_handler`: programs may enter
the kernel again and again and interrupts are disabled inside it, but the interrupt
controller keeps the timer's request until they are enabled. Nothing is assumed of
programs: they may compute for ever or never be scheduled.

Every property of a passing run has a mutant, a `Bug_...` operator beside the
definition it changes as a slip in the code would, under which TLC finds the
property violated.

## 4. Proofs

All are by an inductive invariant, one step per action, for any `MAX_PROCS`,
priorities, initial programs, sets of system calls and tick width allowed by the
named assumptions of `ProcSched` (and any frames, maps and images for `Pmm`).

- `TypeCorrect` (`ProcSched_proofs`): `TypeOK`. Inductive as it stands. It rests on
  lemmas about the queue: what `sched_add` and the swap in `sched_remove` keep.
- `QueueCorrect` (`ProcSchedInv_proofs`): `QueueExact`, inductive with `TypeOK`. The
  argument: each handler changes state and queue together, and nothing is added
  that is READY or RUNNING. `SwitchQueue` shows that the switch only trades READY
  for RUNNING.
- `PidsCorrect` and `LowestPidCorrect`: `PidsExact` and `LowestPidFirst`, through
  `PidInv`, which adds that slot 0 stays unused, the current process has a slot and no
  process is its own child: so `proc_wait()` destroys neither slot 0 nor its caller.
- `OwnerCorrect`: `CpuOwner`, assuming `PID_INIT \notin ExecTargets`. `OwnerInv`
  adds that PID 1 stays in its idle loop, READY or RUNNING: then a process that has
  blocked or exited finds somebody to switch to.
- `ExitCorrect` (`ProcSchedWait_proofs`): `NoLostExit`. It is inductive only with
  what `ExitInv` adds: the `waiting` flag is set exactly while its process is inside
  `proc_wait()`. Then the child that exits finds its parent waiting, and wakes it in
  the step in which it becomes a zombie.
- `WakerCorrect`: `BlockedHasWaker`, assuming `PID_INIT \notin ExecTargets` and
  `SleepMayWrap = 0`. `WakerInv` adds that a process in `proc_wait()` has no
  `wakeup_tick` left over, and that a sleeper's lies ahead of the counter. Without the
  first assumption a process may block and go on running; without the second a
  deadline may be 0.
- `SleepCorrect`: the action property `SleepExact`, from the same invariant: a
  deadline that lies ahead is met by the tick that reaches it, for `sched_tick()`
  looks at every sleeper at every tick.
- `PmmCorrect`, `PmmCount`, `PmmLowest` (`Pmm_proofs`): `HeldExact`, `CountExact` and
  `LowestFrameFirst`, which are inductive together with `TypeOK` (`PmmInv`):
  `HeldExact` makes a frame that is freed a usable one, `CountExact` needs the
  finiteness from `TypeOK`.
- `MemoryUsesPmm` (`Memory_proofs`): a step of `Memory` is a step of `Pmm` or leaves
  its variables alone. So `Pmm`'s theorems hold of the composition (`MemoryHeld`,
  `MemoryCount`), whatever binaries are loaded.
- `RingIsFifo` (`PipeRing_proofs`): `PipeRing` implements `Fifo`, for any buffer size;
  the queue is what lies between the two indices. `MaskedInjective` and
  `MaskedTwice` say what the wrapping of an index keeps, and `RingTypes` that the
  indices stay in range.

Only model-checked: liveness (`SleepEnds`, `Preempted`), which with fairness is out
of the prover's reach, as is what a recursive definition computes for all inputs;
`FollowsDiagram`; sleeping and waking on pipes and the keyboard; the heap's tags;
the roles of frames, `FlatMemory` and the loader; all about files.

## 5. Where the code and its comments differ (runs)

- `starve`: `sched.c` calls itself round-robin, but the scan for the best process
  always starts at the front and takes the first of the best priority. Of three
  equal programs that compute, the third never runs. (`RoundRobin` asks this only of
  a process that has nobody of better priority above it; idle is not meant.)
- `sharedend`: a second reader that blocks on a pipe end overwrites the first in
  `blocked_reader`; the first is not woken again, not even at end of file.
- `pipecreate`: when the table of descriptors is full, or the second `file_t` cannot
  be allocated, `pipe_create()` frees objects that closing the files has freed.

## 6. Where the code and its comments differ (recipes)

These hold in the runs under the stated restriction, or are definitions that no run
lists. The change to the configuration gives TLC's counterexample.

| Statement | Change | What happens |
|---|---|---|
| `FollowsDiagram` (`proc.h:17`) | `"exec"` added to `Syscalls` of `pipes.cfg` | `SYS_EXEC` of a zombie makes it READY |
| `NeverPreemptedByLower` (`proc.h:41`) | as PROPERTY in `sleep.cfg` | a process whose slice is over yields to a lower one, idle included |
| `AlwaysPreempted` (`sched.c:96`) | as PROPERTY in `sleep.cfg` | `SYS_EXECVE` gives its caller a full timeslice (`syscall.c:194`): one call per slice, and the process is never preempted |
| `YieldGivesUpCpu` (`syscall.c:27`) | as PROPERTY in `pipeexec.cfg` | `SYS_YIELD` keeps the CPU while the slice lasts |
| `SleepEnds` | `SleepMayWrap = 1` in `sleep.cfg` | a deadline of exactly 0 after the wrap means none |
| `CpuOwner` (`syscall.asm:53`) | `ExecTargets <- Pids` in `procs.cfg` | idle restarted: a blocked process has nobody to switch to and goes on |
| `ZombieClosed` (`fd.h:19`) | as INVARIANT in `pipes.cfg` | files are closed when the zombie is reaped, not at exit |
| `SleepExact` | as PROPERTY in `pipeexec.cfg` | a stale pipe sleeper is woken out of its sleep |
| `NoInheritedChildren` (`proc.c:364`) | as PROPERTY in `procs.cfg` | a process with the pid of a dead parent gets the children left behind |
| `KernelReserved` (`pmm.c:134`, `pmm.c:31`) | as INVARIANT in `memory.cfg` | the reservation of the kernel image rounds inwards: its last, partial page can be allocated |
| `FreeCountRight` (`pmm.c:214`) | as INVARIANT in `memory.cfg` | used frames include those never usable |
| `TablesReachable` (`kheap.h:15`, `vmm.c:25`) | as INVARIANT in `memory.cfg`, with `ENTRIES = 10` | a table gets a frame above the identity map and cannot be reached; with 16 it holds |
| `BssClean` (`elf.c:24`, `elf.c:50`) | as INVARIANT in `memory.cfg` | a page that is mapped already is not cleared (`elf.c:40`): a program finds in its bss what its own first run, another program at the same addresses or a load that failed has left |
| `NoStrayBytes` (`ramfs.c:134`) | as INVARIANT in `files.cfg` | after another's `O_TRUNC` a write at the old offset leaves a gap that nobody wrote |
| `OpenAllOrNothing` (`vfs.c:152`) | as PROPERTY in `files.cfg` | an open that finds no memory or descriptor has truncated the file |
| `CountsExact` (`ramfs.c:225`) | `UnlinkOpen = 1` in `files.cfg` | unlink frees the vnode of an open file |
| `TreeExact` (`ramfs.c:162`, `vfs.c:131`) | a name of two pieces in `ShortNames` of `MCVfs` | the entry has the cut name, which no lookup of the whole name finds: every open creates another |
| `NoLostKey` | `SharedStdin = 1` in `keyboard.cfg` | a second reader overwrites the waiter |
| `CapsFlips` (`keyboard.c:121`) | as PROPERTY, `"a"` added to `Keys` in `keyboard.cfg` | caps lock raises a letter and lowers it again |

## 7. Not modelled, and the plan

Not modelled:

- descriptor tables, interrupt stubs, console, serial line, formatting, strings and
  panic: hardware set-up and output;
- user pointers: every process runs in the kernel's address space, so the check
  always passes;
- `vmm_unmap_page()`, `vmm_map_range()`, `vmm_get_phys()`, `vmm_switch()` and the
  functions on address spaces: nothing calls them with effect, as `page_directory`
  is 0 in every process; the flags of an entry other than `VMM_PRESENT`;
- segments of a binary that lie inside the identity map, over the kernel itself, or
  in the range of the heap;
- 32-bit sums at their limit, other than the tick counter, the frame counters and the
  end of a segment: `offset + len` and the doubling of the capacity in `ramfs_write()`
  wrap round, or do not end, once a file would exceed 2^31 bytes, and so does
  `ALIGN(size) + DWSIZE` in `kmalloc()` just below 2^32, which no caller in the kernel
  asks for; sizes and files of the model are small;
- a `mem_upper` beyond 4 GB in `pmm_init()` without a memory map, which the code does
  not cut off;
- a tick between the line that enables the scheduler in `sched_start()` and the `cli`
  six lines below: `sched_start` is one step;
- paths longer than `VFS_PATH_MAX`; directories made by programs, for which there is
  no system call;
- the contents of the heap's blocks in `Memory`, and its pages in `KHeap`, which takes
  them from a source that may fail.

Next, in this order:

1. Proofs: `FollowsDiagram` from the invariants proved; `RolesExact`, which needs that
   tables are frames of their own; `CountsExact` of `Vfs`; `RefsExact` and `NoLostIo`.
2. `PipeIO` with the vnode's life in the heap: `vfs_close()` hands the vnode of a pipe
   to `vnode_unref()` after it was freed (`vfs.c:217`).
3. Address spaces, once processes have their own.
