------------------------------- MODULE PipeIO -------------------------------
(***************************************************************************)
(* Pipes and file descriptors on top of the scheduler: pipe.c, fd.c, the   *)
(* reference counts of vfs.c and the system calls that use them, composed  *)
(* with ProcSched.  A pipe operation wakes its peer, blocks its caller and *)
(* goes on where it left off; reaping a child closes the child's           *)
(* descriptors and so may wake processes too.                              *)
(*                                                                         *)
(* The bytes are abstracted to their number (PipeRing has the ring).  The  *)
(* descriptors are those beside the three standard ones.                   *)
(***************************************************************************)
EXTENDS ProcSched, FiniteSetsExt, Folds

CONSTANTS
  Pipes,                   \* as many pipes as the heap has room for
  PIPE_BUFSZ,
  FD_MAX,                  \* descriptors per process, the standard ones not counted
  Lens,                    \* lengths passed to SYS_READ and SYS_WRITE
  SharedEnds               \* 1: several processes may use one end of a pipe at a time

PIPE_NO_WAITER == 65535
NoFile == <<>>
NoIo   == <<>>
Fds    == 0 .. FD_MAX - 1
Files  == Pipes \X {"readers", "writers"}   \* each end has one file_t: <<pipe, end>>

ASSUME PipeAssumption == PIPE_BUFSZ \in Nat \ {0} /\ FD_MAX \in Nat /\ SharedEnds \in {0, 1}

VARIABLES
  fd_table,                \* per process
  refcount,                \* of the file_t's
  pipe,                    \* the pipe_t's
  io                       \* the unfinished pipe operation of a process

ioVars == <<fd_table, refcount, pipe, io>>

Unallocated == [count |-> 0, readers |-> 0, writers |-> 0,
                blocked_reader |-> PIPE_NO_WAITER, blocked_writer |-> PIPE_NO_WAITER]
Fresh       == [Unallocated EXCEPT !.readers = 1, !.writers = 1]

IoInit ==
  /\ Init
  /\ fd_table = [p \in Pids |-> [i \in Fds |-> NoFile]]
  /\ refcount = [f \in Files |-> 0]
  /\ pipe = [k \in Pipes |-> Unallocated]
  /\ io = [p \in Pids |-> NoIo]

-----------------------------------------------------------------------------
(* The effects of a handler on files and pipes, gathered in a record: the   *)
(* reference counts, the pipes, and the processes woken so far, in order.   *)

Now == [refs |-> refcount, pipe |-> pipe, woken |-> <<>>]

\* Mutants: the slot is cleared and nobody woken; proc_wake() of a process that
\* is not BLOCKED.
Bug_pipe_wake_peer_lost(s, k, slot) == [s EXCEPT !.pipe[k][slot] = PIPE_NO_WAITER]
Bug_pipe_wake_peer(s, k, slot) ==
  LET peer == s.pipe[k][slot]
  IN  [s EXCEPT !.pipe[k][slot] = PIPE_NO_WAITER,
                !.woken = IF peer # PIPE_NO_WAITER THEN Append(@, peer) ELSE @]

\* pipe_wake_peer(): the waiter's slot is cleared, and proc_wake() ignores a
\* process that is not BLOCKED (any more).
pipe_wake_peer(s, k, slot) ==
  LET peer == s.pipe[k][slot]
  IN  [s EXCEPT !.pipe[k][slot] = PIPE_NO_WAITER,
                !.woken = IF /\ peer # PIPE_NO_WAITER /\ state[peer] = "BLOCKED"
                             /\ peer \notin Range(@)
                          THEN Append(@, peer) ELSE @]

\* Mutant: closing an end wakes nobody.
Bug_pipe_close(s, k, end) ==
  LET c == [s EXCEPT !.pipe[k][end] = @ - 1]
  IN  IF c.pipe[k].readers = 0 /\ c.pipe[k].writers = 0
      THEN [c EXCEPT !.pipe[k] = Unallocated] ELSE c

\* pipe_close_read() and pipe_close_write(): the last close of an end wakes the
\* other side, the last close of both frees the pipe.
pipe_close(s, k, end) ==
  LET n == s.pipe[k][end] - 1
      c == [s EXCEPT !.pipe[k][end] = n]
      w == IF n > 0 THEN c
           ELSE pipe_wake_peer(c, k, IF end = "writers" THEN "blocked_reader" ELSE "blocked_writer")
  IN  IF w.pipe[k].readers = 0 /\ w.pipe[k].writers = 0
      THEN [w EXCEPT !.pipe[k] = Unallocated] ELSE w

\* vfs_close(): the end is closed with the last reference to its file_t.
vfs_close(s, f) ==
  LET d == [s EXCEPT !.refs[f] = @ - 1]
  IN  IF d.refs[f] > 0 THEN d ELSE pipe_close(d, f[1], f[2])

\* fd_table_close_all() on the table of p.
fd_table_close_all(s, p) ==
  LET close(i, t) == IF fd_table[p][i] = NoFile THEN t ELSE vfs_close(t, fd_table[p][i])
  IN  MapThenFoldSet(close, s, LAMBDA i : i, LAMBDA S : Max(S), Fds)

\* What a handler leaves behind: the gathered effects s, the queue q and the
\* states st before the wakeups, and the clearing of wakeup_tick for those woken
\* and for the set cleared.
Apply(s, cleared) ==
  /\ refcount' = s.refs
  /\ pipe' = s.pipe
  /\ wakeup_tick' = [p \in Pids |-> IF p \in cleared \cup Range(s.woken) THEN 0
                                    ELSE wakeup_tick[p]]

AfterWakeups(s) == Woken(state, Range(s.woken))
QueueAfter(s)   == sched_add(ready_queue, s.woken)

\* A pipe operation that is finished: its system call returns.
io_return(s) ==
  /\ Apply(s, {})
  /\ frame' = [frame EXCEPT ![current_proc] = "user"]
  /\ io' = [io EXCEPT ![current_proc] = NoIo]
  /\ Return(AfterWakeups(s), QueueAfter(s))

\* pipe_block() with left bytes to go: the caller is noted in the pipe's slot,
\* overwriting whoever was there.
pipe_block(s, f, left) ==
  LET p    == current_proc
      slot == IF f[2] = "readers" THEN "blocked_reader" ELSE "blocked_writer"
  IN  /\ Apply([s EXCEPT !.pipe[f[1]][slot] = p], {})
      /\ frame' = [frame EXCEPT ![p] = "io"]
      /\ io' = [io EXCEPT ![p] = [file |-> f, left |-> left]]
      /\ sched_yield([AfterWakeups(s) EXCEPT ![p] = "BLOCKED"],
                     sched_remove(QueueAfter(s), p))

-----------------------------------------------------------------------------
(* Reading and writing *)

\* Mutant: a batch is not cut down to what fits.
Bug_Smaller(a, b) == a

\* if (batch > ...) batch = ...
Smaller(a, b) == IF a < b THEN a ELSE b

\* pipe_read_op() from its start or after a wakeup, with len bytes to go: take
\* what there is, wake a writer, and then return if that was all or if there is
\* no writer left, or else block.
pipe_read_op(f, len) ==
  LET k     == f[1]
      batch == Smaller(len, pipe[k].count)
      s     == IF batch = 0 THEN Now
               ELSE pipe_wake_peer([Now EXCEPT !.pipe[k].count = @ - batch], k, "blocked_writer")
  IN  IF batch = len \/ pipe[k].writers = 0
      THEN io_return(s) ELSE pipe_block(s, f, len - batch)

\* pipe_write_op(): likewise.  The check for a broken pipe comes at the start of
\* the outer loop and while the buffer is full, but not after a wakeup that
\* finds room.
pipe_write_op(f, len, start) ==
  LET k      == f[1]
      batch  == Smaller(len, PIPE_BUFSZ - pipe[k].count)
      broken == pipe[k].readers = 0
      s      == IF batch = 0 THEN Now
                ELSE pipe_wake_peer([Now EXCEPT !.pipe[k].count = @ + batch], k, "blocked_reader")
  IN  IF broken /\ (start = 1 \/ batch = 0) THEN io_return(Now)
      ELSE IF batch = len \/ broken THEN io_return(s)
      ELSE pipe_block(s, f, len - batch)

\* With SharedEnds = 0 the programs take turns at an end.
MayUse(f) == SharedEnds = 1 \/ \A p \in Pids : io[p] # NoIo => io[p].file # f

\* sys_read() and sys_write() on descriptor i, through fd_read(), vfs_read() and
\* so on.  A call on a closed descriptor or on the wrong end returns -1.
sys_read(i, len) ==
  LET f == fd_table[current_proc][i]
  IN  /\ Calls("read")
      /\ f # NoFile /\ f[2] = "readers" /\ MayUse(f)
      /\ UNCHANGED <<pcbVars, pidVars, clockVars, waiting, fd_table>>
      /\ pipe_read_op(f, len)

sys_write(i, len) ==
  LET f == fd_table[current_proc][i]
  IN  /\ Calls("write")
      /\ f # NoFile /\ f[2] = "writers" /\ MayUse(f)
      /\ UNCHANGED <<pcbVars, pidVars, clockVars, waiting, fd_table>>
      /\ pipe_write_op(f, len, 1)

\* A process dispatched after the sched_yield() in pipe_block() goes on.
io_resume ==
  LET p == current_proc
  IN  /\ sched_enabled = 1 /\ frame[p] = "io"
      /\ UNCHANGED <<pcbVars, pidVars, clockVars, waiting, fd_table>>
      /\ IF io[p].file[2] = "readers" THEN pipe_read_op(io[p].file, io[p].left)
                                      ELSE pipe_write_op(io[p].file, io[p].left, 0)
-----------------------------------------------------------------------------
(* Descriptors *)

Free(p) == {i \in Fds : fd_table[p][i] = NoFile}

\* sys_pipe() with memory and two free descriptors: pipe_create() installs both
\* ends at the lowest free descriptors.
sys_pipe ==
  LET p == current_proc
  IN  /\ Calls("pipe")
      /\ Cardinality(Free(p)) >= 2
      /\ \E k \in Pipes :
           LET rfd == Min(Free(p))
               wfd == Min(Free(p) \ {rfd})
           IN  /\ pipe[k] = Unallocated
               /\ pipe' = [pipe EXCEPT ![k] = Fresh]
               /\ refcount' = [refcount EXCEPT ![<<k, "readers">>] = 1, ![<<k, "writers">>] = 1]
               /\ fd_table' = [fd_table EXCEPT ![p][rfd] = <<k, "readers">>,
                                               ![p][wfd] = <<k, "writers">>]
      /\ UNCHANGED <<pcbVars, pidVars, clockVars, wakeup_tick, waiting, frame, io>>
      /\ Return(state, ready_queue)

\* sys_close() of an open descriptor.
sys_close(i) ==
  LET p == current_proc
  IN  /\ Calls("close")
      /\ fd_table[p][i] # NoFile
      /\ fd_table' = [fd_table EXCEPT ![p][i] = NoFile]
      /\ UNCHANGED <<pcbVars, pidVars, clockVars, waiting>>
      /\ io_return(vfs_close(Now, fd_table[p][i]))

\* Mutant: the reference count is not bumped.
Bug_sys_dup2(oldfd, newfd) ==
  LET p == current_proc
      f == fd_table[p][oldfd]
  IN  /\ Calls("dup2")
      /\ f # NoFile /\ oldfd # newfd
      /\ fd_table' = [fd_table EXCEPT ![p][newfd] = f]
      /\ UNCHANGED <<pcbVars, pidVars, clockVars, waiting>>
      /\ io_return(IF fd_table[p][newfd] = NoFile THEN Now ELSE vfs_close(Now, fd_table[p][newfd]))

\* sys_dup2() of an open descriptor onto another one, which is closed first.
sys_dup2(oldfd, newfd) ==
  LET p == current_proc
      f == fd_table[p][oldfd]
      s == IF fd_table[p][newfd] = NoFile THEN Now ELSE vfs_close(Now, fd_table[p][newfd])
  IN  /\ Calls("dup2")
      /\ f # NoFile /\ oldfd # newfd
      /\ fd_table' = [fd_table EXCEPT ![p][newfd] = f]
      /\ UNCHANGED <<pcbVars, pidVars, clockVars, waiting>>
      /\ io_return([s EXCEPT !.refs[f] = @ + 1])

-----------------------------------------------------------------------------
(* Processes and their descriptors *)

\* Mutant: the child's copies are not counted.
Bug_fork_files ==
  /\ sys_fork
  /\ fd_table' = [c \in Pids |-> IF state[c] = "UNUSED" /\ state'[c] # "UNUSED"
                                 THEN fd_table[current_proc] ELSE fd_table[c]]
  /\ UNCHANGED <<refcount, pipe, io>>

\* sys_fork(): fd_table_clone() shares the parent's files with the child.
fork_files ==
  LET p == current_proc
  IN  /\ sys_fork
      /\ fd_table' = [c \in Pids |-> IF state[c] = "UNUSED" /\ state'[c] # "UNUSED"
                                     THEN fd_table[p] ELSE fd_table[c]]
      /\ refcount' = [f \in Files |->
                        refcount[f] + Cardinality({i \in Fds : fd_table[p][i] = f})]
      /\ UNCHANGED <<pipe, io>>

\* sys_exec(): the target's descriptors stay open, the operation it was blocked
\* in is forgotten, but not the pipe's note of it.
exec_files(t) ==
  /\ sys_exec(t)
  /\ io' = [io EXCEPT ![t] = NoIo]
  /\ UNCHANGED <<fd_table, refcount, pipe>>

\* A turn of the loop of proc_wait() in which proc_destroy() closes the
\* descriptors of the child.
proc_wait_files(pid, w) ==
  LET Z == Reapable(current_proc, pid)
  IN  /\ UNCHANGED clockVars
      /\ \/ \E c \in Z :
              LET s == fd_table_close_all(Now, c)
              IN  /\ \A d \in Z : c <= d
                  /\ proc_destroy(w, c)
                  /\ Apply(s, {c})
                  /\ fd_table' = [fd_table EXCEPT ![c] = [i \in Fds |-> NoFile]]
                  /\ UNCHANGED io
                  /\ sched_switch_esp([AfterWakeups(s) EXCEPT ![c] = "UNUSED"], QueueAfter(s),
                                      [timeslice EXCEPT ![c] = 0], tick_flag)
         \/ Z = {} /\ proc_wait_block(pid) /\ UNCHANGED ioVars

wait_files(pid) == Calls("wait") /\ proc_wait_files(pid, waiting[current_proc])

wait_files_resume ==
  /\ sched_enabled = 1 /\ frame[current_proc] = "wait"
  /\ proc_wait_files(wait_for_pid[current_proc], 0)

\* What concerns processes only.
process_step ==
  /\ \/ sched_start \/ timer_handler \/ sys_yield \/ sys_execve \/ sys_exit \/ sys_fork_fails
     \/ \E t \in SleepTicks : sys_sleep(t)
  /\ UNCHANGED ioVars

IoNext ==
  \/ process_step
  \/ fork_files
  \/ \E t \in ExecTargets \cap Pids : exec_files(t)
  \/ \E a \in Pids \cup {PID_INVALID} : wait_files(a)
  \/ wait_files_resume
  \/ sys_pipe
  \/ \E i \in Fds : sys_close(i)
  \/ \E i, j \in Fds : sys_dup2(i, j)
  \/ \E i \in Fds, n \in Lens : sys_read(i, n) \/ sys_write(i, n)
  \/ io_resume

IoSpec == IoInit /\ [][IoNext]_<<vars, ioVars>>

-----------------------------------------------------------------------------
(* Properties *)

\* Every variable has the type of the C object it stands for.
IoTypeOK ==
  /\ TypeOK
  /\ fd_table \in [Pids -> [Fds -> Files \cup {NoFile}]]
  /\ refcount \in [Files -> Nat]
  /\ \A k \in Pipes :
       /\ pipe[k].count \in 0 .. PIPE_BUFSZ
       /\ pipe[k].readers \in {0, 1} /\ pipe[k].writers \in {0, 1}
       /\ pipe[k].blocked_reader \in Pids \cup {PIPE_NO_WAITER}
       /\ pipe[k].blocked_writer \in Pids \cup {PIPE_NO_WAITER}
  /\ \A p \in Pids : io[p] # NoIo => io[p].file \in Files /\ io[p].left \in Nat \ {0}

\* Nobody sleeps on a pipe without a cause or unknown to the pipe: a process
\* blocked in pipe_read_op() has an empty pipe with a writer, one blocked in
\* pipe_write_op() a full pipe with a reader, and the pipe knows whom to wake.
NoLostIo ==
  \A p \in Pids : state[p] = "BLOCKED" /\ frame[p] = "io" =>
    LET k == pipe[io[p].file[1]]
    IN  IF io[p].file[2] = "readers"
        THEN k.count = 0 /\ k.writers > 0 /\ k.blocked_reader = p
        ELSE k.count = PIPE_BUFSZ /\ k.readers > 0 /\ k.blocked_writer = p

\* The reference count of a file_t is the number of descriptors that hold it,
\* across fork, dup2, close and the reaping of processes, and an end of a pipe
\* is open exactly as long as there is one.
RefsExact ==
  \A f \in Files :
    /\ refcount[f] = Cardinality({d \in Pids \X Fds : fd_table[d[1]][d[2]] = f})
    /\ pipe[f[1]][f[2]] > 0 <=> refcount[f] > 0

\* The pipe_t is not freed under a sleeping process: the end of the pipe that a
\* process is reading or writing stays open until the operation is over,
\* although other processes may close their copies of the descriptor.
EndStaysOpen ==
  \A p \in Pids : frame[p] = "io" => pipe[io[p].file[1]][io[p].file[2]] > 0

\* A process that has exited holds no descriptor, as fd.h says of proc_exit().
\* The code does not meet this: proc_destroy() closes them.
ZombieClosed ==
  \A p \in Pids, i \in Fds : state[p] = "ZOMBIE" => fd_table[p][i] = NoFile
=============================================================================
