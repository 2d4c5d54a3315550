----------------------------- MODULE ProcSched -----------------------------
(***************************************************************************)
(* Processes and the scheduler: proc.c, sched.c, fork.c, exec.c, timer.c   *)
(* and the system calls of syscall.c that act on processes.                *)
(*                                                                         *)
(* A handler entered through int 0x80 runs with interrupts disabled        *)
(* (syscall_entry starts with cli), and so does an IRQ stub.  A handler is *)
(* therefore one step, up to the point where it gives the CPU away inside  *)
(* sched_yield().  frame[p] is where process p goes on when it is next     *)
(* dispatched: its saved kernel stack.                                     *)
(***************************************************************************)
EXTENDS Integers, Sequences, FiniteSets, Functions

CONSTANTS
  MAX_PROCS,               \* size of proc_table
  PROC_PRIO_NORMAL,
  PROC_PRIO_IDLE,          \* the largest, that is the lowest, priority
  PROC_TIMESLICE_DEFAULT,
  TICK_MOD,                \* the tick counter is a uint32_t: 2^32 in the kernel
  UserPrios,               \* priorities of the processes booted beside "idle"
  Syscalls,                \* the system calls the programs of this instance make
  SleepTicks,              \* arguments of SYS_SLEEP
  SleepMayWrap,            \* 1: a SYS_SLEEP may end past the counter's wrap, 0: it may not
  ExecTargets              \* the pids that a SYS_EXEC may name

PID_KERNEL  == 0
PID_INIT    == 1           \* kernel_main creates "idle" first: it gets PID 1
PID_INVALID == 65535

ASSUME ProcsAssumption == MAX_PROCS \in Nat /\ MAX_PROCS >= 2 /\ MAX_PROCS <= PID_INVALID
ASSUME PrioAssumption ==
  /\ PROC_PRIO_NORMAL \in Nat /\ PROC_PRIO_IDLE \in Nat /\ PROC_TIMESLICE_DEFAULT \in Nat
  /\ PROC_PRIO_NORMAL <= PROC_PRIO_IDLE
  /\ (PROC_PRIO_IDLE - PROC_PRIO_NORMAL) \div 5 <= PROC_TIMESLICE_DEFAULT
ASSUME TickAssumption ==
  /\ TICK_MOD \in Nat \ {0}
  /\ SleepTicks \subseteq 0 .. TICK_MOD - 1
  /\ SleepMayWrap \in {0, 1}
ASSUME BootAssumption ==
  /\ UserPrios \in Seq(0 .. PROC_PRIO_IDLE)
  /\ Len(UserPrios) + 2 <= MAX_PROCS

Pids   == 0 .. MAX_PROCS - 1
States == {"UNUSED", "READY", "RUNNING", "BLOCKED", "ZOMBIE"}  \* EMBRYO never outlives a handler
Frames == {"none",     \* no kernel stack
           "idle",     \* in idle_process()'s hlt loop
           "user",     \* in the process's own program, interrupts enabled
           "wait",     \* in proc_wait(), after its sched_yield()
           "io"}       \* in the blocking loop of a read or a write

VARIABLES
  state, ppid, priority, timeslice, wakeup_tick, wait_for_pid, waiting, frame,  \* the PCBs
  pid_bitmap,              \* the pids whose bit is set
  pid_search_hint,
  ready_queue,             \* ready_queue[0 .. queue_size - 1], as pids
  current_proc,            \* the pid of the PCB it points to, PID_INVALID for NULL
  sched_enabled, tick_flag, tick_count

pcbVars   == <<ppid, priority, wait_for_pid>>
pidVars   == <<pid_bitmap, pid_search_hint>>
clockVars == <<sched_enabled, tick_count>>
vars == <<state, ppid, priority, timeslice, wakeup_tick, wait_for_pid, waiting, frame,
          pid_bitmap, pid_search_hint, ready_queue, current_proc,
          sched_enabled, tick_flag, tick_count>>

-----------------------------------------------------------------------------
(* PIDs *)

\* The pids that the two passes of pid_alloc() can return: the first clear bit
\* from the hint upwards, or else the first clear bit below the hint.
pid_alloc ==
  LET clear(lo, hi) == {p \in lo .. hi : p \notin pid_bitmap}
      pass0 == clear(pid_search_hint, MAX_PROCS - 1)
      pass1 == clear(PID_INIT, pid_search_hint - 1)
      scan  == IF pass0 # {} THEN pass0 ELSE pass1
  IN  {p \in scan : \A q \in scan : p <= q}

\* Mutant: the hint runs past the table.
Bug_hint_alloc(pid) == pid + 1

\* The search hint after pid_alloc() has returned pid.
hint_alloc(pid) == IF pid + 1 < MAX_PROCS THEN pid + 1 ELSE PID_INIT

\* Mutants: the bit stays set; the hint is not lowered.
Bug_pid_free_keeps_bit(bits, hint, pid) ==
  [bits |-> bits, hint |-> IF pid < hint THEN pid ELSE hint]
Bug_pid_free_keeps_hint(bits, hint, pid) == [bits |-> bits \ {pid}, hint |-> hint]

\* pid_free(pid) on the bitmap bits and the search hint hint: PID 0 and a pid
\* that is free already are left alone, another pid lowers the hint.
pid_free(bits, hint, pid) ==
  IF pid = PID_KERNEL \/ pid \notin bits
  THEN [bits |-> bits, hint |-> hint]
  ELSE [bits |-> bits \ {pid}, hint |-> IF pid < hint THEN pid ELSE hint]

\* timeslice_len: the quantum proc_create() derives from the priority.
timeslice_len(prio) ==
  LET tslice == IF prio < PROC_PRIO_NORMAL
                THEN PROC_TIMESLICE_DEFAULT + (PROC_PRIO_NORMAL - prio) \div 2
                ELSE PROC_TIMESLICE_DEFAULT - (prio - PROC_PRIO_NORMAL) \div 5
  IN  IF tslice < 2 THEN 2 ELSE tslice

-----------------------------------------------------------------------------
(* The ready queue *)

\* sched_add() of the processes of the sequence w, one after the other: an add
\* to a full queue is dropped.
sched_add(q, w) ==
  IF Len(q \o w) <= MAX_PROCS THEN q \o w ELSE SubSeq(q \o w, 1, MAX_PROCS)

\* sched_remove(): the last entry takes the place of the first entry equal to p.
sched_remove(q, p) ==
  IF \A i \in DOMAIN q : q[i] # p
  THEN q
  ELSE LET i == CHOOSE i \in DOMAIN q : q[i] = p /\ \A j \in 1 .. i - 1 : q[j] # p
       IN  SubSeq([q EXCEPT ![i] = q[Len(q)]], 1, Len(q) - 1)

\* Mutant: the scan starts one entry late.
Bug_Candidates(st, q, p) == {i \in DOMAIN q : i > 1 /\ q[i] # p /\ st[q[i]] = "READY"}

\* The queue indices of the READY processes other than p.
Candidates(st, q, p) == {i \in DOMAIN q : q[i] # p /\ st[q[i]] = "READY"}

\* The scan for the next process: the smallest priority number, and among
\* equals the smallest index (p->priority < best_prio is strict).
Best(C, q, prio) ==
  {i \in C : \A j \in C : \/ prio[q[i]] < prio[q[j]]
                          \/ prio[q[i]] = prio[q[j]] /\ i <= j}

\* sched_switch_esp(), called last by every IRQ stub and by syscall_entry, on
\* the states st, the queue q, the timeslices ts and the flag tf that the
\* handler leaves behind.
sched_switch_esp(st, q, ts, tf) ==
  /\ ready_queue' = q
  /\ \/ /\ ~(sched_enabled = 1 /\ tf = 1)
        /\ state' = st /\ timeslice' = ts /\ tick_flag' = tf
        /\ UNCHANGED current_proc
     \/ /\ sched_enabled = 1 /\ tf = 1
        /\ tick_flag' = 0
        /\ LET cur  == current_proc
               left == IF ts[cur] > 0 THEN ts[cur] - 1 ELSE 0
               C    == Candidates(st, q, cur)
           IN  \/ /\ left > 0
                  /\ timeslice' = [ts EXCEPT ![cur] = left]
                  /\ state' = st
                  /\ UNCHANGED current_proc
               \/ /\ left = 0 /\ C = {}
                  /\ timeslice' = [ts EXCEPT ![cur] = timeslice_len(priority'[cur])]
                  /\ state' = st
                  /\ UNCHANGED current_proc
               \/ /\ left = 0
                  /\ \E i \in Best(C, q, priority') :
                       /\ current_proc' = q[i]
                       /\ state' = [st EXCEPT ![cur] = IF st[cur] = "RUNNING" THEN "READY"
                                                                             ELSE st[cur],
                                              ![q[i]] = "RUNNING"]
                       /\ timeslice' = [ts EXCEPT ![cur] = 0,
                                                  ![q[i]] = timeslice_len(priority'[q[i]])]

\* A handler that returns to its caller: the switch at its end sees the flag
\* and the timeslices as they are.
Return(st, q) == sched_switch_esp(st, q, timeslice, tick_flag)

\* Mutant: sched_force_switch() leaves the timeslice alone.
Bug_sched_yield(st, q) == sched_switch_esp(st, q, timeslice, 1)

\* sched_yield() by the current process: sched_force_switch(), then a nested
\* int 0x80 whose handler does nothing and whose exit path switches.
sched_yield(st, q) ==
  sched_switch_esp(st, q, [timeslice EXCEPT ![current_proc] = 0], 1)

\* The states after proc_wake() of each process in S (all of them BLOCKED).
Woken(st, S) == [p \in Pids |-> IF p \in S THEN "READY" ELSE st[p]]

\* The one sequence that lists the set S in ascending order.
Ascending(S) ==
  {w \in [1 .. Cardinality(S) -> S] :
     /\ \A i, j \in DOMAIN w : i < j => w[i] < w[j]
     /\ \A p \in S : \E i \in DOMAIN w : w[i] = p}

-----------------------------------------------------------------------------
(* Boot *)

BootPids    == PID_INIT .. PID_INIT + Len(UserPrios)
BootPrio(p) == IF p = PID_INIT THEN PROC_PRIO_IDLE ELSE UserPrios[p - 1]

\* kernel_main() before sched_start(): "idle" has been created, made READY and
\* queued, and then the instance's programs in the same way.
Init ==
  /\ state = [p \in Pids |-> IF p \in BootPids THEN "READY" ELSE "UNUSED"]
  /\ ppid = [p \in Pids |-> PID_KERNEL]
  /\ priority = [p \in Pids |-> IF p \in BootPids THEN BootPrio(p) ELSE 0]
  /\ timeslice = [p \in Pids |-> IF p \in BootPids THEN timeslice_len(BootPrio(p)) ELSE 0]
  /\ wakeup_tick = [p \in Pids |-> 0]
  /\ wait_for_pid = [p \in Pids |-> IF p \in BootPids THEN PID_INVALID ELSE 0]
  /\ waiting = [p \in Pids |-> 0]
  /\ frame = [p \in Pids |-> IF p = PID_INIT THEN "idle"
                             ELSE IF p \in BootPids THEN "user" ELSE "none"]
  /\ pid_bitmap = {PID_KERNEL} \cup BootPids
  /\ pid_search_hint = hint_alloc(PID_INIT + Len(UserPrios))
  /\ ready_queue = [i \in 1 .. Len(UserPrios) + 1 |-> i]
  /\ current_proc = PID_INVALID
  /\ sched_enabled = 0 /\ tick_flag = 0 /\ tick_count = 0

\* sched_start(): the best READY process becomes current.  It clears neither
\* tick_flag nor the timeslice.  The few instructions between sched_enabled = 1
\* and its cli, in which a tick could already switch, are part of the step.
sched_start ==
  /\ sched_enabled = 0
  /\ sched_enabled' = 1
  /\ \E i \in Best(Candidates(state, ready_queue, PID_INVALID), ready_queue, priority) :
       /\ current_proc' = ready_queue[i]
       /\ state' = [state EXCEPT ![ready_queue[i]] = "RUNNING"]
  /\ UNCHANGED <<pcbVars, pidVars, timeslice, wakeup_tick, waiting, frame, ready_queue,
                 tick_flag, tick_count>>

-----------------------------------------------------------------------------
(* The timer interrupt *)

\* Interrupts are enabled in kernel_main() after its sti and in a program.
InterruptsEnabled == sched_enabled = 1 => frame[current_proc] \in {"idle", "user"}

\* Mutants: a tick early; never at the tick itself.
Bug_Due_early(now) == {p \in Pids : /\ state[p] = "BLOCKED" /\ wakeup_tick[p] # 0
                                    /\ wakeup_tick[p] <= now + 1}
Bug_Due_strict(now) == {p \in Pids : /\ state[p] = "BLOCKED" /\ wakeup_tick[p] # 0
                                     /\ wakeup_tick[p] < now}

\* The processes that sched_tick() wakes when the counter shows now.
Due(now) == {p \in Pids : /\ state[p] = "BLOCKED"
                          /\ wakeup_tick[p] # 0
                          /\ wakeup_tick[p] <= now}

\* timer_handler(): count the tick, wake the sleepers that are due in the order
\* of their pids, and leave through the switch with tick_flag set.
timer_handler ==
  LET now == (tick_count + 1) % TICK_MOD
      due == Due(now)
  IN  /\ InterruptsEnabled
      /\ tick_count' = now
      /\ wakeup_tick' = [p \in Pids |-> IF p \in due THEN 0 ELSE wakeup_tick[p]]
      /\ UNCHANGED <<pcbVars, pidVars, waiting, frame, sched_enabled>>
      /\ \E w \in Ascending(due) :
           sched_switch_esp(Woken(state, due), sched_add(ready_queue, w), timeslice, 1)

-----------------------------------------------------------------------------
(* System calls *)

\* The current process executes its own program and makes system call n.
Calls(n) == sched_enabled = 1 /\ frame[current_proc] = "user" /\ n \in Syscalls

\* sys_yield() does nothing; the switch on the way out does what tick_flag says.
sys_yield ==
  /\ Calls("yield")
  /\ UNCHANGED <<pcbVars, pidVars, clockVars, wakeup_tick, waiting, frame>>
  /\ Return(state, ready_queue)

\* sys_execve() with an image that loads: the caller goes on at the new entry
\* point with a full timeslice.  A failing one changes nothing.
sys_execve ==
  /\ Calls("execve")
  /\ UNCHANGED <<pcbVars, pidVars, clockVars, wakeup_tick, waiting, frame>>
  /\ sched_switch_esp(state, ready_queue,
       [timeslice EXCEPT ![current_proc] = timeslice_len(priority[current_proc])], tick_flag)

\* sys_sleep(): the caller blocks until the counter has reached wakeup_tick.
sys_sleep(ticks) ==
  LET p == current_proc
  IN  /\ Calls("sleep")
      /\ SleepMayWrap = 1 \/ tick_count + ticks < TICK_MOD
      /\ UNCHANGED <<pcbVars, pidVars, clockVars, waiting, frame>>
      /\ \/ /\ ticks = 0
            /\ UNCHANGED wakeup_tick
            /\ Return(state, ready_queue)
         \/ /\ ticks # 0
            /\ wakeup_tick' = [wakeup_tick EXCEPT ![p] = (tick_count + ticks) % TICK_MOD]
            /\ sched_yield([state EXCEPT ![p] = "BLOCKED"], sched_remove(ready_queue, p))

\* Mutants: the parent's state is not looked at; only a parent that waits for
\* this very child is woken.
Bug_WaitingParent_state(st, p) ==
  {q \in {ppid[p]} \ {PID_KERNEL, PID_INVALID} :
     waiting[q] = 1 /\ wait_for_pid[q] \in {PID_INVALID, p}}
Bug_WaitingParent_any(st, p) ==
  {q \in {ppid[p]} \ {PID_KERNEL, PID_INVALID} :
     st[q] = "BLOCKED" /\ waiting[q] = 1 /\ wait_for_pid[q] = p}

\* The parent that proc_exit() of p wakes in the states st: it is blocked in
\* proc_wait() for any child or for p.
WaitingParent(st, p) ==
  {q \in {ppid[p]} \ {PID_KERNEL, PID_INVALID} :
     /\ st[q] = "BLOCKED" /\ waiting[q] = 1
     /\ wait_for_pid[q] \in {PID_INVALID, p}}

\* sys_exit(): the caller becomes a zombie, its waiting parent is queued, and
\* only then the caller leaves the queue and yields.
sys_exit ==
  LET p  == current_proc
      st == [state EXCEPT ![p] = "ZOMBIE"]
      W  == WaitingParent(st, p)
  IN  /\ Calls("exit")
      /\ wakeup_tick' = [q \in Pids |-> IF q \in W THEN 0 ELSE wakeup_tick[q]]
      /\ UNCHANGED <<pcbVars, pidVars, clockVars, waiting, frame>>
      /\ \E w \in Ascending(W) :
           sched_yield(Woken(st, W), sched_remove(sched_add(ready_queue, w), p))

\* proc_create() in slot p for proc_fork() of parent: the PCB is filled in and
\* ppid, which proc_create() sets to PID_KERNEL, is then the parent's pid.
proc_create(p, parent) ==
  /\ ppid' = [ppid EXCEPT ![p] = parent]
  /\ priority' = [priority EXCEPT ![p] = priority[parent]]
  /\ wakeup_tick' = [wakeup_tick EXCEPT ![p] = 0]
  /\ wait_for_pid' = [wait_for_pid EXCEPT ![p] = PID_INVALID]
  /\ waiting' = [waiting EXCEPT ![p] = 0]
  /\ frame' = [frame EXCEPT ![p] = "user"]
  /\ pid_bitmap' = pid_bitmap \cup {p}
  /\ pid_search_hint' = hint_alloc(p)

\* sys_fork(): the child starts at its own entry point and is queued behind the
\* others.
sys_fork ==
  /\ Calls("fork")
  /\ UNCHANGED clockVars
  /\ \E p \in pid_alloc :
       /\ state[p] = "UNUSED"
       /\ proc_create(p, current_proc)
       /\ sched_switch_esp([state EXCEPT ![p] = "READY"], sched_add(ready_queue, <<p>>),
            [timeslice EXCEPT ![p] = timeslice_len(priority[current_proc])], tick_flag)

\* sys_fork() that returns -1: there is no pid, the slot is in use, or there is
\* no memory for the kernel stack.  In the last two cases the pid has been
\* allocated and is freed again.
sys_fork_fails ==
  /\ Calls("fork")
  /\ UNCHANGED <<pcbVars, clockVars, wakeup_tick, waiting, frame>>
  /\ \/ pid_alloc = {} /\ UNCHANGED pidVars
     \/ \E p \in pid_alloc :
          LET freed == pid_free(pid_bitmap \cup {p}, hint_alloc(p), p)
          IN  pid_bitmap' = freed.bits /\ pid_search_hint' = freed.hint
  /\ Return(state, ready_queue)

\* sys_exec() of target: any process that is not RUNNING starts afresh, READY
\* and at the end of the queue.
sys_exec(target) ==
  /\ Calls("exec")
  /\ target # current_proc
  /\ state[target] \notin {"UNUSED", "RUNNING"}
  /\ wakeup_tick' = [wakeup_tick EXCEPT ![target] = 0]
  /\ waiting' = [waiting EXCEPT ![target] = 0]
  /\ frame' = [frame EXCEPT ![target] = "user"]
  /\ UNCHANGED <<pcbVars, pidVars, clockVars>>
  /\ sched_switch_esp([state EXCEPT ![target] = "READY"],
       sched_add(sched_remove(ready_queue, target), <<target>>),
       [timeslice EXCEPT ![target] = timeslice_len(priority[target])], tick_flag)

\* The zombies that proc_wait(pid) by self may reap.
Reapable(self, pid) ==
  {c \in Pids : state[c] = "ZOMBIE" /\ ppid[c] = self /\ pid \in {PID_INVALID, c}}

\* proc_destroy(c) in proc_wait() of the current process: the stack goes, the
\* pid is freed, the PCB is zeroed; proc_wait() then returns, w is what it
\* leaves in the waiting flag.
proc_destroy(w, c) ==
  /\ frame' = [frame EXCEPT ![c] = "none", ![current_proc] = "user"]
  /\ LET freed == pid_free(pid_bitmap, pid_search_hint, c)
     IN  pid_bitmap' = freed.bits /\ pid_search_hint' = freed.hint
  /\ ppid' = [ppid EXCEPT ![c] = 0]
  /\ priority' = [priority EXCEPT ![c] = 0]
  /\ wait_for_pid' = [wait_for_pid EXCEPT ![c] = 0]
  /\ waiting' = [waiting EXCEPT ![current_proc] = w, ![c] = 0]

\* proc_wait(pid) finds nothing to reap: the current process blocks and yields.
proc_wait_block(pid) ==
  LET self == current_proc
  IN  /\ wait_for_pid' = [wait_for_pid EXCEPT ![self] = pid]
      /\ waiting' = [waiting EXCEPT ![self] = 1]
      /\ wakeup_tick' = [wakeup_tick EXCEPT ![self] = 0]
      /\ frame' = [frame EXCEPT ![self] = "wait"]
      /\ UNCHANGED <<ppid, priority, pidVars>>
      /\ sched_yield([state EXCEPT ![self] = "BLOCKED"], sched_remove(ready_queue, self))

\* One turn of the loop in proc_wait(pid) of the current process, which found
\* its waiting flag at w: reap the matching zombie with the smallest pid, or
\* block and yield.
proc_wait(pid, w) ==
  /\ UNCHANGED clockVars
  /\ LET Z == Reapable(current_proc, pid)
     IN  \/ \E c \in Z :
              /\ \A d \in Z : c <= d
              /\ proc_destroy(w, c)
              /\ wakeup_tick' = [wakeup_tick EXCEPT ![c] = 0]
              /\ sched_switch_esp([state EXCEPT ![c] = "UNUSED"], ready_queue,
                                  [timeslice EXCEPT ![c] = 0], tick_flag)
         \/ Z = {} /\ proc_wait_block(pid)

\* sys_wait() enters the loop.
sys_wait(pid) ==
  /\ Calls("wait")
  /\ proc_wait(pid, waiting[current_proc])

\* Mutant: the flag is not cleared after the wakeup.
Bug_proc_wait_resume ==
  /\ sched_enabled = 1 /\ frame[current_proc] = "wait"
  /\ proc_wait(wait_for_pid[current_proc], waiting[current_proc])

\* The process dispatched after its sched_yield() in proc_wait() clears its
\* waiting flag and takes the next turn.  Its argument pid is still what it
\* stored in wait_for_pid.
proc_wait_resume ==
  /\ sched_enabled = 1 /\ frame[current_proc] = "wait"
  /\ proc_wait(wait_for_pid[current_proc], 0)

-----------------------------------------------------------------------------
Next ==
  \/ sched_start
  \/ timer_handler
  \/ sys_yield
  \/ sys_execve
  \/ \E t \in SleepTicks : sys_sleep(t)
  \/ sys_exit
  \/ sys_fork
  \/ sys_fork_fails
  \/ \E t \in ExecTargets \cap Pids : sys_exec(t)
  \/ \E a \in Pids \cup {PID_INVALID} : sys_wait(a)
  \/ proc_wait_resume

Spec == Init /\ [][Next]_vars

\* The kernel code makes progress, and the interrupt controller holds a timer
\* interrupt pending until interrupts are enabled again.
Fairness ==
  /\ WF_vars(sched_start)
  /\ WF_vars(proc_wait_resume)
  /\ SF_vars(timer_handler)

FairSpec == Spec /\ Fairness
-----------------------------------------------------------------------------
(* Properties *)

\* Every variable has the type of the C object it stands for.
TypeOK ==
  /\ state \in [Pids -> States]
  /\ ppid \in [Pids -> Pids]
  /\ priority \in [Pids -> 0 .. PROC_PRIO_IDLE]
  /\ timeslice \in [Pids -> Nat]
  /\ wakeup_tick \in [Pids -> 0 .. TICK_MOD - 1]
  /\ wait_for_pid \in [Pids -> Pids \cup {PID_INVALID}]
  /\ waiting \in [Pids -> {0, 1}]
  /\ frame \in [Pids -> Frames]
  /\ pid_bitmap \in SUBSET Pids
  /\ pid_search_hint \in PID_INIT .. MAX_PROCS - 1
  /\ ready_queue \in Seq(Pids)
  /\ current_proc \in Pids \cup {PID_INVALID}
  /\ sched_enabled = 1 => current_proc \in Pids
  /\ sched_enabled \in {0, 1} /\ tick_flag \in {0, 1}
  /\ tick_count \in 0 .. TICK_MOD - 1

\* The ready queue holds every READY and RUNNING process exactly once and
\* nothing else, although sched_add() never looks whether a process is queued
\* already and every caller pairs its state change with the queue by hand.
QueueHolds(st, q) ==
  /\ IsInjective(q)
  /\ Range(q) = {p \in Pids : st[p] \in {"READY", "RUNNING"}}
QueueExact == QueueHolds(state, ready_queue)

\* Once the scheduler runs, the CPU executes the one RUNNING process: a process
\* that has blocked or exited never gets past its sched_yield().
CpuOwner ==
  \A p \in Pids : state[p] = "RUNNING" <=> sched_enabled = 1 /\ p = current_proc

\* The pid bitmap and the process table agree: a bit is set exactly for the
\* slots in use and for PID 0, so that proc_create() never finds the slot of a
\* fresh pid occupied.
PidsExact ==
  pid_bitmap = {PID_KERNEL} \cup {p \in Pids : state[p] # "UNUSED"}

\* No pid below the search hint is free: pid_alloc() always returns the lowest
\* free pid, and its second pass never finds one.
LowestPidFirst == PID_INIT .. pid_search_hint - 1 \subseteq pid_bitmap

\* No lost wakeup between proc_exit() and proc_wait(): a process blocked in
\* proc_wait() has no zombie child that it is waiting for.
NoLostExit ==
  \A p \in Pids : state[p] = "BLOCKED" /\ frame[p] = "wait" =>
    Reapable(p, wait_for_pid[p]) = {}

\* A process starts without children: those of a dead process do not pass to the
\* one that gets its pid.  The code does not meet this.
NoInheritedChildren ==
  [][\A p \in Pids : state[p] = "UNUSED" /\ state'[p] # "UNUSED" =>
       \A c \in Pids : state'[c] # "UNUSED" => ppid'[c] # p]_vars

\* A blocked process has exactly one thing that will wake it: the exit of a
\* child, announced by its waiting flag, or the clock, by a nonzero wakeup_tick.
BlockedHasWaker ==
  \A p \in Pids : state[p] = "BLOCKED" =>
    \/ frame[p] = "wait" /\ waiting[p] = 1 /\ wakeup_tick[p] = 0
    \/ frame[p] = "user" /\ waiting[p] = 0 /\ wakeup_tick[p] # 0

\* A process in proc_sleep() is woken by the very tick it asked for, not by an
\* earlier event or a later tick, unless SYS_EXEC restarts it.
SleepExact ==
  [][\A p \in Pids : state[p] = "BLOCKED" /\ wakeup_tick[p] # 0 /\ state'[p] # "BLOCKED"
       => tick_count' = wakeup_tick[p] \/ sys_exec(p)]_vars

\* SYS_SLEEP returns: a process blocked in proc_sleep() is woken eventually.
SleepEnds ==
  \A p \in Pids : (state[p] = "BLOCKED" /\ frame[p] = "user") ~> (state[p] # "BLOCKED")

\* p has the CPU while somebody else could use it.
Occupies(p) == current_proc = p /\ \E q \in Pids : state[q] = "READY"

\* Preemption: a process keeps the CPU for ever while another is READY only if it
\* makes SYS_EXECVE again and again, which gives it a full timeslice each time.
\* Nothing else that it or the others do in between puts the switch off for ever.
Preempted == \A p \in Pids : <>[]Occupies(p) => []<><<sys_execve>>_vars

\* The same without the proviso.  The code does not meet this.
AlwaysPreempted == \A p \in Pids : Occupies(p) ~> ~Occupies(p)

\* Round robin, as sched.c says of itself: a process stays READY for ever only
\* where there is always again a process of better priority.  The code does not
\* meet this.
RoundRobin ==
  \A p \in Pids : <>[](state[p] = "READY") =>
    []<>(\E q \in Pids : state[q] \in {"READY", "RUNNING"} /\ priority[q] < priority[p])

\* The scheduler never takes the CPU from a process to give it to one of lower
\* priority, as proc.h says of PROC_PRIO_REALTIME.  The code does not meet this.
NeverPreemptedByLower ==
  [][\A p \in Pids : state[p] = "RUNNING" /\ state'[p] = "READY"
       => priority[current_proc'] <= priority[p]]_vars

\* SYS_YIELD gives up the CPU when there is a process to give it to, as syscall.c
\* says of it.  The code does not meet this.
YieldGivesUpCpu ==
  [][sys_yield /\ (\E p \in Pids : state[p] = "READY")
       => current_proc' # current_proc]_vars

\* The processes follow the state diagram of proc.h, with one owner of the CPU,
\* as long as SYS_EXEC is not used on a zombie.
Life == INSTANCE Lifecycle WITH Procs <- Pids, None <- PID_INVALID, owner <- current_proc
FollowsDiagram == Life!Spec
=============================================================================
