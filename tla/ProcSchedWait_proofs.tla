----------------------- MODULE ProcSchedWait_proofs -----------------------
(***************************************************************************)
(* No wakeup of ProcSched is lost, for every size of the process table and *)
(* every mix of system calls: a process blocked in proc_wait() has nothing *)
(* to reap, and a blocked process always has something that will wake it.  *)
(***************************************************************************)
EXTENDS ProcSchedInv_proofs

-----------------------------------------------------------------------------
(* proc_exit() and proc_wait() *)

\* The switch makes no process BLOCKED or ZOMBIE and wakes none.
LEMMA SwitchKeeps ==
  ASSUME TypeOK,
         NEW st \in [Pids -> States], NEW q \in Seq(Pids), NEW ts, NEW tf,
         sched_switch_esp(st, q, ts, tf)
  PROVE  \A p \in Pids : /\ state'[p] = "BLOCKED" <=> st[p] = "BLOCKED"
                         /\ state'[p] = "ZOMBIE" <=> st[p] = "ZOMBIE"
<1>1. CASE state' = st
  BY <1>1
<1>2. ASSUME NEW i \in DOMAIN q, st[q[i]] = "READY",
             state' = [st EXCEPT ![current_proc] = IF st[current_proc] = "RUNNING" THEN "READY"
                                                   ELSE st[current_proc],
                                 ![q[i]] = "RUNNING"]
      PROVE  \A p \in Pids : /\ state'[p] = "BLOCKED" <=> st[p] = "BLOCKED"
                             /\ state'[p] = "ZOMBIE" <=> st[p] = "ZOMBIE"
  <2>1. q[i] \in Pids
    BY SMTT(60), LenProperties, ElementOfSeq
  <2> QED BY <1>2, <2>1
<1> QED BY SMTT(60), <1>1, <1>2 DEF sched_switch_esp, Best, Candidates

\* NoLostExit with what makes it inductive: the waiting flag that proc_exit()
\* looks at is set exactly while its process is inside proc_wait().
ExitInv ==
  /\ NoLostExit
  /\ \A p \in Pids : frame[p] = "wait" <=> waiting[p] = 1

\* A handler that leaves the flags, the frames and the parents alone, blocks no
\* process inside proc_wait() and makes no zombie.
LEMMA SameWaits ==
  ASSUME TypeOK, ExitInv, UNCHANGED <<ppid, wait_for_pid, waiting, frame>>,
         NEW st \in [Pids -> States], NEW q \in Seq(Pids), NEW ts, NEW tf,
         sched_switch_esp(st, q, ts, tf),
         \A p \in Pids : /\ st[p] = "BLOCKED" /\ frame[p] = "wait" => state[p] = "BLOCKED"
                         /\ st[p] = "ZOMBIE" => state[p] = "ZOMBIE"
  PROVE  ExitInv'
<1>1. \A p \in Pids : /\ state'[p] = "BLOCKED" /\ frame[p] = "wait" => state[p] = "BLOCKED"
                      /\ state'[p] = "ZOMBIE" => state[p] = "ZOMBIE"
  BY SwitchKeeps
<1> QED BY SMTT(60), <1>1 DEF ExitInv, NoLostExit, Reapable

\* Every step keeps the waiting flags right and no exit unseen.
LEMMA ExitNext == TypeOK /\ PidInv /\ ExitInv /\ [Next]_vars => ExitInv'
<1> SUFFICES ASSUME TypeOK, PidInv, ExitInv, [Next]_vars PROVE ExitInv'
  OBVIOUS
<1> DEFINE cur == current_proc
<1>a. /\ state \in [Pids -> States] /\ ready_queue \in Seq(Pids)
      /\ frame \in [Pids -> Frames] /\ waiting \in [Pids -> {0, 1}]
      /\ ppid \in [Pids -> Pids] /\ wait_for_pid \in [Pids -> Pids \cup {PID_INVALID}]
  BY DEF TypeOK
<1>b. ASSUME sched_enabled = 1 PROVE cur \in Pids
  BY <1>b DEF TypeOK
<1>c. ASSUME NEW ts, NEW tf, sched_switch_esp(state, ready_queue, ts, tf),
             UNCHANGED <<ppid, wait_for_pid, waiting, frame>>
      PROVE  ExitInv'
  BY SMTT(60), <1>a, <1>c, SameWaits
<1>1. CASE sched_start
  <2>1. PICK i \in DOMAIN ready_queue :
          /\ state[ready_queue[i]] = "READY"
          /\ state' = [state EXCEPT ![ready_queue[i]] = "RUNNING"]
    BY ZenonT(60), <1>1 DEF sched_start, Best, Candidates
  <2>2. \A p \in Pids : /\ state'[p] = "BLOCKED" => state[p] = "BLOCKED"
                        /\ state'[p] = "ZOMBIE" => state[p] = "ZOMBIE"
    BY <1>a, <2>1
  <2>3. UNCHANGED <<ppid, wait_for_pid, waiting, frame>>
    BY <1>1 DEF sched_start, pcbVars
  <2> QED BY SMTT(60), <2>2, <2>3 DEF ExitInv, NoLostExit, Reapable
<1>2. CASE timer_handler
  <2> DEFINE due == Due((tick_count + 1) % TICK_MOD)
             st == Woken(state, due)
  <2>1. due \in SUBSET Pids
    BY DEF Due
  <2>2. PICK w \in Ascending(due) :
          sched_switch_esp(st, sched_add(ready_queue, w), timeslice, 1)
    BY <1>2 DEF timer_handler
  <2>3. /\ st \in [Pids -> States]
        /\ \A p \in Pids : /\ st[p] = "BLOCKED" => state[p] = "BLOCKED"
                           /\ st[p] = "ZOMBIE" => state[p] = "ZOMBIE"
    BY SMTT(60), <1>a, <2>1 DEF Woken, States
  <2> HIDE DEF due, st
  <2>4. sched_add(ready_queue, w) \in Seq(Pids)
    BY SMTT(60), <1>a, <2>1, <2>2, AscendingType, AddType
  <2>5. UNCHANGED <<ppid, wait_for_pid, waiting, frame>>
    BY <1>2 DEF timer_handler, pcbVars
  <2> QED BY ZenonT(60), <2>2, <2>3, <2>4, <2>5, SameWaits
<1>3. CASE sys_yield
  BY <1>3, <1>c DEF sys_yield, Return, pcbVars
<1>4. CASE sys_execve
  BY SMTT(60), <1>4, <1>c DEF sys_execve, pcbVars
<1>5. ASSUME NEW t \in SleepTicks, sys_sleep(t) PROVE ExitInv'
  <2> DEFINE st == [state EXCEPT ![cur] = "BLOCKED"]
             q == sched_remove(ready_queue, cur)
  <2>1. /\ cur \in Pids /\ frame[cur] = "user"
        /\ UNCHANGED <<ppid, wait_for_pid, waiting, frame>>
    BY <1>5, <1>b DEF sys_sleep, Calls, pcbVars
  <2>2. CASE Return(state, ready_queue)
    BY <1>c, <2>1, <2>2 DEF Return
  <2>3. CASE sched_yield(st, q)
    <3>1. /\ st \in [Pids -> States] /\ q \in Seq(Pids)
          /\ \A p \in Pids : /\ st[p] = "BLOCKED" /\ frame[p] = "wait" => state[p] = "BLOCKED"
                             /\ st[p] = "ZOMBIE" => state[p] = "ZOMBIE"
      BY ZenonT(60), <1>a, <2>1, RemoveQueue DEF States
    <3>2. sched_switch_esp(st, q, [timeslice EXCEPT ![cur] = 0], 1)
      BY <2>3 DEF sched_yield
    <3> HIDE DEF st, q
    <3> QED BY ZenonT(60), <2>1, <3>1, <3>2, SameWaits
  <2> QED BY SMTT(60), <1>5, <2>2, <2>3 DEF sys_sleep
<1>6. CASE sys_exit
  <2> DEFINE z == [state EXCEPT ![cur] = "ZOMBIE"]
             W == WaitingParent(z, cur)
             st == Woken(z, W)
  <2>1. /\ cur \in Pids /\ frame[cur] = "user"
        /\ UNCHANGED <<ppid, wait_for_pid, waiting, frame>>
    BY <1>6, <1>b DEF sys_exit, Calls, pcbVars
  <2>2. PICK w \in Ascending(W) : sched_yield(st, sched_remove(sched_add(ready_queue, w), cur))
    BY <1>6 DEF sys_exit
  <2>3. W \in SUBSET Pids
    BY SMTT(60), <1>a, <2>1 DEF WaitingParent
  \* A parent blocked in proc_wait() for the caller is in W, and so woken.
  <2>4. ASSUME NEW p \in Pids, p = ppid[cur], state[p] = "BLOCKED", frame[p] = "wait",
               wait_for_pid[p] \in {PID_INVALID, cur}
        PROVE  p \in W
    <3>1. p # PID_KERNEL /\ p # PID_INVALID
      BY SMTT(60), <2>4, ProcsAssumption DEF PidInv, Pids, PID_INVALID
    <3>2. waiting[p] = 1 /\ z[p] = "BLOCKED"
      BY SMTT(60), <1>a, <2>1, <2>4 DEF ExitInv
    <3> QED BY ZenonT(60), <2>4, <3>1, <3>2 DEF WaitingParent
  <2>5. /\ st \in [Pids -> States]
        /\ \A p \in Pids : /\ st[p] = "BLOCKED" => state[p] = "BLOCKED" /\ p \notin W
                           /\ st[p] = "ZOMBIE" => state[p] = "ZOMBIE" \/ p = cur
    BY ZenonT(60), <1>a, <2>1, <2>3 DEF Woken, States
  <2> HIDE DEF W, st
  <2>6. sched_remove(sched_add(ready_queue, w), cur) \in Seq(Pids)
    BY SMTT(60), <1>a, <2>2, <2>3, AscendingType, AddType, RemoveQueue
  <2>7. sched_switch_esp(st, sched_remove(sched_add(ready_queue, w), cur),
                         [timeslice EXCEPT ![cur] = 0], 1)
    BY <2>2 DEF sched_yield
  <2>8. \A p \in Pids : /\ state'[p] = "BLOCKED" => state[p] = "BLOCKED" /\ p \notin W
                        /\ state'[p] = "ZOMBIE" => state[p] = "ZOMBIE" \/ p = cur
    BY ZenonT(60), <2>5, <2>6, <2>7, SwitchKeeps
  <2> QED BY SMTT(60), <2>1, <2>4, <2>8 DEF ExitInv, NoLostExit, Reapable
<1>7. CASE sys_fork
  <2> DEFINE st(p) == [state EXCEPT ![p] = "READY"]
  <2>1. PICK p \in pid_alloc :
          /\ state[p] = "UNUSED"
          /\ proc_create(p, cur)
          /\ sched_switch_esp(st(p), sched_add(ready_queue, <<p>>),
               [timeslice EXCEPT ![p] = timeslice_len(priority[cur])], tick_flag)
    BY ZenonT(60), <1>7 DEF sys_fork
  <2>2. p \in Pids /\ <<p>> \in Seq(Pids)
    BY PidTypes
  <2>3. /\ st(p) \in [Pids -> States] /\ sched_add(ready_queue, <<p>>) \in Seq(Pids)
        /\ \A x \in Pids : /\ st(p)[x] = "BLOCKED" => state[x] = "BLOCKED" /\ x # p
                           /\ st(p)[x] = "ZOMBIE" => state[x] = "ZOMBIE" /\ x # p
    BY ZenonT(60), <1>a, <2>2, AddType DEF States
  <2> HIDE DEF st
  <2>4. \A x \in Pids : /\ state'[x] = "BLOCKED" => state[x] = "BLOCKED" /\ x # p
                        /\ state'[x] = "ZOMBIE" => state[x] = "ZOMBIE" /\ x # p
    BY ZenonT(60), <2>1, <2>3, SwitchKeeps
  <2>5. /\ ppid' = [ppid EXCEPT ![p] = cur] /\ waiting' = [waiting EXCEPT ![p] = 0]
        /\ wait_for_pid' = [wait_for_pid EXCEPT ![p] = PID_INVALID]
        /\ frame' = [frame EXCEPT ![p] = "user"]
    BY <2>1 DEF proc_create
  <2>6. \A x \in Pids : frame'[x] = "wait" <=> waiting'[x] = 1
    BY SMTT(60), <1>a, <2>2, <2>5 DEF ExitInv
  <2>7. NoLostExit'
    BY SMTT(60), <1>a, <2>2, <2>4, <2>5 DEF ExitInv, NoLostExit, Reapable
  <2> QED BY <2>6, <2>7 DEF ExitInv
<1>8. CASE sys_fork_fails
  BY <1>8, <1>c DEF sys_fork_fails, Return, pcbVars
<1>9. ASSUME NEW t \in ExecTargets \cap Pids, sys_exec(t) PROVE ExitInv'
  <2> DEFINE q == sched_add(sched_remove(ready_queue, t), <<t>>)
             st == [state EXCEPT ![t] = "READY"]
  <2>1. q \in Seq(Pids)
    <3>1. <<t>> \in Seq(Pids) /\ sched_remove(ready_queue, t) \in Seq(Pids)
      BY <1>a, RemoveQueue
    <3> QED BY ZenonT(60), <3>1, AddType
  <2>2. /\ st \in [Pids -> States]
        /\ \A p \in Pids : /\ st[p] = "BLOCKED" => state[p] = "BLOCKED" /\ p # t
                           /\ st[p] = "ZOMBIE" => state[p] = "ZOMBIE"
    BY <1>a DEF States
  <2>3. sched_switch_esp(st, q, [timeslice EXCEPT ![t] = timeslice_len(priority[t])], tick_flag)
    BY SMTT(60), <1>9 DEF sys_exec
  <2> HIDE DEF q, st
  <2>4. \A p \in Pids : /\ state'[p] = "BLOCKED" => state[p] = "BLOCKED" /\ p # t
                        /\ state'[p] = "ZOMBIE" => state[p] = "ZOMBIE"
    BY ZenonT(60), <2>1, <2>2, <2>3, SwitchKeeps
  <2>5. /\ UNCHANGED <<ppid, wait_for_pid>> /\ waiting' = [waiting EXCEPT ![t] = 0]
        /\ frame' = [frame EXCEPT ![t] = "user"]
    BY <1>9 DEF sys_exec, pcbVars
  <2>6. \A p \in Pids : frame'[p] = "wait" <=> waiting'[p] = 1
    BY SMTT(60), <1>a, <2>5 DEF ExitInv
  <2>7. NoLostExit'
    BY SMTT(60), <1>a, <2>4, <2>5 DEF ExitInv, NoLostExit, Reapable
  <2> QED BY <2>6, <2>7 DEF ExitInv
<1>10. ASSUME NEW a, NEW w \in {0, 1}, w = 0, sched_enabled = 1, proc_wait(a, w) PROVE ExitInv'
  <2>1. ASSUME NEW c \in Reapable(cur, a), proc_destroy(w, c),
               sched_switch_esp([state EXCEPT ![c] = "UNUSED"], ready_queue,
                                [timeslice EXCEPT ![c] = 0], tick_flag)
        PROVE  ExitInv'
    <3> DEFINE st == [state EXCEPT ![c] = "UNUSED"]
    <3>1. cur \in Pids /\ c \in Pids /\ c # cur
      BY SMTT(60), <1>10, <1>b DEF Reapable, PidInv
    <3>2. /\ st \in [Pids -> States]
          /\ \A p \in Pids : /\ st[p] = "BLOCKED" => state[p] = "BLOCKED" /\ p # c
                             /\ st[p] = "ZOMBIE" => state[p] = "ZOMBIE" /\ p # c
      BY <1>a, <3>1 DEF States
    <3>3. sched_switch_esp(st, ready_queue, [timeslice EXCEPT ![c] = 0], tick_flag)
      BY <2>1
    <3> HIDE DEF st
    <3>4. \A p \in Pids : /\ state'[p] = "BLOCKED" => state[p] = "BLOCKED" /\ p # c
                          /\ state'[p] = "ZOMBIE" => state[p] = "ZOMBIE" /\ p # c
      BY ZenonT(60), <1>a, <3>2, <3>3, SwitchKeeps
    <3>5. /\ ppid' = [ppid EXCEPT ![c] = 0]
          /\ waiting' = [waiting EXCEPT ![cur] = 0, ![c] = 0]
          /\ wait_for_pid' = [wait_for_pid EXCEPT ![c] = 0]
          /\ frame' = [frame EXCEPT ![c] = "none", ![cur] = "user"]
      BY SMTT(60), <1>10, <2>1 DEF proc_destroy
    <3>6. \A p \in Pids : frame'[p] = "wait" <=> waiting'[p] = 1
      BY SMTT(60), <1>a, <3>1, <3>5 DEF ExitInv
    <3>7. NoLostExit'
      BY SMTT(60), <1>a, <3>1, <3>4, <3>5 DEF ExitInv, NoLostExit, Reapable
    <3> QED BY <3>6, <3>7 DEF ExitInv
  <2>2. ASSUME Reapable(cur, a) = {}, proc_wait_block(a) PROVE ExitInv'
    <3> DEFINE st == [state EXCEPT ![cur] = "BLOCKED"]
               q == sched_remove(ready_queue, cur)
    <3>1. cur \in Pids
      BY <1>10, <1>b
    <3>2. /\ st \in [Pids -> States] /\ q \in Seq(Pids)
          /\ \A p \in Pids : /\ st[p] = "BLOCKED" => state[p] = "BLOCKED" \/ p = cur
                             /\ st[p] = "ZOMBIE" => state[p] = "ZOMBIE"
      BY ZenonT(60), <1>a, <3>1, RemoveQueue DEF States
    <3>3. sched_switch_esp(st, q, [timeslice EXCEPT ![cur] = 0], 1)
      BY <2>2 DEF proc_wait_block, sched_yield
    <3> HIDE DEF st, q
    <3>4. \A p \in Pids : /\ state'[p] = "BLOCKED" => state[p] = "BLOCKED" \/ p = cur
                          /\ state'[p] = "ZOMBIE" => state[p] = "ZOMBIE"
      BY ZenonT(60), <3>2, <3>3, SwitchKeeps
    <3>5. /\ UNCHANGED ppid /\ waiting' = [waiting EXCEPT ![cur] = 1]
          /\ wait_for_pid' = [wait_for_pid EXCEPT ![cur] = a]
          /\ frame' = [frame EXCEPT ![cur] = "wait"]
      BY <2>2 DEF proc_wait_block
    <3>6. \A p \in Pids : frame'[p] = "wait" <=> waiting'[p] = 1
      BY SMTT(60), <1>a, <3>1, <3>5 DEF ExitInv
    <3>7. NoLostExit'
      BY SMTT(60), <1>a, <2>2, <3>1, <3>4, <3>5 DEF ExitInv, NoLostExit, Reapable
    <3> QED BY <3>6, <3>7 DEF ExitInv
  <2> QED BY ZenonT(60), <1>10, <2>1, <2>2 DEF proc_wait
<1>11. ASSUME NEW a, sys_wait(a) PROVE ExitInv'
  <2>1. sched_enabled = 1 /\ frame[cur] = "user" /\ proc_wait(a, waiting[cur])
    BY <1>11 DEF sys_wait, Calls
  <2>2. waiting[cur] = 0
    BY SMTT(60), <1>a, <1>b, <2>1 DEF ExitInv
  <2> QED BY SMTT(60), <1>10, <2>1, <2>2
<1>12. CASE proc_wait_resume
  BY SMTT(60), <1>10, <1>12 DEF proc_wait_resume
<1>13. CASE UNCHANGED vars
  BY <1>13 DEF vars, ExitInv, NoLostExit, Reapable
<1> QED BY SMTT(60), <1>1, <1>2, <1>3, <1>4, <1>5, <1>6, <1>7, <1>8, <1>9, <1>11, <1>12, <1>13 DEF Next

\* No exit is lost between proc_exit() and proc_wait(): a process blocked in
\* proc_wait() never has a zombie child that it waits for.
THEOREM ExitCorrect == Spec => []NoLostExit
<1>1. Init => TypeOK /\ PidInv /\ ExitInv
  <2>1. Init => ExitInv
    BY DEF Init, ExitInv, NoLostExit
  <2> QED BY SMTT(60), <2>1, InitType, PidInit
<1>2. TypeOK /\ PidInv /\ ExitInv /\ [Next]_vars => (TypeOK /\ PidInv /\ ExitInv)'
  BY SMTT(60), NextType, PidNext, ExitNext
<1>3. ExitInv => NoLostExit
  BY DEF ExitInv
<1> QED BY <1>1, <1>2, <1>3, PTL DEF Spec
-----------------------------------------------------------------------------
(* Sleeping *)

\* BlockedHasWaker and SleepExact with what makes them inductive: a process in
\* proc_wait() has no wakeup_tick, and a sleeper's wakeup_tick lies ahead.
WakerInv ==
  /\ \A p \in Pids : frame[p] = "wait" => wakeup_tick[p] = 0
  /\ \A p \in Pids : state[p] = "BLOCKED" /\ frame[p] # "wait" =>
       frame[p] = "user" /\ wakeup_tick[p] > tick_count

\* What SleepExact says of one step.
SleepStep ==
  \A p \in Pids : state[p] = "BLOCKED" /\ wakeup_tick[p] # 0 /\ state'[p] # "BLOCKED"
    => tick_count' = wakeup_tick[p] \/ sys_exec(p)

\* A number below the modulus is its own remainder.
LEMMA SmallModulus ==
  ASSUME NEW x \in Nat, NEW m \in Nat, x < m
  PROVE  x % m = x
BY SMTT(60)

\* A handler that neither blocks nor wakes.
LEMMA SameWakers ==
  ASSUME TypeOK, WakerInv, UNCHANGED <<wakeup_tick, frame, tick_count>>,
         NEW st \in [Pids -> States], NEW q \in Seq(Pids), NEW ts, NEW tf,
         sched_switch_esp(st, q, ts, tf),
         \A p \in Pids : st[p] = "BLOCKED" <=> state[p] = "BLOCKED"
  PROVE  WakerInv' /\ SleepStep
<1>1. \A p \in Pids : state'[p] = "BLOCKED" <=> state[p] = "BLOCKED"
  BY SMTT(60), SwitchKeeps
<1> QED BY ZenonT(60), <1>1 DEF WakerInv, SleepStep

\* Every step leaves a blocked process with a waker, and the clock wakes a
\* sleeper at the tick it asked for.
LEMMA WakerNext ==
  ASSUME SleepMayWrap = 0
  PROVE  TypeOK /\ OwnerInv /\ PidInv /\ ExitInv /\ WakerInv /\ [Next]_vars
           => WakerInv' /\ SleepStep
<1> SUFFICES ASSUME TypeOK, OwnerInv, PidInv, ExitInv, WakerInv, [Next]_vars
             PROVE  WakerInv' /\ SleepStep
  BY SMTT(60)
<1> DEFINE cur == current_proc
<1>a. /\ state \in [Pids -> States] /\ ready_queue \in Seq(Pids)
      /\ frame \in [Pids -> Frames] /\ wakeup_tick \in [Pids -> 0 .. TICK_MOD - 1]
      /\ TICK_MOD \in Nat /\ tick_count \in 0 .. TICK_MOD - 1
  BY TickAssumption DEF TypeOK
<1>b. ASSUME sched_enabled = 1 PROVE cur \in Pids /\ state[cur] = "RUNNING"
  <2>1. cur \in Pids
    BY SMTT(60), <1>b DEF TypeOK
  <2> QED BY SMTT(60), <1>b, <2>1 DEF OwnerInv, CpuOwner
<1>c. ASSUME NEW ts, NEW tf, sched_switch_esp(state, ready_queue, ts, tf),
             UNCHANGED <<wakeup_tick, frame, tick_count>>
      PROVE  WakerInv' /\ SleepStep
  BY SMTT(60), <1>a, <1>c, SameWakers
\* The current process blocks.
<1>d. ASSUME sched_enabled = 1, UNCHANGED tick_count, NEW f \in {"user", "wait"}, NEW t \in Nat,
             frame' = [frame EXCEPT ![cur] = f], wakeup_tick' = [wakeup_tick EXCEPT ![cur] = t],
             IF f = "wait" THEN t = 0 ELSE t > tick_count,
             sched_yield([state EXCEPT ![cur] = "BLOCKED"], sched_remove(ready_queue, cur))
      PROVE  WakerInv' /\ SleepStep
  <2> DEFINE st == [state EXCEPT ![cur] = "BLOCKED"]
             q == sched_remove(ready_queue, cur)
  <2>1. /\ st \in [Pids -> States] /\ q \in Seq(Pids)
        /\ \A p \in Pids : st[p] = "BLOCKED" <=> state[p] = "BLOCKED" \/ p = cur
    BY ZenonT(60), <1>a, <1>b, <1>d, RemoveQueue DEF States
  <2>2. sched_switch_esp(st, q, [timeslice EXCEPT ![cur] = 0], 1)
    BY <1>d DEF sched_yield
  <2> HIDE DEF st, q
  <2>3. \A p \in Pids : state'[p] = "BLOCKED" <=> state[p] = "BLOCKED" \/ p = cur
    BY ZenonT(60), <2>1, <2>2, SwitchKeeps
  <2>4. SleepStep
    BY SMTT(60), <2>3 DEF SleepStep
  <2>5. WakerInv'
    BY SMTT(60), <1>a, <1>b, <1>d, <2>3 DEF WakerInv
  <2> QED BY <2>4, <2>5
<1>1. CASE sched_start
  <2>1. PICK i \in DOMAIN ready_queue :
          /\ state[ready_queue[i]] = "READY"
          /\ state' = [state EXCEPT ![ready_queue[i]] = "RUNNING"]
    BY ZenonT(60), <1>1 DEF sched_start, Best, Candidates
  <2>2. \A p \in Pids : state'[p] = "BLOCKED" <=> state[p] = "BLOCKED"
    BY <1>a, <2>1
  <2>3. UNCHANGED <<wakeup_tick, frame, tick_count>>
    BY <1>1 DEF sched_start
  <2> QED BY ZenonT(60), <2>2, <2>3 DEF WakerInv, SleepStep
<1>2. CASE timer_handler
  <2> DEFINE now == (tick_count + 1) % TICK_MOD
             st == Woken(state, Due(now))
  <2>1. PICK w \in Ascending(Due(now)) :
          sched_switch_esp(st, sched_add(ready_queue, w), timeslice, 1)
    BY SMTT(60), <1>2 DEF timer_handler
  <2>2. /\ tick_count' = now /\ UNCHANGED frame
        /\ wakeup_tick' = [p \in Pids |-> IF p \in Due(now) THEN 0 ELSE wakeup_tick[p]]
    BY <1>2 DEF timer_handler
  \* While someone sleeps the counter does not wrap.
  <2>3. ASSUME NEW p \in Pids, state[p] = "BLOCKED", wakeup_tick[p] # 0
        PROVE  /\ now = tick_count + 1 /\ wakeup_tick[p] > tick_count /\ frame[p] = "user"
               /\ p \in Due(now) <=> wakeup_tick[p] = now
    <3>1. wakeup_tick[p] > tick_count /\ frame[p] = "user"
      BY SMTT(60), <2>3 DEF WakerInv
    <3>2. wakeup_tick[p] \in 0 .. TICK_MOD - 1
      BY <1>a
    <3>3. now = tick_count + 1
      <4>1. tick_count + 1 \in Nat /\ TICK_MOD \in Nat /\ tick_count + 1 < TICK_MOD
        BY SMTT(60), <1>a, <3>1, <3>2
      <4> QED BY <4>1, SmallModulus
    <3> HIDE DEF now
    <3>4. p \in Due(now) <=> wakeup_tick[p] = now
      BY SMTT(60), <1>a, <2>3, <3>1, <3>2, <3>3 DEF Due
    <3> QED BY SMTT(60), <3>1, <3>3, <3>4
  <2>4. Due(now) \in SUBSET Pids /\ \A p \in Due(now) : state[p] = "BLOCKED" /\ wakeup_tick[p] # 0
    BY DEF Due
  <2>5. /\ st \in [Pids -> States]
        /\ \A p \in Pids : st[p] = "BLOCKED" <=> state[p] = "BLOCKED" /\ p \notin Due(now)
    BY SMTT(60), <1>a, <2>4 DEF Woken, States
  <2>6. sched_add(ready_queue, w) \in Seq(Pids)
    BY SMTT(60), <1>a, <2>1, <2>4, AscendingType, AddType
  <2> HIDE DEF now, st
  <2>7. \A p \in Pids : state'[p] = "BLOCKED" <=> state[p] = "BLOCKED" /\ p \notin Due(now)
    BY ZenonT(60), <2>1, <2>5, <2>6, SwitchKeeps
  <2>8. SleepStep
    BY ZenonT(60), <2>2, <2>3, <2>7 DEF SleepStep
  <2>9. ASSUME NEW p \in Pids, frame'[p] = "wait" PROVE wakeup_tick'[p] = 0
    BY SMTT(60), <2>2, <2>9 DEF WakerInv
  <2>10. ASSUME NEW p \in Pids, state'[p] = "BLOCKED", frame'[p] # "wait"
         PROVE  frame'[p] = "user" /\ wakeup_tick'[p] > tick_count'
    <3>1. state[p] = "BLOCKED" /\ p \notin Due(now) /\ frame[p] # "wait"
      BY <2>2, <2>7, <2>10
    <3>2. wakeup_tick[p] > tick_count /\ wakeup_tick'[p] = wakeup_tick[p]
      BY SMTT(60), <2>2, <3>1 DEF WakerInv
    <3>3. wakeup_tick[p] # 0 /\ wakeup_tick[p] \in Nat /\ tick_count \in Nat
      BY SMTT(60), <1>a, <3>2
    <3>4. now = tick_count + 1 /\ wakeup_tick[p] # now /\ frame[p] = "user"
      BY <2>3, <3>1, <3>3
    <3> QED BY SMTT(60), <2>2, <3>2, <3>3, <3>4
  <2>11. WakerInv'
    BY ZenonT(60), <2>9, <2>10 DEF WakerInv
  <2> QED BY SMTT(60), <2>8, <2>11
<1>3. CASE sys_yield
  BY <1>3, <1>c DEF sys_yield, Return, clockVars
<1>4. CASE sys_execve
  BY SMTT(60), <1>4, <1>c DEF sys_execve, clockVars
<1>5. ASSUME NEW t \in SleepTicks, sys_sleep(t) PROVE WakerInv' /\ SleepStep
  <2>1. sched_enabled = 1 /\ frame[cur] = "user" /\ UNCHANGED <<frame, tick_count>>
    BY <1>5 DEF sys_sleep, Calls, clockVars
  <2>2. CASE UNCHANGED wakeup_tick /\ Return(state, ready_queue)
    BY <1>c, <2>1, <2>2 DEF Return
  <2>3. ASSUME t # 0, tick_count + t < TICK_MOD,
               wakeup_tick' = [wakeup_tick EXCEPT ![cur] = (tick_count + t) % TICK_MOD],
               sched_yield([state EXCEPT ![cur] = "BLOCKED"], sched_remove(ready_queue, cur))
        PROVE  WakerInv' /\ SleepStep
    <3>1. t \in Nat /\ tick_count \in Nat
      BY SMTT(60), <1>a, TickAssumption
    <3>2. (tick_count + t) % TICK_MOD = tick_count + t
      <4>1. tick_count + t \in Nat /\ TICK_MOD \in Nat
        BY SMTT(60), <1>a, <3>1
      <4> QED BY <2>3, <4>1, SmallModulus
    <3>3. wakeup_tick' = [wakeup_tick EXCEPT ![cur] = tick_count + t]
      BY ZenonT(60), <2>3, <3>2
    <3>4. frame' = [frame EXCEPT ![cur] = "user"]
      BY <1>a, <1>b, <2>1
    <3>5. tick_count + t \in Nat /\ tick_count + t > tick_count
      BY SMTT(60), <2>3, <3>1
    <3> QED BY ZenonT(60), <1>d, <2>1, <2>3, <3>3, <3>4, <3>5
  <2> QED BY SMTT(60), <1>5, <2>2, <2>3 DEF sys_sleep
<1>6. CASE sys_exit
  <2> DEFINE z == [state EXCEPT ![cur] = "ZOMBIE"]
             W == WaitingParent(z, cur)
             st == Woken(z, W)
  <2>1. cur \in Pids /\ state[cur] = "RUNNING" /\ UNCHANGED <<frame, tick_count>>
    BY SMTT(60), <1>6, <1>b DEF sys_exit, Calls, clockVars
  <2>2. PICK w \in Ascending(W) : sched_yield(st, sched_remove(sched_add(ready_queue, w), cur))
    BY SMTT(60), <1>6 DEF sys_exit
  \* Only a process in proc_wait() is woken.
  <2>3. W \in SUBSET Pids /\ \A p \in W : wakeup_tick[p] = 0
    BY SMTT(60), <1>a, <2>1 DEF WaitingParent, TypeOK, ExitInv, WakerInv
  <2>4. wakeup_tick' = [p \in Pids |-> IF p \in W THEN 0 ELSE wakeup_tick[p]]
    BY <1>6 DEF sys_exit
  <2>5. /\ st \in [Pids -> States]
        /\ \A p \in Pids : st[p] = "BLOCKED" <=> state[p] = "BLOCKED" /\ p \notin W
    BY ZenonT(60), <1>a, <2>1, <2>3 DEF Woken, States
  <2> HIDE DEF W, st
  <2>6. sched_remove(sched_add(ready_queue, w), cur) \in Seq(Pids)
    BY SMTT(60), <1>a, <2>2, <2>3, AscendingType, AddType, RemoveQueue
  <2>7. sched_switch_esp(st, sched_remove(sched_add(ready_queue, w), cur),
                         [timeslice EXCEPT ![cur] = 0], 1)
    BY <2>2 DEF sched_yield
  <2>8. \A p \in Pids : state'[p] = "BLOCKED" <=> state[p] = "BLOCKED" /\ p \notin W
    BY ZenonT(60), <2>5, <2>6, <2>7, SwitchKeeps
  <2>9. \A p \in Pids : wakeup_tick'[p] = wakeup_tick[p]
    BY SMTT(60), <2>3, <2>4
  <2> QED BY ZenonT(60), <2>1, <2>3, <2>8, <2>9 DEF WakerInv, SleepStep
<1>7. CASE sys_fork
  <2> DEFINE st(p) == [state EXCEPT ![p] = "READY"]
  <2>1. PICK p \in pid_alloc :
          /\ state[p] = "UNUSED"
          /\ proc_create(p, cur)
          /\ sched_switch_esp(st(p), sched_add(ready_queue, <<p>>),
               [timeslice EXCEPT ![p] = timeslice_len(priority[cur])], tick_flag)
    BY ZenonT(60), <1>7 DEF sys_fork
  <2>2. p \in Pids /\ <<p>> \in Seq(Pids)
    BY PidTypes
  <2>3. /\ st(p) \in [Pids -> States] /\ sched_add(ready_queue, <<p>>) \in Seq(Pids)
        /\ \A x \in Pids : st(p)[x] = "BLOCKED" <=> state[x] = "BLOCKED"
    BY ZenonT(60), <1>a, <2>1, <2>2, AddType DEF States
  <2> HIDE DEF st
  <2>4. \A x \in Pids : state'[x] = "BLOCKED" <=> state[x] = "BLOCKED"
    BY ZenonT(60), <2>1, <2>3, SwitchKeeps
  <2>5. /\ wakeup_tick' = [wakeup_tick EXCEPT ![p] = 0]
        /\ frame' = [frame EXCEPT ![p] = "user"] /\ UNCHANGED tick_count
    BY ZenonT(60), <1>7, <2>1 DEF sys_fork, proc_create, clockVars
  <2>6. SleepStep
    BY <2>4 DEF SleepStep
  <2>7. WakerInv'
    BY SMTT(60), <1>a, <2>1, <2>2, <2>4, <2>5 DEF WakerInv
  <2> QED BY <2>6, <2>7
<1>8. CASE sys_fork_fails
  BY <1>8, <1>c DEF sys_fork_fails, Return, clockVars
<1>9. ASSUME NEW t \in ExecTargets \cap Pids, sys_exec(t) PROVE WakerInv' /\ SleepStep
  <2> DEFINE q == sched_add(sched_remove(ready_queue, t), <<t>>)
             st == [state EXCEPT ![t] = "READY"]
  <2>1. q \in Seq(Pids)
    <3>1. <<t>> \in Seq(Pids) /\ sched_remove(ready_queue, t) \in Seq(Pids)
      BY SMTT(60), <1>a, RemoveQueue
    <3> QED BY ZenonT(60), <3>1, AddType
  <2>2. /\ st \in [Pids -> States]
        /\ \A p \in Pids : st[p] = "BLOCKED" <=> state[p] = "BLOCKED" /\ p # t
    BY SMTT(60), <1>a DEF States
  <2>3. sched_switch_esp(st, q, [timeslice EXCEPT ![t] = timeslice_len(priority[t])], tick_flag)
    BY SMTT(60), <1>9 DEF sys_exec
  <2> HIDE DEF q, st
  <2>4. \A p \in Pids : state'[p] = "BLOCKED" <=> state[p] = "BLOCKED" /\ p # t
    BY ZenonT(60), <2>1, <2>2, <2>3, SwitchKeeps
  <2>5. /\ wakeup_tick' = [wakeup_tick EXCEPT ![t] = 0]
        /\ frame' = [frame EXCEPT ![t] = "user"] /\ UNCHANGED tick_count
    BY <1>9 DEF sys_exec, clockVars
  <2>6. SleepStep
    BY ZenonT(60), <1>9, <2>4 DEF SleepStep
  <2>7. WakerInv'
    BY SMTT(60), <1>a, <2>4, <2>5 DEF WakerInv
  <2> QED BY <2>6, <2>7
<1>10. ASSUME NEW a, NEW w, sched_enabled = 1, proc_wait(a, w) PROVE WakerInv' /\ SleepStep
  <2>0. UNCHANGED tick_count
    BY <1>10 DEF proc_wait, clockVars
  <2>1. ASSUME NEW c \in Reapable(cur, a), proc_destroy(w, c),
               wakeup_tick' = [wakeup_tick EXCEPT ![c] = 0],
               sched_switch_esp([state EXCEPT ![c] = "UNUSED"], ready_queue,
                                [timeslice EXCEPT ![c] = 0], tick_flag)
        PROVE  WakerInv' /\ SleepStep
    <3> DEFINE st == [state EXCEPT ![c] = "UNUSED"]
    <3>1. /\ cur \in Pids /\ state[cur] = "RUNNING"
          /\ c \in Pids /\ state[c] = "ZOMBIE"
      BY SMTT(60), <1>10, <1>b DEF Reapable
    <3>2. /\ st \in [Pids -> States]
          /\ \A p \in Pids : st[p] = "BLOCKED" <=> state[p] = "BLOCKED"
      BY SMTT(60), <1>a, <3>1 DEF States
    <3>3. sched_switch_esp(st, ready_queue, [timeslice EXCEPT ![c] = 0], tick_flag)
      BY <2>1
    <3> HIDE DEF st
    <3>4. \A p \in Pids : state'[p] = "BLOCKED" <=> state[p] = "BLOCKED"
      BY ZenonT(60), <1>a, <3>2, <3>3, SwitchKeeps
    <3>5. frame' = [frame EXCEPT ![c] = "none", ![cur] = "user"]
      BY SMTT(60), <2>1 DEF proc_destroy
    <3>6. SleepStep
      BY SMTT(60), <3>4 DEF SleepStep
    <3>7. WakerInv'
      BY SMTT(60), <1>a, <2>0, <2>1, <3>1, <3>4, <3>5 DEF WakerInv
    <3> QED BY SMTT(60), <3>6, <3>7
  <2>2. ASSUME proc_wait_block(a) PROVE WakerInv' /\ SleepStep
    BY ZenonT(60), <1>10, <1>d, <2>0, <2>2 DEF proc_wait_block
  <2> QED BY ZenonT(60), <1>10, <2>1, <2>2 DEF proc_wait
<1>11. ASSUME NEW a, sys_wait(a) PROVE WakerInv' /\ SleepStep
  BY SMTT(60), <1>10, <1>11 DEF sys_wait, Calls
<1>12. CASE proc_wait_resume
  BY SMTT(60), <1>10, <1>12 DEF proc_wait_resume
<1>13. CASE UNCHANGED vars
  BY <1>13 DEF vars, WakerInv, SleepStep
<1> QED BY SMTT(60), <1>1, <1>2, <1>3, <1>4, <1>5, <1>6, <1>7, <1>8, <1>9, <1>11, <1>12, <1>13 DEF Next

\* All the invariants together are inductive.
LEMMA WakerInductive ==
  ASSUME PID_INIT \notin ExecTargets, SleepMayWrap = 0
  PROVE  Spec => [](TypeOK /\ QueueExact /\ OwnerInv /\ PidInv /\ ExitInv /\ WakerInv)
<1> DEFINE IInv == TypeOK /\ QueueExact /\ OwnerInv /\ PidInv /\ ExitInv /\ WakerInv
<1>1. Init => IInv
  <2> SUFFICES ASSUME Init PROVE IInv
    BY SMTT(60)
  <2>1. ExitInv /\ WakerInv
    BY DEF Init, ExitInv, NoLostExit, WakerInv
  <2>2. OwnerInv
    BY OwnerInit
  <2> QED BY SMTT(60), <2>1, <2>2, InitType, QueueInit, PidInit
<1>2. IInv /\ [Next]_vars => IInv'
  BY SMTT(60), NextType, QueueNext, OwnerNext, PidNext, ExitNext, WakerNext
<1> QED BY <1>1, <1>2, PTL DEF Spec

\* As long as idle is not restarted and no sleep runs past the wrap of the tick
\* counter, a blocked process always has exactly one thing that will wake it.
THEOREM WakerCorrect ==
  ASSUME PID_INIT \notin ExecTargets, SleepMayWrap = 0
  PROVE  Spec => []BlockedHasWaker
<1>1. TypeOK /\ ExitInv /\ WakerInv => BlockedHasWaker
  <2> SUFFICES ASSUME TypeOK, ExitInv, WakerInv, NEW p \in Pids, state[p] = "BLOCKED"
               PROVE  \/ frame[p] = "wait" /\ waiting[p] = 1 /\ wakeup_tick[p] = 0
                      \/ frame[p] = "user" /\ waiting[p] = 0 /\ wakeup_tick[p] # 0
    BY DEF BlockedHasWaker
  <2>1. waiting[p] \in {0, 1} /\ tick_count \in Nat
    BY SMTT(60), TickAssumption DEF TypeOK
  <2>2. frame[p] = "wait" <=> waiting[p] = 1
    BY DEF ExitInv
  <2>3. /\ frame[p] = "wait" => wakeup_tick[p] = 0
        /\ frame[p] # "wait" => frame[p] = "user" /\ wakeup_tick[p] > tick_count
    BY DEF WakerInv
  <2> QED BY SMTT(60), <2>1, <2>2, <2>3
<1> QED BY <1>1, WakerInductive, PTL

\* Under the same two conditions proc_sleep() is exact: nothing but SYS_EXEC
\* wakes a sleeper before the tick it asked for, and that tick does.
THEOREM SleepCorrect ==
  ASSUME PID_INIT \notin ExecTargets, SleepMayWrap = 0
  PROVE  Spec => SleepExact
<1> DEFINE IInv == TypeOK /\ QueueExact /\ OwnerInv /\ PidInv /\ ExitInv /\ WakerInv
<1>1. IInv /\ [Next]_vars => [SleepStep]_vars
  BY WakerNext
<1> QED BY <1>1, WakerInductive, PTL DEF Spec, SleepExact, SleepStep
=============================================================================
