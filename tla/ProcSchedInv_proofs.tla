------------------------ MODULE ProcSchedInv_proofs ------------------------
(***************************************************************************)
(* The safety invariants of ProcSched for every size of the process table, *)
(* every set of boot processes and every mix of system calls.              *)
(***************************************************************************)
EXTENDS ProcSched_proofs

-----------------------------------------------------------------------------
(* The ready queue *)

\* The switch turns READY into RUNNING and back but never changes which
\* processes are one of the two.
LEMMA SwitchQueue ==
  ASSUME TypeOK,
         NEW st \in [Pids -> States], NEW q \in Seq(Pids), NEW ts, NEW tf,
         sched_switch_esp(st, q, ts, tf), QueueHolds(st, q)
  PROVE  QueueExact'
<1>1. ready_queue' = q
  BY DEF sched_switch_esp
<1>2. CASE state' = st
  BY <1>1, <1>2 DEF QueueExact, QueueHolds
<1>3. ASSUME NEW i \in DOMAIN q, q[i] # current_proc, st[q[i]] = "READY",
             state' = [st EXCEPT ![current_proc] = IF st[current_proc] = "RUNNING" THEN "READY"
                                                   ELSE st[current_proc],
                                 ![q[i]] = "RUNNING"]
      PROVE  QueueExact'
  <2>1. q[i] \in Pids
    BY LenProperties, ElementOfSeq
  <2>2. \A p \in Pids : state'[p] \in {"READY", "RUNNING"} <=> st[p] \in {"READY", "RUNNING"}
    BY <1>3, <2>1
  <2> QED BY <1>1, <2>2 DEF QueueExact, QueueHolds
<1> QED BY <1>2, <1>3 DEF sched_switch_esp, Best, Candidates

\* The queue has room for every process, so that an add of processes that are
\* not queued yet is never dropped.
LEMMA AddQueue ==
  ASSUME NEW q \in Seq(Pids), NEW w \in Seq(Pids),
         IsInjective(q), IsInjective(w), Range(q) \cap Range(w) = {}
  PROVE  /\ sched_add(q, w) \in Seq(Pids) /\ IsInjective(sched_add(q, w))
         /\ Range(sched_add(q, w)) = Range(q) \cup Range(w)
<1> DEFINE c == q \o w
<1>1. c \in Seq(Pids) /\ IsInjective(c) /\ Range(c) = Range(q) \cup Range(w)
  BY ConcatQueue
<1> HIDE DEF c
<1>2. Len(c) \in Nat /\ c \in [1 .. Len(c) -> Pids]
  BY <1>1, LenProperties
<1>3. IsFiniteSet(Pids) /\ Cardinality(Pids) = MAX_PROCS
  <2>1. 0 \in Int /\ MAX_PROCS - 1 \in Int
    BY ProcsAssumption
  <2> QED BY <2>1, FS_Interval, ProcsAssumption DEF Pids
<1>4. Cardinality(1 .. Len(c)) <= MAX_PROCS
  <2>1. c \in Injection(1 .. Len(c), Pids)
    BY <1>1, <1>2 DEF Injection
  <2> QED BY <1>3, <2>1, FS_Injection
<1>5. Cardinality(1 .. Len(c)) = Len(c)
  <2>1. 1 \in Int /\ Len(c) \in Int
    BY <1>2
  <2>2. Cardinality(1 .. Len(c)) = IF 1 > Len(c) THEN 0 ELSE Len(c) - 1 + 1
    BY <2>1, FS_Interval
  <2> QED BY <1>2, <2>2
<1>6. sched_add(q, w) = c
  BY <1>4, <1>5 DEF sched_add, c
<1> QED BY <1>1, <1>6

\* The effect of one queue operation on a queue that matches the states: a
\* process that leaves the two queued states is removed, ...
LEMMA RemoveHolds ==
  ASSUME NEW st \in [Pids -> States], NEW q \in Seq(Pids), QueueHolds(st, q),
         NEW p \in Pids, NEW s \in {"BLOCKED", "ZOMBIE"}
  PROVE  QueueHolds([st EXCEPT ![p] = s], sched_remove(q, p))
  BY RemoveQueue DEF QueueHolds

\* ... and processes that enter them are added.
LEMMA AddHolds ==
  ASSUME NEW st \in [Pids -> States], NEW q \in Seq(Pids), QueueHolds(st, q),
         NEW S \in SUBSET Pids, \A p \in S : st[p] \notin {"READY", "RUNNING"},
         NEW w \in Seq(Pids), IsInjective(w), Range(w) = S
  PROVE  /\ QueueHolds(Woken(st, S), sched_add(q, w))
         /\ sched_add(q, w) \in Seq(Pids)
<1>1. Range(q) \cap Range(w) = {}
  BY DEF QueueHolds
<1>2. /\ IsInjective(sched_add(q, w)) /\ sched_add(q, w) \in Seq(Pids)
      /\ Range(sched_add(q, w)) = Range(q) \cup S
  BY <1>1, AddQueue DEF QueueHolds
<1>3. {p \in Pids : Woken(st, S)[p] \in {"READY", "RUNNING"}} = Range(q) \cup S
  BY DEF QueueHolds, Woken
<1> QED BY <1>2, <1>3 DEF QueueHolds

\* A sequence of one process.
LEMMA Singleton ==
  ASSUME NEW p \in Pids
  PROVE  <<p>> \in Seq(Pids) /\ IsInjective(<<p>>) /\ Range(<<p>>) = {p}
<1>1. DOMAIN <<p>> = {1} /\ <<p>>[1] = p
  OBVIOUS
<1> QED BY <1>1 DEF IsInjective, Range

\* At boot the queue lists the boot processes in the order of their pids.
LEMMA QueueInit == Init => QueueExact
<1> SUFFICES ASSUME Init PROVE QueueExact
  OBVIOUS
<1>1. Len(UserPrios) \in Nat
  BY BootAssumption, LenProperties
<1>2. /\ ready_queue = [i \in 1 .. Len(UserPrios) + 1 |-> i]
      /\ state = [p \in Pids |-> IF p \in BootPids THEN "READY" ELSE "UNUSED"]
  BY DEF Init
<1>3. IsInjective(ready_queue)
  BY <1>2 DEF IsInjective
<1>4. Range(ready_queue) = 1 .. Len(UserPrios) + 1
  BY <1>2 DEF Range
<1>5. BootPids = 1 .. Len(UserPrios) + 1 /\ BootPids \subseteq Pids
  BY <1>1, BootAssumption, ProcsAssumption DEF BootPids, PID_INIT, Pids
<1>6. {p \in Pids : state[p] \in {"READY", "RUNNING"}} = BootPids
  BY <1>2, <1>5
<1> QED BY <1>3, <1>4, <1>5, <1>6 DEF QueueExact, QueueHolds

\* Every handler pairs its state changes with the queue operations.
LEMMA QueueNext == TypeOK /\ QueueExact /\ [Next]_vars => QueueExact'
<1> SUFFICES ASSUME TypeOK, QueueExact, [Next]_vars PROVE QueueExact'
  OBVIOUS
<1> DEFINE cur == current_proc
<1>a. /\ state \in [Pids -> States] /\ ready_queue \in Seq(Pids)
      /\ QueueHolds(state, ready_queue)
  BY DEF TypeOK, QueueExact
<1>b. ASSUME NEW n, Calls(n) PROVE cur \in Pids
  BY <1>b DEF Calls, TypeOK
<1>c. ASSUME NEW ts, NEW tf, sched_switch_esp(state, ready_queue, ts, tf) PROVE QueueExact'
  BY <1>a, <1>c, SwitchQueue
<1>d. ASSUME cur \in Pids, sched_yield([state EXCEPT ![cur] = "BLOCKED"], sched_remove(ready_queue, cur))
      PROVE  QueueExact'
  <2> DEFINE st == [state EXCEPT ![cur] = "BLOCKED"]
             q == sched_remove(ready_queue, cur)
  <2>1. st \in [Pids -> States] /\ q \in Seq(Pids) /\ QueueHolds(st, q)
    BY ZenonT(60), <1>a, <1>d, RemoveHolds, RemoveQueue DEF States
  <2>2. sched_switch_esp(st, q, [timeslice EXCEPT ![cur] = 0], 1)
    BY <1>d DEF sched_yield
  <2> HIDE DEF st, q
  <2> QED BY SMTT(60), <2>1, <2>2, SwitchQueue
<1>1. CASE sched_start
  <2>1. PICK i \in DOMAIN ready_queue :
          /\ state[ready_queue[i]] = "READY"
          /\ state' = [state EXCEPT ![ready_queue[i]] = "RUNNING"]
    BY ZenonT(60), <1>1 DEF sched_start, Best, Candidates
  <2>2. \A p \in Pids : state'[p] \in {"READY", "RUNNING"} <=> state[p] \in {"READY", "RUNNING"}
    BY <1>a, <2>1
  <2> QED BY <1>1, <1>a, <2>2 DEF sched_start, QueueExact, QueueHolds
<1>2. CASE timer_handler
  <2> DEFINE due == Due((tick_count + 1) % TICK_MOD)
  <2>1. due \in SUBSET Pids /\ \A p \in due : state[p] \notin {"READY", "RUNNING"}
    BY DEF Due
  <2>2. PICK w \in Ascending(due) :
          sched_switch_esp(Woken(state, due), sched_add(ready_queue, w), timeslice, 1)
    BY <1>2 DEF timer_handler
  <2> HIDE DEF due
  <2>3. Woken(state, due) \in [Pids -> States]
    BY <1>a DEF Woken, States
  <2>4. w \in Seq(Pids) /\ IsInjective(w) /\ Range(w) = due
    BY SMTT(60), <2>1, <2>2, AscendingType
  <2>5. /\ QueueHolds(Woken(state, due), sched_add(ready_queue, w))
        /\ sched_add(ready_queue, w) \in Seq(Pids)
    BY SMTT(60), <1>a, <2>1, <2>4, AddHolds
  <2> QED BY <2>2, <2>3, <2>5, SwitchQueue
<1>3. CASE sys_yield
  BY <1>3, <1>c DEF sys_yield, Return
<1>4. CASE sys_execve
  BY <1>4, <1>c DEF sys_execve
<1>5. ASSUME NEW t \in SleepTicks, sys_sleep(t) PROVE QueueExact'
  BY SMTT(60), <1>5, <1>b, <1>c, <1>d DEF sys_sleep, Return
<1>6. CASE sys_exit
  <2> DEFINE z == [state EXCEPT ![cur] = "ZOMBIE"]
             W == WaitingParent(z, cur)
             st == Woken(z, W)
  <2>1. cur \in Pids
    BY <1>6, <1>b DEF sys_exit
  <2>2. PICK w \in Ascending(W) : sched_yield(st, sched_remove(sched_add(ready_queue, w), cur))
    BY SMTT(60), <1>6 DEF sys_exit
  <2>3. W \in SUBSET Pids /\ cur \notin W /\ \A p \in W : state[p] \notin {"READY", "RUNNING"}
    BY SMTT(60), <1>a, <2>1 DEF WaitingParent, TypeOK
  <2>4. w \in Seq(Pids) /\ IsInjective(w) /\ Range(w) = W
    BY ZenonT(60), <2>2, <2>3, AscendingType
  <2>5. st = [Woken(state, W) EXCEPT ![cur] = "ZOMBIE"] /\ Woken(state, W) \in [Pids -> States]
    BY ZenonT(60), <1>a, <2>3 DEF Woken, States
  <2> HIDE DEF W, st
  <2>6. /\ QueueHolds(Woken(state, W), sched_add(ready_queue, w))
        /\ sched_add(ready_queue, w) \in Seq(Pids)
    BY SMTT(60), <1>a, <2>3, <2>4, AddHolds
  <2>7. /\ QueueHolds(st, sched_remove(sched_add(ready_queue, w), cur))
        /\ sched_remove(sched_add(ready_queue, w), cur) \in Seq(Pids)
        /\ st \in [Pids -> States]
    BY ZenonT(60), <2>1, <2>5, <2>6, RemoveHolds, RemoveQueue DEF States
  <2>8. sched_switch_esp(st, sched_remove(sched_add(ready_queue, w), cur),
                         [timeslice EXCEPT ![cur] = 0], 1)
    BY <2>2 DEF sched_yield
  <2> QED BY SMTT(60), <2>7, <2>8, SwitchQueue
<1>7. CASE sys_fork
  <2>1. PICK p \in pid_alloc :
          /\ state[p] = "UNUSED"
          /\ sched_switch_esp([state EXCEPT ![p] = "READY"], sched_add(ready_queue, <<p>>),
               [timeslice EXCEPT ![p] = timeslice_len(priority[cur])], tick_flag)
    BY ZenonT(60), <1>7 DEF sys_fork
  <2>2. p \in Pids
    BY PidTypes
  <2>3. [state EXCEPT ![p] = "READY"] = Woken(state, {p})
    BY ZenonT(60), <1>a, <2>2 DEF Woken
  <2>4. Woken(state, {p}) \in [Pids -> States]
    BY <1>a DEF Woken, States
  <2>5. /\ QueueHolds(Woken(state, {p}), sched_add(ready_queue, <<p>>))
        /\ sched_add(ready_queue, <<p>>) \in Seq(Pids)
    BY ZenonT(60), <1>a, <2>1, <2>2, Singleton, AddHolds
  <2> QED BY ZenonT(60), <2>1, <2>3, <2>4, <2>5, SwitchQueue
<1>8. CASE sys_fork_fails
  BY <1>8, <1>c DEF sys_fork_fails, Return
<1>9. ASSUME NEW t \in ExecTargets \cap Pids, sys_exec(t) PROVE QueueExact'
  <2> DEFINE r == sched_remove(ready_queue, t)
             st == [state EXCEPT ![t] = "BLOCKED"]
  <2>1. QueueHolds(st, r) /\ r \in Seq(Pids) /\ st \in [Pids -> States]
    BY ZenonT(60), <1>a, RemoveHolds, RemoveQueue DEF States
  <2>2. [state EXCEPT ![t] = "READY"] = Woken(st, {t}) /\ st[t] = "BLOCKED"
    BY ZenonT(60), <1>a DEF Woken
  <2>3. sched_switch_esp([state EXCEPT ![t] = "READY"], sched_add(r, <<t>>),
          [timeslice EXCEPT ![t] = timeslice_len(priority[t])], tick_flag)
    BY <1>9 DEF sys_exec
  <2> HIDE DEF r, st
  <2>4. QueueHolds(Woken(st, {t}), sched_add(r, <<t>>)) /\ sched_add(r, <<t>>) \in Seq(Pids)
    <3>1. {t} \in SUBSET Pids /\ \A p \in {t} : st[p] \notin {"READY", "RUNNING"}
      BY <2>2
    <3>2. <<t>> \in Seq(Pids) /\ IsInjective(<<t>>) /\ Range(<<t>>) = {t}
      BY Singleton
    <3> QED BY ZenonT(60), <2>1, <3>1, <3>2, AddHolds
  <2>5. Woken(st, {t}) \in [Pids -> States]
    BY <2>1 DEF Woken, States
  <2> QED BY ZenonT(60), <2>2, <2>3, <2>4, <2>5, SwitchQueue
<1>10. ASSUME NEW a, NEW w, cur \in Pids, proc_wait(a, w) PROVE QueueExact'
  <2>1. ASSUME NEW c \in Reapable(cur, a), proc_destroy(w, c),
               sched_switch_esp([state EXCEPT ![c] = "UNUSED"], ready_queue,
                                [timeslice EXCEPT ![c] = 0], tick_flag)
        PROVE  QueueExact'
    <3> DEFINE st == [state EXCEPT ![c] = "UNUSED"]
    <3>1. c \in Pids /\ state[c] = "ZOMBIE"
      BY DEF Reapable
    <3>2. QueueHolds(st, ready_queue) /\ st \in [Pids -> States]
      BY <1>a, <3>1 DEF QueueHolds, States
    <3>3. sched_switch_esp(st, ready_queue, [timeslice EXCEPT ![c] = 0], tick_flag)
      BY <2>1
    <3> HIDE DEF st
    <3> QED BY <1>a, <3>2, <3>3, SwitchQueue
  <2> QED BY ZenonT(60), <1>10, <1>d, <2>1 DEF proc_wait, proc_wait_block
<1>11. ASSUME NEW a, sys_wait(a) PROVE QueueExact'
  BY SMTT(60), <1>10, <1>11, <1>b DEF sys_wait
<1>12. CASE proc_wait_resume
  BY SMTT(60), <1>10, <1>12 DEF proc_wait_resume, TypeOK
<1>13. CASE UNCHANGED vars
  BY <1>13 DEF vars, QueueExact, QueueHolds
<1> QED BY SMTT(60), <1>1, <1>2, <1>3, <1>4, <1>5, <1>6, <1>7, <1>8, <1>9, <1>11, <1>12, <1>13 DEF Next

\* The ready queue always holds the READY and the RUNNING processes, each once:
\* no handler loses a process, queues it twice or leaves a dead one behind.
THEOREM QueueCorrect == Spec => []QueueExact
<1>1. Init => TypeOK /\ QueueExact
  BY InitType, QueueInit
<1>2. TypeOK /\ QueueExact /\ [Next]_vars => (TypeOK /\ QueueExact)'
  BY SMTT(60), NextType, QueueNext
<1> QED BY <1>1, <1>2, PTL DEF Spec

-----------------------------------------------------------------------------
(* The pids *)

\* PidsExact and LowestPidFirst with what makes them inductive: slot 0 stays
\* unused, the current process has a slot, and no process is its own child, so
\* that proc_wait() destroys neither slot 0 nor its caller.
PidInv ==
  /\ PidsExact /\ LowestPidFirst
  /\ state[PID_KERNEL] = "UNUSED"
  /\ sched_enabled = 1 => state[current_proc] # "UNUSED"
  /\ \A p \in Pids : state[p] # "UNUSED" => ppid[p] # p

\* The switch neither takes a slot into use nor gives one up.
LEMMA SwitchUnused ==
  ASSUME TypeOK,
         NEW st \in [Pids -> States], NEW q \in Seq(Pids), NEW ts, NEW tf,
         sched_switch_esp(st, q, ts, tf)
  PROVE  /\ \A p \in Pids : state'[p] = "UNUSED" <=> st[p] = "UNUSED"
         /\ sched_enabled = 1 /\ st[current_proc] # "UNUSED" => state'[current_proc'] # "UNUSED"
<1>1. CASE state' = st /\ UNCHANGED current_proc
  BY <1>1
<1>2. ASSUME NEW i \in DOMAIN q, st[q[i]] = "READY", current_proc' = q[i],
             state' = [st EXCEPT ![current_proc] = IF st[current_proc] = "RUNNING" THEN "READY"
                                                   ELSE st[current_proc],
                                 ![q[i]] = "RUNNING"]
      PROVE  /\ \A p \in Pids : state'[p] = "UNUSED" <=> st[p] = "UNUSED"
             /\ state'[current_proc'] # "UNUSED"
  <2>1. q[i] \in Pids
    BY SMTT(60), LenProperties, ElementOfSeq
  <2> QED BY <1>2, <2>1
<1> QED BY SMTT(60), <1>1, <1>2 DEF sched_switch_esp, Best, Candidates

\* A handler that takes no slot into use and gives none up, and leaves the
\* bitmap, the hint and the parents alone.
LEMMA SamePids ==
  ASSUME TypeOK, PidInv, UNCHANGED <<pidVars, ppid, sched_enabled>>,
         NEW st \in [Pids -> States], NEW q \in Seq(Pids), NEW ts, NEW tf,
         sched_switch_esp(st, q, ts, tf),
         \A p \in Pids : st[p] = "UNUSED" <=> state[p] = "UNUSED"
  PROVE  PidInv'
<1>1. \A p \in Pids : state'[p] = "UNUSED" <=> state[p] = "UNUSED"
  BY SwitchUnused
<1>2. PID_KERNEL \in Pids
  BY SMTT(60), ProcsAssumption DEF PID_KERNEL, Pids
<1>3. sched_enabled = 1 => state'[current_proc'] # "UNUSED"
  BY ZenonT(60), SwitchUnused DEF PidInv, TypeOK
<1> QED BY SMTT(60), <1>1, <1>2, <1>3 DEF PidInv, PidsExact, LowestPidFirst, pidVars

\* pid_alloc() returns the lowest free pid.
LEMMA AllocLowest ==
  ASSUME TypeOK, PidInv, NEW p \in pid_alloc
  PROVE  PID_INIT .. p - 1 \subseteq pid_bitmap
<1>1. pid_search_hint \in Nat /\ pid_search_hint >= 1
  BY ProcsAssumption DEF TypeOK, PID_INIT
<1>2. p \in Pids \ {PID_KERNEL} /\ p \notin pid_bitmap
  BY PidTypes
<1>3. p >= pid_search_hint
  BY <1>1, <1>2, ProcsAssumption DEF PidInv, LowestPidFirst, Pids, PID_KERNEL, PID_INIT
<1>4. \A x \in pid_search_hint .. MAX_PROCS - 1 : x \notin pid_bitmap => p <= x
  BY SMTT(60), <1>1, <1>2, <1>3, ProcsAssumption DEF pid_alloc, Pids
<1> SUFFICES ASSUME NEW x \in PID_INIT .. p - 1 PROVE x \in pid_bitmap
  OBVIOUS
<1> QED BY <1>1, <1>2, <1>4, ProcsAssumption DEF PidInv, LowestPidFirst, Pids, PID_INIT

\* At boot the boot processes have the lowest pids.
LEMMA PidInit == Init => PidInv
<1> SUFFICES ASSUME Init PROVE PidInv
  OBVIOUS
<1>1. Len(UserPrios) \in Nat
  BY BootAssumption, LenProperties
<1>2. BootPids \subseteq Pids /\ PID_KERNEL \notin BootPids /\ PID_KERNEL \in Pids
  BY SMTT(60), <1>1, BootAssumption, ProcsAssumption DEF BootPids, PID_INIT, PID_KERNEL, Pids
<1>3. PidsExact /\ state[PID_KERNEL] = "UNUSED"
  BY SMTT(60), <1>2 DEF Init, PidsExact
<1>4. LowestPidFirst
  BY SMTT(60), <1>1 DEF Init, LowestPidFirst, hint_alloc, BootPids, PID_INIT
<1>5. sched_enabled = 0 /\ \A p \in Pids : state[p] # "UNUSED" => ppid[p] # p
  BY SMTT(60), <1>2 DEF Init
<1> QED BY SMTT(60), <1>3, <1>4, <1>5 DEF PidInv

\* Every step keeps the bitmap, the hint and the process table in agreement.
LEMMA PidNext == TypeOK /\ PidInv /\ [Next]_vars => PidInv'
<1> SUFFICES ASSUME TypeOK, PidInv, [Next]_vars PROVE PidInv'
  OBVIOUS
<1> DEFINE cur == current_proc
<1>a. state \in [Pids -> States] /\ ready_queue \in Seq(Pids) /\ PID_KERNEL \in Pids
  BY SMTT(60), ProcsAssumption DEF TypeOK, PID_KERNEL, Pids
<1>b. ASSUME NEW n, Calls(n) PROVE cur \in Pids
  BY <1>b DEF Calls, TypeOK
<1>c. ASSUME NEW ts, NEW tf, sched_switch_esp(state, ready_queue, ts, tf),
             UNCHANGED <<pidVars, ppid, sched_enabled>>
      PROVE  PidInv'
  BY SMTT(60), <1>a, <1>c, SamePids
<1>d. ASSUME sched_enabled = 1, UNCHANGED <<pidVars, ppid, sched_enabled>>,
             sched_yield([state EXCEPT ![cur] = "BLOCKED"], sched_remove(ready_queue, cur))
      PROVE  PidInv'
  <2> DEFINE st == [state EXCEPT ![cur] = "BLOCKED"]
             q == sched_remove(ready_queue, cur)
  <2>1. /\ st \in [Pids -> States] /\ q \in Seq(Pids)
        /\ \A p \in Pids : st[p] = "UNUSED" <=> state[p] = "UNUSED"
    BY ZenonT(60), <1>a, <1>d, RemoveQueue DEF States, PidInv
  <2>2. sched_switch_esp(st, q, [timeslice EXCEPT ![cur] = 0], 1)
    BY <1>d DEF sched_yield
  <2> HIDE DEF st, q
  <2> QED BY SMTT(60), <1>d, <2>1, <2>2, SamePids
<1>1. CASE sched_start
  <2>1. PICK i \in DOMAIN ready_queue :
          /\ state[ready_queue[i]] = "READY" /\ current_proc' = ready_queue[i]
          /\ state' = [state EXCEPT ![ready_queue[i]] = "RUNNING"]
    BY ZenonT(60), <1>1 DEF sched_start, Best, Candidates
  <2>2. ready_queue[i] \in Pids
    BY LenProperties, ElementOfSeq DEF TypeOK
  <2>3. /\ \A p \in Pids : state'[p] = "UNUSED" <=> state[p] = "UNUSED"
        /\ state'[current_proc'] # "UNUSED"
    BY <1>a, <2>1, <2>2
  <2> QED BY <1>1, <1>a, <2>3
      DEF sched_start, PidInv, PidsExact, LowestPidFirst, pidVars, pcbVars
<1>2. CASE timer_handler
  <2> DEFINE due == Due((tick_count + 1) % TICK_MOD)
  <2>1. due \in SUBSET Pids /\ \A p \in due : state[p] = "BLOCKED"
    BY DEF Due
  <2>2. PICK w \in Ascending(due) :
          sched_switch_esp(Woken(state, due), sched_add(ready_queue, w), timeslice, 1)
    BY <1>2 DEF timer_handler
  <2> HIDE DEF due
  <2>3. /\ Woken(state, due) \in [Pids -> States]
        /\ \A p \in Pids : Woken(state, due)[p] = "UNUSED" <=> state[p] = "UNUSED"
    BY SMTT(60), <1>a, <2>1 DEF Woken, States
  <2>4. sched_add(ready_queue, w) \in Seq(Pids)
    BY SMTT(60), <1>a, <2>1, <2>2, AscendingType, AddType
  <2>5. UNCHANGED <<pidVars, ppid, sched_enabled>>
    BY <1>2 DEF timer_handler, pcbVars
  <2> QED BY <2>2, <2>3, <2>4, <2>5, SamePids
<1>3. CASE sys_yield
  BY <1>3, <1>c DEF sys_yield, Return, pcbVars, clockVars
<1>4. CASE sys_execve
  BY SMTT(60), <1>4, <1>c DEF sys_execve, pcbVars, clockVars
<1>5. ASSUME NEW t \in SleepTicks, sys_sleep(t) PROVE PidInv'
  BY SMTT(60), <1>5, <1>c, <1>d DEF sys_sleep, Return, Calls, pcbVars, clockVars
<1>6. CASE sys_exit
  <2> DEFINE z == [state EXCEPT ![cur] = "ZOMBIE"]
             W == WaitingParent(z, cur)
             st == Woken(z, W)
  <2>1. cur \in Pids /\ state[cur] # "UNUSED"
    BY SMTT(60), <1>6, <1>b DEF sys_exit, Calls, PidInv
  <2>2. PICK w \in Ascending(W) : sched_yield(st, sched_remove(sched_add(ready_queue, w), cur))
    BY <1>6 DEF sys_exit
  <2>3. W \in SUBSET Pids /\ cur \notin W /\ \A p \in W : state[p] = "BLOCKED"
    BY SMTT(60), <1>a, <2>1 DEF WaitingParent, TypeOK
  <2>4. /\ st \in [Pids -> States]
        /\ \A p \in Pids : st[p] = "UNUSED" <=> state[p] = "UNUSED"
    BY ZenonT(60), <1>a, <2>1, <2>3 DEF Woken, States
  <2> HIDE DEF W, st
  <2>5. sched_remove(sched_add(ready_queue, w), cur) \in Seq(Pids)
    BY <1>a, <2>2, <2>3, AscendingType, AddType, RemoveQueue
  <2>6. sched_switch_esp(st, sched_remove(sched_add(ready_queue, w), cur),
                         [timeslice EXCEPT ![cur] = 0], 1)
    BY <2>2 DEF sched_yield
  <2>7. UNCHANGED <<pidVars, ppid, sched_enabled>>
    BY <1>6 DEF sys_exit, pcbVars, clockVars
  <2> QED BY SMTT(60), <2>4, <2>5, <2>6, <2>7, SamePids
<1>7. CASE sys_fork
  <2> DEFINE st(p) == [state EXCEPT ![p] = "READY"]
  <2>1. PICK p \in pid_alloc :
          /\ state[p] = "UNUSED"
          /\ proc_create(p, cur)
          /\ sched_switch_esp(st(p), sched_add(ready_queue, <<p>>),
               [timeslice EXCEPT ![p] = timeslice_len(priority[cur])], tick_flag)
    BY ZenonT(60), <1>7 DEF sys_fork
  <2>2. p \in Pids \ {PID_KERNEL} /\ <<p>> \in Seq(Pids)
    BY PidTypes
  <2>3. st(p) \in [Pids -> States] /\ sched_add(ready_queue, <<p>>) \in Seq(Pids)
    BY ZenonT(60), <1>a, <2>2, AddType DEF States
  <2>4. cur \in Pids /\ state[cur] # "UNUSED" /\ sched_enabled = 1 /\ UNCHANGED sched_enabled
    BY <1>7, <1>b DEF sys_fork, Calls, clockVars, PidInv
  <2>5. /\ \A x \in Pids : state'[x] = "UNUSED" <=> (x # p /\ state[x] = "UNUSED")
        /\ state'[current_proc'] # "UNUSED"
    <3>1. \A x \in Pids : st(p)[x] = "UNUSED" <=> (x # p /\ state[x] = "UNUSED")
      BY SMTT(60), <1>a, <2>2
    <3> HIDE DEF st
    <3> QED BY SMTT(60), <2>1, <2>3, <2>4, <3>1, SwitchUnused
  <2>6. PidsExact'
    BY SMTT(60), <2>1, <2>2, <2>5 DEF proc_create, PidInv, PidsExact
  <2>7. LowestPidFirst'
    <3>1. PID_INIT .. p - 1 \subseteq pid_bitmap
      BY AllocLowest
    <3>2. pid_bitmap' = pid_bitmap \cup {p} /\ pid_search_hint' = hint_alloc(p)
      BY SMTT(60), <2>1 DEF proc_create
    <3> QED BY SMTT(60), <2>2, <3>1, <3>2, ProcsAssumption DEF LowestPidFirst, hint_alloc, Pids, PID_INIT
  <2>8. \A x \in Pids : state'[x] # "UNUSED" => ppid'[x] # x
    BY ZenonT(60), <2>1, <2>2, <2>4, <2>5 DEF proc_create, PidInv, TypeOK
  <2> QED BY SMTT(60), <1>a, <2>2, <2>4, <2>5, <2>6, <2>7, <2>8 DEF PidInv
<1>8. CASE sys_fork_fails
  <2>1. sched_switch_esp(state, ready_queue, timeslice, tick_flag) /\ UNCHANGED <<ppid, sched_enabled>>
    BY <1>8 DEF sys_fork_fails, Return, pcbVars, clockVars
  <2>2. CASE UNCHANGED pidVars
    BY <1>c, <2>1, <2>2
  <2>3. ASSUME NEW p \in pid_alloc,
               pid_bitmap' = pid_free(pid_bitmap \cup {p}, hint_alloc(p), p).bits,
               pid_search_hint' = pid_free(pid_bitmap \cup {p}, hint_alloc(p), p).hint
        PROVE  PidInv'
    <3>1. p \in Pids \ {PID_KERNEL} /\ p \notin pid_bitmap
      BY SMTT(60), PidTypes
    <3>2. pid_bitmap' = pid_bitmap
      BY SMTT(60), <2>3, <3>1 DEF pid_free
    <3>3. LowestPidFirst'
      <4>1. pid_search_hint' = IF p < hint_alloc(p) THEN p ELSE hint_alloc(p)
        BY SMTT(60), <2>3, <3>1 DEF pid_free
      <4>2. PID_INIT .. p - 1 \subseteq pid_bitmap
        BY AllocLowest
      <4> QED BY SMTT(60), <3>1, <3>2, <4>1, <4>2, ProcsAssumption DEF LowestPidFirst, hint_alloc, Pids, PID_INIT
    <3>4. /\ \A x \in Pids : state'[x] = "UNUSED" <=> state[x] = "UNUSED"
          /\ sched_enabled = 1 => state'[current_proc'] # "UNUSED"
      BY SMTT(60), <1>a, <2>1, SwitchUnused DEF PidInv
    <3> QED BY SMTT(60), <1>a, <2>1, <3>2, <3>3, <3>4 DEF PidInv, PidsExact
  <2> QED BY ZenonT(60), <1>8, <2>2, <2>3 DEF sys_fork_fails
<1>9. ASSUME NEW t \in ExecTargets \cap Pids, sys_exec(t) PROVE PidInv'
  <2> DEFINE q == sched_add(sched_remove(ready_queue, t), <<t>>)
             st == [state EXCEPT ![t] = "READY"]
  <2>1. q \in Seq(Pids)
    <3>1. <<t>> \in Seq(Pids) /\ sched_remove(ready_queue, t) \in Seq(Pids)
      BY <1>a, RemoveQueue
    <3> QED BY ZenonT(60), <3>1, AddType
  <2>2. st \in [Pids -> States] /\ \A p \in Pids : st[p] = "UNUSED" <=> state[p] = "UNUSED"
    BY <1>9, <1>a DEF sys_exec, States
  <2>3. /\ sched_switch_esp(st, q, [timeslice EXCEPT ![t] = timeslice_len(priority[t])], tick_flag)
        /\ UNCHANGED <<pidVars, ppid, sched_enabled>>
    BY SMTT(60), <1>9 DEF sys_exec, pcbVars, clockVars
  <2> HIDE DEF q, st
  <2> QED BY SMTT(60), <2>1, <2>2, <2>3, SamePids
<1>10. ASSUME NEW a, NEW w, sched_enabled = 1, proc_wait(a, w) PROVE PidInv'
  <2>1. ASSUME NEW c \in Reapable(cur, a), proc_destroy(w, c),
               sched_switch_esp([state EXCEPT ![c] = "UNUSED"], ready_queue,
                                [timeslice EXCEPT ![c] = 0], tick_flag)
        PROVE  PidInv'
    <3> DEFINE st == [state EXCEPT ![c] = "UNUSED"]
    <3>1. /\ c \in Pids /\ state[c] = "ZOMBIE" /\ c # cur /\ c # PID_KERNEL
          /\ cur \in Pids /\ state[cur] # "UNUSED"
      BY SMTT(60), <1>10 DEF Reapable, PidInv, TypeOK
    <3>2. /\ st \in [Pids -> States] /\ st[cur] # "UNUSED"
          /\ \A p \in Pids : st[p] = "UNUSED" <=> (p = c \/ state[p] = "UNUSED")
      BY <1>a, <3>1 DEF States
    <3>3. sched_switch_esp(st, ready_queue, [timeslice EXCEPT ![c] = 0], tick_flag)
      BY <2>1
    <3> HIDE DEF st
    <3>4. /\ \A p \in Pids : state'[p] = "UNUSED" <=> (p = c \/ state[p] = "UNUSED")
          /\ state'[current_proc'] # "UNUSED"
      BY SMTT(60), <1>10, <1>a, <3>2, <3>3, SwitchUnused
    <3>5. c \in pid_bitmap
      BY SMTT(60), <3>1 DEF PidInv, PidsExact
    <3>6. /\ pid_bitmap' = pid_bitmap \ {c}
          /\ pid_search_hint' = IF c < pid_search_hint THEN c ELSE pid_search_hint
      BY SMTT(60), <2>1, <3>1, <3>5 DEF proc_destroy, pid_free
    <3>7. PidsExact'
      BY SMTT(60), <3>1, <3>4, <3>6 DEF PidInv, PidsExact
    <3>8. LowestPidFirst'
      <4>1. c \in Nat /\ pid_search_hint \in Nat
        BY SMTT(60), <3>1, ProcsAssumption DEF Pids, TypeOK, PID_INIT
      <4>2. PID_INIT .. pid_search_hint - 1 \subseteq pid_bitmap
        BY DEF PidInv, LowestPidFirst
      <4> QED BY SMTT(60), <3>6, <4>1, <4>2 DEF LowestPidFirst, PID_INIT
    <3>9. ppid' = [ppid EXCEPT ![c] = 0]
      BY SMTT(60), <2>1 DEF proc_destroy
    <3>10. \A p \in Pids : state'[p] # "UNUSED" => ppid'[p] # p
      BY SMTT(60), <3>4, <3>9 DEF PidInv, TypeOK
    <3> QED BY <1>a, <3>4, <3>7, <3>8, <3>10 DEF PidInv
  <2> QED BY ZenonT(60), <1>10, <1>d, <2>1 DEF proc_wait, proc_wait_block, clockVars
<1>11. ASSUME NEW a, sys_wait(a) PROVE PidInv'
  BY SMTT(60), <1>10, <1>11 DEF sys_wait, Calls
<1>12. CASE proc_wait_resume
  BY SMTT(60), <1>10, <1>12 DEF proc_wait_resume
<1>13. CASE UNCHANGED vars
  BY <1>13 DEF vars, PidInv, PidsExact, LowestPidFirst
<1> QED BY <1>1, <1>2, <1>3, <1>4, <1>5, <1>6, <1>7, <1>8, <1>9, <1>11, <1>12, <1>13 DEF Next

\* The pid bitmap always agrees with the process table, and pid_alloc() always
\* has its hint at or below the lowest free pid.
THEOREM PidsCorrect == Spec => [](PidsExact /\ LowestPidFirst)
<1>1. Init => TypeOK /\ PidInv
  BY InitType, PidInit
<1>2. TypeOK /\ PidInv /\ [Next]_vars => (TypeOK /\ PidInv)'
  BY SMTT(60), NextType, PidNext
<1>3. PidInv => PidsExact /\ LowestPidFirst
  BY SMTT(60) DEF PidInv
<1> QED BY <1>1, <1>2, <1>3, PTL DEF Spec

\* pid_alloc() always hands out the lowest free pid: no free pid ever lies below
\* the search hint.
THEOREM LowestPidCorrect == Spec => []LowestPidFirst
<1>1. PidsExact /\ LowestPidFirst => LowestPidFirst
  OBVIOUS
<1> QED BY <1>1, PidsCorrect, PTL
-----------------------------------------------------------------------------
(* The CPU *)

\* CpuOwner with what makes it inductive: PID 1 stays in its idle loop, so that
\* a process that gives up the CPU always has a successor.
OwnerInv ==
  /\ CpuOwner
  /\ frame[PID_INIT] = "idle" /\ state[PID_INIT] \in {"READY", "RUNNING"}

\* The switch hands the CPU from the current process to its successor when the
\* current process is no longer RUNNING.
LEMMA SwitchOwner ==
  ASSUME TypeOK, sched_enabled = 1, UNCHANGED sched_enabled,
         NEW st \in [Pids -> States], NEW q \in Seq(Pids), NEW ts, NEW tf,
         sched_switch_esp(st, q, ts, tf),
         \A p \in Pids : st[p] = "RUNNING" => p = current_proc,
         \/ st[current_proc] = "RUNNING"
         \/ tf = 1 /\ ts[current_proc] = 0 /\ Candidates(st, q, current_proc) # {}
  PROVE  /\ CpuOwner'
         /\ \A p \in Pids : st[p] \in {"READY", "RUNNING"} => state'[p] \in {"READY", "RUNNING"}
<1>1. current_proc \in Pids
  BY SMTT(60) DEF TypeOK
<1>2. CASE state' = st /\ UNCHANGED current_proc /\ st[current_proc] = "RUNNING"
  BY SMTT(60), <1>2 DEF CpuOwner
<1>3. ASSUME NEW i \in DOMAIN q, q[i] # current_proc, st[q[i]] = "READY", current_proc' = q[i],
             state' = [st EXCEPT ![current_proc] = IF st[current_proc] = "RUNNING" THEN "READY"
                                                   ELSE st[current_proc],
                                 ![q[i]] = "RUNNING"]
      PROVE  /\ CpuOwner'
             /\ \A p \in Pids : st[p] \in {"READY", "RUNNING"} => state'[p] \in {"READY", "RUNNING"}
  <2>1. q[i] \in Pids
    BY SMTT(60), LenProperties, ElementOfSeq
  <2> QED BY SMTT(60), <1>1, <1>3, <2>1 DEF CpuOwner
<1>4. \/ state' = st /\ UNCHANGED current_proc /\ st[current_proc] = "RUNNING"
      \/ \E i \in Best(Candidates(st, q, current_proc), q, priority') :
           /\ current_proc' = q[i]
           /\ state' = [st EXCEPT ![current_proc] = IF st[current_proc] = "RUNNING" THEN "READY"
                                                     ELSE st[current_proc],
                                  ![q[i]] = "RUNNING"]
  BY SMTT(60) DEF sched_switch_esp
<1>5. \A i \in Best(Candidates(st, q, current_proc), q, priority') :
        i \in DOMAIN q /\ q[i] # current_proc /\ st[q[i]] = "READY"
  BY DEF Best, Candidates
<1> QED BY SMTT(60), <1>2, <1>3, <1>4, <1>5

\* idle is a candidate in every queue that matches the states, whenever another
\* process gives up the CPU.
LEMMA IdleCandidate ==
  ASSUME NEW st \in [Pids -> States], NEW q \in Seq(Pids), QueueHolds(st, q),
         st[PID_INIT] = "READY", NEW p, p # PID_INIT
  PROVE  Candidates(st, q, p) # {}
<1>1. PID_INIT \in Range(q)
  BY ProcsAssumption DEF QueueHolds, Pids, PID_INIT
<1>2. PICK i \in DOMAIN q : q[i] = PID_INIT
  BY <1>1 DEF Range
<1> QED BY <1>2 DEF Candidates

\* Every step keeps the CPU with the RUNNING process.
LEMMA OwnerNext ==
  ASSUME PID_INIT \notin ExecTargets
  PROVE  TypeOK /\ QueueExact /\ OwnerInv /\ [Next]_vars => OwnerInv'
<1> SUFFICES ASSUME TypeOK, QueueExact, OwnerInv, [Next]_vars PROVE OwnerInv'
  BY SMTT(60)
<1> DEFINE cur == current_proc
<1>a. /\ state \in [Pids -> States] /\ ready_queue \in Seq(Pids) /\ PID_INIT \in Pids
      /\ QueueHolds(state, ready_queue) /\ frame \in [Pids -> Frames]
      /\ timeslice \in [Pids -> Nat]
  <2>1. PID_INIT \in Pids
    BY SMTT(60), ProcsAssumption DEF PID_INIT, Pids
  <2> QED BY <2>1 DEF TypeOK, QueueExact
<1>b. ASSUME sched_enabled = 1
      PROVE  /\ cur \in Pids /\ state[cur] = "RUNNING"
             /\ \A p \in Pids : state[p] = "RUNNING" => p = cur
             /\ cur # PID_INIT => state[PID_INIT] = "READY"
  BY SMTT(60), <1>a, <1>b DEF OwnerInv, CpuOwner, TypeOK
<1>c. ASSUME sched_enabled = 1, UNCHANGED <<sched_enabled>>, frame'[PID_INIT] = "idle",
             NEW st \in [Pids -> States], NEW q \in Seq(Pids), NEW ts, NEW tf,
             sched_switch_esp(st, q, ts, tf),
             \A p \in Pids : st[p] = "RUNNING" <=> p = cur,
             st[PID_INIT] \in {"READY", "RUNNING"}
      PROVE  OwnerInv'
  BY ZenonT(60), <1>a, <1>b, <1>c, SwitchOwner DEF OwnerInv
<1>d. ASSUME sched_enabled = 1, UNCHANGED sched_enabled, frame'[PID_INIT] = "idle", cur # PID_INIT,
             NEW st \in [Pids -> States], NEW q \in Seq(Pids), QueueHolds(st, q),
             sched_yield(st, q),
             \A p \in Pids : st[p] # "RUNNING",
             st[PID_INIT] = "READY"
      PROVE  OwnerInv'
  <2>1. Candidates(st, q, cur) # {}
    BY <1>d, IdleCandidate
  <2>2. sched_switch_esp(st, q, [timeslice EXCEPT ![cur] = 0], 1)
    BY <1>d DEF sched_yield
  <2>3. [timeslice EXCEPT ![cur] = 0][cur] = 0
    BY SMTT(60), <1>a, <1>b, <1>d
  <2>4. CpuOwner' /\ state'[PID_INIT] \in {"READY", "RUNNING"}
    BY ZenonT(60), <1>a, <1>d, <2>1, <2>2, <2>3, SwitchOwner
  <2> QED BY <1>d, <2>4 DEF OwnerInv
<1>e. ASSUME sched_enabled = 1, UNCHANGED sched_enabled, frame'[PID_INIT] = "idle", cur # PID_INIT,
             sched_yield([state EXCEPT ![cur] = "BLOCKED"], sched_remove(ready_queue, cur))
      PROVE  OwnerInv'
  <2> DEFINE st == [state EXCEPT ![cur] = "BLOCKED"]
             q == sched_remove(ready_queue, cur)
  <2>1. st \in [Pids -> States] /\ q \in Seq(Pids) /\ QueueHolds(st, q)
    BY ZenonT(60), <1>a, <1>b, <1>e, RemoveHolds, RemoveQueue DEF States
  <2>2. st[PID_INIT] = "READY" /\ \A p \in Pids : st[p] # "RUNNING"
    BY <1>a, <1>b, <1>e
  <2>3. sched_yield(st, q)
    BY <1>e
  <2> HIDE DEF st, q
  <2> QED BY <1>d, <1>e, <2>1, <2>2, <2>3
<1>f. ASSUME NEW n, Calls(n) PROVE sched_enabled = 1 /\ cur # PID_INIT
  BY <1>f DEF Calls, OwnerInv
<1>g. frame[PID_INIT] = "idle" /\ state[PID_INIT] \in {"READY", "RUNNING"}
  BY SMTT(60) DEF OwnerInv
<1>1. CASE sched_start
  <2>1. PICK i \in DOMAIN ready_queue :
          /\ state[ready_queue[i]] = "READY" /\ current_proc' = ready_queue[i]
          /\ state' = [state EXCEPT ![ready_queue[i]] = "RUNNING"]
    BY ZenonT(60), <1>1 DEF sched_start, Best, Candidates
  <2>2. ready_queue[i] \in Pids
    BY LenProperties, ElementOfSeq DEF TypeOK
  <2>3. sched_enabled = 0 /\ sched_enabled' = 1 /\ frame' = frame
    BY <1>1 DEF sched_start
  <2>4. \A p \in Pids : state[p] # "RUNNING"
    BY <2>3 DEF OwnerInv, CpuOwner
  <2> QED BY SMTT(60), <1>a, <1>g, <2>1, <2>2, <2>3, <2>4 DEF OwnerInv, CpuOwner
<1>2. CASE timer_handler
  <2> DEFINE due == Due((tick_count + 1) % TICK_MOD)
             st == Woken(state, due)
  <2>1. due \in SUBSET Pids /\ \A p \in due : state[p] = "BLOCKED"
    BY SMTT(60) DEF Due
  <2>2. PICK w \in Ascending(due) :
          sched_switch_esp(st, sched_add(ready_queue, w), timeslice, 1)
    BY SMTT(60), <1>2 DEF timer_handler
  <2>3. /\ st \in [Pids -> States]
        /\ \A p \in Pids : st[p] = "RUNNING" <=> state[p] = "RUNNING"
        /\ st[PID_INIT] \in {"READY", "RUNNING"}
    BY SMTT(60), <1>a, <1>g, <2>1 DEF Woken, States
  <2> HIDE DEF due, st
  <2>4. sched_add(ready_queue, w) \in Seq(Pids)
    BY SMTT(60), <1>a, <2>1, <2>2, AscendingType, AddType
  <2>5. UNCHANGED <<frame, sched_enabled>>
    BY SMTT(60), <1>2 DEF timer_handler
  <2>6. CASE sched_enabled = 1
    BY SMTT(60), <1>b, <1>c, <1>g, <2>2, <2>3, <2>4, <2>5, <2>6
  <2>7. CASE sched_enabled # 1
    <3>1. state' = st
      BY ZenonT(60), <2>2, <2>7 DEF sched_switch_esp
    <3> QED BY SMTT(60), <1>g, <2>3, <2>5, <2>7, <3>1 DEF OwnerInv, CpuOwner
  <2> QED BY SMTT(60), <2>6, <2>7
<1>3. CASE sys_yield
  BY SMTT(60), <1>3, <1>a, <1>b, <1>c, <1>f, <1>g DEF sys_yield, Return, clockVars
<1>4. CASE sys_execve
  BY ZenonT(60), <1>4, <1>a, <1>b, <1>c, <1>f, <1>g DEF sys_execve, clockVars
<1>5. ASSUME NEW t \in SleepTicks, sys_sleep(t) PROVE OwnerInv'
  <2>1. sched_enabled = 1 /\ cur # PID_INIT /\ UNCHANGED <<sched_enabled, frame>>
    BY SMTT(60), <1>5, <1>f DEF sys_sleep, clockVars
  <2>2. CASE Return(state, ready_queue)
    BY SMTT(60), <1>a, <1>b, <1>c, <1>g, <2>1, <2>2 DEF Return
  <2> QED BY <1>5, <1>e, <1>g, <2>1, <2>2 DEF sys_sleep
<1>6. CASE sys_exit
  <2> DEFINE z == [state EXCEPT ![cur] = "ZOMBIE"]
             W == WaitingParent(z, cur)
             st == Woken(z, W)
  <2>1. sched_enabled = 1 /\ cur # PID_INIT /\ UNCHANGED <<sched_enabled, frame>>
    BY <1>6, <1>f DEF sys_exit, clockVars
  <2>2. PICK w \in Ascending(W) : sched_yield(st, sched_remove(sched_add(ready_queue, w), cur))
    BY <1>6 DEF sys_exit
  <2>3. W \in SUBSET Pids /\ cur \notin W /\ \A p \in W : state[p] = "BLOCKED"
    BY SMTT(60), <1>a, <1>b, <2>1 DEF WaitingParent, TypeOK
  <2>4. w \in Seq(Pids) /\ IsInjective(w) /\ Range(w) = W
    BY ZenonT(60), <2>2, <2>3, AscendingType
  <2>5. /\ st = [Woken(state, W) EXCEPT ![cur] = "ZOMBIE"] /\ Woken(state, W) \in [Pids -> States]
        /\ st[PID_INIT] = "READY" /\ \A p \in Pids : st[p] # "RUNNING"
    BY ZenonT(60), <1>a, <1>b, <2>1, <2>3 DEF Woken, States
  <2> HIDE DEF W, st
  <2>6. /\ QueueHolds(Woken(state, W), sched_add(ready_queue, w))
        /\ sched_add(ready_queue, w) \in Seq(Pids)
    BY ZenonT(60), <1>a, <2>3, <2>4, AddHolds
  <2>7. /\ QueueHolds(st, sched_remove(sched_add(ready_queue, w), cur))
        /\ sched_remove(sched_add(ready_queue, w), cur) \in Seq(Pids)
        /\ st \in [Pids -> States]
    BY ZenonT(60), <1>b, <2>1, <2>5, <2>6, RemoveHolds, RemoveQueue DEF States
  <2> QED BY ZenonT(60), <1>d, <1>g, <2>1, <2>2, <2>5, <2>7
<1>7. CASE sys_fork
  <2> DEFINE st(p) == [state EXCEPT ![p] = "READY"]
  <2>1. PICK p \in pid_alloc :
          /\ state[p] = "UNUSED"
          /\ proc_create(p, cur)
          /\ sched_switch_esp(st(p), sched_add(ready_queue, <<p>>),
               [timeslice EXCEPT ![p] = timeslice_len(priority[cur])], tick_flag)
    BY ZenonT(60), <1>7 DEF sys_fork
  <2>2. p \in Pids /\ <<p>> \in Seq(Pids) /\ p # PID_INIT
    BY <1>g, <2>1, PidTypes
  <2>3. sched_enabled = 1 /\ UNCHANGED sched_enabled /\ frame' = [frame EXCEPT ![p] = "user"]
    BY ZenonT(60), <1>7, <1>f, <2>1 DEF sys_fork, proc_create, clockVars
  <2>4. /\ st(p) \in [Pids -> States] /\ sched_add(ready_queue, <<p>>) \in Seq(Pids)
        /\ \A x \in Pids : st(p)[x] = "RUNNING" <=> x = cur
        /\ st(p)[PID_INIT] \in {"READY", "RUNNING"}
    BY ZenonT(60), <1>a, <1>b, <1>g, <2>1, <2>2, <2>3, AddType DEF States
  <2>5. frame'[PID_INIT] = "idle"
    BY <1>a, <1>g, <2>2, <2>3
  <2> HIDE DEF st
  <2> QED BY <1>c, <2>1, <2>3, <2>4, <2>5
<1>8. CASE sys_fork_fails
  BY SMTT(60), <1>8, <1>a, <1>b, <1>c, <1>f, <1>g DEF sys_fork_fails, Return, clockVars
<1>9. ASSUME NEW t \in ExecTargets \cap Pids, sys_exec(t) PROVE OwnerInv'
  <2> DEFINE q == sched_add(sched_remove(ready_queue, t), <<t>>)
             st == [state EXCEPT ![t] = "READY"]
  <2>1. q \in Seq(Pids)
    <3>1. <<t>> \in Seq(Pids) /\ sched_remove(ready_queue, t) \in Seq(Pids)
      BY <1>a, RemoveQueue
    <3> QED BY ZenonT(60), <3>1, AddType
  <2>2. /\ sched_enabled = 1 /\ UNCHANGED sched_enabled
        /\ t # cur /\ t # PID_INIT /\ frame' = [frame EXCEPT ![t] = "user"]
    BY <1>9, <1>f DEF sys_exec, clockVars
  <2>3. /\ st \in [Pids -> States] /\ st[PID_INIT] \in {"READY", "RUNNING"}
        /\ \A p \in Pids : st[p] = "RUNNING" <=> p = cur
    BY SMTT(60), <1>a, <1>b, <1>g, <2>2 DEF States
  <2>4. frame'[PID_INIT] = "idle"
    BY SMTT(60), <1>a, <1>g, <2>2
  <2>5. sched_switch_esp(st, q, [timeslice EXCEPT ![t] = timeslice_len(priority[t])], tick_flag)
    BY SMTT(60), <1>9 DEF sys_exec
  <2> HIDE DEF q, st
  <2> QED BY ZenonT(60), <1>c, <2>1, <2>2, <2>3, <2>4, <2>5
<1>10. ASSUME NEW a, NEW w, sched_enabled = 1, cur # PID_INIT, proc_wait(a, w) PROVE OwnerInv'
  <2>0. UNCHANGED sched_enabled
    BY <1>10 DEF proc_wait, clockVars
  <2>1. ASSUME NEW c \in Reapable(cur, a), proc_destroy(w, c),
               sched_switch_esp([state EXCEPT ![c] = "UNUSED"], ready_queue,
                                [timeslice EXCEPT ![c] = 0], tick_flag)
        PROVE  OwnerInv'
    <3> DEFINE st == [state EXCEPT ![c] = "UNUSED"]
    <3>1. c \in Pids /\ state[c] = "ZOMBIE" /\ c # PID_INIT
      BY <1>g DEF Reapable
    <3>2. /\ st \in [Pids -> States] /\ st[PID_INIT] \in {"READY", "RUNNING"}
          /\ \A p \in Pids : st[p] = "RUNNING" <=> p = cur
      BY <1>10, <1>a, <1>b, <1>g, <3>1 DEF States
    <3>3. /\ sched_switch_esp(st, ready_queue, [timeslice EXCEPT ![c] = 0], tick_flag)
          /\ frame' = [frame EXCEPT ![c] = "none", ![cur] = "user"]
      BY SMTT(60), <2>1 DEF proc_destroy
    <3>4. frame'[PID_INIT] = "idle"
      BY SMTT(60), <1>10, <1>a, <1>g, <3>1, <3>3
    <3> HIDE DEF st
    <3> QED BY ZenonT(60), <1>10, <1>a, <1>c, <2>0, <3>2, <3>3, <3>4
  <2>2. ASSUME frame' = [frame EXCEPT ![cur] = "wait"],
               sched_yield([state EXCEPT ![cur] = "BLOCKED"], sched_remove(ready_queue, cur))
        PROVE  OwnerInv'
    <3>1. frame'[PID_INIT] = "idle"
      BY SMTT(60), <1>10, <1>a, <1>g, <2>2
    <3> QED BY SMTT(60), <1>10, <1>e, <2>0, <2>2, <3>1
  <2> QED BY ZenonT(60), <1>10, <2>1, <2>2 DEF proc_wait, proc_wait_block
<1>11. ASSUME NEW a, sys_wait(a) PROVE OwnerInv'
  BY SMTT(60), <1>10, <1>11, <1>f DEF sys_wait
<1>12. CASE proc_wait_resume
  BY SMTT(60), <1>10, <1>12, <1>g DEF proc_wait_resume
<1>13. CASE UNCHANGED vars
  BY <1>13 DEF vars, OwnerInv, CpuOwner
<1> QED BY SMTT(60), <1>1, <1>2, <1>3, <1>4, <1>5, <1>6, <1>7, <1>8, <1>9, <1>11, <1>12, <1>13 DEF Next

\* At boot nothing runs and idle is READY.
LEMMA OwnerInit == Init => OwnerInv
<1> SUFFICES ASSUME Init PROVE OwnerInv
  OBVIOUS
<1>1. PID_INIT \in BootPids /\ PID_INIT \in Pids
  BY SMTT(60), BootAssumption, LenProperties, ProcsAssumption DEF BootPids, PID_INIT, Pids
<1> QED BY <1>1 DEF Init, OwnerInv, CpuOwner

\* As long as no program restarts idle with SYS_EXEC, the CPU executes the one
\* RUNNING process: a process that blocks or exits never returns from its
\* sched_yield() before it is dispatched again.
THEOREM OwnerCorrect ==
  ASSUME PID_INIT \notin ExecTargets
  PROVE  Spec => []CpuOwner
<1>1. Init => TypeOK /\ QueueExact /\ OwnerInv
  BY SMTT(60), OwnerInit, InitType, QueueInit
<1>2. TypeOK /\ QueueExact /\ OwnerInv /\ [Next]_vars => (TypeOK /\ QueueExact /\ OwnerInv)'
  BY SMTT(60), NextType, QueueNext, OwnerNext
<1>3. OwnerInv => CpuOwner
  BY DEF OwnerInv
<1> QED BY <1>1, <1>2, <1>3, PTL DEF Spec
=============================================================================
