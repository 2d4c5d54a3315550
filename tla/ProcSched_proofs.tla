-------------------------- MODULE ProcSched_proofs --------------------------
(***************************************************************************)
(* Proofs about ProcSched, for every size of the process table, every set  *)
(* of booted processes and every program.                                  *)
(***************************************************************************)
EXTENDS ProcSched, SequenceTheorems, FiniteSetTheorems, WellFoundedInduction, TLAPS

-----------------------------------------------------------------------------
(* The ready queue as a sequence *)

\* A nonempty set of naturals has a least element.
LEMMA NatMin ==
  ASSUME NEW T \in SUBSET Nat, T # {}
  PROVE  \E m \in T : \A k \in T : m <= k
<1> DEFINE R == OpToRel(<, Nat)
<1>1. IsWellFoundedOn(R, Nat)
  BY ZenonT(60), NatLessThanWellFounded
<1>2. \A x, y \in Nat : x < y => <<x, y>> \in R
  BY SMT DEF OpToRel
<1> HIDE DEF R
<1>3. PICK x \in T : \A y \in T : ~ (<<y, x>> \in R)
  BY ZenonT(60), <1>1, WFMin
<1>4. ASSUME NEW y \in T PROVE x <= y
  <2>1. x \in Nat /\ y \in Nat /\ ~ (y < x)
    BY ZenonT(60), <1>2, <1>3
  <2> QED BY <2>1
<1> QED BY <1>4

\* What q \o w holds when both are duplicate-free and disjoint.
LEMMA ConcatQueue ==
  ASSUME NEW q \in Seq(Pids), NEW w \in Seq(Pids)
  PROVE  /\ q \o w \in Seq(Pids)
         /\ Range(q \o w) = Range(q) \cup Range(w)
         /\ IsInjective(q) /\ IsInjective(w) /\ Range(q) \cap Range(w) = {}
              => IsInjective(q \o w)
<1>1. /\ q \o w \in Seq(Pids)
      /\ Len(q \o w) = Len(q) + Len(w)
      /\ \A i \in 1 .. Len(q) + Len(w) :
           (q \o w)[i] = IF i <= Len(q) THEN q[i] ELSE w[i - Len(q)]
  BY ConcatProperties
<1>2. Range(q \o w) = Range(q) \cup Range(w)
  BY RangeConcatenation
<1>3. ASSUME IsInjective(q), IsInjective(w), Range(q) \cap Range(w) = {}
      PROVE  IsInjective(q \o w)
  <2>1. DOMAIN (q \o w) = 1 .. Len(q) + Len(w)
    BY SMTT(60), <1>1, LenProperties
  <2>2. SUFFICES ASSUME NEW i \in 1 .. Len(q) + Len(w), NEW j \in 1 .. Len(q) + Len(w),
                        (q \o w)[i] = (q \o w)[j]
                 PROVE  i = j
    BY <2>1 DEF IsInjective
  <2>3. /\ Len(q) \in Nat /\ Len(w) \in Nat
        /\ DOMAIN q = 1 .. Len(q) /\ DOMAIN w = 1 .. Len(w)
    BY LenProperties
  <2>4. CASE i <= Len(q) /\ j <= Len(q)
    BY SMTT(60), <1>1, <1>3, <2>2, <2>3, <2>4 DEF IsInjective
  <2>5. CASE i > Len(q) /\ j > Len(q)
    <3>1. i - Len(q) \in 1 .. Len(w) /\ j - Len(q) \in 1 .. Len(w)
      BY <2>3, <2>5
    <3>2. w[i - Len(q)] = w[j - Len(q)]
      BY <1>1, <2>2, <2>3, <2>5
    <3>3. i - Len(q) = j - Len(q)
      BY <1>3, <2>3, <3>1, <3>2 DEF IsInjective
    <3> QED BY <2>3, <3>3
  <2>6. ASSUME NEW k \in 1 .. Len(q), NEW l \in 1 .. Len(w) PROVE q[k] # w[l]
    BY ZenonT(60), <1>3, <2>3 DEF Range
  <2>7. CASE i <= Len(q) /\ j > Len(q)
    <3>1. j - Len(q) \in 1 .. Len(w)
      BY <2>3, <2>7
    <3> QED BY <1>1, <2>2, <2>3, <2>6, <2>7, <3>1
  <2>8. CASE i > Len(q) /\ j <= Len(q)
    <3>1. i - Len(q) \in 1 .. Len(w)
      BY <2>3, <2>8
    <3> QED BY <1>1, <2>2, <2>3, <2>6, <2>8, <3>1
  <2> QED BY SMTT(60), <2>3, <2>4, <2>5, <2>7, <2>8
<1> QED BY <1>1, <1>2, <1>3

\* sched_remove() takes out p, which a duplicate-free queue holds at most once,
\* and keeps everything else.
LEMMA RemoveQueue ==
  ASSUME NEW q \in Seq(Pids), NEW p
  PROVE  /\ sched_remove(q, p) \in Seq(Pids)
         /\ IsInjective(q) => /\ IsInjective(sched_remove(q, p))
                              /\ Range(sched_remove(q, p)) = Range(q) \ {p}
<1> DEFINE n == Len(q)
<1>1. n \in Nat /\ DOMAIN q = 1 .. n /\ q \in [1 .. n -> Pids]
  BY LenProperties
<1>2. CASE \A i \in DOMAIN q : q[i] # p
  BY <1>2 DEF sched_remove, Range
<1>3. CASE \E i \in DOMAIN q : q[i] = p
  <2> DEFINE first(i) == q[i] = p /\ \A j \in 1 .. i - 1 : q[j] # p
             k == CHOOSE i \in DOMAIN q : first(i)
             f == [q EXCEPT ![k] = q[n]]
             r == SubSeq(f, 1, n - 1)
  <2>1. \E i \in DOMAIN q : first(i)
    <3> DEFINE T == {i \in Nat : i \in DOMAIN q /\ q[i] = p}
    <3>2. T \in SUBSET Nat /\ T # {}
      BY <1>1, <1>3
    <3>3. PICK i \in T : \A j \in T : i <= j
      BY ZenonT(60), <3>2, NatMin
    <3> QED BY SMTT(60), <1>1, <3>3
  <2>2. k \in DOMAIN q /\ q[k] = p
    BY <2>1
  <2>3. sched_remove(q, p) = r
    BY <1>3 DEF sched_remove, k, r
  <2> HIDE DEF k, r
  <2>4. n \in 1 .. n /\ f \in [1 .. n -> Pids]
    BY <1>1, <2>2
  <2>5. /\ r \in Seq(Pids)
        /\ Len(r) = n - 1
        /\ \A i \in 1 .. n - 1 : r[i] = IF i = k THEN q[n] ELSE q[i]
    <3>1. \A i \in 1 .. n - 1 : f[i] \in Pids
      BY <1>1, <2>4
    <3>2. /\ r \in Seq(Pids) /\ Len(r) = IF 1 <= n - 1 THEN n - 1 - 1 + 1 ELSE 0
          /\ \A i \in 1 .. n - 1 - 1 + 1 : r[i] = f[1 + i - 1]
      BY <1>1, <3>1, SubSeqProperties DEF r
    <3>3. ASSUME NEW i \in 1 .. n - 1 PROVE r[i] = IF i = k THEN q[n] ELSE q[i]
      <4>1. i \in 1 .. n - 1 - 1 + 1 /\ 1 + i - 1 = i /\ i \in 1 .. n
        BY <1>1
      <4>2. r[i] = f[i]
        BY <3>2, <4>1
      <4> QED BY <1>1, <4>1, <4>2
    <3>4. Len(r) = n - 1
      <4>1. n >= 1
        BY <2>4
      <4> HIDE DEF n
      <4> QED BY <1>1, <3>2, <4>1
    <3> QED BY <3>2, <3>3, <3>4
  <2>6. DOMAIN r = 1 .. n - 1
    BY <2>5, LenProperties
  <2>7. ASSUME IsInjective(q)
        PROVE  IsInjective(r) /\ Range(r) = Range(q) \ {p}
    <3>1. \A i, j \in 1 .. n : q[i] = q[j] => i = j
      BY <1>1, <2>7 DEF IsInjective
    <3>2. IsInjective(r)
      BY SMTT(60), <1>1, <2>2, <2>4, <2>5, <2>6, <3>1 DEF IsInjective
    <3>3. ASSUME NEW x \in Range(r) PROVE x \in Range(q) \ {p}
      <4>1. PICK i \in 1 .. n - 1 : x = r[i]
        BY <2>6, <3>3 DEF Range
      <4>2. CASE i = k
        BY SMTT(60), <1>1, <2>2, <2>4, <2>5, <3>1, <4>1, <4>2 DEF Range
      <4>3. CASE i # k
        BY SMTT(60), <1>1, <2>2, <2>4, <2>5, <3>1, <4>1, <4>3 DEF Range
      <4> QED BY <4>2, <4>3
    <3>4. ASSUME NEW x \in Range(q) \ {p} PROVE x \in Range(r)
      <4>1. PICK i \in 1 .. n : x = q[i]
        BY <1>1, <3>4 DEF Range
      <4>2. i # k
        BY <2>2, <3>4, <4>1
      <4>3. CASE i = n
        <5>1. k \in 1 .. n - 1 /\ r[k] = x
          BY SMTT(60), <1>1, <2>2, <2>5, <4>1, <4>2, <4>3
        <5> QED BY <2>6, <5>1 DEF Range
      <4>4. CASE i # n
        <5> HIDE DEF n
        <5>1. i \in 1 .. n - 1 /\ r[i] = x
          BY SMTT(60), <1>1, <2>5, <4>1, <4>2, <4>4
        <5> QED BY <2>6, <5>1 DEF Range
      <4> QED BY <4>3, <4>4
    <3> QED BY <3>2, <3>3, <3>4
  <2> QED BY <2>3, <2>5, <2>7
<1> QED BY <1>2, <1>3
-----------------------------------------------------------------------------
(* Type correctness *)

\* A quantum is a natural number, and at least 2.
LEMMA SliceType ==
  ASSUME NEW prio \in 0 .. PROC_PRIO_IDLE
  PROVE  timeslice_len(prio) \in Nat /\ timeslice_len(prio) >= 2
<1>1. CASE prio < PROC_PRIO_NORMAL
  <2>1. (PROC_PRIO_NORMAL - prio) \div 2 \in Nat
    BY <1>1, PrioAssumption
  <2> QED BY <1>1, <2>1, PrioAssumption DEF timeslice_len
<1>2. CASE ~ (prio < PROC_PRIO_NORMAL)
  <2>1. (prio - PROC_PRIO_NORMAL) \div 5 \in Nat
    BY <1>2, PrioAssumption
  <2> QED BY <1>2, <2>1, PrioAssumption DEF timeslice_len
<1> QED BY <1>1, <1>2

\* sched_add() returns a queue.
LEMMA AddType ==
  ASSUME NEW q \in Seq(Pids), NEW w \in Seq(Pids)
  PROVE  sched_add(q, w) \in Seq(Pids)
<1>1. q \o w \in Seq(Pids)
  BY ConcatQueue
<1>2. CASE Len(q \o w) <= MAX_PROCS
  BY <1>1, <1>2 DEF sched_add
<1>3. CASE ~ (Len(q \o w) <= MAX_PROCS)
  <2> DEFINE c == q \o w
  <2>1. Len(c) \in Nat /\ c \in [1 .. Len(c) -> Pids]
    BY ZenonT(60), <1>1, LenProperties
  <2>2. \A i \in 1 .. MAX_PROCS : c[i] \in Pids
    <3> HIDE DEF c
    <3> QED BY <1>3, <2>1, ProcsAssumption DEF c
  <2>3. SubSeq(c, 1, MAX_PROCS) \in Seq(Pids)
    <3>1. 1 \in Int /\ MAX_PROCS \in Int
      BY ProcsAssumption
    <3> HIDE DEF c
    <3> QED BY <2>2, <3>1, SubSeqProperties
  <2> QED BY <1>3, <2>3 DEF sched_add
<1> QED BY <1>2, <1>3

\* An ascending listing of a set of pids is a sequence of pids.
LEMMA AscendingType ==
  ASSUME NEW S \in SUBSET Pids, NEW w \in Ascending(S)
  PROVE  /\ w \in Seq(Pids) /\ IsInjective(w) /\ Range(w) = S
<1>1. IsFiniteSet(Pids) /\ IsFiniteSet(S)
  <2>1. 0 \in Int /\ MAX_PROCS - 1 \in Int
    BY ProcsAssumption
  <2>2. IsFiniteSet(Pids)
    BY <2>1, FS_Interval DEF Pids
  <2> QED BY <2>2, FS_Subset
<1>2. Cardinality(S) \in Nat
  BY <1>1, FS_CardinalityType
<1>3. /\ w \in [1 .. Cardinality(S) -> S]
      /\ \A i, j \in DOMAIN w : i < j => w[i] < w[j]
      /\ \A p \in S : \E i \in DOMAIN w : w[i] = p
  BY DEF Ascending
<1>4. w \in Seq(Pids)
  BY <1>2, <1>3, SeqDef
<1>5. IsInjective(w)
  <2> SUFFICES ASSUME NEW i \in DOMAIN w, NEW j \in DOMAIN w, w[i] = w[j] PROVE i = j
    BY DEF IsInjective
  <2>1. i \in Nat /\ j \in Nat /\ w[i] \in Int /\ w[j] \in Int
    <3>1. DOMAIN w = 1 .. Cardinality(S) /\ w[i] \in Pids /\ w[j] \in Pids
      BY <1>3
    <3>2. \A p \in Pids : p \in Int
      BY ProcsAssumption DEF Pids
    <3> QED BY <1>2, <3>1, <3>2
  <2> QED BY <1>3, <2>1
<1>6. Range(w) = S
  BY <1>3 DEF Range
<1> QED BY <1>4, <1>5, <1>6

\* The switch at the end of a handler keeps the types.
LEMMA SwitchType ==
  ASSUME TypeOK, priority' \in [Pids -> 0 .. PROC_PRIO_IDLE],
         NEW st \in [Pids -> States], NEW q \in Seq(Pids),
         NEW ts \in [Pids -> Nat], NEW tf \in {0, 1},
         sched_switch_esp(st, q, ts, tf)
  PROVE  /\ state' \in [Pids -> States]
         /\ timeslice' \in [Pids -> Nat]
         /\ ready_queue' = q
         /\ current_proc' \in Pids \cup {PID_INVALID}
         /\ sched_enabled = 1 => current_proc' \in Pids
         /\ tick_flag' \in {0, 1}
<1> DEFINE cur == current_proc
           left == IF ts[cur] > 0 THEN ts[cur] - 1 ELSE 0
           C == Candidates(st, q, cur)
<1>1. CASE ~ (sched_enabled = 1 /\ tf = 1)
  BY SMTT(60), <1>1 DEF TypeOK, sched_switch_esp
<1>2. CASE sched_enabled = 1 /\ tf = 1
  <2>1. cur \in Pids
    BY <1>2 DEF TypeOK
  <2>2. ready_queue' = q /\ tick_flag' = 0
    BY <1>2 DEF sched_switch_esp
  <2>3. left \in Nat
    BY <2>1
  <2>4. CASE UNCHANGED current_proc /\ state' = st /\ timeslice' = [ts EXCEPT ![cur] = left]
    BY <2>1, <2>2, <2>3, <2>4
  <2>5. CASE /\ UNCHANGED current_proc /\ state' = st
             /\ timeslice' = [ts EXCEPT ![cur] = timeslice_len(priority'[cur])]
    <3>1. timeslice_len(priority'[cur]) \in Nat
      BY SMTT(60), <2>1, SliceType
    <3> QED BY <2>1, <2>2, <2>5, <3>1
  <2>6. ASSUME NEW i \in Best(C, q, priority'),
               current_proc' = q[i],
               state' = [st EXCEPT ![cur] = IF st[cur] = "RUNNING" THEN "READY" ELSE st[cur],
                                   ![q[i]] = "RUNNING"],
               timeslice' = [ts EXCEPT ![cur] = 0, ![q[i]] = timeslice_len(priority'[q[i]])]
        PROVE  /\ state' \in [Pids -> States]
               /\ timeslice' \in [Pids -> Nat]
               /\ current_proc' \in Pids
    <3>1. q[i] \in Pids
      BY <2>6, LenProperties, ElementOfSeq DEF Best, Candidates
    <3>2. timeslice_len(priority'[q[i]]) \in Nat
      BY <3>1, SliceType
    <3> QED BY ZenonT(60), <2>1, <2>6, <3>1, <3>2 DEF States
  <2> QED BY ZenonT(60), <1>2, <2>2, <2>4, <2>5, <2>6 DEF sched_switch_esp
<1> QED BY SMTT(60), <1>1, <1>2
\* What pid_alloc() and pid_free() return.
LEMMA PidTypes ==
  ASSUME TypeOK
  PROVE  /\ \A p \in pid_alloc : /\ p \in Pids \ {PID_KERNEL} /\ p \notin pid_bitmap
                                 /\ hint_alloc(p) \in PID_INIT .. MAX_PROCS - 1
         /\ \A bits \in SUBSET Pids, hint \in PID_INIT .. MAX_PROCS - 1, p \in Pids :
              /\ pid_free(bits, hint, p).bits \in SUBSET Pids
              /\ pid_free(bits, hint, p).hint \in PID_INIT .. MAX_PROCS - 1
<1>1. ASSUME NEW p \in pid_alloc
      PROVE  /\ p \in Pids \ {PID_KERNEL} /\ p \notin pid_bitmap
             /\ hint_alloc(p) \in PID_INIT .. MAX_PROCS - 1
  <2>1. /\ p \notin pid_bitmap
        /\ p \in pid_search_hint .. MAX_PROCS - 1 \/ p \in PID_INIT .. pid_search_hint - 1
    BY <1>1 DEF pid_alloc
  <2>2. pid_search_hint \in PID_INIT .. MAX_PROCS - 1
    BY DEF TypeOK
  <2> QED BY <2>1, <2>2, ProcsAssumption DEF Pids, PID_KERNEL, PID_INIT, hint_alloc
<1>2. ASSUME NEW bits \in SUBSET Pids, NEW hint \in PID_INIT .. MAX_PROCS - 1, NEW p \in Pids
      PROVE  /\ pid_free(bits, hint, p).bits \in SUBSET Pids
             /\ pid_free(bits, hint, p).hint \in PID_INIT .. MAX_PROCS - 1
  BY <1>2, ProcsAssumption DEF pid_free, Pids, PID_KERNEL, PID_INIT
<1> QED BY ZenonT(60), <1>1, <1>2

\* The booted state has the types of TypeOK.
LEMMA InitType == Init => TypeOK
<1> SUFFICES ASSUME Init PROVE TypeOK
  OBVIOUS
<1>1. Len(UserPrios) \in Nat /\ UserPrios \in [1 .. Len(UserPrios) -> 0 .. PROC_PRIO_IDLE]
  BY ZenonT(60), BootAssumption, LenProperties
<1>2. \A p \in BootPids : BootPrio(p) \in 0 .. PROC_PRIO_IDLE
  BY <1>1, PrioAssumption DEF BootPids, BootPrio, PID_INIT
<1>3. \A p \in BootPids : timeslice_len(BootPrio(p)) \in Nat
  BY <1>2, SliceType
<1>4. BootPids \subseteq Pids /\ PID_KERNEL \in Pids /\ 1 .. Len(UserPrios) + 1 \subseteq Pids
  BY <1>1, BootAssumption, ProcsAssumption DEF BootPids, Pids, PID_INIT, PID_KERNEL
<1>5. state \in [Pids -> States] /\ ppid \in [Pids -> Pids] /\ waiting \in [Pids -> {0, 1}]
  BY <1>4 DEF Init, States
<1>6. priority \in [Pids -> 0 .. PROC_PRIO_IDLE] /\ timeslice \in [Pids -> Nat]
  BY <1>2, <1>3, PrioAssumption DEF Init
<1>7. wakeup_tick \in [Pids -> 0 .. TICK_MOD - 1] /\ tick_count \in 0 .. TICK_MOD - 1
  BY TickAssumption DEF Init
<1>8. wait_for_pid \in [Pids -> Pids \cup {PID_INVALID}] /\ frame \in [Pids -> Frames]
  BY <1>4 DEF Init, Frames, PID_KERNEL
<1>9. pid_bitmap \in SUBSET Pids /\ pid_search_hint \in PID_INIT .. MAX_PROCS - 1
  BY SMTT(60), <1>1, <1>4, BootAssumption, ProcsAssumption DEF Init, hint_alloc, PID_INIT
<1>10. ready_queue \in Seq(Pids)
  <2>1. ready_queue \in [1 .. Len(UserPrios) + 1 -> Pids]
    BY <1>4 DEF Init
  <2> QED BY SMTT(60), <1>1, <2>1, SeqDef
<1>11. /\ current_proc \in Pids \cup {PID_INVALID} /\ (sched_enabled = 1 => current_proc \in Pids)
       /\ sched_enabled \in {0, 1} /\ tick_flag \in {0, 1}
  BY SMTT(60) DEF Init
<1> QED BY <1>5, <1>6, <1>7, <1>8, <1>9, <1>10, <1>11 DEF TypeOK

\* The part of TypeOK about the variables that the switch leaves alone.
RestType ==
  /\ ppid \in [Pids -> Pids]
  /\ priority \in [Pids -> 0 .. PROC_PRIO_IDLE]
  /\ wakeup_tick \in [Pids -> 0 .. TICK_MOD - 1]
  /\ wait_for_pid \in [Pids -> Pids \cup {PID_INVALID}]
  /\ waiting \in [Pids -> {0, 1}]
  /\ frame \in [Pids -> Frames]
  /\ pid_bitmap \in SUBSET Pids
  /\ pid_search_hint \in PID_INIT .. MAX_PROCS - 1
  /\ sched_enabled \in {0, 1}
  /\ tick_count \in 0 .. TICK_MOD - 1

\* A handler that ends in the switch keeps the types if what it assigns and
\* what it hands to the switch is well typed.
LEMMA HandlerType ==
  ASSUME TypeOK, RestType', UNCHANGED sched_enabled,
         NEW st \in [Pids -> States], NEW q \in Seq(Pids),
         NEW ts \in [Pids -> Nat], NEW tf \in {0, 1},
         sched_switch_esp(st, q, ts, tf)
  PROVE  TypeOK'
<1>1. priority' \in [Pids -> 0 .. PROC_PRIO_IDLE]
  BY DEF RestType
<1>2. /\ state' \in [Pids -> States]
      /\ timeslice' \in [Pids -> Nat]
      /\ ready_queue' \in Seq(Pids)
      /\ current_proc' \in Pids \cup {PID_INVALID}
      /\ sched_enabled = 1 => current_proc' \in Pids
      /\ tick_flag' \in {0, 1}
  BY <1>1, SwitchType
<1> QED BY ZenonT(60), <1>2 DEF TypeOK, RestType

\* Every step keeps the types: each handler hands well-typed values to the
\* switch at its end.
LEMMA NextType == TypeOK /\ [Next]_vars => TypeOK'
<1> SUFFICES ASSUME TypeOK, [Next]_vars PROVE TypeOK'
  OBVIOUS
<1> DEFINE cur == current_proc
<1>a. /\ state \in [Pids -> States] /\ ready_queue \in Seq(Pids)
      /\ timeslice \in [Pids -> Nat] /\ tick_flag \in {0, 1} /\ 1 \in {0, 1} /\ RestType
  BY SMTT(60) DEF TypeOK, RestType
<1>b. sched_remove(ready_queue, cur) \in Seq(Pids)
  BY <1>a, RemoveQueue
<1>c. ASSUME NEW n, Calls(n) PROVE cur \in Pids
  BY <1>c DEF Calls, TypeOK
<1>d. UNCHANGED <<pcbVars, pidVars, clockVars, wakeup_tick, waiting, frame>> => RestType'
  BY <1>a DEF RestType, pcbVars, pidVars, clockVars
<1>e. ASSUME NEW p \in Pids PROVE timeslice_len(priority[p]) \in Nat
  BY SMTT(60), SliceType DEF TypeOK
<1>1. CASE sched_start
  <2>1. PICK i \in DOMAIN ready_queue :
          /\ current_proc' = ready_queue[i]
          /\ state' = [state EXCEPT ![ready_queue[i]] = "RUNNING"]
    BY ZenonT(60), <1>1 DEF sched_start, Best, Candidates
  <2>2. ready_queue[i] \in Pids
    BY LenProperties, ElementOfSeq DEF TypeOK
  <2>3. state' \in [Pids -> States]
    BY <2>1 DEF TypeOK, States
  <2> QED BY ZenonT(60), <1>1, <2>1, <2>2, <2>3 DEF TypeOK, sched_start, pcbVars, pidVars
<1>2. CASE timer_handler
  <2> DEFINE now == (tick_count + 1) % TICK_MOD
             due == Due(now)
  <2>1. now \in 0 .. TICK_MOD - 1
    BY TickAssumption DEF TypeOK
  <2>2. due \in SUBSET Pids
    BY DEF Due
  <2>3. PICK w \in Ascending(due) :
          sched_switch_esp(Woken(state, due), sched_add(ready_queue, w), timeslice, 1)
    BY <1>2 DEF timer_handler
  <2>4. sched_add(ready_queue, w) \in Seq(Pids)
    BY ZenonT(60), <2>2, <2>3, AscendingType, AddType DEF TypeOK
  <2>5. Woken(state, due) \in [Pids -> States]
    BY DEF TypeOK, Woken, States
  <2>6. RestType' /\ UNCHANGED sched_enabled
    <3>1. wakeup_tick' \in [Pids -> 0 .. TICK_MOD - 1] /\ tick_count' \in 0 .. TICK_MOD - 1
      BY SMTT(60), <1>2, <2>1, TickAssumption DEF timer_handler, TypeOK
    <3> QED BY <1>2, <1>a, <3>1 DEF timer_handler, RestType, pcbVars, pidVars
  <2> HIDE DEF now, due
  <2> QED BY SMTT(60), <1>a, <2>3, <2>4, <2>5, <2>6, HandlerType
<1>3. CASE sys_yield
  BY SMTT(60), <1>3, <1>a, <1>d, HandlerType DEF sys_yield, Return, clockVars
<1>4. CASE sys_execve
  <2> DEFINE ts == [timeslice EXCEPT ![cur] = timeslice_len(priority[cur])]
  <2>1. ts \in [Pids -> Nat]
    BY <1>4, <1>a, <1>c, <1>e DEF sys_execve
  <2>2. sched_switch_esp(state, ready_queue, ts, tick_flag) /\ RestType' /\ UNCHANGED sched_enabled
    BY <1>4, <1>d DEF sys_execve, clockVars
  <2> QED BY ZenonT(60), <1>a, <2>1, <2>2, HandlerType
<1>5. ASSUME NEW t \in SleepTicks, sys_sleep(t) PROVE TypeOK'
  <2>1. CASE t = 0 /\ UNCHANGED wakeup_tick /\ Return(state, ready_queue)
    BY <1>5, <1>a, <1>d, <2>1, HandlerType DEF sys_sleep, Return, clockVars
  <2>2. CASE /\ wakeup_tick' = [wakeup_tick EXCEPT ![cur] = (tick_count + t) % TICK_MOD]
             /\ sched_yield([state EXCEPT ![cur] = "BLOCKED"], sched_remove(ready_queue, cur))
    <3> DEFINE st == [state EXCEPT ![cur] = "BLOCKED"]
               ts == [timeslice EXCEPT ![cur] = 0]
    <3>1. st \in [Pids -> States] /\ ts \in [Pids -> Nat]
      BY ZenonT(60), <1>a DEF States
    <3>2. (tick_count + t) % TICK_MOD \in 0 .. TICK_MOD - 1
      BY SMTT(60), TickAssumption DEF TypeOK
    <3>3. RestType' /\ UNCHANGED sched_enabled
      BY ZenonT(60), <1>5, <1>a, <2>2, <3>2 DEF sys_sleep, RestType, pcbVars, pidVars, clockVars
    <3>4. sched_switch_esp(st, sched_remove(ready_queue, cur), ts, 1)
      BY <2>2 DEF sched_yield
    <3> QED BY ZenonT(60), <1>a, <1>b, <3>1, <3>3, <3>4, HandlerType
  <2> QED BY <1>5, <2>1, <2>2 DEF sys_sleep
<1>6. CASE sys_exit
  <2> DEFINE W == WaitingParent([state EXCEPT ![cur] = "ZOMBIE"], cur)
             st == Woken([state EXCEPT ![cur] = "ZOMBIE"], W)
             ts == [timeslice EXCEPT ![cur] = 0]
  <2>1. W \in SUBSET Pids
    BY <1>6, <1>c DEF WaitingParent, TypeOK, sys_exit
  <2>2. PICK w \in Ascending(W) :
          sched_yield(st, sched_remove(sched_add(ready_queue, w), cur))
    BY SMTT(60), <1>6 DEF sys_exit
  <2>3. sched_remove(sched_add(ready_queue, w), cur) \in Seq(Pids)
    BY ZenonT(60), <1>a, <2>1, <2>2, AscendingType, AddType, RemoveQueue
  <2>4. st \in [Pids -> States] /\ ts \in [Pids -> Nat]
    BY ZenonT(60), <1>a DEF States, Woken
  <2>5. RestType' /\ UNCHANGED sched_enabled
    BY <1>6, <1>a, TickAssumption DEF sys_exit, RestType, pcbVars, pidVars, clockVars
  <2>6. sched_switch_esp(st, sched_remove(sched_add(ready_queue, w), cur), ts, 1)
    BY <2>2 DEF sched_yield
  <2> HIDE DEF st, ts
  <2> QED BY ZenonT(60), <1>a, <2>3, <2>4, <2>5, <2>6, HandlerType
<1>7. CASE sys_fork
  <2> DEFINE st(p) == [state EXCEPT ![p] = "READY"]
             ts(p) == [timeslice EXCEPT ![p] = timeslice_len(priority[cur])]
             q(p) == sched_add(ready_queue, <<p>>)
  <2>1. PICK p \in pid_alloc :
          /\ proc_create(p, cur)
          /\ sched_switch_esp(st(p), q(p), ts(p), tick_flag)
    BY ZenonT(60), <1>7 DEF sys_fork
  <2>2. p \in Pids /\ hint_alloc(p) \in PID_INIT .. MAX_PROCS - 1 /\ cur \in Pids
    BY <1>7, <1>c, PidTypes DEF sys_fork
  <2>3. q(p) \in Seq(Pids)
    <3>1. <<p>> \in Seq(Pids)
      BY <2>2
    <3> QED BY ZenonT(60), <1>a, <3>1, AddType
  <2>4. st(p) \in [Pids -> States] /\ ts(p) \in [Pids -> Nat]
    BY <1>a, <1>e, <2>2 DEF States
  <2>5. RestType' /\ UNCHANGED sched_enabled
    BY SMTT(60), <1>7, <1>a, <2>1, <2>2, TickAssumption
    DEF sys_fork, proc_create, RestType, clockVars, Frames
  <2> HIDE DEF st, ts, q
  <2> QED BY ZenonT(60), <1>a, <2>1, <2>3, <2>4, <2>5, HandlerType
<1>8. CASE sys_fork_fails
  <2>1. pid_bitmap' \in SUBSET Pids /\ pid_search_hint' \in PID_INIT .. MAX_PROCS - 1
    <3>1. CASE UNCHANGED pidVars
      BY SMTT(60), <3>1, <1>a DEF RestType, pidVars
    <3>2. CASE \E p \in pid_alloc :
                 /\ pid_bitmap' = pid_free(pid_bitmap \cup {p}, hint_alloc(p), p).bits
                 /\ pid_search_hint' = pid_free(pid_bitmap \cup {p}, hint_alloc(p), p).hint
      <4>1. PICK p \in pid_alloc :
                 /\ pid_bitmap' = pid_free(pid_bitmap \cup {p}, hint_alloc(p), p).bits
                 /\ pid_search_hint' = pid_free(pid_bitmap \cup {p}, hint_alloc(p), p).hint
        BY ZenonT(60), <3>2
      <4>2. p \in Pids /\ hint_alloc(p) \in PID_INIT .. MAX_PROCS - 1
        BY PidTypes
      <4>3. pid_bitmap \cup {p} \in SUBSET Pids
        BY SMTT(60), <1>a, <4>2 DEF RestType
      <4> QED BY ZenonT(60), <4>1, <4>2, <4>3, PidTypes
    <3> QED BY SMTT(60), <1>8, <3>1, <3>2 DEF sys_fork_fails
  <2>2. RestType' /\ UNCHANGED sched_enabled
    BY SMTT(60), <1>8, <1>a, <2>1 DEF sys_fork_fails, RestType, pcbVars, clockVars
  <2> QED BY <1>8, <1>a, <2>2, HandlerType DEF sys_fork_fails, Return
<1>9. ASSUME NEW t \in ExecTargets \cap Pids, sys_exec(t) PROVE TypeOK'
  <2> DEFINE q == sched_add(sched_remove(ready_queue, t), <<t>>)
             ts == [timeslice EXCEPT ![t] = timeslice_len(priority[t])]
             st == [state EXCEPT ![t] = "READY"]
  <2>1. q \in Seq(Pids)
    <3>1. <<t>> \in Seq(Pids) /\ sched_remove(ready_queue, t) \in Seq(Pids)
      BY <1>a, RemoveQueue
    <3> QED BY ZenonT(60), <3>1, AddType
  <2>2. st \in [Pids -> States] /\ ts \in [Pids -> Nat]
    BY <1>a, <1>e DEF States
  <2>3. RestType' /\ UNCHANGED sched_enabled
    BY SMTT(60), <1>9, <1>a, TickAssumption DEF sys_exec, RestType, pcbVars, pidVars, clockVars, Frames
  <2>4. sched_switch_esp(st, q, ts, tick_flag)
    BY SMTT(60), <1>9 DEF sys_exec
  <2> HIDE DEF q, ts, st
  <2> QED BY ZenonT(60), <1>a, <2>1, <2>2, <2>3, <2>4, HandlerType
<1>10. ASSUME NEW a \in Pids \cup {PID_INVALID}, NEW w \in {0, 1}, cur \in Pids, proc_wait(a, w)
       PROVE  TypeOK'
  <2>1. ASSUME NEW c \in Reapable(cur, a), proc_destroy(w, c),
               wakeup_tick' = [wakeup_tick EXCEPT ![c] = 0],
               sched_switch_esp([state EXCEPT ![c] = "UNUSED"], ready_queue,
                                [timeslice EXCEPT ![c] = 0], tick_flag)
        PROVE  TypeOK'
    <3> DEFINE st == [state EXCEPT ![c] = "UNUSED"]
               ts == [timeslice EXCEPT ![c] = 0]
    <3>1. c \in Pids /\ 0 \in Pids
      BY ProcsAssumption DEF Reapable, Pids
    <3>2. st \in [Pids -> States] /\ ts \in [Pids -> Nat]
      BY ZenonT(60), <1>a DEF States
    <3>3. pid_bitmap' \in SUBSET Pids /\ pid_search_hint' \in PID_INIT .. MAX_PROCS - 1
      BY ZenonT(60), <1>a, <2>1, <3>1, PidTypes DEF proc_destroy, RestType
    <3>4. RestType' /\ UNCHANGED sched_enabled
      <4>1. UNCHANGED <<sched_enabled, tick_count>>
        BY SMTT(60), <1>10 DEF proc_wait, clockVars
      <4>2. ppid' \in [Pids -> Pids] /\ frame' \in [Pids -> Frames]
        BY ZenonT(60), <1>a, <2>1, <3>1 DEF proc_destroy, RestType, Frames
      <4>3. 0 \in 0 .. PROC_PRIO_IDLE /\ 0 \in 0 .. TICK_MOD - 1
        BY PrioAssumption, TickAssumption
      <4>4. priority' \in [Pids -> 0 .. PROC_PRIO_IDLE] /\ wakeup_tick' \in [Pids -> 0 .. TICK_MOD - 1]
        BY ZenonT(60), <1>a, <2>1, <4>3 DEF proc_destroy, RestType
      <4>5. wait_for_pid' \in [Pids -> Pids \cup {PID_INVALID}] /\ waiting' \in [Pids -> {0, 1}]
        BY ZenonT(60), <1>a, <1>10, <2>1, <3>1 DEF proc_destroy, RestType
      <4> QED BY SMTT(60), <1>a, <3>3, <4>1, <4>2, <4>4, <4>5 DEF RestType
    <3>5. sched_switch_esp(st, ready_queue, ts, tick_flag)
      BY <2>1
    <3> HIDE DEF st, ts
    <3> QED BY ZenonT(60), <1>a, <3>2, <3>4, <3>5, HandlerType
  <2>2. CASE proc_wait_block(a)
    <3> DEFINE st == [state EXCEPT ![cur] = "BLOCKED"]
               ts == [timeslice EXCEPT ![cur] = 0]
    <3>1. st \in [Pids -> States] /\ ts \in [Pids -> Nat]
      BY ZenonT(60), <1>a DEF States
    <3>2. RestType' /\ UNCHANGED sched_enabled
      BY SMTT(60), <1>10, <1>a, <2>2, TickAssumption DEF proc_wait, proc_wait_block, RestType, pidVars, clockVars, Frames
    <3>3. sched_switch_esp(st, sched_remove(ready_queue, cur), ts, 1)
      BY <2>2 DEF proc_wait_block, sched_yield
    <3> HIDE DEF st, ts
    <3> QED BY ZenonT(60), <1>a, <1>b, <3>1, <3>2, <3>3, HandlerType
  <2> QED BY ZenonT(60), <1>10, <2>1, <2>2 DEF proc_wait
<1>11. ASSUME NEW a \in Pids \cup {PID_INVALID}, sys_wait(a) PROVE TypeOK'
  <2>1. cur \in Pids /\ waiting[cur] \in {0, 1}
    BY SMTT(60), <1>11, <1>a, <1>c DEF sys_wait, RestType
  <2> QED BY SMTT(60), <1>10, <1>11, <2>1 DEF sys_wait
<1>12. CASE proc_wait_resume
  <2>1. cur \in Pids /\ wait_for_pid[cur] \in Pids \cup {PID_INVALID} /\ 0 \in {0, 1}
    BY SMTT(60), <1>12 DEF proc_wait_resume, TypeOK
  <2> QED BY SMTT(60), <1>10, <1>12, <2>1 DEF proc_wait_resume
<1>13. CASE UNCHANGED vars
  BY SMTT(60), <1>13 DEF vars, TypeOK
<1> QED BY <1>1, <1>2, <1>3, <1>4, <1>5, <1>6, <1>7, <1>8, <1>9, <1>11, <1>12, <1>13 DEF Next

\* Every variable always has the type of the C object it stands for.
THEOREM TypeCorrect == Spec => []TypeOK
  BY InitType, NextType, PTL DEF Spec
=============================================================================
