----------------------------- MODULE Lifecycle -----------------------------
(***************************************************************************)
(* What the process subsystem promises: the state diagram at the top of    *)
(* proc.h, for a machine with one CPU that always has an owner once the    *)
(* scheduler has started.  Leaving the CPU and handing it to the next      *)
(* process is one step, and processes may be woken in the same step.       *)
(***************************************************************************)
CONSTANTS Procs, None

VARIABLES state, owner
vars == <<state, owner>>

In(s) == {p \in Procs : state[p] = s}

Init ==
  /\ state \in [Procs -> {"UNUSED", "READY"}]
  /\ owner = None

\* Processes waiting for an event become READY.
Wakeup(W) ==
  /\ state' = [p \in Procs |-> IF p \in W THEN "READY" ELSE state[p]]
  /\ UNCHANGED owner

\* The scheduler starts with q.
Start(q) ==
  /\ owner = None
  /\ state' = [state EXCEPT ![q] = "RUNNING"]
  /\ owner' = q

\* The owner goes to state to (preempted, blocked or exited) after the
\* processes of W have been woken, and q, one of the READY ones, takes over.
Handover(to, W, q) ==
  /\ owner # None /\ q # owner
  /\ state' = [p \in Procs |-> IF p = q THEN "RUNNING"
                               ELSE IF p = owner THEN to
                               ELSE IF p \in W THEN "READY" ELSE state[p]]
  /\ owner' = q

\* The owner creates a process.
Spawn(c) ==
  /\ owner # None
  /\ state' = [state EXCEPT ![c] = "READY"]
  /\ UNCHANGED owner

\* The owner reaps a zombie, and the processes of W, which wait for the files
\* that the zombie held, are woken.
Reap(c, W) ==
  /\ owner # None
  /\ state' = [p \in Procs |-> IF p = c THEN "UNUSED" ELSE IF p \in W THEN "READY" ELSE state[p]]
  /\ UNCHANGED owner

Next ==
  \/ \E W \in SUBSET In("BLOCKED") : Wakeup(W)
  \/ \E q \in In("READY") : Start(q)
  \/ \E to \in {"READY", "BLOCKED", "ZOMBIE"}, W \in SUBSET In("BLOCKED") :
       \E q \in In("READY") \cup W : Handover(to, W, q)
  \/ \E c \in In("UNUSED") : Spawn(c)
  \/ \E c \in In("ZOMBIE"), W \in SUBSET In("BLOCKED") : Reap(c, W)

Spec == Init /\ [][Next]_vars
=============================================================================
