------------------------------ MODULE Keyboard ------------------------------
(***************************************************************************)
(* The keyboard driver and reads from /dev/stdin, keyboard.c and kbd_read()*)
(* of devfs.c, composed with ProcSched: the interrupt handler fills a ring *)
(* and wakes the one process that has left its pid, the reader blocks      *)
(* while the ring is empty.                                                *)
(***************************************************************************)
EXTENDS ProcSched, FiniteSetsExt

CONSTANTS
  KB_BUFFER_SIZE,
  Keys,                    \* the keys of this instance's keyboard
  ReadLens,                \* lengths passed to SYS_READ on descriptor 0
  SharedStdin              \* 1: several processes may read at a time

ASSUME KeyboardAssumption ==
  /\ \E n \in 1 .. 31 : KB_BUFFER_SIZE = 2 ^ n
  /\ ReadLens \subseteq Nat \ {0} /\ SharedStdin \in {0, 1}

VARIABLES
  kb_buf, kb_read, kb_write, kb_waiter_pid, shift_held, caps_lock,
  want,                    \* bytes asked for by a process in kbd_read(), or 0
  out                      \* the characters the last read returned

kbVars == <<kb_buf, kb_read, kb_write, kb_waiter_pid, shift_held, caps_lock, want, out>>

NO_WAITER == 65535
KbSlots   == 0 .. KB_BUFFER_SIZE - 1
KbMask(x) == x % KB_BUFFER_SIZE          \* x & (KB_BUFFER_SIZE - 1), a power of two

KbInit ==
  /\ Init
  /\ kb_buf = [i \in KbSlots |-> 0] /\ kb_read = 0 /\ kb_write = 0
  /\ kb_waiter_pid = NO_WAITER /\ shift_held = 0 /\ caps_lock = 0
  /\ want = [p \in Pids |-> 0] /\ out = <<>>

-----------------------------------------------------------------------------
(* The interrupt *)

\* The two tables, by key: a letter, another character, a key without one.
scancode_normal  == [a |-> 97, one |-> 49, f1 |-> 0]
scancode_shifted == [a |-> 65, one |-> 33, f1 |-> 0]
Characters       ==
  {table[key] : table \in {scancode_normal, scancode_shifted}, key \in Keys \cap DOMAIN scancode_normal} \ {0}

\* From a key to its character.  The two tests for caps lock follow each other.
translate(key) ==
  LET plain  == IF shift_held = 1 THEN scancode_shifted[key] ELSE scancode_normal[key]
      raised == IF caps_lock = 1 /\ plain \in 97 .. 122 THEN plain - 32 ELSE plain
  IN  IF caps_lock = 1 /\ raised \in 65 .. 90 THEN raised + 32 ELSE raised

\* Mutant: the last slot is used as well.
Bug_buf_push(c) ==
  /\ kb_buf' = [kb_buf EXCEPT ![kb_write] = c]
  /\ kb_write' = KbMask(kb_write + 1)

\* buf_push(): a character that finds the ring full is dropped.
buf_push(c) ==
  LET next == KbMask(kb_write + 1)
  IN  IF next = kb_read
      THEN UNCHANGED <<kb_buf, kb_write>>
      ELSE kb_buf' = [kb_buf EXCEPT ![kb_write] = c] /\ kb_write' = next

\* Mutant: only a process in the ready queue is woken.
Bug_woken_by_key == {p \in Pids : p = kb_waiter_pid /\ state[p] = "READY"}

\* The process that a key press wakes: the waiter, if it is still BLOCKED.
woken_by_key == {p \in Pids : p = kb_waiter_pid /\ state[p] = "BLOCKED"}

\* keyboard_handler() for the keys that change how others are read.
shift_key(pressed) ==
  /\ "shift" \in Keys
  /\ shift_held' = pressed
  /\ UNCHANGED caps_lock

caps_key ==
  /\ "caps" \in Keys
  /\ caps_lock' = 1 - caps_lock
  /\ UNCHANGED shift_held

modifier_key ==
  /\ InterruptsEnabled
  /\ caps_key \/ \E b \in {0, 1} : shift_key(b)
  /\ UNCHANGED <<pcbVars, pidVars, clockVars, wakeup_tick, waiting, frame,
                 kb_buf, kb_read, kb_write, kb_waiter_pid, want, out>>
  /\ Return(state, ready_queue)

\* keyboard_handler() for another key that is pressed: its character, if it has
\* one, goes to the ring, and the waiter is woken.  The release of such a key is
\* like the press of a key without a character.
press(key) ==
  LET c == translate(key)
      W == IF c # 0 THEN woken_by_key ELSE {}
  IN  /\ InterruptsEnabled
      /\ IF c # 0 THEN buf_push(c) /\ kb_waiter_pid' = NO_WAITER
                  ELSE UNCHANGED <<kb_buf, kb_write, kb_waiter_pid>>
      /\ wakeup_tick' = [p \in Pids |-> IF p \in W THEN 0 ELSE wakeup_tick[p]]
      /\ UNCHANGED <<pcbVars, pidVars, clockVars, waiting, frame,
                     kb_read, shift_held, caps_lock, want, out>>
      /\ \E w \in Ascending(W) : Return(Woken(state, W), sched_add(ready_queue, w))

-----------------------------------------------------------------------------
(* The reader *)

\* The number of characters in the ring; keyboard_has_char() is Buffered > 0.
Buffered == KbMask(kb_write - kb_read)

\* kbd_read() from its start or after a wakeup: block while the ring is empty,
\* then take up to len characters with keyboard_getchar().
kbd_read(len) ==
  LET p == current_proc
      n == Min({len, Buffered})
  IN  /\ UNCHANGED <<pcbVars, pidVars, clockVars, wakeup_tick, waiting,
                     kb_buf, kb_write, shift_held, caps_lock>>
      /\ \/ /\ Buffered = 0
            /\ kb_waiter_pid' = p
            /\ frame' = [frame EXCEPT ![p] = "io"]
            /\ want' = [want EXCEPT ![p] = len]
            /\ UNCHANGED <<kb_read, out>>
            /\ sched_yield([state EXCEPT ![p] = "BLOCKED"], sched_remove(ready_queue, p))
         \/ /\ Buffered > 0
            /\ out' = [i \in 1 .. n |-> kb_buf[KbMask(kb_read + i - 1)]]
            /\ kb_read' = KbMask(kb_read + n)
            /\ frame' = [frame EXCEPT ![p] = "user"]
            /\ want' = [want EXCEPT ![p] = 0]
            /\ UNCHANGED kb_waiter_pid
            /\ Return(state, ready_queue)

\* SYS_READ on descriptor 0.  With SharedStdin = 0 the programs take turns.
read_stdin(len) ==
  /\ Calls("read")
  /\ SharedStdin = 0 => \A p \in Pids : want[p] = 0
  /\ kbd_read(len)

\* The reader dispatched after its sched_yield() looks again.
read_resume ==
  /\ sched_enabled = 1 /\ frame[current_proc] = "io"
  /\ kbd_read(want[current_proc])

\* Everything else; SYS_EXEC makes its target forget the read it was in, but
\* kb_waiter_pid keeps its pid.
process_step ==
  /\ Next
  /\ want' = [p \in Pids |-> IF frame'[p] = "io" THEN want[p] ELSE 0]
  /\ UNCHANGED <<kb_buf, kb_read, kb_write, kb_waiter_pid, shift_held, caps_lock, out>>

KbNext ==
  \/ process_step
  \/ modifier_key
  \/ \E key \in Keys \cap DOMAIN scancode_normal : press(key)
  \/ \E n \in ReadLens : read_stdin(n)
  \/ read_resume

KbSpec == KbInit /\ [][KbNext]_<<vars, kbVars>>

-----------------------------------------------------------------------------
(* Properties *)

\* Nobody sleeps on a keyboard that has something for them: a process blocked in
\* kbd_read() sees an empty ring, and the interrupt handler knows its pid.
NoLostKey ==
  \A p \in Pids : state[p] = "BLOCKED" /\ frame[p] = "io" =>
    Buffered = 0 /\ kb_waiter_pid = p

\* The driver's ring is a first-in first-out queue of KB_BUFFER_SIZE - 1
\* characters between the interrupt handler and the readers; it drops what does
\* not fit and nothing else, and no read returns a character it does not hold.
KeyQueue == INSTANCE Fifo WITH Items <- Characters, Cap <- KB_BUFFER_SIZE - 1, last <- out,
              queue <- [i \in 1 .. Buffered |-> kb_buf[KbMask(kb_read + i - 1)]]
KeysInOrder == KeyQueue!Spec

\* With caps lock on, a letter key gives the other case than with caps lock off.
\* The code does not meet this.
CapsFlips ==
  [][\A key \in Keys \cap {"a"} : press(key) /\ caps_lock = 1 /\ kb_write' # kb_write =>
       kb_buf'[kb_write] = (IF shift_held = 1 THEN scancode_normal ELSE scancode_shifted)[key]
    ]_<<vars, kbVars>>
=============================================================================
