------------------------------- MODULE Ramfs -------------------------------
(***************************************************************************)
(* The in-memory file system: ramfs.c and the vnodes of vfs.c.  The        *)
(* operations are functions on the table of vnodes; Vfs makes the calls.   *)
(*                                                                         *)
(* A vnode stands for itself and for its ramfs_inode_t.  Every kmalloc()   *)
(* may fail.  Names are compared only, except for their length: Pieces[n]  *)
(* is how a component n is cut into pieces of VFS_NAME_MAX - 1 characters. *)
(***************************************************************************)
EXTENDS Integers, Sequences, FiniteSets, FiniteSetsExt, SequencesExt

CONSTANTS
  Vnodes,                  \* as many vnodes as the heap has room for
  NULL,
  Pieces,                  \* a function from names to sequences of names
  Bytes,
  Junk,                    \* a byte of memory that kmalloc() has just returned
  INITIAL_CAPACITY         \* the literal 64 of ramfs_write()

ASSUME RamfsAssumption ==
  /\ Vnodes \subseteq Nat /\ NULL \notin Vnodes /\ Junk \notin Bytes
  /\ INITIAL_CAPACITY \in Nat \ {0}
  /\ \A n \in DOMAIN Pieces : Pieces[n] # <<>>

VARIABLES
  vnode,                   \* the vnode_t's, with their ramfs_inode_t's
  ramfs_root

Lowest(S) == {x \in S : \A y \in S : x <= y}

Unallocated == [type |-> "none", refcount |-> 0, size |-> 0, capacity |-> 0,
                buf |-> <<>>, children |-> <<>>]

\* vnode_alloc() and ramfs_new_vnode(): nothing is known about it yet.
ramfs_new_vnode(type) == [Unallocated EXCEPT !.type = type]

\* The memory for a new vnode, if there is any: which free block kmalloc() returns
\* is not observable, and the lowest is one that was freed before.
Unused(vn) == Lowest({v \in Vnodes : vn[v].type = "none"})

-----------------------------------------------------------------------------
(* Files *)

\* Mutant: the capacity is not reset.
Bug_ramfs_open(vn, v, flags) ==
  IF "TRUNC" \in flags /\ vn[v].type = "FILE"
  THEN [vn EXCEPT ![v].size = 0, ![v].buf = <<>>] ELSE vn

\* ramfs_open(): O_TRUNC drops the contents of a regular file.
ramfs_open(vn, v, flags) ==
  IF "TRUNC" \in flags /\ vn[v].type = "FILE"
  THEN [vn EXCEPT ![v].capacity = 0, ![v].size = 0, ![v].buf = <<>>] ELSE vn

\* ramfs_read(): the bytes that a read of len bytes at offset returns.
ramfs_read(vn, v, len, offset) ==
  SubSeq(vn[v].buf, offset + 1, Min({offset + len, vn[v].size}))

\* The capacity that the doubling loop of ramfs_write() arrives at.  Files are far
\* smaller than 2^31 bytes, beyond which the doubled uint32_t is 0 and the loop has
\* no end.
GrownCapacity(capacity, end) ==
  LET start == IF capacity # 0 THEN capacity ELSE INITIAL_CAPACITY
  IN  IF end <= capacity THEN capacity
      ELSE Min({c \in {start * 2^k : k \in 0 .. end} : c >= end})

\* Mutant: the old bytes are not copied.
Bug_GrownBuf(node, cap) == [i \in 1 .. cap |-> Junk]

\* The buffer after growing to cap bytes: the first size bytes are copied.
GrownBuf(node, cap) ==
  IF cap = node.capacity THEN node.buf
  ELSE [i \in 1 .. cap |-> IF i <= node.size THEN node.buf[i] ELSE Junk]

\* ramfs_write() of data at offset, when the buffer suffices or can be had.  The
\* sum end is below 2^32, where it would wrap round.
ramfs_write(vn, v, data, offset) ==
  LET end == offset + Len(data)
      cap == GrownCapacity(vn[v].capacity, end)
      old == GrownBuf(vn[v], cap)
  IN  [vn EXCEPT ![v].capacity = cap,
                 ![v].buf = [i \in DOMAIN old |-> IF i \in offset + 1 .. end
                                                  THEN data[i - offset] ELSE old[i]],
                 ![v].size = Max({@, end})]

-----------------------------------------------------------------------------
(* Directories *)

\* ramfs_lookup(): the first entry with the name.
ramfs_lookup(vn, dir, name) ==
  LET found == {i \in DOMAIN vn[dir].children : vn[dir].children[i].name = name}
  IN  IF vn[dir].type # "DIR" \/ found = {} THEN NULL
      ELSE vn[dir].children[Min(found)].vnode

\* ramfs_add_dirent(): the new entry, with the name cut to size, comes first.
ramfs_add_dirent(vn, dir, name, child) ==
  [vn EXCEPT ![dir].children = <<[name |-> Head(Pieces[name]), vnode |-> child]>> \o @]

\* Mutant: a failing ramfs_add_dirent() leaves the new vnode behind.
Bug_ramfs_create(vn, dir, name, type) ==
  LET existing == ramfs_lookup(vn, dir, name)
  IN  IF vn[dir].type # "DIR" THEN {[vnode |-> vn, out |-> NULL]}
      ELSE IF existing # NULL THEN {[vnode |-> vn, out |-> existing]}
      ELSE {[vnode |-> [vn EXCEPT ![c] = ramfs_new_vnode(type)], out |-> NULL] : c \in Unused(vn)}

\* ramfs_create() and, with type "DIR", ramfs_mkdir_op(): the possible outcomes.
\* An entry with the name is handed back whatever its type; when one of the
\* three allocations fails, those before it are freed.
ramfs_create(vn, dir, name, type) ==
  LET existing == ramfs_lookup(vn, dir, name)
      created(c) == ramfs_add_dirent([vn EXCEPT ![c] = ramfs_new_vnode(type)], dir, name, c)
  IN  IF vn[dir].type # "DIR" THEN {[vnode |-> vn, out |-> NULL]}
      ELSE IF existing # NULL THEN {[vnode |-> vn, out |-> existing]}
      ELSE {[vnode |-> vn, out |-> NULL]}
             \cup {[vnode |-> created(c), out |-> c] : c \in Unused(vn)}

\* ramfs_unlink() of an entry that exists: the vnode goes with it, whoever
\* still has it open.
ramfs_unlink(vn, dir, name) ==
  LET v == ramfs_lookup(vn, dir, name)
      isThis(d) == d.name = name
  IN  [vn EXCEPT ![dir].children = RemoveFirstMatch(@, isThis), ![v] = Unallocated]

\* ramfs_readdir(): the entry at index, if there is one.
ramfs_readdir(vn, dir, index) ==
  IF vn[dir].type = "DIR" /\ index + 1 \in DOMAIN vn[dir].children
  THEN vn[dir].children[index + 1] ELSE NULL
=============================================================================
