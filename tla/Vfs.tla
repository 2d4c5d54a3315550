-------------------------------- MODULE Vfs --------------------------------
(***************************************************************************)
(* Files: the mount table, path resolution and open files of vfs.c, the    *)
(* descriptors of fd.c and the system calls of syscall.c that use them, on *)
(* top of Ramfs, and the boot steps ramfs_init() and devfs_init().         *)
(*                                                                         *)
(* A system call runs with interrupts disabled and none of these blocks    *)
(* (reading the keyboard does, and is in Keyboard): each is one step.  A   *)
(* path is the sequence of its components, shorter than VFS_PATH_MAX.  The *)
(* access mode is left out: no code looks at it.  The descriptors are      *)
(* those beside the three standard ones.                                   *)
(***************************************************************************)
EXTENDS Ramfs

CONSTANTS
  VFS_MOUNT_MAX,
  Devices,                 \* the devices registered by devfs_init(), in order
  Files,                   \* as many file_t's as the heap has room for
  Procs,
  FD_MAX,                  \* descriptors per process, the standard ones not counted
  Paths,                   \* the paths that programs open
  OpenFlags,               \* the sets of flags they open them with
  Lens,                    \* the lengths they read
  Data,                    \* the sequences of bytes they write
  MaxSize,                 \* bound: no write ends beyond it
  UnlinkOpen               \* 1: an open file may be unlinked

NoFile == -1
Fds    == 0 .. FD_MAX - 1
NoMem  == [vnode |-> NULL, offset |-> 0, flags |-> {}, refcount |-> 0]  \* a file_t not allocated

ASSUME VfsAssumption ==
  /\ Files \subseteq Nat /\ VFS_MOUNT_MAX \in Nat \ {0} /\ UnlinkOpen \in {0, 1}
  /\ FD_MAX \in Nat /\ MaxSize \in Nat /\ Lens \subseteq Nat \ {0}
  /\ Data \subseteq Seq(Bytes) \ {<<>>}

VARIABLES
  mount_table,             \* the active entries
  boot,                    \* the next step of kernel_main(): "ramfs", "devfs", then "up"
  device,                  \* g_stdin, g_stdout and g_stderr
  file,                    \* the file_t's
  fd_table,                \* per process
  got                      \* the bytes that the last step has read for a program

vars == <<vnode, ramfs_root, mount_table, boot, device, file, fd_table, got>>

\* vfs_init(), before ramfs_init().
Init ==
  /\ vnode = [v \in Vnodes |-> Unallocated]
  /\ ramfs_root = NULL
  /\ mount_table = {}
  /\ boot = "ramfs"
  /\ device = [d \in Range(Devices) |-> NULL]
  /\ file = [f \in Files |-> NoMem]
  /\ fd_table = [p \in Procs |-> [i \in Fds |-> NoFile]]
  /\ got = <<>>

-----------------------------------------------------------------------------
(* Paths *)

\* find_mount(): of the mounts that path is under, the one with the longest path.
find_mount(path) ==
  LET under == {m \in mount_table : IsPrefix(m.path, path)}
  IN  {m \in under : \A o \in under : Len(o.path) <= Len(m.path)}

\* The components that vfs_resolve() looks up for the part of a path below its
\* mount point: one that is too long counts as several.
Components(path) == FlattenSeq([i \in DOMAIN path |-> Pieces[path[i]]])

\* vfs_resolve(): from the root of the mount, component after component, to the
\* vnode at the end, NULL if one is missing.
vfs_resolve(vn, path) ==
  LET m == CHOOSE m \in find_mount(path) : TRUE
      c == Components(SubSeq(path, Len(m.path) + 1, Len(path)))
      walk[i \in 0 .. Len(c)] ==
        IF i = 0 THEN m.root
        ELSE IF walk[i - 1] = NULL THEN NULL ELSE ramfs_lookup(vn, walk[i - 1], c[i])
  IN  IF find_mount(path) = {} THEN NULL ELSE walk[Len(c)]

\* The directory in which vfs_open() and vfs_mkdir() create path, NULL if none.
ParentDir(vn, path) ==
  LET dir == IF path = <<>> THEN NULL ELSE vfs_resolve(vn, Front(path))
  IN  IF dir # NULL /\ vn[dir].type = "DIR" THEN dir ELSE NULL

\* vfs_mkdir(): the possible outcomes.
vfs_mkdir(vn, path) ==
  IF ParentDir(vn, path) = NULL THEN {[vnode |-> vn, out |-> NULL]}
  ELSE ramfs_create(vn, ParentDir(vn, path), Last(path), "DIR")

-----------------------------------------------------------------------------
(* Boot *)

\* vfs_mount(): the mount table with one more entry, if there is a free one.
vfs_mount(path, root) ==
  IF Cardinality(mount_table) < VFS_MOUNT_MAX
  THEN mount_table \cup {[path |-> path, root |-> root]} ELSE mount_table

\* ramfs_init() with vfs_mount("/"), or without memory for the root.
ramfs_init ==
  /\ boot = "ramfs" /\ boot' = "devfs"
  /\ \/ \E r \in Unused(vnode) :
          /\ vnode' = [vnode EXCEPT ![r] = ramfs_new_vnode("DIR")]
          /\ ramfs_root' = r
          /\ mount_table' = vfs_mount(<<>>, r)
     \/ UNCHANGED <<vnode, ramfs_root, mount_table>>
  /\ UNCHANGED <<device, file, fd_table, got>>

\* ramfs_register_dev() of each device in its turn: an entry that cannot be
\* allocated is left out, and nobody looks.
ramfs_register_dev(vn, dir, g, registered) ==
  FoldLeft(LAMBDA acc, d : IF d \in registered THEN ramfs_add_dirent(acc, dir, d, g[d]) ELSE acc,
           vn, Devices)

\* vnode_alloc() of each device in its turn; those in lucky get memory.
AllocDevices(vn, lucky) ==
  LET alloc(acc, d) ==
        IF d \notin lucky \/ Unused(acc.vnode) = {} THEN acc
        ELSE LET v == CHOOSE v \in Unused(acc.vnode) : TRUE
             IN  [vnode |-> [acc.vnode EXCEPT ![v] = ramfs_new_vnode("DEV")],
                  device |-> [acc.device EXCEPT ![d] = v]]
  IN  FoldLeft(alloc, [vnode |-> vn, device |-> device], Devices)

\* devfs_init(): /dev, the device vnodes that there is memory for, and their
\* entries if there was memory for all.
devfs_init ==
  /\ boot = "devfs" /\ boot' = "up"
  /\ \E r \in vfs_mkdir(vnode, <<"dev">>) :
       IF r.out = NULL THEN vnode' = r.vnode /\ UNCHANGED device
       ELSE \E lucky \in SUBSET Range(Devices), registered \in SUBSET Range(Devices) :
              LET s == AllocDevices(r.vnode, lucky)
              IN  /\ device' = s.device
                  /\ vnode' = IF NULL \in Range(s.device) THEN s.vnode
                              ELSE ramfs_register_dev(s.vnode, r.out, s.device, registered)
  /\ UNCHANGED <<ramfs_root, mount_table, file, fd_table, got>>

-----------------------------------------------------------------------------
(* Open files.  An operation takes and returns the vnodes and the file_t's. *)

\* vfs_open_vnode(): the file system has truncated the file by the time the
\* file_t turns out to be allocated or not.
vfs_open_vnode(vn, v, flags) ==
  LET opened == ramfs_open(vn, v, flags)
      new    == [vnode |-> v, offset |-> IF "APPEND" \in flags THEN opened[v].size ELSE 0,
                 flags |-> flags, refcount |-> 1]
  IN  {[vnode |-> opened, file |-> file, out |-> NoFile]} \cup
      {[vnode |-> [opened EXCEPT ![v].refcount = @ + 1],
        file |-> [file EXCEPT ![f] = new], out |-> f] : f \in Lowest({f \in Files : file[f].refcount = 0})}

\* vfs_open(): the possible outcomes.  A path that does not resolve is created
\* under O_CREAT.
vfs_open(path, flags) ==
  LET v    == vfs_resolve(vnode, path)
      fail == [vnode |-> vnode, file |-> file, out |-> NoFile]
      dir  == ParentDir(vnode, path)
  IN  IF v # NULL THEN vfs_open_vnode(vnode, v, flags)
      ELSE IF "CREAT" \notin flags \/ dir = NULL THEN {fail}
      ELSE UNION {IF r.out = NULL THEN {fail} ELSE vfs_open_vnode(r.vnode, r.out, flags)
                    : r \in ramfs_create(vnode, dir, Last(path), "FILE")}

\* Mutant: the vnode keeps its reference.
Bug_vfs_close(s, f) ==
  IF s.file[f].refcount > 1 THEN [s EXCEPT !.file[f].refcount = @ - 1]
  ELSE [s EXCEPT !.file[f] = NoMem]

\* vfs_close() and vnode_unref(): the last reference frees the file_t, never
\* the vnode.
vfs_close(s, f) ==
  IF s.file[f].refcount > 1 THEN [s EXCEPT !.file[f].refcount = @ - 1]
  ELSE [s EXCEPT !.vnode[s.file[f].vnode].refcount = IF @ > 0 THEN @ - 1 ELSE 0,
                 !.file[f] = NoMem]

-----------------------------------------------------------------------------
(* System calls *)

Unchanged(v) == boot = "up" /\ got' = v /\ UNCHANGED <<ramfs_root, mount_table, boot, device>>

Free(p) == {i \in Fds : fd_table[p][i] = NoFile}

\* sys_open(): a file that finds no descriptor is closed again.
sys_open(p, path, flags) ==
  /\ Unchanged(<<>>)
  /\ \E r \in vfs_open(path, flags) :
       LET s == IF r.out # NoFile /\ Free(p) = {} THEN vfs_close(r, r.out) ELSE r
       IN  /\ vnode' = s.vnode /\ file' = s.file
           /\ fd_table' = IF r.out = NoFile \/ Free(p) = {} THEN fd_table
                          ELSE [fd_table EXCEPT ![p][Min(Free(p))] = r.out]

\* Mutant: the file_t moves on by the length asked for.
Bug_sys_read(p, i, len) ==
  LET f == fd_table[p][i]
  IN  /\ f # NoFile /\ vnode[file[f].vnode].type = "FILE"
      /\ Unchanged(ramfs_read(vnode, file[f].vnode, len, file[f].offset))
      /\ file' = [file EXCEPT ![f].offset = @ + len]
      /\ UNCHANGED <<vnode, fd_table>>

\* sys_read() through fd_read() and vfs_read(): the file_t moves on by what was
\* read.  A directory cannot be read.
sys_read(p, i, len) ==
  LET f == fd_table[p][i]
      v == file[f].vnode
  IN  /\ f # NoFile /\ vnode[v].type = "FILE"
      /\ Unchanged(ramfs_read(vnode, v, len, file[f].offset))
      /\ file' = [file EXCEPT ![f].offset = @ + Len(got')]
      /\ UNCHANGED <<vnode, fd_table>>

\* Mutant: the offset set by vfs_open() is taken for the end.
Bug_WriteOffset(f) == file[f].offset

\* Where vfs_write() writes.
WriteOffset(f) == IF "APPEND" \in file[f].flags THEN vnode[file[f].vnode].size ELSE file[f].offset

\* The devices with a write operation, which takes everything: all but stdin.
TakesAll(v) == v \in {device[d] : d \in Range(Devices) \ {"stdin"}}

\* sys_write() through fd_write() and vfs_write().  The size of a device grows
\* with the offset; a file without memory for a larger buffer takes nothing, but
\* the offset of an O_APPEND file has been set.
sys_write(p, i, data) ==
  LET f      == fd_table[p][i]
      v      == file[f].vnode
      offset == WriteOffset(f)
      end    == offset + Len(data)
  IN  /\ f # NoFile
      /\ Unchanged(<<>>)
      /\ \/ /\ vnode[v].type = "FILE" /\ end <= MaxSize
            /\ vnode' = ramfs_write(vnode, v, data, offset)
            /\ file' = [file EXCEPT ![f].offset = end]
         \/ /\ vnode[v].type = "FILE" /\ end > vnode[v].capacity
            /\ file' = [file EXCEPT ![f].offset = offset]
            /\ UNCHANGED vnode
         \/ /\ TakesAll(v) /\ end <= MaxSize
            /\ vnode' = [vnode EXCEPT ![v].size = Max({@, end})]
            /\ file' = [file EXCEPT ![f].offset = end]
      /\ UNCHANGED fd_table

\* sys_close() through fd_close().
sys_close(p, i) ==
  LET s == vfs_close([vnode |-> vnode, file |-> file], fd_table[p][i])
  IN  /\ fd_table[p][i] # NoFile
      /\ Unchanged(<<>>)
      /\ vnode' = s.vnode /\ file' = s.file
      /\ fd_table' = [fd_table EXCEPT ![p][i] = NoFile]

\* fd_table_clone() of proc_fork(): the child shares its parent's file_t's.
fd_table_clone(p, child) ==
  /\ Unchanged(<<>>)
  /\ child # p /\ Free(child) = Fds
  /\ fd_table' = [fd_table EXCEPT ![child] = fd_table[p]]
  /\ file' = [f \in Files |-> [file[f] EXCEPT !.refcount =
                                 @ + Cardinality({i \in Fds : fd_table[p][i] = f})]]
  /\ UNCHANGED vnode

\* fd_table_close_all() of proc_destroy().
fd_table_close_all(p) ==
  LET close(s, f) == IF f = NoFile THEN s ELSE vfs_close(s, f)
      s == FoldLeft(close, [vnode |-> vnode, file |-> file],
                    [n \in 1 .. FD_MAX |-> fd_table[p][n - 1]])
  IN  /\ Unchanged(<<>>)
      /\ Free(p) # Fds
      /\ vnode' = s.vnode /\ file' = s.file
      /\ fd_table' = [fd_table EXCEPT ![p] = [i \in Fds |-> NoFile]]

\* The unlink operation of ramfs on a regular file.  Nothing in the kernel calls
\* it yet: with UnlinkOpen = 0 the caller is one that leaves open files alone.
unlink(path) ==
  LET v == vfs_resolve(vnode, path)
  IN  /\ Unchanged(<<>>)
      /\ v # NULL /\ vnode[v].type = "FILE" /\ ParentDir(vnode, path) # NULL
      /\ UnlinkOpen = 1 \/ vnode[v].refcount = 0
      /\ vnode' = ramfs_unlink(vnode, ParentDir(vnode, path), Last(path))
      /\ UNCHANGED <<file, fd_table>>

Next ==
  \/ ramfs_init
  \/ devfs_init
  \/ \E p \in Procs, path \in Paths, flags \in OpenFlags : sys_open(p, path, flags)
  \/ \E p \in Procs, i \in Fds, len \in Lens : sys_read(p, i, len)
  \/ \E p \in Procs, i \in Fds, data \in Data : sys_write(p, i, data)
  \/ \E p \in Procs, i \in Fds : sys_close(p, i)
  \/ \E p, child \in Procs : fd_table_clone(p, child)
  \/ \E p \in Procs : fd_table_close_all(p)
  \/ \E path \in Paths : unlink(path)

Spec == Init /\ [][Next]_vars

-----------------------------------------------------------------------------
(* Properties *)

Open(v) == {f \in Files : file[f].refcount > 0 /\ file[f].vnode = v}

\* The entries of directory v, as <<v, index>>.
Entries == {<<v, i>> \in Vnodes \X (0 .. Cardinality(Vnodes)) : ramfs_readdir(vnode, v, i) # NULL}

Entry(e) == ramfs_readdir(vnode, e[1], e[2])

\* The types of the vnodes, the file_t's and the tables (vfs.h, ramfs.c).
TypeOK ==
  /\ \A v \in Vnodes :
       /\ vnode[v].type \in {"none", "FILE", "DIR", "DEV"}
       /\ vnode[v].refcount \in Nat /\ vnode[v].size \in Nat /\ vnode[v].capacity \in Nat
       /\ \A b \in Range(vnode[v].buf) : b \in Bytes \cup {Junk}
       /\ \A d \in Range(vnode[v].children) : d.vnode \in Vnodes
  /\ DOMAIN vnode = Vnodes
  /\ file \in [Files -> [vnode : Vnodes \cup {NULL}, offset : 0 .. MaxSize,
                         flags : OpenFlags \cup {{}}, refcount : 0 .. FD_MAX * Cardinality(Procs)]]
  /\ fd_table \in [Procs -> [Fds -> Files \cup {NoFile}]]
  /\ ramfs_root \in Vnodes \cup {NULL} /\ boot \in {"ramfs", "devfs", "up"}
  /\ \A m \in mount_table : m.root = ramfs_root

\* Every vnode in use is the root, a device, or entered in exactly one directory
\* (so that no failing create and no unlink leaves one behind), every entry
\* leads to a vnode in use, and ramfs_lookup() finds every entry that
\* ramfs_readdir() lists: no name stands twice in a directory.
TreeExact ==
  /\ \A v \in Vnodes :
       LET here == {e \in Entries : Entry(e).vnode = v}
       IN  vnode[v].type \in {"FILE", "DIR"} =>
             IF v = ramfs_root THEN here = {} ELSE Cardinality(here) = 1
  /\ \A e \in Entries :
       /\ vnode[Entry(e).vnode].type # "none"
       /\ ramfs_lookup(vnode, e[1], Entry(e).name) = Entry(e).vnode
  /\ \A d \in Range(Devices) : device[d] # NULL => vnode[device[d]].type = "DEV"

\* A vnode counts the files open on it and a file_t the descriptors that share
\* it, through failing opens, forks and closes; no file_t refers to a vnode that
\* is gone (vfs.h: refcount, "number of references existing").
CountsExact ==
  /\ \A v \in Vnodes : vnode[v].refcount = Cardinality(Open(v))
  /\ \A f \in Files :
       /\ file[f].refcount = Cardinality({<<p, i>> \in Procs \X Fds : fd_table[p][i] = f})
       /\ file[f].refcount > 0 => vnode[file[f].vnode].type # "none"

\* The buffer of a file has the capacity noted for it, and the file fits in it:
\* ramfs_read() and ramfs_write() stay inside the buffer.
BufFits ==
  \A v \in Vnodes : vnode[v].type = "FILE" =>
    vnode[v].size <= vnode[v].capacity /\ vnode[v].capacity = Len(vnode[v].buf)

\* A file changes below its size only by a write through a file_t opened without
\* O_APPEND or by an O_TRUNC that empties it (vfs.h: "always write at end"):
\* while all its openers append, nothing written is overwritten.
AppendAtEnd ==
  [][\A v \in Vnodes :
       /\ vnode[v].type = "FILE" /\ vnode'[v].type = "FILE"
       /\ \A f \in Open(v) : "APPEND" \in file[f].flags
       => vnode'[v].size = 0 \/ IsPrefix(SubSeq(vnode[v].buf, 1, vnode[v].size),
                                        SubSeq(vnode'[v].buf, 1, vnode'[v].size))]_vars

\* The bytes of a file are those that programs wrote.  The code does not meet
\* this: a write beyond the end of a file that was truncated leaves a gap.
NoStrayBytes ==
  \A v \in Vnodes : vnode[v].type = "FILE" =>
    Junk \notin Range(SubSeq(vnode[v].buf, 1, vnode[v].size))

\* An open that returns no descriptor leaves the files as they were.  The code
\* does not meet this: ramfs_open() has truncated by then.
OpenAllOrNothing ==
  [][\A p \in Procs, path \in Paths, flags \in OpenFlags :
       sys_open(p, path, flags) /\ fd_table' = fd_table =>
         \A v \in Vnodes : vnode'[v].size = vnode[v].size]_vars

-----------------------------------------------------------------------------
(* The file system implements FileStore: a file is known by its vnode. *)

RegularFiles == {v \in Vnodes : vnode[v].type = "FILE"}

Store == INSTANCE FileStore WITH
  FileNames <- Vnodes, Handles <- Files, Amounts <- Lens, Modes <- OpenFlags,
  content <- [v \in RegularFiles |-> SubSeq(vnode[v].buf, 1, vnode[v].size)],
  handle <- [f \in UNION {Open(v) : v \in RegularFiles} |->
               [name |-> file[f].vnode, flags |-> file[f].flags, pos |-> file[f].offset]]

\* What programs see of files is what FileStore allows: reads return what was
\* written to the file, through growing buffers, shared offsets, truncations by
\* others, vnodes used again and failing allocations.
IsFileStore == Store!Spec
=============================================================================
