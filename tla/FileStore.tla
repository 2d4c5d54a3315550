----------------------------- MODULE FileStore -----------------------------
(***************************************************************************)
(* What the file system promises to programs: files are sequences of bytes *)
(* with names, and an open file has a position.  There are no vnodes,      *)
(* buffers, directories or descriptors.  A gap left by a write beyond the  *)
(* end holds Junk.                                                         *)
(***************************************************************************)
EXTENDS Naturals, Sequences

CONSTANTS FileNames, Handles, Modes, Data, Amounts, Junk

VARIABLES
  content,                 \* from the names of the existing files to their bytes
  handle,                  \* from the open files to a name, a position and flags
  got                      \* what the last step read

Init == content = <<>> /\ handle = <<>> /\ got = <<>>

Put(fn, x, y) == [z \in DOMAIN fn \cup {x} |-> IF z = x THEN y ELSE fn[z]]
Drop(fn, S)   == [z \in DOMAIN fn \ S |-> fn[z]]

\* The bytes s after data has been written at offset.
Overwrite(s, data, offset) ==
  LET end == offset + Len(data)
  IN  [i \in 1 .. IF end > Len(s) THEN end ELSE Len(s) |->
         IF i \in offset + 1 .. end THEN data[i - offset]
         ELSE IF i <= Len(s) THEN s[i] ELSE Junk]

\* A file is opened, after it was emptied under O_TRUNC, or created under O_CREAT
\* if there is none.  The open may still fail then.
Open(n, flags) ==
  /\ got' = <<>>
  /\ n \in DOMAIN content \/ "CREAT" \in flags
  /\ content' = IF n \in DOMAIN content /\ "TRUNC" \notin flags THEN content
                                                              ELSE Put(content, n, <<>>)
  /\ \/ UNCHANGED handle
     \/ \E h \in Handles \ DOMAIN handle :
          handle' = Put(handle, h, [name |-> n, flags |-> flags,
                                    pos |-> IF "APPEND" \in flags THEN Len(content'[n]) ELSE 0])

Read(h, len) ==
  LET s   == content[handle[h].name]
      end == IF handle[h].pos + len < Len(s) THEN handle[h].pos + len ELSE Len(s)
  IN  /\ got' = SubSeq(s, handle[h].pos + 1, end)
      /\ handle' = [handle EXCEPT ![h].pos = @ + Len(got')]
      /\ UNCHANGED content

\* A write goes to the end of a file opened for appending.  It may fail.
Write(h, data) ==
  LET n   == handle[h].name
      pos == IF "APPEND" \in handle[h].flags THEN Len(content[n]) ELSE handle[h].pos
  IN  /\ got' = <<>>
      /\ \/ /\ content' = [content EXCEPT ![n] = Overwrite(@, data, pos)]
            /\ handle' = [handle EXCEPT ![h].pos = pos + Len(data)]
         \/ handle' = [handle EXCEPT ![h].pos = pos] /\ UNCHANGED content

Close(S) == handle' = Drop(handle, S) /\ got' = <<>> /\ UNCHANGED content

\* A file that nobody has open is removed.
Remove(n) ==
  /\ \A h \in DOMAIN handle : handle[h].name # n
  /\ content' = Drop(content, {n})
  /\ got' = <<>>
  /\ UNCHANGED handle

Next ==
  \/ \E n \in FileNames, flags \in Modes : Open(n, flags)
  \/ \E h \in DOMAIN handle, len \in Amounts : Read(h, len)
  \/ \E h \in DOMAIN handle, data \in Data : Write(h, data)
  \/ \E S \in SUBSET DOMAIN handle : Close(S)
  \/ \E n \in DOMAIN content : Remove(n)

Spec == Init /\ [][Next]_<<content, handle, got>>
=============================================================================
