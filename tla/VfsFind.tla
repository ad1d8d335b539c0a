-------------------------------- MODULE VfsFind --------------------------------
(***************************************************************************)
(* The same tree under Windows, where an editor expands a wildcard with    *)
(* FindFirstFileW, FindNextFileW and FindClose (vfs/vfs.c with             *)
(* UNPIN_VFS_WIN_MARKER). A search below the mount is answered from the    *)
(* archive; its handle is the address of a record, remembered in a table   *)
(* of fixed size, and every handle the program passes is looked up there   *)
(* to tell it from a kernel's.                                             *)
(***************************************************************************)
EXTENDS VfsDirs

CONSTANTS
  FindMax,     \* UVFS_FIND_MAX: searches below the mount open at a time
  Pointer      \* what a handle can be, ours or the kernel's

ASSUME FindAssumption == FindMax \in Nat \ {0} /\ Pointer # {}

VARIABLES
  g_finds,     \* g_finds[k]: a struct unpin_find, or Free
  held         \* held[h]: what the program takes the handle h for

findVars == <<g_finds, held>>

Free == <<>>
NotHeld == <<>>
Kernels == [whose |-> "kernel"]

FindInit ==
  /\ g_finds = [k \in 1 .. FindMax |-> Free]
  /\ held = [h \in Pointer |-> NotHeld]

-------------------------------------------------------------------------------
\* unpin_vfs_win_isdir, unpin_vfs_get_file_attributes_w.
WinIsDir(key) ==
  /\ ~Hidden(key) /\ Readable
  /\ Located(key, TRUE) # {} \/ ImplicitDir(key)
Attributes(key) ==
  IF WinIsDir(key) THEN "dir" ELSE IF Open(key) THEN "file" ELSE "none"

\* find_push for each child that vfs_child_seg finds.
Pushed(key, names, e) ==
  IF /\ HasChild(e, key)
     /\ \A k \in DOMAIN names : names[k][1] # Child(e, key)
  THEN Append(names, <<Child(e, key), Kind(e, key)>>)
  ELSE names
Listing(key) ==
  LET after[j \in 0 .. Len(archive)] ==
        IF j = 0 THEN <<>> ELSE Pushed(key, after[j - 1], archive[j])
  IN  after[Len(archive)]

\* find_slot.
Slots(h) == {k \in DOMAIN g_finds : g_finds[k] # Free /\ g_finds[k].at = h}

\* Neither malloc nor the kernel returns what is in use.
Unused(h) == held[h] = NotHeld

\* unpin_vfs_find_first_w below the mount: the names are listed at once, the
\* first is the answer.
FindFirst(h) ==
  /\ Unused(h)
  /\ Start /\ g_state' = "ready"
  /\ \E key \in Keys, k \in DOMAIN g_finds :
       LET names == Listing(key)
       IN  /\ g_finds[k] = Free /\ \A l \in 1 .. k - 1 : g_finds[l] # Free
           /\ names # <<>>
           /\ g_finds' =
                [g_finds EXCEPT ![k] = [at |-> h, names |-> names, i |-> 1]]
           /\ held' = [held EXCEPT ![h] =
                [whose |-> "ours", dir |-> key, out |-> SubSeq(names, 1, 1),
                 end |-> FALSE]]
  /\ UNCHANGED <<archive, stream>>

\* There is nothing to list, no memory for one of the names, or no slot: the
\* search is the kernel's, which knows no such directory.
FindFirstFails == Start /\ UNCHANGED <<archive, stream, g_finds, held>>

\* unpin_vfs_find_first_w anywhere else.
KernelFirst(h) ==
  /\ Unused(h)
  /\ held' = [held EXCEPT ![h] = Kernels]
  /\ UNCHANGED <<archive, stream, g_state, g_finds>>

\* unpin_vfs_find_next_w of a handle in the table.
FindNext(h) ==
  \E k \in Slots(h) :
    LET f == g_finds[k]
        more == f.i < Len(f.names)
    IN  /\ held[h] # NotHeld
        /\ g_finds' = IF more THEN [g_finds EXCEPT ![k].i = @ + 1] ELSE g_finds
        /\ held' = IF held[h].whose = "kernel" THEN held
                   ELSE IF more
                   THEN [held EXCEPT ![h].out = Append(@, f.names[f.i + 1])]
                   ELSE [held EXCEPT ![h].end = TRUE]
        /\ UNCHANGED <<archive, stream, g_state>>

\* Mutant of FindClose: the slot still holds the address it freed.
FindCloseKeeps(h) ==
  /\ held[h] # NotHeld
  /\ held' = [held EXCEPT ![h] = NotHeld]
  /\ UNCHANGED <<archive, stream, g_state, g_finds>>

\* unpin_vfs_find_close.
FindClose(h) ==
  /\ held[h] # NotHeld
  /\ g_finds' = [k \in DOMAIN g_finds |->
                   IF k \in Slots(h) THEN Free ELSE g_finds[k]]
  /\ held' = [held EXCEPT ![h] = NotHeld]
  /\ UNCHANGED <<archive, stream, g_state>>

-------------------------------------------------------------------------------
\* A handle is answered by whom it belongs to, however searches below the mount
\* and elsewhere are mixed and addresses used again. A search below it returns
\* each child of the directory once, with the kind the attribute call gives,
\* never a part of them: it is whole or refused.
SearchWhole ==
  \A h \in Pointer :
    /\ Cardinality(Slots(h)) =
         IF held[h] # NotHeld /\ held[h].whose = "ours" THEN 1 ELSE 0
    /\ held[h] # NotHeld /\ held[h].whose = "ours" =>
         LET s == held[h]
             names == {s.out[j][1] : j \in DOMAIN s.out}
             children == {Child(e, s.dir) :
                            e \in {f \in ToSet(archive) : HasChild(f, s.dir)}}
         IN  /\ Cardinality(names) = Len(s.out) /\ names \subseteq children
             /\ s.end => names = children
             /\ \A j \in DOMAIN s.out :
                  Attributes(Append(s.dir, s.out[j][1])) = s.out[j][2]
===============================================================================
