-------------------------------- MODULE VfsDirs --------------------------------
(***************************************************************************)
(* The runtime tree in a program's own archive as the program's libc calls *)
(* see it (vfs/vfs.c for POSIX, with UNPIN_VFS_SELF and UNPIN_VFS_DIRS):   *)
(* open, stat, access, and directory streams that walk the central         *)
(* directory entry by entry. The archive is shared with unpin's metadata,  *)
(* which must stay out of sight.                                           *)
(*                                                                         *)
(* A path below the mount is a sequence of segments. The program is single *)
(* threaded here, as the code demands, but keeps several streams open.     *)
(***************************************************************************)
EXTENDS LexicalPath, SequencesExt

CONSTANTS
  Archives,    \* central directories: sequences of entries
  Paths,       \* what the program asks for
  Lower,       \* Lower[s]: segment s in lower case
  Handle,      \* how many streams it keeps open
  MaxSegs      \* how many segments path_canon keeps

\* A directory record's name ends in a slash.
Entry == [path : Seq(DOMAIN Lower), dir : BOOLEAN]

Same(p, q) == Len(p) = Len(q) /\ \A j \in DOMAIN p : Lower[p[j]] = Lower[q[j]]

\* Entries are files and directories of a tree; two files whose names differ in
\* case only could be taken for each other.
IsTree(a) ==
  \A j, k \in DOMAIN a :
    /\ a[j].path # <<>>
    /\ j # k /\ Len(a[j].path) <= Len(a[k].path)
         /\ Same(a[j].path, SubSeq(a[k].path, 1, Len(a[j].path))) =>
         a[j].dir /\ Len(a[j].path) < Len(a[k].path)

\* A segment is never empty.
ASSUME VfsDirsAssumption ==
  /\ MaxSegs \in Nat \ {0} /\ Handle # {} /\ "" \notin DOMAIN Lower
  /\ \A p \in Paths : p \in Seq(DOMAIN Lower)
  /\ \A a \in Archives : a \in Seq(Entry) /\ IsTree(a)

VARIABLES
  archive,     \* the central directory
  g_state,     \* "uninit", "ready" or "failed"
  stream       \* stream[h]: a struct vfs_dir, or Closed

vars == <<archive, g_state, stream>>

\* "out" and "lost" record what readdir returned so far and whether a name
\* could not be kept; "end" whether it has returned NULL.
Stream == [prefix : Seq(DOMAIN Lower), cursor : Nat \ {0},
           last : DOMAIN Lower \cup {""}, seen : SUBSET DOMAIN Lower,
           out : Seq((DOMAIN Lower) \X {"file", "dir"}),
           lost : BOOLEAN, end : BOOLEAN]
Closed == <<>>

Init ==
  /\ archive \in Archives
  /\ g_state = "uninit"
  /\ stream = [h \in Handle |-> Closed]

-------------------------------------------------------------------------------
(* Paths and lookups.                                                      *)

\* path_canon. What does not fit is dropped.
Push(key, seg) ==
  IF seg = "." THEN key
  ELSE IF seg = ".." THEN SubSeq(key, 1, Len(key) - 1)
  ELSE IF Len(key) < MaxSegs THEN Append(key, seg) ELSE key
Canon(path) ==
  LET after[j \in 0 .. Len(path)] ==
        IF j = 0 THEN <<>> ELSE Push(after[j - 1], path[j])
  IN  after[Len(path)]

\* posix_key of every path.
Key == [p \in Paths |-> Canon(p)]
Keys == {Key[p] : p \in Paths}

\* vfs_hidden.
Hidden(key) == key # <<>> /\ Lower[key[1]] \in {"unpin", ".unpin"}

\* mz_zip_reader_locate_file: the entry of that name, in any case, if there is.
Located(key, dir) ==
  {j \in DOMAIN archive : archive[j].dir = dir /\ Same(archive[j].path, key)}

\* Is the entry in the directory `key`, or its own record?
Under(e, key) ==
  IsPrefix(key, e.path) /\ (e.dir \/ Len(e.path) > Len(key))

ImplicitDir(key) ==
  key = <<>> \/ \E j \in DOMAIN archive : Under(archive[j], key)

\* A call that comes first reads the archive itself.
Readable == g_state # "failed"

\* vfs_open_virtual, but for failures to decode the entry.
Open(key) == ~Hidden(key) /\ Readable /\ Located(key, FALSE) # {}

\* vfs_stat_virtual.
Stat(key) ==
  IF Hidden(key) \/ ~Readable THEN "none"
  ELSE IF Located(key, FALSE) # {} THEN "file"
  ELSE IF Located(key, TRUE) # {} \/ ImplicitDir(key) THEN "dir"
  ELSE "none"

\* Mutant of Access: it looks for the exact name.
AccessByName(key) == Open(key)

\* ACCESS_FN.
Access(key) == Stat(key) # "none"

\* What opendir takes for a directory.
IsDir(key) ==
  /\ Readable /\ ~Hidden(key)
  /\ \/ Located(key, FALSE) = {} /\ Located(key, TRUE) # {}
     \/ ImplicitDir(key)

-------------------------------------------------------------------------------
(* Directory streams.                                                      *)

\* unpin_vfs_init: the first call reads the archive, or fails for good.
Start ==
  g_state' \in IF g_state = "uninit" THEN {"ready", "failed"} ELSE {g_state}

\* OPENDIR_FN.
OpenDir(h) ==
  /\ stream[h] = Closed
  /\ Start /\ g_state' = "ready"
  /\ \E key \in Keys :
       /\ IsDir(key)
       /\ stream' = [stream EXCEPT ![h] =
            [prefix |-> key, cursor |-> 1, last |-> "", seen |-> {},
             out |-> <<>>, lost |-> FALSE, end |-> FALSE]]
  /\ UNCHANGED archive

\* There is no such directory, or no memory for the stream; and what open and
\* stat change.
OpenDirFails == Start /\ UNCHANGED <<archive, stream>>

\* vfs_child_seg: the entry's segment below the directory, and what it is.
HasChild(e, prefix) ==
  ~Hidden(e.path) /\ IsPrefix(prefix, e.path) /\ Len(e.path) > Len(prefix)
Child(e, prefix) == e.path[Len(prefix) + 1]
Kind(e, prefix) ==
  IF e.dir \/ Len(e.path) > Len(prefix) + 1 THEN "dir" ELSE "file"

\* Mutant of New: only the name before is remembered.
NewOneSlot(s, j) ==
  HasChild(archive[j], s.prefix) /\ Child(archive[j], s.prefix) # s.last

New(s, j) ==
  /\ HasChild(archive[j], s.prefix)
  /\ Child(archive[j], s.prefix) \notin s.seen \cup {s.last}

\* READDIR_FN: on to the next entry with a name not yet returned. seen_add
\* drops the name if memory runs out.
ReadDir(h) ==
  LET s == stream[h]
      First(j) == /\ j \in s.cursor .. Len(archive) /\ New(s, j)
                  /\ \A k \in s.cursor .. j - 1 : ~New(s, k)
  IN  /\ s # Closed
      /\ \E j \in DOMAIN archive, kept \in BOOLEAN :
           /\ First(j)
           /\ LET name == Child(archive[j], s.prefix)
              IN stream' = [stream EXCEPT ![h] =
                   [s EXCEPT !.cursor = j + 1, !.last = name,
                      !.seen = IF kept THEN @ \cup {name} ELSE @,
                      !.out = Append(@, <<name, Kind(archive[j], s.prefix)>>),
                      !.lost = @ \/ ~kept]]
      /\ UNCHANGED <<archive, g_state>>

\* Mutant of ReadEnd: the cursor runs on past the last entry.
ReadEndRunsOn(h) ==
  /\ stream[h] # Closed
  /\ \A j \in stream[h].cursor .. Len(archive) : ~New(stream[h], j)
  /\ stream' = [stream EXCEPT ![h].cursor = Len(archive) + 2, ![h].end = TRUE]
  /\ UNCHANGED <<archive, g_state>>

\* READDIR_FN where there is none.
ReadEnd(h) ==
  /\ stream[h] # Closed
  /\ \A j \in stream[h].cursor .. Len(archive) : ~New(stream[h], j)
  /\ stream' = [stream EXCEPT ![h].cursor = Len(archive) + 1, ![h].end = TRUE]
  /\ UNCHANGED <<archive, g_state>>

CloseDir(h) ==
  /\ stream[h] # Closed
  /\ stream' = [stream EXCEPT ![h] = Closed]
  /\ UNCHANGED <<archive, g_state>>

Next ==
  \/ OpenDirFails
  \/ \E h \in Handle : OpenDir(h) \/ ReadDir(h) \/ ReadEnd(h) \/ CloseDir(h)

Spec == Init /\ [][Next]_vars

-------------------------------------------------------------------------------

Names(s) == {s.out[j][1] : j \in DOMAIN s.out}

\* In whatever order entries lie, and with other streams open beside it, a
\* stream returns each child of its directory, by its kind, and nothing else;
\* and none twice, unless memory ran out for the names it remembers.
ListsOnce ==
  \A h \in Handle : stream[h] # Closed =>
    LET s == stream[h]
        Children == {e.path[Len(s.prefix) + 1] :
                       e \in {archive[j] : j \in {k \in DOMAIN archive :
                                HasChild(archive[k], s.prefix)}}}
    IN /\ ~s.lost => Cardinality(Names(s)) = Len(s.out)
       /\ Names(s) \subseteq Children
       /\ s.end => Names(s) = Children
       /\ \A j \in DOMAIN s.out :
            Stat(Append(s.prefix, s.out[j][1])) = s.out[j][2]

\* A path of segments that fit means what they say; a constant.
Means(p) == Len(p) <= MaxSegs => Key[p] = Lexical(p, ".", "..")
AllMeant == \A p \in Paths : Means(p)

\* The keys of all the paths that lead below unpin's namespaces.
Metadata ==
  {Key[p] : p \in {q \in Paths :
     LET at == Lexical(q, ".", "..")
     IN Len(q) <= MaxSegs /\ at # <<>> /\ Lower[at[1]] \in {"unpin", ".unpin"}}}

Idle == \A h \in DOMAIN stream : stream[h] = Closed

\* All calls answer alike for one path: what opens is a file to stat, what
\* lists is a directory to it, access finds what stat finds; and a path means
\* what its segments say.
CallsAgree ==
  Idle => /\ AllMeant
          /\ \A key \in Keys :
               /\ Open(key) <=> Stat(key) = "file"
               /\ IsDir(key) <=> Stat(key) = "dir"
               /\ Access(key) <=> Open(key) \/ IsDir(key)

\* No path, however it is spelled, and no listing leads to unpin's metadata.
MetadataStays ==
  /\ Idle => \A key \in Metadata : ~Open(key) /\ ~Access(key) /\ ~IsDir(key)
  /\ \A h \in Handle : stream[h] # Closed /\ stream[h].prefix = <<>> =>
       \A n \in Names(stream[h]) : Lower[n] \notin {"unpin", ".unpin"}
===============================================================================
