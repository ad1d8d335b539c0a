------------------------------- MODULE VfsFiles -------------------------------
(***************************************************************************)
(* How an entry of the archive becomes a descriptor (vfs/vfs.c). Under     *)
(* Windows it is written to a temporary file once (materialize) and the    *)
(* file opened again for every call, until the process ends and removes    *)
(* what it wrote. Elsewhere each call writes an anonymous file: a memfd,   *)
(* or a temporary file unlinked while it is open (anon_fd).                *)
(*                                                                         *)
(* Several processes of the program share the temporary directory, any     *)
(* system call may fail, and a process may be killed between any two.      *)
(***************************************************************************)
EXTENDS Naturals, FiniteSets

CONSTANTS
  Process, File,   \* processes of the program; indices of the archive's files
  Size,            \* Size[e]: what the entry takes to write, in blocks
  Name,            \* names in the temporary directory
  Fd               \* descriptors a process can have open

NoName == "none"

ASSUME VfsFilesAssumption ==
  /\ File \subseteq Nat \ {0} /\ Size \in [File -> Nat]
  /\ IsFiniteSet(Process) /\ IsFiniteSet(File) /\ IsFiniteSet(Name)
  /\ NoName \notin Name

VARIABLES
  platform,    \* "windows", "mkstemp" or "memfd"
  call,        \* call[p]: where a call is, and the file it writes
  tmpcache,    \* tmpcache[p][e]: the file that holds e, or NoName
  disk,        \* disk[n]: what the file n holds, or NoFile
  fds,         \* fds[p][d]: an open descriptor, or NotOpen
  astray       \* names nobody is left to remove, by an event outside the code

filesVars == <<platform, call, tmpcache, disk, fds, astray>>

NoFile == <<>>
NotOpen == <<>>
At(place) == [at |-> place, of |-> 0, name |-> NoName, blocks |-> 0]
NoneCached == [e \in File |-> NoName]

FilesInit ==
  /\ platform \in {"windows", "mkstemp", "memfd"}
  /\ call = [p \in Process |-> At("idle")]
  /\ tmpcache = [p \in Process |-> NoneCached]
  /\ disk = [n \in Name |-> NoFile]
  /\ fds = [p \in Process |-> [d \in Fd |-> NotOpen]]
  /\ astray = {}

-------------------------------------------------------------------------------
Goto(p, place) == call' = [call EXCEPT ![p].at = place]
Return(p) == call' = [call EXCEPT ![p] = At("idle")]
Delete(n) == disk' = [disk EXCEPT ![n] = NoFile]
Holding(e, blocks) == [of |-> e, blocks |-> blocks]

\* The descriptor the program gets for e.
Give(p, e, n, content) ==
  \E d \in Fd :
    /\ fds[p][d] = NotOpen
    /\ fds' =
         [fds EXCEPT ![p][d] = [asked |-> e, name |-> n, holds |-> content]]

\* A call for an entry: materialize of one not in the cache, or fd_for.
Call(p, e) ==
  /\ call[p].at = "idle" /\ tmpcache[p][e] = NoName
  /\ call' = [call EXCEPT ![p].of = e, ![p].at =
       IF platform = "windows" THEN "name"
       ELSE IF Size[e] = 0 THEN "anon" ELSE "extract"]
  /\ UNCHANGED <<platform, tmpcache, disk, fds, astray>>

\* unpin_vfs_open of one in the cache.
CallCached(p, e) ==
  /\ call[p].at = "idle" /\ tmpcache[p][e] # NoName
  /\ Give(p, e, tmpcache[p][e], disk[tmpcache[p][e]])
  /\ UNCHANGED <<platform, call, tmpcache, disk, astray>>

\* GetTempFileNameA, mkstemp: an empty file of a name not in use.
TakeName(p, place) ==
  /\ \E n \in Name :
       /\ disk[n] = NoFile
       /\ disk' = [disk EXCEPT ![n] = Holding(call[p].of, 0)]
       /\ call' = [call EXCEPT ![p].name = n, ![p].at = place]
  /\ UNCHANGED <<platform, tmpcache, fds, astray>>

TempName(p) ==
  /\ call[p].at = "name"
  /\ TakeName(p, IF Size[call[p].of] = 0 THEN "open" ELSE "extract")

MkStemp(p) ==
  call[p].at = "anon" /\ platform = "mkstemp" /\ TakeName(p, "unlink")

Unlink(p) ==
  /\ call[p].at = "unlink" /\ Delete(call[p].name)
  /\ call' = [call EXCEPT ![p].at = "write", ![p].name = NoName]
  /\ UNCHANGED <<platform, tmpcache, fds, astray>>

\* The entry is decoded to memory; the file is opened, or the memfd made.
Extract(p) ==
  /\ call[p].at = "extract"
  /\ Goto(p, IF platform = "windows" THEN "open" ELSE "anon")
  /\ UNCHANGED <<platform, tmpcache, disk, fds, astray>>

OpenToWrite(p) ==
  /\ call[p].at = IF platform = "memfd" THEN "anon" ELSE "open"
  /\ Goto(p, "write")
  /\ UNCHANGED <<platform, tmpcache, disk, fds, astray>>

\* One turn of the loops that write: as much as the system takes.
Write(p) ==
  /\ call[p].at = "write"
  /\ \E w \in call[p].blocks + 1 .. Size[call[p].of] :
       /\ call' = [call EXCEPT ![p].blocks = w]
       /\ disk' = IF call[p].name = NoName THEN disk
                  ELSE [disk EXCEPT ![call[p].name].blocks = w]
  /\ UNCHANGED <<platform, tmpcache, fds, astray>>

\* Mutant of Whole: what one write took is taken for all.
WholeAtOnce(p) ==
  call[p].at = "write" /\ (Size[call[p].of] = 0 \/ call[p].blocks > 0)

Whole(p) == call[p].at = "write" /\ call[p].blocks = Size[call[p].of]

\* The end of materialize: the path is kept. unpin_vfs_open then opens it,
\* which may fail; stat does not.
Keep(p) ==
  LET c == call[p]
  IN  /\ platform = "windows" /\ Whole(p) /\ Return(p)
      /\ tmpcache' = [tmpcache EXCEPT ![p][c.of] = c.name]
      /\ UNCHANGED fds \/ Give(p, c.of, c.name, disk[c.name])
      /\ UNCHANGED <<platform, disk, astray>>

\* There is no memory to keep it: EIO.
KeepFails(p) ==
  /\ platform = "windows" /\ Whole(p) /\ Return(p)
  /\ astray' = astray \cup {call[p].name}
  /\ UNCHANGED <<platform, tmpcache, disk, fds>>

\* The end of anon_fd.
Anonymous(p) ==
  LET c == call[p]
  IN  /\ platform # "windows" /\ Whole(p) /\ Return(p)
      /\ Give(p, c.of, NoName, Holding(c.of, c.blocks))
      /\ UNCHANGED <<platform, tmpcache, disk, astray>>

\* Mutant of Fail: a failure after the name was taken leaves the file.
FailLeaves(p) ==
  /\ call[p].at \in {"name", "extract", "open", "anon", "write"} /\ Return(p)
  /\ UNCHANGED <<platform, tmpcache, disk, fds, astray>>

\* A call of the system fails (the last of them is fdopen, behind fopen): EIO,
\* and the file that has a name is deleted.
Fail(p) ==
  /\ call[p].at \in {"name", "extract", "open", "anon", "write"} /\ Return(p)
  /\ IF call[p].name = NoName THEN UNCHANGED disk ELSE Delete(call[p].name)
  /\ UNCHANGED <<platform, tmpcache, fds, astray>>

Close(p) ==
  /\ call[p].at = "idle"
  /\ \E d \in Fd : fds[p][d] # NotOpen /\ fds' = [fds EXCEPT ![p][d] = NotOpen]
  /\ UNCHANGED <<platform, call, tmpcache, disk, astray>>

Owned(p) == {tmpcache[p][e] : e \in File} \cup {call[p].name}
Busy(p) == {fds[p][d].name : d \in {c \in Fd : fds[p][c] # NotOpen}}

Gone(p) ==
  /\ call' = [call EXCEPT ![p] = At("gone")]
  /\ fds' = [fds EXCEPT ![p] = [d \in Fd |-> NotOpen]]
  /\ tmpcache' = [tmpcache EXCEPT ![p] = NoneCached]

\* vfs_cleanup as the process ends: a file still open cannot be deleted.
Exit(p) ==
  /\ call[p].at = "idle" /\ Gone(p)
  /\ disk' = [n \in Name |->
                IF n \in Owned(p) \ Busy(p) THEN NoFile ELSE disk[n]]
  /\ astray' = astray \cup ((Owned(p) \cap Busy(p)) \ {NoName})
  /\ UNCHANGED platform

\* The process is killed.
Kill(p) ==
  /\ call[p].at # "gone" /\ Gone(p)
  /\ astray' = astray \cup (Owned(p) \ {NoName})
  /\ UNCHANGED <<platform, disk>>

-------------------------------------------------------------------------------
\* What the program reads from a descriptor is the entry it asked for, all of
\* it, and so is every file it will open again: whatever fails, whoever else
\* uses the temporary directory.
ServedWhole ==
  \A p \in Process :
    /\ \A d \in Fd : fds[p][d] # NotOpen =>
         fds[p][d].holds = Holding(fds[p][d].asked, Size[fds[p][d].asked])
    /\ \A e \in File : tmpcache[p][e] # NoName =>
         disk[tmpcache[p][e]] = Holding(e, Size[e])

\* A temporary file is one that a living process is writing or has kept to open
\* again, and one process's only; or its process was killed, or ended with the
\* file open, or had no memory to keep its name.
NothingLeft ==
  \A n \in Name : disk[n] # NoFile =>
    Cardinality({p \in Process : n \in Owned(p)})
      = IF n \in astray THEN 0 ELSE 1
===============================================================================
