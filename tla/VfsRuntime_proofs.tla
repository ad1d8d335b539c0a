--------------------------- MODULE VfsRuntime_proofs ---------------------------
(***************************************************************************)
(* What the runtime VFS of a shipped program serves, for any archives,     *)
(* processes, descriptors and names.                                       *)
(***************************************************************************)
EXTENDS VfsRuntime, LexicalPath_proofs

-------------------------------------------------------------------------------
(* Descriptors and temporary files (VfsFiles).                             *)

Places == {"idle", "name", "extract", "open", "anon", "unlink", "write", "gone"}
Content == [of : File, blocks : Nat]
Descriptor == [asked : File, name : Name \cup {NoName}, holds : Content]

FilesTypeOK ==
  /\ platform \in {"windows", "mkstemp", "memfd"}
  /\ call \in [Process -> [at : Places, of : File \cup {0},
                           name : Name \cup {NoName}, blocks : Nat]]
  /\ tmpcache \in [Process -> [File -> Name \cup {NoName}]]
  /\ disk \in [Name -> Content \cup {NoFile}]
  /\ fds \in [Process -> [Fd -> Descriptor \cup {NotOpen}]]
  /\ astray \subseteq Name

\* Where a call is tells what it has in hand: which file, whether it has a name
\* for it, and how much of it is written there.
Named(p) == call[p].name # NoName
Step(p) ==
  /\ call[p].at \in {"idle", "gone"} => ~Named(p) /\ call[p].blocks = 0
  /\ call[p].at \notin {"idle", "gone"} =>
       /\ call[p].of \in File /\ tmpcache[p][call[p].of] = NoName
       /\ call[p].blocks <= Size[call[p].of]
       /\ call[p].at # "write" => call[p].blocks = 0
       /\ Named(p) => disk[call[p].name] = Holding(call[p].of, call[p].blocks)
  /\ call[p].at \in {"name", "anon"} => ~Named(p)
  /\ call[p].at = "name" => platform = "windows"
  /\ call[p].at = "unlink" => Named(p) /\ platform = "mkstemp"
  /\ call[p].at = "extract" => (Named(p) <=> platform = "windows")
  /\ call[p].at \in {"open", "write"} => (Named(p) <=> platform = "windows")

Steps == \A p \in Process : Step(p)

\* A name in use is one process's and in one place, and its file is there.
OwnedOnce ==
  /\ \A p \in Process, n \in Name : n \in Owned(p) => disk[n] # NoFile
  /\ \A p, q \in Process, n \in Name : n \in Owned(p) /\ n \in Owned(q) => p = q
  /\ \A p \in Process, e \in File : Named(p) => tmpcache[p][e] # call[p].name

\* A file that is there is somebody's or astray, and nothing is both.
Owners ==
  \A n \in Name :
    /\ n \in astray => disk[n] # NoFile /\ \A p \in Process : n \notin Owned(p)
    /\ disk[n] # NoFile /\ n \notin astray => \E p \in Process : n \in Owned(p)

FilesInv == FilesTypeOK /\ Steps /\ OwnedOnce /\ Owners /\ ServedWhole

LEMMA Distinct ==
  /\ \A c \in Content : c # NoFile
  /\ \A d \in Descriptor : d # NotOpen
  /\ \A e \in File, b \in Nat : Holding(e, b) \in Content
<1>1. ASSUME NEW c \in Content PROVE c # NoFile
  <2>1. DOMAIN c = {"of", "blocks"}
    BY <1>1 DEF Content
  <2>2. DOMAIN NoFile = {}
    BY DEF NoFile
  <2> QED BY <2>1, <2>2
<1>2. ASSUME NEW d \in Descriptor PROVE d # NotOpen
  <2>1. DOMAIN d = {"asked", "name", "holds"}
    BY <1>2 DEF Descriptor
  <2>2. DOMAIN NotOpen = {}
    BY DEF NotOpen
  <2> QED BY <2>1, <2>2
<1>3. \A e \in File, b \in Nat : Holding(e, b) \in Content
  BY DEF Holding, Content
<1> QED BY <1>1, <1>2, <1>3

\* What a call has in hand.
LEMMA InHand ==
  ASSUME FilesTypeOK, NEW p \in Process
  PROVE  /\ call[p].at \in Places /\ call[p].of \in File \cup {0}
         /\ call[p].name \in Name \cup {NoName} /\ call[p].blocks \in Nat
         /\ \A e \in File : tmpcache[p][e] \in Name \cup {NoName}
BY DEF FilesTypeOK

LEMMA InitFiles == FilesInit => FilesInv
<1> SUFFICES ASSUME FilesInit PROVE FilesInv
  OBVIOUS
<1>1. /\ platform \in {"windows", "mkstemp", "memfd"} /\ astray = {}
      /\ call = [p \in Process |-> At("idle")]
      /\ tmpcache = [p \in Process |-> NoneCached]
      /\ disk = [n \in Name |-> NoFile]
      /\ fds = [p \in Process |-> [d \in Fd |-> NotOpen]]
  BY DEF FilesInit
<1>2. FilesTypeOK
  BY <1>1 DEF FilesTypeOK, At, NoneCached, Places
<1>3. \A p \in Process : /\ call[p].at = "idle" /\ call[p].name = NoName
                          /\ call[p].blocks = 0
  BY <1>1 DEF At
<1>4. Steps
  BY <1>3 DEF Steps, Step, Named
<1>5. \A p \in Process, n \in Name : n \notin Owned(p)
  BY <1>1, <1>3, VfsFilesAssumption DEF Owned, NoneCached
<1>6. OwnedOnce /\ Owners
  BY <1>1, <1>3, <1>5 DEF OwnedOnce, Owners, Named
<1>7. ServedWhole
  BY <1>1 DEF ServedWhole, NoneCached
<1> QED BY <1>2, <1>4, <1>6, <1>7 DEF FilesInv

\* The types are kept by every step of a process.
FilesStep(p) ==
  \/ \E e \in File : Call(p, e) \/ CallCached(p, e)
  \/ TempName(p) \/ MkStemp(p) \/ Unlink(p) \/ Extract(p) \/ OpenToWrite(p)
  \/ Write(p) \/ Keep(p) \/ KeepFails(p) \/ Anonymous(p) \/ Fail(p)
  \/ Close(p) \/ Exit(p) \/ Kill(p)

LEMMA GivenType ==
  ASSUME FilesTypeOK, NEW p \in Process, NEW e \in File,
         NEW n \in Name \cup {NoName}, NEW content \in Content,
         Give(p, e, n, content)
  PROVE  fds' \in [Process -> [Fd -> Descriptor \cup {NotOpen}]]
<1>1. PICK d \in Fd :
        fds' = [fds EXCEPT ![p][d] = [asked |-> e, name |-> n, holds |-> content]]
  BY DEF Give
<1>2. [asked |-> e, name |-> n, holds |-> content] \in Descriptor
  BY DEF Descriptor
<1> HIDE DEF Descriptor, Content
<1>3. fds \in [Process -> [Fd -> Descriptor \cup {NotOpen}]]
  BY DEF FilesTypeOK
<1> QED BY <1>1, <1>2, <1>3

LEMMA FilesTypes ==
  ASSUME FilesInv, NEW p \in Process, FilesStep(p)
  PROVE  FilesTypeOK'
<1> DEFINE C == [at : Places, of : File \cup {0}, name : Name \cup {NoName},
                 blocks : Nat]
<1> HIDE DEF Content, Descriptor
<1>0. FilesTypeOK /\ Step(p) /\ OwnedOnce /\ ServedWhole
  BY DEF FilesInv, Steps
<1>1. ASSUME NEW e \in File, Call(p, e) PROVE FilesTypeOK'
  BY <1>0, <1>1 DEF FilesTypeOK, Call, Places
<1>2. ASSUME NEW e \in File, CallCached(p, e) PROVE FilesTypeOK'
  <2>1. tmpcache[p][e] \in Name
    BY <1>0, <1>2, InHand DEF CallCached
  <2>2. disk[tmpcache[p][e]] \in Content
    <3>1. tmpcache[p][e] \in Owned(p)
      BY DEF Owned
    <3> QED BY <1>0, <2>1, <3>1 DEF OwnedOnce, FilesTypeOK
  <2>3. fds' \in [Process -> [Fd -> Descriptor \cup {NotOpen}]]
    BY <1>0, <1>2, <2>1, <2>2, GivenType DEF CallCached
  <2> QED BY <1>0, <1>2, <2>3 DEF CallCached, FilesTypeOK
<1>3. ASSUME NEW place \in Places, call[p].of \in File, TakeName(p, place)
      PROVE  FilesTypeOK'
  <2>1. Holding(call[p].of, 0) \in Content
    BY <1>3, Distinct
  <2>2. PICK n \in Name :
          /\ disk' = [disk EXCEPT ![n] = Holding(call[p].of, 0)]
          /\ call' = [call EXCEPT ![p].name = n, ![p].at = place]
    BY <1>3 DEF TakeName
  <2>3. disk' \in [Name -> Content \cup {NoFile}]
    BY <1>0, <2>1, <2>2 DEF FilesTypeOK
  <2>4. call' \in [Process -> C]
    <3>1. call \in [Process -> C] /\ call[p] \in C
      BY <1>0 DEF FilesTypeOK
    <3>2. [call[p] EXCEPT !.name = n, !.at = place] \in C
      BY <1>3, <3>1
    <3>3. call' = [call EXCEPT ![p] = [call[p] EXCEPT !.name = n, !.at = place]]
      BY <2>2, <3>1
    <3> HIDE DEF C
    <3> QED BY <3>1, <3>2, <3>3
  <2> QED BY <1>0, <1>3, <2>3, <2>4 DEF FilesTypeOK, TakeName
<1>4. CASE TempName(p)
  BY <1>0, <1>3, <1>4 DEF TempName, Step, Places
<1>5. CASE MkStemp(p)
  BY <1>0, <1>3, <1>5 DEF MkStemp, Step, Places
<1>6. CASE Unlink(p)
  <2>1. disk' \in [Name -> Content \cup {NoFile}]
    BY <1>0, <1>6 DEF FilesTypeOK, Unlink, Delete
  <2>2. call' \in [Process -> C]
    <3>1. call \in [Process -> C] /\ call[p] \in C
      BY <1>0 DEF FilesTypeOK
    <3>2. [call[p] EXCEPT !.at = "write", !.name = NoName] \in C
      BY <3>1 DEF Places
    <3>3. call' = [call EXCEPT
                     ![p] = [call[p] EXCEPT !.at = "write", !.name = NoName]]
      BY <1>6, <3>1 DEF Unlink
    <3> HIDE DEF C
    <3> QED BY <3>1, <3>2, <3>3
  <2> QED BY <1>0, <1>6, <2>1, <2>2 DEF FilesTypeOK, Unlink
<1>7. CASE Extract(p)
  <2>1. call' \in [Process -> C]
    <3>1. call \in [Process -> C] /\ call[p] \in C
      BY <1>0 DEF FilesTypeOK
    <3>2. PICK place \in Places : call' = [call EXCEPT ![p].at = place]
      BY <1>7 DEF Extract, Goto, Places
    <3>3. [call[p] EXCEPT !.at = place] \in C
      BY <3>1
    <3>4. call' = [call EXCEPT ![p] = [call[p] EXCEPT !.at = place]]
      BY <3>1, <3>2
    <3> HIDE DEF C
    <3> QED BY <3>1, <3>3, <3>4
  <2> QED BY <1>0, <1>7, <2>1 DEF FilesTypeOK, Extract
<1>8. CASE OpenToWrite(p)
  BY <1>0, <1>8 DEF FilesTypeOK, OpenToWrite, Goto, Places
<1>9. CASE Write(p)
  <2>1. call[p].of \in File /\ Size[call[p].of] \in Nat
    BY <1>0, <1>9, VfsFilesAssumption DEF Step, Write
  <2>2. PICK w \in call[p].blocks + 1 .. Size[call[p].of] :
          /\ call' = [call EXCEPT ![p].blocks = w]
          /\ disk' = IF call[p].name = NoName THEN disk
                     ELSE [disk EXCEPT ![call[p].name].blocks = w]
    BY <1>9 DEF Write
  <2>3. w \in Nat
    BY <1>0, <2>1, <2>2, InHand
  <2>4. call' \in [Process -> C]
    BY <1>0, <2>2, <2>3 DEF FilesTypeOK
  <2>5. disk' \in [Name -> Content \cup {NoFile}]
    <3>1. CASE call[p].name = NoName
      BY <1>0, <2>2, <3>1 DEF FilesTypeOK
    <3>2. CASE call[p].name # NoName
      <4>1. disk[call[p].name] = Holding(call[p].of, call[p].blocks)
        BY <1>0, <1>9, <3>2 DEF Step, Write, Named
      <4>2. [disk[call[p].name] EXCEPT !.blocks = w] = Holding(call[p].of, w)
        BY <4>1 DEF Holding
      <4>3. Holding(call[p].of, w) \in Content
        BY <2>1, <2>3, Distinct
      <4>4. disk' = [disk EXCEPT ![call[p].name] = Holding(call[p].of, w)]
        BY <2>2, <3>2, <4>2
      <4> QED BY <1>0, <4>3, <4>4 DEF FilesTypeOK
    <3> QED BY <3>1, <3>2
  <2> QED BY <1>0, <1>9, <2>4, <2>5 DEF Write, FilesTypeOK
<1>10. CASE Keep(p)
  <2>1. call[p].of \in File /\ call[p].name \in Name
    BY <1>0, <1>10, InHand DEF Keep, Whole, Step, Named
  <2>2. disk[call[p].name] \in Content
    BY <1>0, <1>10, <2>1, InHand, Distinct, VfsFilesAssumption
       DEF Keep, Whole, Step, Named
  <2>3. fds' \in [Process -> [Fd -> Descriptor \cup {NotOpen}]]
    BY <1>0, <1>10, <2>1, <2>2, GivenType DEF Keep, FilesTypeOK
  <2>4. tmpcache' \in [Process -> [File -> Name \cup {NoName}]]
    BY <1>0, <1>10, <2>1 DEF Keep, FilesTypeOK
  <2> QED BY <1>0, <1>10, <2>3, <2>4 DEF Keep, Return, At, Places, FilesTypeOK
<1>11. CASE KeepFails(p)
  <2>1. call[p].name \in Name
    BY <1>0, <1>11, InHand DEF KeepFails, Whole, Step, Named
  <2> QED
    BY <1>0, <1>11, <2>1 DEF KeepFails, Return, At, Places, FilesTypeOK
<1>12. CASE Anonymous(p)
  <2>1. call[p].of \in File /\ call[p].blocks \in Nat
    BY <1>0, <1>12, InHand DEF Anonymous, Whole, Step
  <2>2. Holding(call[p].of, call[p].blocks) \in Content
    BY <2>1, Distinct
  <2>3. fds' \in [Process -> [Fd -> Descriptor \cup {NotOpen}]]
    BY <1>0, <1>12, <2>1, <2>2, GivenType DEF Anonymous
  <2> QED BY <1>0, <1>12, <2>3 DEF Anonymous, Return, At, Places, FilesTypeOK
<1>13. CASE Fail(p)
  BY <1>0, <1>13 DEF FilesTypeOK, Fail, Return, At, Delete, Places
<1>14. CASE Close(p)
  BY <1>0, <1>14 DEF FilesTypeOK, Close
<1>15. Owned(p) \subseteq Name \cup {NoName}
  BY <1>0, InHand DEF Owned
<1>16. Gone(p) => /\ call' \in [Process -> C]
                  /\ fds' \in [Process -> [Fd -> Descriptor \cup {NotOpen}]]
                  /\ tmpcache' \in [Process -> [File -> Name \cup {NoName}]]
  BY <1>0 DEF FilesTypeOK, Gone, At, NoneCached, Places
<1>17. CASE Exit(p)
  BY <1>0, <1>15, <1>16, <1>17 DEF FilesTypeOK, Exit
<1>18. CASE Kill(p)
  BY <1>0, <1>15, <1>16, <1>18 DEF FilesTypeOK, Kill
<1> QED
  BY <1>1, <1>2, <1>4, <1>5, <1>6, <1>7, <1>8, <1>9, <1>10, <1>11, <1>12, <1>13,
     <1>14, <1>17, <1>18 DEF FilesStep

-------------------------------------------------------------------------------
\* A process is not touched by what another does, if its names are not.
LEMMA StepOther ==
  ASSUME NEW q, Step(q), call'[q] = call[q], tmpcache'[q] = tmpcache[q],
         platform' = platform,
         Named(q) => disk'[call[q].name] = disk[call[q].name]
  PROVE  Step(q)'
BY DEF Step, Named

\* No name changes hands and no file changes.
LEMMA Quiet ==
  ASSUME FilesInv, UNCHANGED <<tmpcache, disk, fds, astray>>,
         \A q \in Process : call'[q].name = call[q].name
  PROVE  OwnedOnce' /\ Owners' /\ ServedWhole'
<1>1. \A q \in Process : Owned(q)' = Owned(q) /\ (Named(q)' <=> Named(q))
  BY DEF Owned, Named
<1> QED BY <1>1 DEF FilesInv, OwnedOnce, Owners, ServedWhole

\* A name that is taken is nobody's.
LEMMA Took ==
  ASSUME FilesInv, NEW p \in Process, NEW place, ~Named(p), TakeName(p, place)
  PROVE  /\ OwnedOnce' /\ Owners' /\ ServedWhole'
         /\ call'[p].at = place /\ call'[p].name \in Name
         /\ call'[p].of = call[p].of /\ call'[p].blocks = call[p].blocks
         /\ disk'[call'[p].name] = Holding(call[p].of, 0)
         /\ \A q \in Process \ {p} : Named(q) =>
              disk'[call[q].name] = disk[call[q].name]
<1> FilesTypeOK /\ OwnedOnce /\ Owners /\ ServedWhole
  BY DEF FilesInv
<1>1. PICK n \in Name :
        /\ disk[n] = NoFile
        /\ disk' = [disk EXCEPT ![n] = Holding(call[p].of, 0)]
        /\ call' = [call EXCEPT ![p].name = n, ![p].at = place]
        /\ UNCHANGED <<platform, tmpcache, fds, astray>>
  BY DEF TakeName
<1>2. /\ call'[p].name = n /\ call'[p].at = place /\ call'[p].of = call[p].of
      /\ call'[p].blocks = call[p].blocks
      /\ \A q \in Process \ {p} : call'[q] = call[q]
  BY <1>1 DEF FilesTypeOK
<1>3. /\ disk'[n] = Holding(call[p].of, 0) /\ disk'[n] # NoFile
      /\ \A m \in Name \ {n} : disk'[m] = disk[m]
  <2>1. disk'[n] = Holding(call[p].of, 0)
        /\ \A m \in Name \ {n} : disk'[m] = disk[m]
    BY <1>1 DEF FilesTypeOK
  <2>2. DOMAIN Holding(call[p].of, 0) = {"of", "blocks"}
    BY DEF Holding
  <2>3. DOMAIN NoFile = {}
    BY DEF NoFile
  <2> QED BY <2>1, <2>2, <2>3
<1>4. n \notin astray /\ \A q \in Process : n \notin Owned(q)
  BY <1>1 DEF OwnedOnce, Owners
<1>5. \A q \in Process, m \in Name :
        m \in Owned(q)' <=> m \in Owned(q) \/ (q = p /\ m = n)
  BY <1>1, <1>2, VfsFilesAssumption DEF Named, Owned
<1>6. OwnedOnce'
  <2>1. \A q \in Process, m \in Name : m \in Owned(q)' => disk'[m] # NoFile
    BY <1>3, <1>5 DEF OwnedOnce
  <2>2. \A q, r \in Process, m \in Name :
          m \in Owned(q)' /\ m \in Owned(r)' => q = r
    BY <1>4, <1>5 DEF OwnedOnce
  <2>3. \A q \in Process, e \in File : tmpcache[q][e] \in Owned(q)
    BY DEF Owned
  <2>4. \A q \in Process, e \in File :
          Named(q)' => tmpcache'[q][e] # call'[q].name
    <3> TAKE q \in Process, e \in File
    <3>1. CASE q = p
      BY <1>1, <1>2, <1>4, <2>3, <3>1
    <3>2. CASE q # p
      BY <1>1, <1>2, <3>2 DEF OwnedOnce, Named
    <3> QED BY <3>1, <3>2
  <2> QED BY <2>1, <2>2, <2>4 DEF OwnedOnce
<1>7. Owners'
  BY <1>1, <1>3, <1>4, <1>5 DEF Owners
<1>8. ServedWhole'
  <2>1. \A q \in Process, e \in File :
          tmpcache[q][e] # NoName =>
            tmpcache[q][e] \in Name /\ tmpcache[q][e] \in Owned(q)
    BY InHand DEF Owned
  <2> QED BY <1>1, <1>3, <1>4, <2>1 DEF ServedWhole
<1>9. \A q \in Process : Named(q) =>
        call[q].name \in Name /\ call[q].name \in Owned(q)
  BY InHand DEF Owned, Named
<1> QED BY <1>1, <1>2, <1>3, <1>4, <1>6, <1>7, <1>8, <1>9

\* The name in hand, if there is one, goes with its file.
LEMMA Dropped ==
  ASSUME FilesInv, NEW p \in Process, UNCHANGED <<tmpcache, fds, astray>>,
         call'[p].name = NoName, \A q \in Process \ {p} : call'[q] = call[q],
         disk' = IF Named(p) THEN [disk EXCEPT ![call[p].name] = NoFile]
                 ELSE disk
  PROVE  /\ OwnedOnce' /\ Owners' /\ ServedWhole'
         /\ \A q \in Process \ {p} : Named(q) =>
              disk'[call[q].name] = disk[call[q].name]
<1> FilesTypeOK /\ OwnedOnce /\ Owners /\ ServedWhole
  BY DEF FilesInv
<1> DEFINE n == call[p].name
<1>1. n \in Name \cup {NoName}
  BY InHand
<1>2. n # NoName => disk'[n] = NoFile
  BY <1>1 DEF FilesTypeOK, Named
<1>3. \A m \in Name \ {n} : disk'[m] = disk[m]
  BY <1>1 DEF FilesTypeOK
<1>4. \A q \in Process : n \in Name /\ n \in Owned(q) => q = p
  <2>1. n \in Owned(p)
    BY DEF Owned
  <2> QED BY <2>1 DEF OwnedOnce
<1>5. \A q \in Process, m \in Name :
        m \in Owned(q)' <=> m \in Owned(q) /\ m # n
  <2>1. \A q \in Process \ {p}, m \in Name : m \in Owned(q)' <=> m \in Owned(q)
    BY DEF Owned
  <2>2. \A m \in Name : m \in Owned(p)' <=> m \in Owned(p) /\ m # n
    <3> TAKE m \in Name
    <3>1. m # NoName
      BY VfsFilesAssumption
    <3>2. \A e \in File : m = tmpcache[p][e] => m # n
      BY <3>1 DEF OwnedOnce, Named
    <3> QED BY <3>1, <3>2 DEF Owned
  <2> QED BY <1>4, <2>1, <2>2
<1>6. OwnedOnce'
  <2>1. \A q \in Process, e \in File :
          Named(q)' => tmpcache'[q][e] # call'[q].name
    BY DEF OwnedOnce, Named
  <2> QED BY <1>3, <1>5, <2>1 DEF OwnedOnce
<1>7. Owners'
  <2>1. n \in Name => n \notin astray /\ disk'[n] = NoFile
    <3>1. n \in Owned(p)
      BY DEF Owned
    <3> QED BY <1>2, <3>1, VfsFilesAssumption DEF Owners
  <2> QED BY <1>3, <1>5, <2>1 DEF Owners
<1>8. ServedWhole'
  <2>1. \A q \in Process, e \in File :
          tmpcache[q][e] # NoName => tmpcache[q][e] \in Name \ {n}
    <3> TAKE q \in Process, e \in File
    <3> HAVE tmpcache[q][e] # NoName
    <3>1. tmpcache[q][e] \in Name /\ tmpcache[q][e] \in Owned(q)
      BY InHand DEF Owned
    <3>2. tmpcache[p][e] # n \/ n = NoName
      BY DEF OwnedOnce, Named
    <3> QED BY <1>4, <3>1, <3>2, VfsFilesAssumption
  <2> QED BY <1>3, <2>1 DEF ServedWhole
<1>9. \A q \in Process \ {p} : Named(q) => call[q].name \in Name \ {n}
  <2> TAKE q \in Process \ {p}
  <2> HAVE Named(q)
  <2>1. call[q].name \in Name /\ call[q].name \in Owned(q)
    BY InHand DEF Owned, Named
  <2> QED BY <1>4, <2>1
<1> QED BY <1>3, <1>6, <1>7, <1>8, <1>9

\* The two halves of ServedWhole.
ServedOpen ==
  \A p \in Process, d \in Fd : fds[p][d] # NotOpen =>
    fds[p][d].holds = Holding(fds[p][d].asked, Size[fds[p][d].asked])
ServedAgain ==
  \A p \in Process, e \in File : tmpcache[p][e] # NoName =>
    disk[tmpcache[p][e]] = Holding(e, Size[e])

LEMMA Served == ServedWhole <=> ServedOpen /\ ServedAgain
BY DEF ServedWhole, ServedOpen, ServedAgain

LEMMA ServedNext == ServedWhole' <=> ServedOpen' /\ ServedAgain'
BY DEF ServedWhole, ServedOpen, ServedAgain

\* A descriptor that is given holds all of what was asked for.
LEMMA GivenWhole ==
  ASSUME FilesTypeOK, ServedOpen, NEW p \in Process, NEW e, NEW n,
         Give(p, e, n, Holding(e, Size[e]))
  PROVE  ServedOpen'
<1>1. PICK d \in Fd :
        fds' = [fds EXCEPT ![p][d] = [asked |-> e, name |-> n,
                                      holds |-> Holding(e, Size[e])]]
  BY DEF Give
<1>2. fds'[p][d].holds = Holding(e, Size[e]) /\ fds'[p][d].asked = e
  BY <1>1 DEF FilesTypeOK
<1>3. \A q \in Process, c \in Fd : (q = p /\ c = d) \/ fds'[q][c] = fds[q][c]
  BY <1>1 DEF FilesTypeOK
<1> QED BY <1>2, <1>3 DEF ServedOpen

LEMMA Wrote ==
  ASSUME FilesInv, NEW p \in Process, Write(p)
  PROVE  Steps' /\ OwnedOnce' /\ Owners' /\ ServedWhole'
<1> FilesTypeOK /\ OwnedOnce /\ Owners /\ ServedWhole /\ Steps
  BY DEF FilesInv
<1> DEFINE n == call[p].name
           e == call[p].of
<1>1. PICK w \in call[p].blocks + 1 .. Size[e] :
        /\ call' = [call EXCEPT ![p].blocks = w]
        /\ disk' = IF n = NoName THEN disk ELSE [disk EXCEPT ![n].blocks = w]
        /\ UNCHANGED <<platform, tmpcache, fds, astray>>
        /\ call[p].at = "write"
  BY DEF Write
<1>2. e \in File /\ Size[e] \in Nat /\ call[p].blocks \in Nat
  BY <1>1, InHand, VfsFilesAssumption DEF Steps, Step
<1>3. /\ call'[p].at = "write" /\ call'[p].of = e /\ call'[p].name = n
      /\ call'[p].blocks = w
      /\ \A q \in Process \ {p} : call'[q] = call[q]
  BY <1>1 DEF FilesTypeOK
<1>4. n \in Name \cup {NoName} /\ n \in Owned(p)
  BY InHand DEF Owned
<1>5. n # NoName => disk'[n] = Holding(e, w)
  <2>1. n # NoName => disk[n] = Holding(e, call[p].blocks)
    BY <1>1 DEF Steps, Step, Named
  <2> QED BY <1>1, <1>4, <2>1, SMTT(30) DEF FilesTypeOK, Holding
<1>6. \A m \in Name \ {n} : disk'[m] = disk[m]
  BY <1>1, <1>4 DEF FilesTypeOK
<1>7. \A q \in Process : Owned(q)' = Owned(q)
  BY <1>1, <1>3 DEF Owned
<1>8. \A m \in Name : disk'[m] # NoFile <=> disk[m] # NoFile
  <2>1. n # NoName => disk[n] # NoFile /\ disk'[n] # NoFile
    <3>1. n # NoName => disk[n] # NoFile
      BY <1>4 DEF OwnedOnce
    <3>2. Holding(e, w) # NoFile
      BY <1>1, <1>2, Distinct
    <3> QED BY <1>5, <3>1, <3>2
  <2> QED BY <1>6, <2>1, VfsFilesAssumption
<1>9. OwnedOnce'
  <2>1. \A q \in Process : call'[q].name = call[q].name
    BY <1>3
  <2> QED BY <1>1, <1>7, <1>8, <2>1 DEF OwnedOnce, Named
<1>10. Owners'
  BY <1>1, <1>7, <1>8 DEF Owners
<1>11. ServedWhole'
  <2>1. \A q \in Process, f \in File :
          tmpcache[q][f] # NoName => tmpcache[q][f] \in Name \ {n}
    <3> TAKE q \in Process, f \in File
    <3> HAVE tmpcache[q][f] # NoName
    <3>1. tmpcache[q][f] \in Name /\ tmpcache[q][f] \in Owned(q)
      BY InHand DEF Owned
    <3>2. tmpcache[p][f] # n \/ n = NoName
      BY DEF OwnedOnce, Named
    <3> QED BY <1>4, <3>1, <3>2, VfsFilesAssumption DEF OwnedOnce
  <2> QED BY <1>1, <1>6, <2>1 DEF ServedWhole
<1>12. Step(p)'
  <2>1. Step(p)
    BY DEF Steps
  <2>2. w \in Nat /\ w <= Size[e]
    BY <1>1, <1>2
  <2> QED BY <1>1, <1>2, <1>3, <1>5, <2>1, <2>2 DEF Step, Named
<1>13. ASSUME NEW q \in Process \ {p} PROVE Step(q)'
  <2>1. Named(q) => call[q].name \in Name \ {n}
    <3>1. Named(q) => call[q].name \in Name /\ call[q].name \in Owned(q)
      BY InHand DEF Owned, Named
    <3> QED BY <1>4, <3>1 DEF OwnedOnce
  <2> QED BY <1>1, <1>3, <1>6, <2>1, StepOther DEF Steps
<1>14. Steps'
  BY <1>12, <1>13 DEF Steps
<1> QED BY <1>9, <1>10, <1>11, <1>14

\* The name in hand is kept: it stays the process's, and its file is whole.
LEMMA KeptName ==
  ASSUME FilesInv, NEW p \in Process, Keep(p)
  PROVE  Steps' /\ OwnedOnce' /\ Owners' /\ ServedWhole'
<1> FilesTypeOK /\ OwnedOnce /\ Owners /\ ServedWhole /\ Steps
  BY DEF FilesInv
<1> DEFINE n == call[p].name
           e == call[p].of
<1>1. /\ platform = "windows" /\ call[p].at = "write"
      /\ call[p].blocks = Size[e]
      /\ call' = [call EXCEPT ![p] = At("idle")]
      /\ tmpcache' = [tmpcache EXCEPT ![p][e] = n]
      /\ UNCHANGED fds \/ Give(p, e, n, disk[n])
      /\ UNCHANGED <<platform, disk, astray>>
  BY DEF Keep, Whole, Return
<1>2. /\ e \in File /\ Named(p) /\ tmpcache[p][e] = NoName
      /\ disk[n] = Holding(e, Size[e])
  BY <1>1 DEF Steps, Step
<1>3. n \in Name /\ n \in Owned(p) /\ n # NoName
  BY <1>2, InHand DEF Owned, Named
<1>4. /\ call'[p].at = "idle" /\ call'[p].name = NoName
      /\ call'[p].blocks = 0
      /\ \A q \in Process \ {p} : call'[q] = call[q]
  BY <1>1 DEF FilesTypeOK, At
<1>5. /\ \A q \in Process \ {p} : tmpcache'[q] = tmpcache[q]
      /\ tmpcache'[p][e] = n
      /\ \A f \in File \ {e} : tmpcache'[p][f] = tmpcache[p][f]
  BY <1>1, <1>2 DEF FilesTypeOK
<1>6. \A q \in Process, m \in Name : m \in Owned(q)' <=> m \in Owned(q)
  <2>1. \A q \in Process \ {p} : Owned(q)' = Owned(q)
    BY <1>4, <1>5 DEF Owned
  <2>2. ASSUME NEW m \in Name PROVE m \in Owned(p)' <=> m \in Owned(p)
    <3>1. m # NoName
      BY VfsFilesAssumption
    <3>2. m \in Owned(p) <=> m = n \/ \E f \in File : m = tmpcache[p][f]
      BY DEF Owned
    <3>3. m \in Owned(p)' <=> \E f \in File : m = tmpcache'[p][f]
      BY <1>4, <3>1 DEF Owned
    <3> QED BY <1>2, <1>5, <3>1, <3>2, <3>3
  <2> QED BY <2>1, <2>2
<1>7. OwnedOnce'
  <2>1. \A q \in Process, f \in File :
          Named(q)' => tmpcache'[q][f] # call'[q].name
    <3> TAKE q \in Process, f \in File
    <3>1. CASE q = p
      BY <1>4, <3>1 DEF Named
    <3>2. CASE q # p
      BY <1>4, <1>5, <3>2 DEF OwnedOnce, Named
    <3> QED BY <3>1, <3>2
  <2> QED BY <1>1, <1>6, <2>1 DEF OwnedOnce
<1>8. Owners'
  BY <1>1, <1>6 DEF Owners
<1>9. ServedWhole'
  <2>1. ServedOpen'
    <3>1. CASE UNCHANGED fds
      BY <3>1, Served DEF ServedOpen
    <3>2. CASE Give(p, e, n, disk[n])
      BY <1>2, <3>2, Served, GivenWhole
    <3> QED BY <1>1, <3>1, <3>2
  <2>2. ServedAgain'
    <3> SUFFICES ASSUME NEW q \in Process, NEW f \in File,
                        tmpcache'[q][f] # NoName
                 PROVE  disk[tmpcache'[q][f]] = Holding(f, Size[f])
      BY <1>1 DEF ServedAgain
    <3>1. CASE q = p /\ f = e
      BY <1>2, <1>5, <3>1
    <3>2. CASE ~(q = p /\ f = e)
      BY <1>5, <3>2, Served DEF ServedAgain
    <3> QED BY <3>1, <3>2
  <2> QED BY <2>1, <2>2, ServedNext
<1>10. Steps'
  <2>1. Step(p)'
    BY <1>4 DEF Step, Named
  <2>2. \A q \in Process \ {p} : Step(q)'
    BY <1>1, <1>4, <1>5, StepOther DEF Steps
  <2> QED BY <2>1, <2>2 DEF Steps
<1> QED BY <1>7, <1>8, <1>9, <1>10

\* A name nobody can keep goes astray with its file.
LEMMA KeptNot ==
  ASSUME FilesInv, NEW p \in Process, KeepFails(p)
  PROVE  Steps' /\ OwnedOnce' /\ Owners' /\ ServedWhole'
<1> FilesTypeOK /\ OwnedOnce /\ Owners /\ ServedWhole /\ Steps
  BY DEF FilesInv
<1> DEFINE n == call[p].name
<1>1. /\ platform = "windows" /\ call[p].at = "write"
      /\ call' = [call EXCEPT ![p] = At("idle")]
      /\ astray' = astray \cup {n}
      /\ UNCHANGED <<platform, tmpcache, disk, fds>>
  BY DEF KeepFails, Whole, Return
<1>2. n \in Name /\ n \in Owned(p) /\ Named(p) /\ n # NoName
  BY <1>1, InHand DEF Steps, Step, Owned, Named
<1>3. /\ call'[p].at = "idle" /\ call'[p].name = NoName
      /\ call'[p].blocks = 0
      /\ \A q \in Process \ {p} : call'[q] = call[q]
  BY <1>1 DEF FilesTypeOK, At
<1>4. \A q \in Process \ {p} : Owned(q)' = Owned(q)
  BY <1>1, <1>3 DEF Owned
<1>5. \A m \in Name : m \in Owned(p)' <=> m \in Owned(p) /\ m # n
  <2> TAKE m \in Name
  <2>1. m # NoName
    BY VfsFilesAssumption
  <2>2. m \in Owned(p) <=> m = n \/ \E f \in File : m = tmpcache[p][f]
    BY DEF Owned
  <2>3. m \in Owned(p)' <=> \E f \in File : m = tmpcache[p][f]
    BY <1>1, <1>3, <2>1 DEF Owned
  <2>4. \A f \in File : tmpcache[p][f] # n
    BY <1>2 DEF OwnedOnce
  <2> QED BY <2>2, <2>3, <2>4
<1>6. OwnedOnce'
  <2>1. \A q \in Process, m \in Name : m \in Owned(q)' => m \in Owned(q)
    BY <1>4, <1>5
  <2>2. \A q \in Process, f \in File :
          Named(q)' => tmpcache'[q][f] # call'[q].name
    BY <1>1, <1>3 DEF OwnedOnce, Named
  <2> QED BY <1>1, <2>1, <2>2 DEF OwnedOnce
<1>7. Owners'
  <2>1. disk[n] # NoFile /\ \A q \in Process : n \notin Owned(q)'
    BY <1>2, <1>4, <1>5 DEF OwnedOnce
  <2>2. \A q \in Process, m \in Name \ {n} : m \in Owned(q)' <=> m \in Owned(q)
    BY <1>4, <1>5
  <2> QED BY <1>1, <2>1, <2>2 DEF Owners
<1>8. ServedWhole'
  BY <1>1 DEF ServedWhole
<1>9. Steps'
  <2>1. Step(p)'
    BY <1>3 DEF Step, Named
  <2>2. \A q \in Process \ {p} : Step(q)'
    BY <1>1, <1>3, StepOther DEF Steps
  <2> QED BY <2>1, <2>2 DEF Steps
<1> QED BY <1>6, <1>7, <1>8, <1>9

\* A process that ends keeps nothing: its files go, or are astray.
LEMMA Ended ==
  ASSUME FilesInv, NEW p \in Process, Gone(p), platform' = platform,
         NEW lost, astray' = astray \cup lost, lost \subseteq Owned(p) \ {NoName},
         \A n \in Name : disk'[n] = IF n \in Owned(p) \ lost THEN NoFile ELSE disk[n]
  PROVE  Steps' /\ OwnedOnce' /\ Owners' /\ ServedWhole'
<1> FilesTypeOK /\ OwnedOnce /\ Owners /\ ServedWhole /\ Steps
  BY DEF FilesInv
<1>1. /\ call'[p].at = "gone" /\ call'[p].name = NoName
      /\ call'[p].blocks = 0
      /\ \A q \in Process \ {p} : call'[q] = call[q]
      /\ \A f \in File : tmpcache'[p][f] = NoName
      /\ \A q \in Process \ {p} : tmpcache'[q] = tmpcache[q]
      /\ \A d \in Fd : fds'[p][d] = NotOpen
      /\ \A q \in Process \ {p} : fds'[q] = fds[q]
  BY DEF Gone, FilesTypeOK, At, NoneCached
<1>2. \A m \in Name : m \notin Owned(p)'
  BY <1>1, VfsFilesAssumption DEF Owned
<1>3. \A q \in Process \ {p} : Owned(q)' = Owned(q)
  BY <1>1 DEF Owned
<1>4. \A q \in Process \ {p}, m \in Name :
        m \in Owned(q) => m \notin Owned(p) /\ disk'[m] = disk[m]
  BY DEF OwnedOnce
<1>5. OwnedOnce'
  <2>1. \A q \in Process, m \in Name :
          m \in Owned(q)' => q # p /\ m \in Owned(q)
    BY <1>2, <1>3
  <2>2. \A q \in Process, m \in Name : m \in Owned(q)' => disk'[m] # NoFile
    BY <1>4, <2>1 DEF OwnedOnce
  <2>3. \A q \in Process, f \in File :
          Named(q)' => tmpcache'[q][f] # call'[q].name
    <3> TAKE q \in Process, f \in File
    <3>1. CASE q = p
      BY <1>1, <3>1 DEF Named
    <3>2. CASE q # p
      BY <1>1, <3>2 DEF OwnedOnce, Named
    <3> QED BY <3>1, <3>2
  <2> QED BY <2>1, <2>2, <2>3 DEF OwnedOnce
<1>6. Owners'
  <2> SUFFICES ASSUME NEW m \in Name
               PROVE  /\ m \in astray' => /\ disk'[m] # NoFile
                                          /\ \A q \in Process : m \notin Owned(q)'
                      /\ disk'[m] # NoFile /\ m \notin astray' =>
                           \E q \in Process : m \in Owned(q)'
    BY DEF Owners
  <2>1. CASE m \in lost
    <3>1. m \in Owned(p) /\ disk'[m] = disk[m] /\ disk[m] # NoFile
      BY <2>1 DEF OwnedOnce
    <3>2. \A q \in Process : m \notin Owned(q)'
      BY <1>2, <1>3, <3>1 DEF OwnedOnce
    <3> QED BY <2>1, <3>1, <3>2
  <2>2. CASE m \in Owned(p) \ lost
    BY <2>2 DEF Owners
  <2>3. CASE m \notin Owned(p) /\ m \notin lost
    <3>1. disk'[m] = disk[m] /\ (m \in astray' <=> m \in astray)
      BY <2>3
    <3>2. \A q \in Process : m \in Owned(q)' <=> m \in Owned(q)
      BY <1>2, <1>3, <2>3
    <3> QED BY <3>1, <3>2 DEF Owners
  <2> QED BY <2>1, <2>2, <2>3
<1>7. ServedWhole'
  <2>1. ServedOpen'
    <3>1. \A q \in Process, d \in Fd :
            fds'[q][d] # NotOpen => q # p /\ fds'[q] = fds[q]
      BY <1>1
    <3> QED BY <3>1, Served DEF ServedOpen
  <2>2. ServedAgain'
    <3> SUFFICES ASSUME NEW q \in Process, NEW f \in File,
                        tmpcache'[q][f] # NoName
                 PROVE  disk'[tmpcache'[q][f]] = Holding(f, Size[f])
      BY DEF ServedAgain
    <3>1. q # p /\ tmpcache'[q][f] = tmpcache[q][f]
      BY <1>1
    <3>2. tmpcache[q][f] \in Name /\ tmpcache[q][f] \in Owned(q)
      BY <3>1, InHand DEF Owned
    <3> QED BY <1>4, <3>1, <3>2, Served DEF ServedAgain
  <2> QED BY <2>1, <2>2, ServedNext
<1>8. Steps'
  <2>1. Step(p)'
    BY <1>1 DEF Step, Named
  <2>2. ASSUME NEW q \in Process \ {p} PROVE Step(q)'
    <3>1. Named(q) => call[q].name \in Name /\ call[q].name \in Owned(q)
      BY InHand DEF Owned, Named
    <3> QED BY <1>1, <1>4, <3>1, StepOther DEF Steps
  <2> QED BY <2>1, <2>2 DEF Steps
<1> QED BY <1>5, <1>6, <1>7, <1>8

LEMMA FilesNext ==
  ASSUME FilesInv, NEW p \in Process, FilesStep(p)
  PROVE  FilesInv'
<1> FilesTypeOK /\ OwnedOnce /\ Owners /\ ServedWhole /\ Steps
  BY DEF FilesInv
<1> Step(p)
  BY DEF Steps
<1> SUFFICES Steps' /\ OwnedOnce' /\ Owners' /\ ServedWhole'
  BY FilesTypes DEF FilesInv
<1>1. ASSUME NEW e \in File, Call(p, e)
      PROVE  Steps' /\ OwnedOnce' /\ Owners' /\ ServedWhole'
  <2>1. /\ call[p].at = "idle" /\ tmpcache[p][e] = NoName
        /\ call'[p].name = call[p].name /\ call'[p].blocks = call[p].blocks
        /\ call'[p].of = e
        /\ call'[p].at = IF platform = "windows" THEN "name"
                         ELSE IF Size[e] = 0 THEN "anon" ELSE "extract"
        /\ \A q \in Process \ {p} : call'[q] = call[q]
        /\ UNCHANGED <<platform, tmpcache, disk, fds, astray>>
    BY <1>1 DEF Call, FilesTypeOK
  <2>2. OwnedOnce' /\ Owners' /\ ServedWhole'
    BY <2>1, Quiet
  <2>3. Size[e] \in Nat /\ 0 <= Size[e]
    BY VfsFilesAssumption
  <2>4. Step(p)'
    BY <2>1, <2>3 DEF Step, Named
  <2>5. \A q \in Process \ {p} : Step(q)'
    BY <2>1, StepOther DEF Steps
  <2> QED BY <2>2, <2>4, <2>5 DEF Steps
<1>2. ASSUME NEW e \in File, CallCached(p, e)
      PROVE  Steps' /\ OwnedOnce' /\ Owners' /\ ServedWhole'
  <2>1. /\ tmpcache[p][e] # NoName
        /\ Give(p, e, tmpcache[p][e], disk[tmpcache[p][e]])
        /\ UNCHANGED <<platform, call, tmpcache, disk, astray>>
    BY <1>2 DEF CallCached
  <2>2. disk[tmpcache[p][e]] = Holding(e, Size[e])
    BY <2>1 DEF ServedWhole
  <2>3. ServedWhole'
    BY <2>1, <2>2, GivenWhole, Served, ServedNext DEF ServedAgain
  <2>4. \A q : Owned(q)' = Owned(q) /\ (Named(q)' <=> Named(q))
    BY <2>1 DEF Owned, Named
  <2>5. OwnedOnce' /\ Owners'
    BY <2>1, <2>4 DEF OwnedOnce, Owners
  <2>6. Steps'
    BY <2>1 DEF Steps, Step, Named
  <2> QED BY <2>3, <2>5, <2>6
<1>3. ASSUME NEW place \in {"open", "extract", "unlink"}, TakeName(p, place),
             call[p].at \in {"name", "anon"},
             place = "unlink" <=> platform = "mkstemp",
             place # "unlink" <=> platform = "windows"
      PROVE  Steps' /\ OwnedOnce' /\ Owners' /\ ServedWhole'
  <2>1. ~Named(p)
    BY <1>3 DEF Step
  <2>2. /\ OwnedOnce' /\ Owners' /\ ServedWhole'
        /\ call'[p].at = place /\ call'[p].name \in Name
        /\ call'[p].of = call[p].of /\ call'[p].blocks = call[p].blocks
        /\ disk'[call'[p].name] = Holding(call[p].of, 0)
        /\ \A q \in Process \ {p} : Named(q) =>
             disk'[call[q].name] = disk[call[q].name]
    BY <1>3, <2>1, Took
  <2>3. /\ \A q \in Process \ {p} : call'[q] = call[q]
        /\ UNCHANGED <<platform, tmpcache>>
    BY <1>3 DEF TakeName, FilesTypeOK
  <2>4. Step(p)'
    BY <1>3, <2>2, <2>3, VfsFilesAssumption DEF Step, Named
  <2>5. \A q \in Process \ {p} : Step(q)'
    BY <2>2, <2>3, StepOther DEF Steps
  <2> QED BY <2>2, <2>4, <2>5 DEF Steps
<1>4. CASE TempName(p)
  <2>1. platform = "windows"
    BY <1>4 DEF TempName, Step
  <2> QED BY <1>3, <1>4, <2>1 DEF TempName
<1>5. CASE MkStemp(p)
  BY <1>3, <1>5 DEF MkStemp
<1>6. CASE Unlink(p)
  <2>1. /\ call[p].at = "unlink" /\ Named(p)
        /\ call'[p].at = "write" /\ call'[p].name = NoName
        /\ call'[p].of = call[p].of /\ call'[p].blocks = call[p].blocks
        /\ \A q \in Process \ {p} : call'[q] = call[q]
        /\ disk' = [disk EXCEPT ![call[p].name] = NoFile]
        /\ UNCHANGED <<platform, tmpcache, fds, astray>>
    BY <1>6 DEF Unlink, Delete, FilesTypeOK, Step
  <2>2. /\ OwnedOnce' /\ Owners' /\ ServedWhole'
        /\ \A q \in Process \ {p} : Named(q) =>
             disk'[call[q].name] = disk[call[q].name]
    BY <2>1, Dropped
  <2>3. Step(p)'
    BY <2>1 DEF Step, Named
  <2>4. \A q \in Process \ {p} : Step(q)'
    BY <2>1, <2>2, StepOther DEF Steps
  <2> QED BY <2>2, <2>3, <2>4 DEF Steps
<1>7. CASE Extract(p) \/ OpenToWrite(p)
  <2>1. /\ call'[p].name = call[p].name /\ call'[p].blocks = call[p].blocks
        /\ call'[p].of = call[p].of
        /\ \A q \in Process \ {p} : call'[q] = call[q]
        /\ UNCHANGED <<platform, tmpcache, disk, fds, astray>>
    BY <1>7 DEF Extract, OpenToWrite, Goto, FilesTypeOK
  <2>2. \/ /\ call[p].at = "extract"
           /\ call'[p].at = IF platform = "windows" THEN "open" ELSE "anon"
        \/ /\ call[p].at = IF platform = "memfd" THEN "anon" ELSE "open"
           /\ call'[p].at = "write"
    BY <1>7 DEF Extract, OpenToWrite, Goto, FilesTypeOK
  <2>3. OwnedOnce' /\ Owners' /\ ServedWhole'
    BY <2>1, Quiet
  <2>4. Step(p)'
    BY <2>1, <2>2 DEF Step, Named
  <2>5. \A q \in Process \ {p} : Step(q)'
    BY <2>1, StepOther DEF Steps
  <2> QED BY <2>3, <2>4, <2>5 DEF Steps
<1>8. CASE Write(p)
  BY <1>8, Wrote
<1>9. CASE Keep(p)
  BY <1>9, KeptName
<1>10. CASE KeepFails(p)
  BY <1>10, KeptNot
<1>11. CASE Anonymous(p)
  <2>1. /\ platform # "windows" /\ call[p].at = "write"
        /\ call[p].blocks = Size[call[p].of]
        /\ call' = [call EXCEPT ![p] = At("idle")]
        /\ Give(p, call[p].of, NoName, Holding(call[p].of, call[p].blocks))
        /\ UNCHANGED <<platform, tmpcache, disk, astray>>
    BY <1>11 DEF Anonymous, Whole, Return
  <2>2. call[p].name = NoName
    BY <2>1 DEF Step, Named
  <2>3. /\ call'[p].at = "idle" /\ call'[p].name = NoName
        /\ call'[p].blocks = 0
        /\ \A q \in Process \ {p} : call'[q] = call[q]
    BY <2>1 DEF FilesTypeOK, At
  <2>4. \A q \in Process : Owned(q)' = Owned(q) /\ (Named(q)' <=> Named(q))
                           /\ call'[q].name = call[q].name
    BY <2>1, <2>2, <2>3 DEF Owned, Named
  <2>5. OwnedOnce' /\ Owners'
    BY <2>1, <2>4 DEF OwnedOnce, Owners
  <2>6. ServedWhole'
    BY <2>1, GivenWhole, Served, ServedNext DEF ServedAgain
  <2>7. Step(p)'
    BY <2>3 DEF Step, Named
  <2>8. \A q \in Process \ {p} : Step(q)'
    BY <2>1, <2>3, StepOther DEF Steps
  <2> QED BY <2>5, <2>6, <2>7, <2>8 DEF Steps
<1>12. CASE Fail(p)
  <2>1. /\ call' = [call EXCEPT ![p] = At("idle")]
        /\ disk' = IF Named(p) THEN [disk EXCEPT ![call[p].name] = NoFile]
                   ELSE disk
        /\ UNCHANGED <<platform, tmpcache, fds, astray>>
    BY <1>12 DEF Fail, Return, Delete, Named
  <2>2. /\ call'[p].at = "idle" /\ call'[p].name = NoName
        /\ call'[p].blocks = 0
        /\ \A q \in Process \ {p} : call'[q] = call[q]
    BY <2>1 DEF FilesTypeOK, At
  <2>3. /\ OwnedOnce' /\ Owners' /\ ServedWhole'
        /\ \A q \in Process \ {p} : Named(q) =>
             disk'[call[q].name] = disk[call[q].name]
    BY <2>1, <2>2, Dropped
  <2>4. Step(p)'
    BY <2>2 DEF Step, Named
  <2>5. \A q \in Process \ {p} : Step(q)'
    BY <2>1, <2>2, <2>3, StepOther DEF Steps
  <2> QED BY <2>3, <2>4, <2>5 DEF Steps
<1>13. CASE Close(p)
  <2>1. PICK d \in Fd : fds' = [fds EXCEPT ![p][d] = NotOpen]
    BY <1>13 DEF Close
  <2>2. UNCHANGED <<platform, call, tmpcache, disk, astray>>
    BY <1>13 DEF Close
  <2>3. \A q \in Process, c \in Fd :
          fds'[q][c] # NotOpen => fds'[q][c] = fds[q][c]
    BY <2>1 DEF FilesTypeOK
  <2>4. ServedWhole'
    BY <2>2, <2>3 DEF ServedWhole
  <2>5. \A q : Owned(q)' = Owned(q) /\ (Named(q)' <=> Named(q))
    BY <2>2 DEF Owned, Named
  <2>6. OwnedOnce' /\ Owners'
    BY <2>2, <2>5 DEF OwnedOnce, Owners
  <2>7. Steps'
    BY <2>2 DEF Steps, Step, Named
  <2> QED BY <2>4, <2>6, <2>7
<1>14. CASE Exit(p)
  <2> DEFINE lost == (Owned(p) \cap Busy(p)) \ {NoName}
  <2>1. /\ Gone(p) /\ platform' = platform /\ astray' = astray \cup lost
        /\ \A n \in Name : disk'[n] = IF n \in Owned(p) \ Busy(p) THEN NoFile
                                      ELSE disk[n]
    BY <1>14 DEF Exit
  <2>2. \A n \in Name : n \in Owned(p) \ Busy(p) <=> n \in Owned(p) \ lost
    BY VfsFilesAssumption
  <2>3. \A n \in Name : disk'[n] = IF n \in Owned(p) \ lost THEN NoFile
                                   ELSE disk[n]
    BY <2>1, <2>2
  <2>4. lost \subseteq Owned(p) \ {NoName}
    OBVIOUS
  <2> HIDE DEF lost
  <2> QED BY <2>1, <2>3, <2>4, Ended
<1>15. CASE Kill(p)
  <2> DEFINE lost == Owned(p) \ {NoName}
  <2>1. /\ Gone(p) /\ platform' = platform /\ astray' = astray \cup lost
        /\ disk' = disk
    BY <1>15 DEF Kill
  <2>2. \A n \in Name : disk'[n] = IF n \in Owned(p) \ lost THEN NoFile
                                   ELSE disk[n]
    BY <2>1, VfsFilesAssumption
  <2>3. lost \subseteq Owned(p) \ {NoName}
    OBVIOUS
  <2> HIDE DEF lost
  <2> QED BY <2>1, <2>2, <2>3, Ended
<1> QED
  BY <1>1, <1>2, <1>4, <1>5, <1>6, <1>7, <1>8, <1>9, <1>10, <1>11, <1>12, <1>13,
     <1>14, <1>15 DEF FilesStep

LEMMA FilesStay ==
  ASSUME FilesInv, UNCHANGED filesVars
  PROVE  FilesInv'
<1>1. UNCHANGED <<platform, call, tmpcache, disk, fds, astray>>
  BY DEF filesVars
<1>2. \A q : Owned(q)' = Owned(q) /\ (Named(q)' <=> Named(q))
  BY <1>1 DEF Owned, Named
<1>3. FilesTypeOK' /\ Steps' /\ ServedWhole'
  BY <1>1 DEF FilesInv, FilesTypeOK, Steps, Step, Named, ServedWhole
<1>4. OwnedOnce' /\ Owners'
  BY <1>1, <1>2 DEF FilesInv, OwnedOnce, Owners
<1> QED BY <1>3, <1>4 DEF FilesInv

LEMMA RuntimeFiles == FilesInv /\ [RuntimeNext]_runtimeVars => FilesInv'
<1> SUFFICES ASSUME FilesInv, [RuntimeNext]_runtimeVars PROVE FilesInv'
  OBVIOUS
<1>1. CASE DescriptorsNext
  <2>1. PICK p \in Process : FilesStep(p)
    BY <1>1 DEF DescriptorsNext, FilesStep
  <2> QED BY <2>1, FilesNext
<1>2. CASE StreamsNext \/ SearchesNext \/ UNCHANGED runtimeVars
  <2>1. UNCHANGED filesVars
    BY <1>2 DEF StreamsNext, SearchesNext, Streams, Searches, runtimeVars
  <2> QED BY <2>1, FilesStay
<1> QED BY <1>1, <1>2 DEF RuntimeNext

\* The types of descriptors, names and files are kept.
THEOREM FilesTypeCorrect == RuntimeSpec => []FilesTypeOK
<1>1. RuntimeInit => FilesInv
  BY InitFiles DEF RuntimeInit
<1>2. FilesInv => FilesTypeOK
  BY DEF FilesInv
<1> QED BY <1>1, <1>2, RuntimeFiles, PTL DEF RuntimeSpec

\* A descriptor holds all of the entry that was asked for, and so does every
\* file that is kept to be opened again, whatever fails and whoever else uses
\* the temporary directory.
THEOREM WholeServed == RuntimeSpec => []ServedWhole
<1>1. RuntimeInit => FilesInv
  BY InitFiles DEF RuntimeInit
<1>2. FilesInv => ServedWhole
  BY DEF FilesInv
<1> QED BY <1>1, <1>2, RuntimeFiles, PTL DEF RuntimeSpec

\* A temporary file that is there is one process's, or nobody's by an event
\* outside the code.
THEOREM NoneLeft == RuntimeSpec => []NothingLeft
<1>1. RuntimeInit => FilesInv
  BY InitFiles DEF RuntimeInit
<1>2. FilesInv => NothingLeft
  <2> SUFFICES ASSUME FilesInv, NEW n \in Name, disk[n] # NoFile
               PROVE  Cardinality({p \in Process : n \in Owned(p)})
                        = IF n \in astray THEN 0 ELSE 1
    BY DEF NothingLeft
  <2>1. CASE n \in astray
    <3>1. {p \in Process : n \in Owned(p)} = {}
      BY <2>1 DEF FilesInv, Owners
    <3> QED BY <2>1, <3>1, FS_EmptySet
  <2>2. CASE n \notin astray
    <3>1. PICK p \in Process : n \in Owned(p)
      BY <2>2 DEF FilesInv, Owners
    <3>2. {q \in Process : n \in Owned(q)} = {p}
      BY <3>1 DEF FilesInv, OwnedOnce
    <3> QED BY <2>2, <3>2, FS_Singleton
  <2> QED BY <2>1, <2>2
<1> QED BY <1>1, <1>2, RuntimeFiles, PTL DEF RuntimeSpec

-------------------------------------------------------------------------------
(* Keys and lookups (VfsDirs). path_canon folds a path.                    *)

LEMMA Archived ==
  ASSUME NEW a \in Archives
  PROVE  /\ a \in Seq(Entry) /\ IsTree(a) /\ Len(a) \in Nat
         /\ \A j \in DOMAIN a :
              /\ a[j].path \in Seq(DOMAIN Lower) /\ a[j].dir \in BOOLEAN
              /\ a[j].path # <<>>
<1>1. a \in Seq(Entry) /\ IsTree(a)
  BY VfsDirsAssumption
<1>2. \A j \in DOMAIN a : a[j] \in Entry
  BY <1>1
<1> QED BY <1>1, <1>2 DEF Entry, IsTree

Canoning(path, after) ==
  [j \in 0 .. Len(path) |->
     IF j = 0 THEN <<>> ELSE Push(after[j - 1], path[j])]

LEMMA CanonDefined ==
  ASSUME NEW path \in Seq(DOMAIN Lower)
  PROVE  \E after : /\ after = Canoning(path, after)
                    /\ Canon(path) = after[Len(path)]
                    /\ after \in [0 .. Len(path) -> Seq(DOMAIN Lower)]
<1> DEFINE N == Len(path)
           X == Seq(DOMAIN Lower)
           Turn(k, s) == Push(s, path[k])
           G == [k \in 1 .. N |-> [s \in X |-> Turn(k, s)]]
           after == CHOOSE f : f = Canoning(path, f)
<1>1. \A k \in 1 .. N, s \in X : Turn(k, s) \in X
  <2> TAKE k \in 1 .. N, s \in X
  <2>1. path[k] \in DOMAIN Lower
    OBVIOUS
  <2>2. SubSeq(s, 1, Len(s) - 1) \in X
    OBVIOUS
  <2>3. Append(s, path[k]) \in X
    BY <2>1
  <2> QED BY <2>2, <2>3 DEF Push
<1>2. G \in [1 .. N -> [X -> X]]
  <2> HIDE DEF Turn, X
  <2> QED BY <1>1
<1>3. <<>> \in X /\ N \in Nat
  OBVIOUS
<1>4. PICK f : Folds(f, X, <<>>, N, G)
  <2> HIDE DEF G, X, N
  <2> QED BY <1>2, <1>3, FoldExists
<1>5. f \in [0 .. N -> X] /\ f[0] = <<>>
      /\ \A k \in 1 .. N : f[k] = G[k][f[k - 1]]
  <2> HIDE DEF G, X, N
  <2> QED BY <1>4 DEF Folds
<1>6. \A k \in 1 .. N : f[k] = Turn(k, f[k - 1])
  <2> TAKE k \in 1 .. N
  <2> HIDE DEF Turn, X
  <2>1. f[k - 1] \in X
    <3>1. k - 1 \in 0 .. N
      BY <1>3
    <3> QED BY <1>5, <3>1
  <2>2. G[k] = [s \in X |-> Turn(k, s)]
    OBVIOUS
  <2> HIDE DEF G
  <2> QED BY <1>5, <2>1, <2>2
<1>7. f = Canoning(path, f)
  <2> HIDE DEF G, X
  <2> QED BY <1>3, <1>5, <1>6 DEF Canoning
<1>8. after = Canoning(path, after)
  BY <1>7
<1>9. Canon(path) = after[N]
  BY DEF Canon, Canoning
<1>10. \A k \in 0 .. N : after[k] \in X
  <2> DEFINE T == {k \in Nat : k <= N => after[k] \in X}
  <2>1. 0 \in T
    <3> HIDE DEF after, X
    <3> QED BY <1>3, <1>8 DEF Canoning
  <2>2. ASSUME NEW k \in T PROVE k + 1 \in T
    <3> SUFFICES ASSUME k + 1 <= N PROVE after[k + 1] \in X
      OBVIOUS
    <3>1. after[k] \in X /\ k + 1 \in 1 .. N
      BY <1>3
    <3>2. after[k + 1] = Turn(k + 1, after[k])
      <4> HIDE DEF after
      <4>1. k + 1 \in 0 .. N /\ k + 1 # 0 /\ (k + 1) - 1 = k
        BY <1>3, <3>1
      <4>2. Canoning(path, after)[k + 1] = Turn(k + 1, after[k])
        BY <4>1 DEF Canoning
      <4> QED BY <1>8, <4>2
    <3> QED BY <1>1, <3>1, <3>2
  <2>3. T = Nat
    <3>1. T \in SUBSET Nat OBVIOUS
    <3> HIDE DEF T
    <3> QED BY <2>1, <2>2, <3>1, Induct
  <2> QED BY <2>3
<1>11. after \in [0 .. N -> X]
  <2> HIDE DEF after, X
  <2> QED BY <1>8, <1>10 DEF Canoning
<1> QED
  <2> HIDE DEF after
  <2> QED BY <1>8, <1>9, <1>11

\* A key is a sequence of segments.
LEMMA KeysAre == Keys \subseteq Seq(DOMAIN Lower)
<1> SUFFICES ASSUME NEW p \in Paths PROVE Key[p] \in Seq(DOMAIN Lower)
  BY DEF Keys
<1>1. p \in Seq(DOMAIN Lower) /\ Key[p] = Canon(p)
  BY VfsDirsAssumption DEF Key
<1>2. PICK after \in [0 .. Len(p) -> Seq(DOMAIN Lower)] :
        Canon(p) = after[Len(p)]
  BY <1>1, CanonDefined
<1>3. Len(p) \in 0 .. Len(p)
  BY <1>1
<1> QED BY <1>1, <1>2, <1>3

LEMMA SameReflexive ==
  ASSUME NEW s \in Seq(DOMAIN Lower)
  PROVE  Same(s, s)
BY DEF Same

\* A child's key, and the entry it was found in.
LEMMA ChildFacts ==
  ASSUME NEW prefix \in Seq(DOMAIN Lower), NEW e \in Entry, HasChild(e, prefix)
  PROVE  LET key == Append(prefix, Child(e, prefix))
         IN  /\ Child(e, prefix) \in DOMAIN Lower
             /\ key \in Seq(DOMAIN Lower) /\ Len(key) = Len(prefix) + 1
             /\ Len(key) <= Len(e.path)
             /\ SubSeq(e.path, 1, Len(key)) = key
             /\ ~Hidden(key) /\ key # <<>>
             /\ Len(e.path) = Len(key) => e.path = key
<1> DEFINE key == Append(prefix, Child(e, prefix))
<1>1. /\ ~Hidden(e.path) /\ Len(prefix) < Len(e.path)
      /\ SubSeq(prefix, 1, Len(prefix)) = SubSeq(e.path, 1, Len(prefix))
      /\ e.path \in Seq(DOMAIN Lower)
  BY DEF HasChild, IsPrefix, Entry
<1>2. Child(e, prefix) \in DOMAIN Lower
  BY <1>1 DEF Child
<1>3. key \in Seq(DOMAIN Lower) /\ Len(key) = Len(prefix) + 1
  BY <1>2
<1>4. \A j \in 1 .. Len(prefix) : prefix[j] = e.path[j]
  <2> TAKE j \in 1 .. Len(prefix)
  <2>1. SubSeq(prefix, 1, Len(prefix))[j] = prefix[j]
    OBVIOUS
  <2>2. SubSeq(e.path, 1, Len(prefix))[j] = e.path[j]
    BY <1>1
  <2> QED BY <1>1, <2>1, <2>2
<1>5. \A j \in 1 .. Len(key) : key[j] = e.path[j]
  BY <1>2, <1>3, <1>4 DEF Child
<1>6. SubSeq(e.path, 1, Len(key)) = key
  <2> HIDE DEF key
  <2> QED BY <1>1, <1>3, <1>5
<1>7. Len(e.path) = Len(key) => e.path = key
  <2> HIDE DEF key
  <2> QED BY <1>1, <1>3, <1>5
<1>8. ~Hidden(key) /\ key # <<>>
  <2>1. 1 \in 1 .. Len(key) /\ e.path # <<>>
    BY <1>1, <1>3
  <2>2. key[1] = e.path[1]
    BY <1>5, <2>1
  <2> HIDE DEF key
  <2> QED BY <1>1, <1>3, <2>1, <2>2 DEF Hidden
<1> QED BY <1>1, <1>2, <1>3, <1>6, <1>7, <1>8

\* A child is to stat and to the attribute call what a listing says it is: in a
\* tree no file has a directory's name, in whatever case.
LEMMA ChildKind ==
  ASSUME archive \in Archives, Readable, NEW prefix \in Seq(DOMAIN Lower),
         NEW k \in DOMAIN archive, HasChild(archive[k], prefix)
  PROVE  LET key == Append(prefix, Child(archive[k], prefix))
             kind == Kind(archive[k], prefix)
         IN  Stat(key) = kind /\ Attributes(key) = kind
<1> DEFINE key == Append(prefix, Child(archive[k], prefix))
           kind == Kind(archive[k], prefix)
           e == archive[k]
<1>1. /\ e \in Entry /\ e.path \in Seq(DOMAIN Lower) /\ e.dir \in BOOLEAN
      /\ \A j \in DOMAIN archive :
           archive[j].path \in Seq(DOMAIN Lower) /\ archive[j].dir \in BOOLEAN
      /\ IsTree(archive)
  BY Archived
<1>2. /\ key \in Seq(DOMAIN Lower) /\ Len(key) = Len(prefix) + 1
      /\ Len(key) <= Len(e.path) /\ SubSeq(e.path, 1, Len(key)) = key
      /\ ~Hidden(key) /\ key # <<>> /\ (Len(e.path) = Len(key) => e.path = key)
  BY <1>1, ChildFacts
<1>3. Len(key) \in Nat /\ Len(e.path) \in Nat /\ Same(key, key)
  <2> HIDE DEF key
  <2> QED BY <1>1, <1>2, SameReflexive
<1>4. kind = IF e.dir \/ Len(e.path) > Len(key) THEN "dir" ELSE "file"
  BY <1>2 DEF Kind
<1> HIDE DEF key, kind
<1> SUFFICES Stat(key) = kind /\ Attributes(key) = kind
  BY DEF key, kind
<1>5. CASE ~e.dir /\ Len(e.path) = Len(key)
  <2>1. k \in Located(key, FALSE)
    BY <1>2, <1>3, <1>5 DEF Located
  <2>2. Located(key, TRUE) = {}
    <3> SUFFICES ASSUME NEW j \in DOMAIN archive, archive[j].dir,
                        Same(archive[j].path, key)
                 PROVE  FALSE
      BY <1>1 DEF Located
    <3>1. j # k /\ Len(archive[j].path) = Len(e.path)
      BY <1>5 DEF Same
    <3>2. SubSeq(e.path, 1, Len(archive[j].path)) = key
      BY <1>2, <1>5, <3>1
    <3>3. Len(archive[j].path) <= Len(e.path)
          /\ ~(Len(archive[j].path) < Len(e.path))
      BY <1>3, <3>1
    <3>4. Same(archive[j].path, SubSeq(e.path, 1, Len(archive[j].path)))
      BY <3>2, Zenon
    <3> QED BY <1>1, <3>1, <3>3, <3>4 DEF IsTree
  <2>3. ~ImplicitDir(key)
    <3> SUFFICES ASSUME NEW j \in DOMAIN archive, Under(archive[j], key)
                 PROVE  FALSE
      BY <1>2 DEF ImplicitDir
    <3>1. /\ Len(key) <= Len(archive[j].path)
          /\ SubSeq(key, 1, Len(key)) = SubSeq(archive[j].path, 1, Len(key))
          /\ archive[j].dir \/ Len(archive[j].path) > Len(key)
      BY DEF Under, IsPrefix
    <3>2. SubSeq(archive[j].path, 1, Len(key)) = key
      BY <1>2, <3>1
    <3>3. j # k
      BY <1>3, <1>5, <3>1
    <3>4. Len(e.path) <= Len(archive[j].path)
          /\ Same(e.path, SubSeq(archive[j].path, 1, Len(e.path)))
      BY <1>2, <1>3, <1>5, <3>1, <3>2
    <3> QED BY <1>1, <1>5, <3>3, <3>4 DEF IsTree
  <2>4. kind = "file"
    BY <1>3, <1>4, <1>5
  <2> QED BY <1>2, <2>1, <2>2, <2>3, <2>4 DEF Stat, Attributes, WinIsDir, Open
<1>6. CASE e.dir \/ Len(e.path) > Len(key)
  <2>1. Located(key, FALSE) = {}
    <3> SUFFICES ASSUME NEW j \in DOMAIN archive, archive[j].dir = FALSE,
                        Same(archive[j].path, key)
                 PROVE  FALSE
      BY DEF Located
    <3>1. Len(archive[j].path) = Len(key)
      BY DEF Same
    <3>2. j # k
      BY <1>3, <1>6, <3>1
    <3>3. SubSeq(e.path, 1, Len(archive[j].path)) = key
          /\ Len(archive[j].path) <= Len(e.path)
      BY <1>2, <3>1
    <3> QED BY <1>1, <3>2, <3>3 DEF IsTree
  <2>2. ImplicitDir(key)
    <3>1. SubSeq(key, 1, Len(key)) = SubSeq(e.path, 1, Len(key))
      BY <1>2
    <3>2. Under(e, key)
      BY <1>2, <1>3, <1>6, <3>1 DEF Under, IsPrefix
    <3> QED BY <3>2 DEF ImplicitDir
  <2>3. kind = "dir"
    BY <1>4, <1>6
  <2> QED BY <1>2, <2>1, <2>2, <2>3 DEF Stat, Attributes, WinIsDir
<1> QED BY <1>2, <1>3, <1>5, <1>6

-------------------------------------------------------------------------------
(* Directory streams.                                                      *)

\* A stream has returned the children of the entries before its cursor, by
\* their kinds, and knows of those it returned unless a name was lost.
Returned(s) ==
  /\ IsFiniteSet(Names(s))
  /\ \A j \in DOMAIN s.out : \E k \in DOMAIN archive :
       /\ HasChild(archive[k], s.prefix)
       /\ s.out[j] = <<Child(archive[k], s.prefix), Kind(archive[k], s.prefix)>>
  /\ \A k \in 1 .. s.cursor - 1 :
       HasChild(archive[k], s.prefix) => Child(archive[k], s.prefix) \in Names(s)
  /\ s.seen \subseteq Names(s) /\ s.last \in Names(s) \cup {""}
  /\ ~s.lost => Names(s) \subseteq s.seen /\ Cardinality(Names(s)) = Len(s.out)

StreamOK(s) ==
  /\ s \in Stream /\ g_state = "ready" /\ Returned(s)
  /\ s.cursor <= Len(archive) + 1
  /\ s.end => s.cursor = Len(archive) + 1

StreamsInv ==
  /\ archive \in Archives /\ g_state \in {"uninit", "ready", "failed"}
  /\ stream \in [Handle -> Stream \cup {Closed}]
  /\ \A h \in Handle : stream[h] # Closed => StreamOK(stream[h])

LEMMA InitStreams == Init => StreamsInv
BY DEF Init, StreamsInv

LEMMA StreamOpen == \A s \in Stream : s # Closed
<1> SUFFICES ASSUME NEW s \in Stream PROVE s # Closed
  OBVIOUS
<1>1. "cursor" \in DOMAIN s
  BY DEF Stream
<1>2. DOMAIN Closed = {}
  BY DEF Closed
<1> QED BY <1>1, <1>2

LEMMA StreamStays ==
  ASSUME NEW h, StreamOK(stream[h]), stream'[h] = stream[h],
         archive' = archive, g_state' = "ready"
  PROVE  StreamOK(stream[h])'
<1>1. Names(stream[h])' = Names(stream[h])
  BY DEF Names
<1>2. Returned(stream[h])'
  BY <1>1 DEF StreamOK, Returned
<1> QED BY <1>2 DEF StreamOK

\* An opened stream has returned nothing.
LEMMA Opened ==
  ASSUME StreamsInv, NEW h \in Handle, OpenDir(h)
  PROVE  StreamsInv'
<1>1. PICK key \in Keys :
        stream' = [stream EXCEPT ![h] =
            [prefix |-> key, cursor |-> 1, last |-> "", seen |-> {},
             out |-> <<>>, lost |-> FALSE, end |-> FALSE]]
  BY DEF OpenDir
<1>2. g_state' = "ready" /\ archive' = archive
  BY DEF OpenDir
<1> DEFINE s == [prefix |-> key, cursor |-> 1, last |-> "", seen |-> {},
                 out |-> <<>>, lost |-> FALSE, end |-> FALSE]
<1>3. s \in Stream
  BY KeysAre DEF Stream
<1>4. Names(s) = {}
  BY DEF Names
<1>5. Returned(s)' /\ s.cursor <= Len(archive) + 1
  <2>1. Len(archive) \in Nat
    BY Archived DEF StreamsInv
  <2>2. 1 .. s.cursor - 1 = {} /\ s.out = <<>> /\ s.seen = {} /\ s.last = ""
    OBVIOUS
  <2>3. IsFiniteSet(Names(s)) /\ Cardinality(Names(s)) = Len(s.out)
    BY <1>4, FS_EmptySet
  <2> QED BY <1>2, <1>4, <2>1, <2>2, <2>3 DEF Returned, Names
<1>6. StreamOK(s)'
  BY <1>2, <1>3, <1>5 DEF StreamOK
<1>7. /\ \A g \in Handle : stream'[g] = IF g = h THEN s ELSE stream[g]
      /\ stream' \in [Handle -> Stream \cup {Closed}]
  <2> HIDE DEF s
  <2> QED BY <1>1, <1>3 DEF StreamsInv, s
<1>8. \A g \in Handle \ {h} : stream[g] # Closed => StreamOK(stream[g])'
  BY <1>2, <1>7, StreamStays DEF StreamsInv
<1> HIDE DEF s
<1> QED BY <1>2, <1>6, <1>7, <1>8 DEF StreamsInv

\* A turn of readdir: the name is new, and every entry passed by was not.
LEMMA Read ==
  ASSUME StreamsInv, NEW h \in Handle, ReadDir(h)
  PROVE  StreamsInv'
<1>0. PICK s : s = stream[h]
  OBVIOUS
<1>1. s \in Stream /\ StreamOK(s)
  BY <1>0 DEF ReadDir, StreamsInv, StreamOK
<1>2. PICK j \in DOMAIN archive, kept \in BOOLEAN :
        /\ j \in s.cursor .. Len(archive) /\ New(s, j)
        /\ \A k \in s.cursor .. j - 1 : ~New(s, k)
        /\ stream' = [stream EXCEPT ![h] =
             [s EXCEPT !.cursor = j + 1, !.last = Child(archive[j], s.prefix),
                !.seen = IF kept THEN @ \cup {Child(archive[j], s.prefix)} ELSE @,
                !.out = Append(@, <<Child(archive[j], s.prefix),
                                    Kind(archive[j], s.prefix)>>),
                !.lost = @ \/ ~kept]]
  BY <1>0 DEF ReadDir
<1> USE <1>1
<1>3. archive' = archive /\ g_state' = "ready" /\ g_state = "ready"
  BY <1>1 DEF ReadDir, StreamOK
<1>fields. /\ s.prefix \in Seq(DOMAIN Lower) /\ s.cursor \in Nat \ {0}
           /\ s.last \in DOMAIN Lower \cup {""} /\ s.seen \in SUBSET DOMAIN Lower
           /\ s.out \in Seq((DOMAIN Lower) \X {"file", "dir"})
           /\ s.lost \in BOOLEAN /\ s.end \in BOOLEAN
  BY DEF Stream
<1>archived. /\ Len(archive) \in Nat /\ DOMAIN archive = 1 .. Len(archive)
             /\ \A k \in DOMAIN archive : archive[k] \in Entry
             /\ j \in Nat /\ 1 <= j /\ j <= Len(archive)
  <2>1. archive \in Seq(Entry)
    BY Archived DEF StreamsInv
  <2> QED BY <2>1
<1>bounds. /\ s.cursor \in Nat /\ 1 <= s.cursor /\ j \in Nat /\ s.cursor <= j
           /\ j <= Len(archive) /\ Len(archive) \in Nat
  <2>1. s.cursor \in Nat /\ 1 <= s.cursor
    <3>1. s.cursor \in Nat \ {0}
      BY <1>fields
    <3> QED BY <3>1
  <2> QED BY <1>2, <1>archived, <2>1
<1>n. PICK e, name, kind :
        e = archive[j] /\ name = Child(e, s.prefix) /\ kind = Kind(e, s.prefix)
  OBVIOUS
<1>t. PICK t :
        t = [s EXCEPT !.cursor = j + 1, !.last = name,
               !.seen = IF kept THEN @ \cup {name} ELSE @,
               !.out = Append(@, <<name, kind>>), !.lost = @ \/ ~kept]
  OBVIOUS
<1>4. /\ e \in Entry /\ s.prefix \in Seq(DOMAIN Lower) /\ HasChild(e, s.prefix)
      /\ name \notin s.seen \cup {s.last} /\ Len(archive) \in Nat
  BY <1>n, <1>2, <1>fields, <1>archived DEF New
<1>5. name \in DOMAIN Lower /\ name # "" /\ kind \in {"file", "dir"}
  BY <1>n, <1>4, ChildFacts, VfsDirsAssumption DEF Kind
<1>6. /\ t \in Stream /\ t.cursor = j + 1 /\ t.prefix = s.prefix
      /\ t.last = name /\ t.end = s.end
      /\ t.seen = (IF kept THEN s.seen \cup {name} ELSE s.seen)
      /\ t.out = Append(s.out, <<name, kind>>)
      /\ t.lost = (s.lost \/ ~kept)
  <2>1. /\ s.out \in Seq((DOMAIN Lower) \X {"file", "dir"})
        /\ <<name, kind>> \in (DOMAIN Lower) \X {"file", "dir"}
        /\ j + 1 \in Nat \ {0} /\ s.seen \in SUBSET DOMAIN Lower
        /\ s.lost \in BOOLEAN
    <3>1. <<name, kind>> \in (DOMAIN Lower) \X {"file", "dir"}
      BY <1>5
    <3>2. j + 1 \in Nat \ {0}
      BY <1>archived
    <3> QED BY <1>fields, <3>1, <3>2
  <2>2. Append(s.out, <<name, kind>>) \in Seq((DOMAIN Lower) \X {"file", "dir"})
    BY <2>1
  <2>3. /\ t.cursor = j + 1 /\ t.prefix = s.prefix
        /\ t.last = name /\ t.end = s.end
        /\ t.seen = (IF kept THEN s.seen \cup {name} ELSE s.seen)
        /\ t.out = Append(s.out, <<name, kind>>)
        /\ t.lost = (s.lost \/ ~kept)
        /\ t = [prefix |-> t.prefix, cursor |-> t.cursor, last |-> t.last,
                seen |-> t.seen, out |-> t.out, lost |-> t.lost, end |-> t.end]
    BY <1>t DEF Stream
  <2>4. t.prefix \in Seq(DOMAIN Lower) /\ t.seen \in SUBSET DOMAIN Lower
        /\ t.lost \in BOOLEAN /\ t.end \in BOOLEAN
    BY <1>5, <1>fields, <2>1, <2>3
  <2>5. t \in Stream
    BY <1>5, <2>1, <2>2, <2>3, <2>4 DEF Stream
  <2> QED BY <2>3, <2>5
<1>7. Names(t) = Names(s) \cup {name} /\ Len(t.out) = Len(s.out) + 1
  <2>1. s.out \in Seq((DOMAIN Lower) \X {"file", "dir"})
    BY <1>fields
  <2>2. /\ Len(t.out) = Len(s.out) + 1 /\ Len(s.out) \in Nat
        /\ t.out[Len(s.out) + 1] = <<name, kind>>
        /\ \A i \in DOMAIN s.out : t.out[i] = s.out[i]
        /\ DOMAIN t.out = DOMAIN s.out \cup {Len(s.out) + 1}
    BY <1>6, <2>1
  <2>3. t.out[Len(s.out) + 1][1] = name
    BY <2>2
  <2> QED BY <2>2, <2>3 DEF Names
<1>8. Returned(s)
  BY <1>1 DEF StreamOK
<1>9. Returned(t)
  <2>1. IsFiniteSet(Names(t))
    <3>1. IsFiniteSet(Names(s))
      BY <1>8 DEF Returned
    <3> QED BY <1>7, <3>1, FS_AddElement
  <2>2. \A i \in DOMAIN t.out : \E k \in DOMAIN archive :
          /\ HasChild(archive[k], t.prefix)
          /\ t.out[i] = <<Child(archive[k], t.prefix),
                          Kind(archive[k], t.prefix)>>
    <3> TAKE i \in DOMAIN t.out
    <3>1. s.out \in Seq((DOMAIN Lower) \X {"file", "dir"})
      BY <1>fields
    <3>2. \/ i \in DOMAIN s.out /\ t.out[i] = s.out[i]
          \/ t.out[i] = <<name, kind>>
      BY <1>6, <3>1
    <3>3. CASE i \in DOMAIN s.out /\ t.out[i] = s.out[i]
      BY <1>6, <1>8, <3>3 DEF Returned
    <3>4. CASE t.out[i] = <<name, kind>>
      BY <1>n, <1>4, <1>6, <3>4
    <3> QED BY <3>2, <3>3, <3>4
  <2>3. \A k \in 1 .. t.cursor - 1 : HasChild(archive[k], t.prefix) =>
          Child(archive[k], t.prefix) \in Names(t)
    <3> TAKE k \in 1 .. t.cursor - 1
    <3> HAVE HasChild(archive[k], t.prefix)
    <3>0. t.cursor = j + 1
      BY <1>6
    <3>1. s.cursor \in Nat /\ k \in 1 .. j
      BY <1>bounds, <3>0
    <3>2. CASE k < s.cursor
      <4>1. k \in 1 .. s.cursor - 1
        BY <3>1, <3>2
      <4> QED BY <1>6, <1>7, <1>8, <4>1 DEF Returned
    <3>3. CASE k = j
      BY <1>n, <1>6, <1>7, <3>3
    <3>4. CASE s.cursor <= k /\ k < j
      <4>1. k \in s.cursor .. j - 1
        BY <1>archived, <3>1, <3>4
      <4>2. Child(archive[k], t.prefix) \in s.seen \cup {s.last}
        BY <1>2, <1>6, <4>1 DEF New
      <4>3. k \in DOMAIN archive
        BY <1>2, <3>1, <1>archived
      <4>4. Child(archive[k], t.prefix) # ""
        BY <1>6, <4>3, <1>fields, <1>archived, ChildFacts, VfsDirsAssumption
      <4> QED BY <1>6, <1>7, <1>8, <4>2, <4>4 DEF Returned
    <3>5. k < s.cursor \/ k = j \/ (s.cursor <= k /\ k < j)
      BY <1>bounds, <3>1
    <3> QED BY <3>2, <3>3, <3>4, <3>5
  <2>4. t.seen \subseteq Names(t) /\ t.last \in Names(t) \cup {""}
    BY <1>6, <1>7, <1>8 DEF Returned
  <2>5. ~t.lost => Names(t) \subseteq t.seen /\ Cardinality(Names(t)) = Len(t.out)
    <3> SUFFICES ASSUME ~t.lost
                 PROVE  Names(t) \subseteq t.seen
                        /\ Cardinality(Names(t)) = Len(t.out)
      OBVIOUS
    <3>1. kept /\ ~s.lost
      BY <1>6
    <3>2. Names(s) \subseteq s.seen /\ Cardinality(Names(s)) = Len(s.out)
          /\ name \notin Names(s)
      BY <1>4, <1>8, <3>1 DEF Returned
    <3>3. Cardinality(Names(t)) = Cardinality(Names(s)) + 1
      <4>1. IsFiniteSet(Names(s))
        BY <1>8 DEF Returned
      <4> QED BY <1>7, <3>2, <4>1, FS_AddElement
    <3> QED BY <1>6, <1>7, <3>1, <3>2, <3>3
  <2> QED BY <2>1, <2>2, <2>3, <2>4, <2>5 DEF Returned
<1>10. t.cursor <= Len(archive) + 1 /\ ~t.end
  <2>1. s.end => s.cursor = Len(archive) + 1
    BY DEF StreamOK
  <2>2. t.cursor = j + 1 /\ t.end = s.end
    BY <1>6
  <2>3. s.end \in BOOLEAN
    BY <1>fields
  <2> QED BY <1>bounds, <2>1, <2>2, <2>3
<1>11. /\ \A g \in Handle : stream'[g] = IF g = h THEN t ELSE stream[g]
       /\ stream' \in [Handle -> Stream \cup {Closed}]
  <2>1. stream' = [stream EXCEPT ![h] = t]
    BY <1>2, <1>n, <1>t
  <2> QED BY <1>6, <2>1 DEF StreamsInv
<1>12. StreamOK(stream[h])'
  <2>1. stream'[h] = t
    BY <1>11
  <2>2. Returned(stream[h])'
    <3>1. Names(stream[h])' = Names(t)
      BY <2>1 DEF Names
    <3> QED BY <1>3, <1>9, <2>1, <3>1 DEF Returned
  <2> QED BY <1>3, <1>6, <1>10, <2>1, <2>2 DEF StreamOK
<1>13. \A g \in Handle \ {h} : stream[g] # Closed => StreamOK(stream[g])'
  BY <1>3, <1>11, StreamStays DEF StreamsInv
<1> QED BY <1>3, <1>11, <1>12, <1>13 DEF StreamsInv

\* A turn that finds nothing new: the cursor is past the last entry.
LEMMA ReadOn ==
  ASSUME StreamsInv, NEW h \in Handle, ReadEnd(h)
  PROVE  StreamsInv'
<1>0. PICK s : s = stream[h]
  OBVIOUS
<1>1. s \in Stream /\ StreamOK(s)
  BY <1>0 DEF ReadEnd, StreamsInv, StreamOK
<1>2. /\ \A k \in s.cursor .. Len(archive) : ~New(s, k)
      /\ stream' = [stream EXCEPT ![h] =
                      [s EXCEPT !.cursor = Len(archive) + 1, !.end = TRUE]]
      /\ archive' = archive /\ g_state' = "ready"
  <2>1. stream' = [stream EXCEPT ![h].cursor = Len(archive) + 1, ![h].end = TRUE]
    BY DEF ReadEnd
  <2>2. stream \in [Handle -> Stream \cup {Closed}]
    BY DEF StreamsInv
  <2>3. stream' = [stream EXCEPT ![h] =
                      [s EXCEPT !.cursor = Len(archive) + 1, !.end = TRUE]]
    BY <1>0, <2>1, <2>2
  <2>4. g_state = "ready"
    BY <1>1 DEF StreamOK
  <2> QED BY <1>0, <2>3, <2>4 DEF ReadEnd
<1>3. PICK t : t = [s EXCEPT !.cursor = Len(archive) + 1, !.end = TRUE]
  OBVIOUS
<1>4. /\ archive \in Seq(Entry) /\ Len(archive) \in Nat
      /\ DOMAIN archive = 1 .. Len(archive)
      /\ \A k \in DOMAIN archive : archive[k] \in Entry
  <2>1. archive \in Seq(Entry)
    BY Archived DEF StreamsInv
  <2> QED BY <2>1
<1>5. /\ t \in Stream /\ t.cursor = Len(archive) + 1 /\ t.prefix = s.prefix
      /\ t.last = s.last /\ t.seen = s.seen /\ t.out = s.out /\ t.lost = s.lost
  <2>1. Len(archive) + 1 \in Nat \ {0}
    BY <1>4
  <2> QED BY <1>1, <1>3, <2>1 DEF Stream
<1>6. Names(t) = Names(s) /\ Returned(s)
  BY <1>1, <1>5 DEF Names, StreamOK
<1>7. \A k \in 1 .. t.cursor - 1 : HasChild(archive[k], t.prefix) =>
        Child(archive[k], t.prefix) \in Names(t)
  <2> TAKE k \in 1 .. t.cursor - 1
  <2> HAVE HasChild(archive[k], t.prefix)
  <2>1. s.cursor \in Nat /\ s.prefix \in Seq(DOMAIN Lower)
    BY <1>1 DEF Stream
  <2>2. k \in 1 .. Len(archive)
    BY <1>4, <1>5
  <2>3. CASE k < s.cursor
    <3>1. k \in 1 .. s.cursor - 1
      BY <2>1, <2>2, <2>3
    <3> QED BY <1>5, <1>6, <3>1 DEF Returned
  <2>4. CASE ~(k < s.cursor)
    <3>1. k \in s.cursor .. Len(archive)
      BY <1>4, <2>1, <2>2, <2>4
    <3>2. Child(archive[k], t.prefix) \in s.seen \cup {s.last}
      BY <1>2, <1>5, <3>1 DEF New
    <3>3. Child(archive[k], t.prefix) # ""
      <4>1. archive[k] \in Entry /\ t.prefix \in Seq(DOMAIN Lower)
        BY <1>4, <1>5, <2>1, <2>2
      <4>2. Child(archive[k], t.prefix) \in DOMAIN Lower
        BY <4>1, ChildFacts
      <4> QED BY <4>2, VfsDirsAssumption
    <3> QED BY <1>5, <1>6, <3>2, <3>3 DEF Returned
  <2> QED BY <2>3, <2>4
<1>8. Returned(t)
  BY <1>5, <1>6, <1>7 DEF Returned
<1>9. /\ \A g \in Handle : stream'[g] = IF g = h THEN t ELSE stream[g]
      /\ stream' \in [Handle -> Stream \cup {Closed}]
  BY <1>2, <1>3, <1>5 DEF StreamsInv
<1>10. StreamOK(stream[h])'
  <2>1. stream'[h] = t
    BY <1>9
  <2>2. Names(stream[h])' = Names(t)
    BY <2>1 DEF Names
  <2>3. Returned(stream[h])'
    BY <1>2, <1>8, <2>1, <2>2 DEF Returned
  <2> QED BY <1>2, <1>4, <1>5, <2>1, <2>3 DEF StreamOK
<1>11. \A g \in Handle \ {h} : stream[g] # Closed => StreamOK(stream[g])'
  BY <1>2, <1>9, StreamStays DEF StreamsInv
<1> QED BY <1>2, <1>9, <1>10, <1>11 DEF StreamsInv

\* What leaves the streams alone leaves them as they were: a library that is
\* ready stays so.
LEMMA StreamsStay ==
  ASSUME StreamsInv, UNCHANGED <<archive, stream>>, Start \/ UNCHANGED g_state
  PROVE  StreamsInv'
<1>1. g_state' \in {"uninit", "ready", "failed"}
      /\ (g_state = "ready" => g_state' = "ready")
  BY DEF StreamsInv, Start
<1>2. \A h \in Handle : stream[h] # Closed => StreamOK(stream[h])'
  <2> TAKE h \in Handle
  <2> HAVE stream[h] # Closed
  <2>1. StreamOK(stream[h]) /\ g_state = "ready"
    BY DEF StreamsInv, StreamOK
  <2> QED BY <1>1, <2>1, StreamStays
<1> QED BY <1>1, <1>2 DEF StreamsInv

LEMMA Shut ==
  ASSUME StreamsInv, NEW h \in Handle, CloseDir(h)
  PROVE  StreamsInv'
<1>1. /\ \A g \in Handle : stream'[g] = IF g = h THEN Closed ELSE stream[g]
      /\ stream' \in [Handle -> Stream \cup {Closed}]
      /\ UNCHANGED <<archive, g_state>>
  BY DEF CloseDir, StreamsInv
<1>2. \A g \in Handle \ {h} : stream[g] # Closed => StreamOK(stream[g])'
  <2> TAKE g \in Handle \ {h}
  <2> HAVE stream[g] # Closed
  <2>1. StreamOK(stream[g]) /\ g_state = "ready"
    BY DEF StreamsInv, StreamOK
  <2> QED BY <1>1, <2>1, StreamStays
<1> QED BY <1>1, <1>2 DEF StreamsInv

LEMMA RuntimeStreams == StreamsInv /\ [RuntimeNext]_runtimeVars => StreamsInv'
<1> SUFFICES ASSUME StreamsInv, [RuntimeNext]_runtimeVars PROVE StreamsInv'
  OBVIOUS
<1>1. CASE StreamsNext
  <2>1. CASE OpenDirFails
    BY <2>1, StreamsStay DEF OpenDirFails
  <2>2. CASE \E h \in Handle : OpenDir(h) \/ ReadDir(h) \/ ReadEnd(h) \/ CloseDir(h)
    BY <2>2, Opened, Read, ReadOn, Shut
  <2> QED BY <1>1, <2>1, <2>2 DEF StreamsNext
<1>2. CASE SearchesNext
  <2>1. UNCHANGED <<archive, stream>> /\ (Start \/ UNCHANGED g_state)
    BY <1>2 DEF SearchesNext, FindFirstFails, FindFirst, KernelFirst, FindNext,
                FindClose
  <2> QED BY <2>1, StreamsStay
<1>3. CASE DescriptorsNext \/ UNCHANGED runtimeVars
  <2>1. UNCHANGED vars
    BY <1>3 DEF DescriptorsNext, Descriptors, runtimeVars
  <2> QED BY <2>1, StreamsStay DEF vars
<1> QED BY <1>1, <1>2, <1>3 DEF RuntimeNext

\* A stream returns each child of its directory, by its kind, and nothing else,
\* and none twice unless memory ran out for the names it remembers: for every
\* tree, in whatever order its entries lie, and any number of streams.
THEOREM StreamsListOnce == RuntimeSpec => []ListsOnce
<1>1. RuntimeInit => StreamsInv
  BY InitStreams DEF RuntimeInit
<1>2. StreamsInv => ListsOnce
  <2> SUFFICES ASSUME StreamsInv, NEW h \in Handle, stream[h] # Closed
               PROVE  LET s == stream[h]
                          Children == {e.path[Len(s.prefix) + 1] :
                            e \in {archive[j] : j \in {k \in DOMAIN archive :
                                     HasChild(archive[k], s.prefix)}}}
                      IN /\ ~s.lost => Cardinality(Names(s)) = Len(s.out)
                         /\ Names(s) \subseteq Children
                         /\ s.end => Names(s) = Children
                         /\ \A j \in DOMAIN s.out :
                              Stat(Append(s.prefix, s.out[j][1])) = s.out[j][2]
    BY DEF ListsOnce
  <2>0. PICK s : s = stream[h]
    OBVIOUS
  <2>1. s \in Stream /\ StreamOK(s) /\ Returned(s) /\ archive \in Archives
    BY <2>0 DEF StreamsInv, StreamOK
  <2> DEFINE Children == {e.path[Len(s.prefix) + 1] :
               e \in {archive[j] : j \in {k \in DOMAIN archive :
                        HasChild(archive[k], s.prefix)}}}
  <2>2. \A x : x \in Children <=> \E k \in DOMAIN archive :
               HasChild(archive[k], s.prefix) /\ x = Child(archive[k], s.prefix)
    BY DEF Child
  <2> HIDE DEF Children
  <2>3. ~s.lost => Cardinality(Names(s)) = Len(s.out)
    BY <2>1 DEF Returned
  <2>4. Names(s) \subseteq Children
    <3> SUFFICES ASSUME NEW j \in DOMAIN s.out PROVE s.out[j][1] \in Children
      BY DEF Names
    <3>1. PICK k \in DOMAIN archive :
            /\ HasChild(archive[k], s.prefix)
            /\ s.out[j] = <<Child(archive[k], s.prefix),
                            Kind(archive[k], s.prefix)>>
      BY <2>1 DEF Returned
    <3>2. s.out[j][1] = Child(archive[k], s.prefix)
      BY <3>1
    <3> QED BY <2>2, <3>1, <3>2
  <2>5. s.end => Children \subseteq Names(s)
    <3> SUFFICES ASSUME s.end, NEW k \in DOMAIN archive,
                        HasChild(archive[k], s.prefix)
                 PROVE  Child(archive[k], s.prefix) \in Names(s)
      BY <2>2
    <3>1. archive \in Seq(Entry) /\ s.cursor = Len(archive) + 1
      BY <2>1, Archived DEF StreamOK
    <3>2. k \in 1 .. s.cursor - 1
      BY <3>1
    <3> QED BY <2>1, <3>2 DEF Returned
  <2>6. \A j \in DOMAIN s.out :
          Stat(Append(s.prefix, s.out[j][1])) = s.out[j][2]
    <3> TAKE j \in DOMAIN s.out
    <3>1. PICK k \in DOMAIN archive :
            /\ HasChild(archive[k], s.prefix)
            /\ s.out[j] = <<Child(archive[k], s.prefix),
                            Kind(archive[k], s.prefix)>>
      BY <2>1 DEF Returned
    <3>2. Readable /\ s.prefix \in Seq(DOMAIN Lower)
      BY <2>1 DEF StreamOK, Readable, Stream
    <3>3. Stat(Append(s.prefix, Child(archive[k], s.prefix)))
            = Kind(archive[k], s.prefix)
      BY <2>1, <3>1, <3>2, ChildKind
    <3> QED BY <3>1, <3>3
  <2> QED BY <2>0, <2>3, <2>4, <2>5, <2>6 DEF Children
<1> QED BY <1>1, <1>2, RuntimeStreams, PTL DEF RuntimeSpec

-------------------------------------------------------------------------------
(* What a path means, and what the calls say of it (VfsDirs).              *)

\* A path of segments that fit loses none of them on the way.
LEMMA CanonFits ==
  ASSUME NEW path \in Seq(DOMAIN Lower), Len(path) <= MaxSegs, NEW after,
         after = Canoning(path, after),
         after \in [0 .. Len(path) -> Seq(DOMAIN Lower)]
  PROVE  Stacked(path, ".", "..", after)
<1> DEFINE N == Len(path)
           T == {k \in Nat : k <= N => Len(after[k]) <= k}
<1>0. N \in Nat /\ MaxSegs \in Nat /\ N <= MaxSegs
  <2>1. MaxSegs \in Nat
    BY VfsDirsAssumption, Zenon
  <2>2. N \in Nat /\ N <= MaxSegs
    OBVIOUS
  <2> QED BY <2>1, <2>2
<1>1. /\ after[0] = <<>> /\ DOMAIN after = 0 .. N
      /\ \A k \in 1 .. N : after[k] = Push(after[k - 1], path[k])
  <2>1. \A k \in 0 .. N : Canoning(path, after)[k] =
                            IF k = 0 THEN <<>> ELSE Push(after[k - 1], path[k])
    BY DEF Canoning
  <2>2. \A k \in 0 .. N : after[k] =
                            IF k = 0 THEN <<>> ELSE Push(after[k - 1], path[k])
    BY <2>1
  <2>3. 0 \in 0 .. N /\ \A k \in 1 .. N : k \in 0 .. N /\ k # 0
    BY <1>0
  <2>4. DOMAIN after = 0 .. N
    OBVIOUS
  <2>5. after[0] = <<>>
    BY <2>2, <2>3, Zenon
  <2> HIDE DEF N
  <2> QED BY <2>2, <2>3, <2>4, <2>5
<1>2. \A k \in 0 .. N : after[k] \in Seq(DOMAIN Lower) /\ Len(after[k]) \in Nat
  OBVIOUS
<1>3. 0 \in T
  BY <1>1
<1>4. ASSUME NEW k \in T PROVE k + 1 \in T
  <2> SUFFICES ASSUME k + 1 <= N PROVE Len(after[k + 1]) <= k + 1
    OBVIOUS
  <2>1. k \in 0 .. N /\ k + 1 \in 1 .. N /\ (k + 1) - 1 = k /\ k \in Nat
        /\ Len(after[k]) <= k
    BY <1>0
  <2>2. PICK s : s = after[k]
    OBVIOUS
  <2>3. s \in Seq(DOMAIN Lower) /\ Len(s) \in Nat /\ Len(s) <= k
    BY <1>2, <2>1, <2>2
  <2>4. after[k + 1] = Push(s, path[k + 1])
    BY <1>1, <2>1, <2>2
  <2>5. Len(SubSeq(s, 1, Len(s) - 1)) <= k + 1
    <3>1. CASE Len(s) = 0
      BY <2>1, <2>3, <3>1
    <3>2. CASE Len(s) > 0
      BY <2>1, <2>3, <3>2
    <3> QED BY <2>3, <3>1, <3>2
  <2>6. Len(Append(s, path[k + 1])) <= k + 1
    BY <2>1, <2>3
  <2> QED BY <2>1, <2>3, <2>4, <2>5, <2>6 DEF Push
<1>5. T = Nat
  <2>1. T \in SUBSET Nat OBVIOUS
  <2> HIDE DEF T
  <2> QED BY <1>3, <1>4, <2>1, Induct
<1>6. \A k \in 1 .. N : Len(after[k - 1]) < MaxSegs
  <2> TAKE k \in 1 .. N
  <2>1. PICK j \in Nat : j = k - 1 /\ j \in 0 .. N /\ j <= N /\ j < MaxSegs
    <3> HIDE DEF N
    <3> QED BY <1>0
  <2>2. Len(after[j]) \in Nat /\ Len(after[j]) <= j
    <3>1. j \in T
      BY <1>5
    <3> QED BY <1>2, <2>1, <3>1
  <2>3. Len(after[j]) < MaxSegs
    <3> HIDE DEF N
    <3> QED BY <1>0, <2>1, <2>2
  <2> QED BY <2>1, <2>3
<1> QED BY <1>1, <1>6 DEF Push, Stacked

\* A path means what its segments say.
LEMMA PathsMean == AllMeant
<1> SUFFICES ASSUME NEW p \in Paths, Len(p) <= MaxSegs
             PROVE  Key[p] = Lexical(p, ".", "..")
  BY DEF AllMeant, Means
<1>1. p \in Seq(DOMAIN Lower) /\ Key[p] = Canon(p)
  BY VfsDirsAssumption DEF Key
<1>2. PICK after : /\ after = Canoning(p, after)
                   /\ Canon(p) = after[Len(p)]
                   /\ after \in [0 .. Len(p) -> Seq(DOMAIN Lower)]
  BY <1>1, CanonDefined
<1>3. Stacked(p, ".", "..", after)
  BY <1>1, <1>2, CanonFits
<1>4. "." # ".."
  OBVIOUS
<1>5. after[Len(p)] = Lexical(p, ".", "..")
  BY <1>1, <1>3, <1>4, StackIsLexical
<1> QED BY <1>1, <1>2, <1>5

\* Nothing lies below a file: a key that a file has is no directory.
LEMMA FilesAreLeaves ==
  ASSUME archive \in Archives, NEW key \in Seq(DOMAIN Lower),
         Located(key, FALSE) # {}
  PROVE  ~ImplicitDir(key)
<1>1. /\ IsTree(archive)
      /\ \A j \in DOMAIN archive : /\ archive[j].path \in Seq(DOMAIN Lower)
                                   /\ archive[j].path # <<>>
  BY Archived
<1>2. PICK f \in DOMAIN archive :
        archive[f].dir = FALSE /\ Same(archive[f].path, key)
  BY DEF Located
<1>3. PICK q : q = archive[f].path
  OBVIOUS
<1>4. /\ q \in Seq(DOMAIN Lower) /\ q # <<>> /\ Len(q) = Len(key)
      /\ Same(q, key) /\ Len(key) \in Nat
  BY <1>1, <1>2, <1>3 DEF Same
<1>5. key # <<>>
  BY <1>4
<1>6. ASSUME NEW j \in DOMAIN archive, Under(archive[j], key) PROVE FALSE
  <2>1. PICK e : e = archive[j]
    OBVIOUS
  <2>2. PICK t : t = e.path
    OBVIOUS
  <2>3. /\ t \in Seq(DOMAIN Lower) /\ Len(t) \in Nat /\ Len(key) <= Len(t)
        /\ key = SubSeq(t, 1, Len(key)) /\ (e.dir \/ Len(t) > Len(key))
    <3>1. t \in Seq(DOMAIN Lower)
      BY <1>1, <2>1, <2>2
    <3>2. IsPrefix(key, t) /\ (e.dir \/ Len(t) > Len(key))
      BY <1>6, <2>1, <2>2 DEF Under
    <3>3. key = SubSeq(key, 1, Len(key))
      OBVIOUS
    <3> QED BY <3>1, <3>2, <3>3 DEF IsPrefix
  <2>4. Same(q, SubSeq(t, 1, Len(q)))
    BY <1>4, <2>3
  <2>5. CASE j = f
    BY <1>2, <1>3, <1>4, <2>1, <2>2, <2>3, <2>5
  <2>6. CASE j # f
    <3>1. archive[f].dir
      BY <1>1, <1>3, <1>4, <2>1, <2>2, <2>3, <2>4, <2>6 DEF IsTree
    <3> QED BY <1>2, <3>1
  <2> QED BY <2>5, <2>6
<1> QED BY <1>5, <1>6 DEF ImplicitDir

\* open, stat, access and opendir agree on every key.
LEMMA CallsSame ==
  ASSUME archive \in Archives, NEW key \in Seq(DOMAIN Lower)
  PROVE  /\ Open(key) <=> Stat(key) = "file"
         /\ IsDir(key) <=> Stat(key) = "dir"
         /\ Access(key) <=> Open(key) \/ IsDir(key)
<1>1. Open(key) <=> Stat(key) = "file"
  BY DEF Open, Stat
<1>2. IsDir(key) <=> Stat(key) = "dir"
  BY FilesAreLeaves DEF IsDir, Stat
<1>3. Stat(key) \in {"none", "file", "dir"}
  BY DEF Stat
<1> QED BY <1>1, <1>2, <1>3 DEF Access

\* open, stat, access and opendir agree on every path; a path means what its
\* segments say, in whatever way it goes up and down; and neither a path nor
\* a listing leads to unpin's metadata: for every tree and every path.
THEOREM CallsAgreeAlways == RuntimeSpec => []RuntimeAgrees
<1>1. RuntimeInit => StreamsInv
  BY InitStreams DEF RuntimeInit
<1>2. StreamsInv => CallsAgree
  <2> SUFFICES ASSUME StreamsInv, NEW key \in Keys
               PROVE  /\ Open(key) <=> Stat(key) = "file"
                      /\ IsDir(key) <=> Stat(key) = "dir"
                      /\ Access(key) <=> Open(key) \/ IsDir(key)
    BY PathsMean DEF CallsAgree
  <2>1. archive \in Archives /\ key \in Seq(DOMAIN Lower)
    BY KeysAre DEF StreamsInv
  <2> QED BY <2>1, CallsSame
<1>3. ASSUME NEW key \in Metadata
      PROVE  ~Open(key) /\ ~Access(key) /\ ~IsDir(key)
  <2>1. PICK p \in Paths :
          LET at == Lexical(p, ".", "..")
          IN  /\ Len(p) <= MaxSegs /\ at # <<>>
              /\ Lower[at[1]] \in {"unpin", ".unpin"} /\ key = Key[p]
    BY DEF Metadata
  <2>2. key = Lexical(p, ".", "..")
    BY <2>1, PathsMean DEF AllMeant, Means
  <2>3. Hidden(key)
    BY <2>1, <2>2 DEF Hidden
  <2> QED BY <2>3 DEF Open, Access, Stat, IsDir
<1>4. ASSUME StreamsInv, NEW h \in Handle, stream[h] # Closed,
             stream[h].prefix = <<>>, NEW n \in Names(stream[h])
      PROVE  Lower[n] \notin {"unpin", ".unpin"}
  <2>1. PICK s : s = stream[h]
    OBVIOUS
  <2>2. Returned(s) /\ s.prefix = <<>> /\ n \in Names(s)
    BY <1>4, <2>1 DEF StreamsInv, StreamOK
  <2>3. PICK j \in DOMAIN s.out : n = s.out[j][1]
    BY <2>2 DEF Names
  <2>4. PICK k \in DOMAIN archive :
          /\ HasChild(archive[k], s.prefix)
          /\ s.out[j] = <<Child(archive[k], s.prefix), Kind(archive[k], s.prefix)>>
    BY <2>2 DEF Returned
  <2>5. /\ ~Hidden(archive[k].path) /\ Len(archive[k].path) > 0
        /\ n = archive[k].path[1]
    BY <2>2, <2>3, <2>4 DEF HasChild, Child
  <2>6. archive[k].path # <<>>
    BY <2>5
  <2> QED BY <2>5, <2>6 DEF Hidden
<1>5. StreamsInv => RuntimeAgrees
  BY <1>2, <1>3, <1>4 DEF RuntimeAgrees, MetadataStays
<1> QED BY <1>1, <1>5, RuntimeStreams, PTL DEF RuntimeSpec

-------------------------------------------------------------------------------
(* Searches (VfsFind). A listing folds over the archive.                   *)

Segs == (DOMAIN Lower) \X {"file", "dir"}

Listings(key, after) ==
  [j \in 0 .. Len(archive) |->
     IF j = 0 THEN <<>> ELSE Pushed(key, after[j - 1], archive[j])]

\* What is listed of the first n entries: each child once, by its kind.
ListsUpTo(names, key, n) ==
  /\ names \in Seq(Segs)
  /\ \A i, j \in DOMAIN names : names[i][1] = names[j][1] => i = j
  /\ \A i \in DOMAIN names : \E k \in DOMAIN archive :
       /\ HasChild(archive[k], key)
       /\ names[i] = <<Child(archive[k], key), Kind(archive[k], key)>>
  /\ \A k \in 1 .. n : HasChild(archive[k], key) =>
       \E i \in DOMAIN names : names[i][1] = Child(archive[k], key)

LEMMA Pushes ==
  ASSUME archive \in Archives, NEW key \in Seq(DOMAIN Lower),
         NEW n \in Nat, n + 1 \in DOMAIN archive,
         NEW names, ListsUpTo(names, key, n)
  PROVE  ListsUpTo(Pushed(key, names, archive[n + 1]), key, n + 1)
<1>1. PICK e : e = archive[n + 1]
  OBVIOUS
<1>2. e \in Entry
  BY <1>1, Archived
<1>3. PICK more : more = Pushed(key, names, e)
  OBVIOUS
<1>4. CASE ~HasChild(e, key) \/ \E k \in DOMAIN names : names[k][1] = Child(e, key)
  <2>1. more = names
    BY <1>3, <1>4 DEF Pushed
  <2>2. \A k \in 1 .. n + 1 : k \in 1 .. n \/ k = n + 1
    OBVIOUS
  <2>3. \A k \in 1 .. n + 1 : HasChild(archive[k], key) =>
          \E i \in DOMAIN names : names[i][1] = Child(archive[k], key)
    BY <1>1, <1>4, <2>2 DEF ListsUpTo
  <2>4. ListsUpTo(names, key, n + 1)
    BY <2>3 DEF ListsUpTo
  <2> QED BY <1>1, <1>3, <2>1, <2>4
<1>5. CASE HasChild(e, key) /\ \A k \in DOMAIN names : names[k][1] # Child(e, key)
  <2>1. PICK name, kind : name = Child(e, key) /\ kind = Kind(e, key)
    OBVIOUS
  <2>2. name \in DOMAIN Lower /\ kind \in {"file", "dir"}
    BY <1>2, <1>5, <2>1, ChildFacts DEF Kind
  <2>3. <<name, kind>> \in Segs /\ names \in Seq(Segs)
    BY <2>2 DEF Segs, ListsUpTo
  <2>4. more = Append(names, <<name, kind>>)
    BY <1>3, <1>5, <2>1 DEF Pushed
  <2>5. /\ more \in Seq(Segs) /\ Len(names) \in Nat
        /\ DOMAIN names = 1 .. Len(names)
        /\ DOMAIN more = 1 .. Len(names) + 1
        /\ \A i \in DOMAIN names : more[i] = names[i]
        /\ more[Len(names) + 1] = <<name, kind>>
    BY <2>3, <2>4
  <2>6. more[Len(names) + 1][1] = name
    BY <2>5
  <2>7. \A i \in DOMAIN more : i \in DOMAIN names \/ i = Len(names) + 1
    BY <2>5
  <2>8. \A i, j \in DOMAIN more : more[i][1] = more[j][1] => i = j
    BY <1>5, <2>1, <2>5, <2>6, <2>7 DEF ListsUpTo
  <2>9. \A i \in DOMAIN more : \E k \in DOMAIN archive :
          /\ HasChild(archive[k], key)
          /\ more[i] = <<Child(archive[k], key), Kind(archive[k], key)>>
    BY <1>1, <1>5, <2>1, <2>5, <2>7 DEF ListsUpTo
  <2>10. \A k \in 1 .. n + 1 : HasChild(archive[k], key) =>
           \E i \in DOMAIN more : more[i][1] = Child(archive[k], key)
    <3> TAKE k \in 1 .. n + 1
    <3> HAVE HasChild(archive[k], key)
    <3>1. CASE k = n + 1
      <4>1. Len(names) + 1 \in DOMAIN more
        BY <2>5
      <4> QED BY <1>1, <2>1, <2>6, <3>1, <4>1
    <3>2. CASE k # n + 1
      <4>1. PICK i \in DOMAIN names : names[i][1] = Child(archive[k], key)
        BY <3>2 DEF ListsUpTo
      <4>2. i \in DOMAIN more /\ more[i] = names[i]
        BY <2>5
      <4> QED BY <4>1, <4>2
    <3> QED BY <3>1, <3>2
  <2>11. ListsUpTo(more, key, n + 1)
    BY <2>5, <2>8, <2>9, <2>10 DEF ListsUpTo
  <2> QED BY <1>1, <1>3, <2>11
<1> QED BY <1>4, <1>5

LEMMA ListingFolds ==
  ASSUME archive \in Archives, NEW key \in Seq(DOMAIN Lower)
  PROVE  \E after : /\ after = Listings(key, after)
                    /\ Listing(key) = after[Len(archive)]
<1> DEFINE N == Len(archive)
           X == Seq(Segs)
           Turn(k, s) == Pushed(key, s, archive[k])
           G == [k \in 1 .. N |-> [s \in X |-> Turn(k, s)]]
           after == CHOOSE f : f = Listings(key, f)
<1>0. N \in Nat /\ \A k \in 1 .. N : archive[k] \in Entry
  <2>1. archive \in Seq(Entry)
    BY Archived
  <2> QED BY <2>1
<1>1. \A k \in 1 .. N, s \in X : Turn(k, s) \in X
  <2> TAKE k \in 1 .. N, s \in X
  <2>1. HasChild(archive[k], key) =>
          <<Child(archive[k], key), Kind(archive[k], key)>> \in Segs
    BY <1>0, ChildFacts DEF Segs, Kind
  <2> HIDE DEF Segs
  <2> QED BY <2>1 DEF Pushed
<1>2. G \in [1 .. N -> [X -> X]]
  <2> HIDE DEF Turn, X
  <2> QED BY <1>1
<1>3. <<>> \in X
  OBVIOUS
<1>4. PICK f : Folds(f, X, <<>>, N, G)
  <2> HIDE DEF G, X, N
  <2> QED BY <1>0, <1>2, <1>3, FoldExists
<1>5. f \in [0 .. N -> X] /\ f[0] = <<>>
      /\ \A k \in 1 .. N : f[k] = G[k][f[k - 1]]
  <2> HIDE DEF G, X, N
  <2> QED BY <1>4 DEF Folds
<1>6. \A k \in 1 .. N : f[k] = Turn(k, f[k - 1])
  <2> TAKE k \in 1 .. N
  <2> HIDE DEF Turn, X
  <2>1. f[k - 1] \in X
    <3>1. k - 1 \in 0 .. N
      BY <1>0
    <3> QED BY <1>5, <3>1
  <2>2. G[k] = [s \in X |-> Turn(k, s)]
    OBVIOUS
  <2> HIDE DEF G
  <2> QED BY <1>5, <2>1, <2>2
<1>7. f = Listings(key, f)
  <2> HIDE DEF G, X
  <2> QED BY <1>0, <1>5, <1>6 DEF Listings
<1>8. after = Listings(key, after)
  BY <1>7
<1>9. Listing(key) = after[N]
  BY DEF Listing, Listings
<1> QED
  <2> HIDE DEF after
  <2> QED BY <1>8, <1>9

\* A listing lists each child of the directory once.
LEMMA ListingLists ==
  ASSUME archive \in Archives, NEW key \in Seq(DOMAIN Lower)
  PROVE  ListsUpTo(Listing(key), key, Len(archive))
<1>1. PICK after : after = Listings(key, after)
                   /\ Listing(key) = after[Len(archive)]
  BY ListingFolds
<1>2. Len(archive) \in Nat /\ DOMAIN archive = 1 .. Len(archive)
  <2>1. archive \in Seq(Entry)
    BY Archived
  <2> QED BY <2>1
<1> DEFINE T == {n \in Nat : n <= Len(archive) => ListsUpTo(after[n], key, n)}
<1>3. 0 \in T
  <2>1. after[0] = <<>>
    BY <1>1, <1>2 DEF Listings
  <2>2. ListsUpTo(<<>>, key, 0)
    BY DEF ListsUpTo
  <2> QED BY <2>1, <2>2
<1>4. ASSUME NEW n \in T PROVE n + 1 \in T
  <2> SUFFICES ASSUME n + 1 <= Len(archive)
               PROVE  ListsUpTo(after[n + 1], key, n + 1)
    OBVIOUS
  <2>1. n \in Nat /\ ListsUpTo(after[n], key, n) /\ n + 1 \in DOMAIN archive
    BY <1>2
  <2>2. n + 1 \in 0 .. Len(archive) /\ n + 1 # 0 /\ (n + 1) - 1 = n
    BY <1>2, <2>1
  <2>3. Listings(key, after)[n + 1] = Pushed(key, after[n], archive[n + 1])
    BY <2>2 DEF Listings
  <2>4. after[n + 1] = Pushed(key, after[n], archive[n + 1])
    BY <1>1, <2>3
  <2> QED BY <2>1, <2>4, Pushes
<1>5. T = Nat
  <2>1. T \in SUBSET Nat OBVIOUS
  <2> HIDE DEF T
  <2> QED BY <1>3, <1>4, <2>1, Induct
<1> QED BY <1>1, <1>2, <1>5

Ours(h) == held[h] # NotHeld /\ held[h].whose = "ours"
Taken(k) == g_finds[k] # Free

\* What the program holds is in one slot, which has listed the directory and
\* given as much of the list as the program has.
Serves(f, s) ==
  /\ f = [at |-> f.at, names |-> f.names, i |-> f.i]
  /\ s = [whose |-> "ours", dir |-> s.dir, out |-> s.out, end |-> s.end]
  /\ s.dir \in Seq(DOMAIN Lower) /\ ListsUpTo(f.names, s.dir, Len(archive))
  /\ f.i \in DOMAIN f.names /\ s.out = SubSeq(f.names, 1, f.i)
  /\ s.end => f.i = Len(f.names)

SearchesInv ==
  /\ DOMAIN g_finds = 1 .. FindMax /\ DOMAIN held = Pointer
  /\ \A k \in 1 .. FindMax : Taken(k) =>
       g_finds[k].at \in Pointer /\ Ours(g_finds[k].at)
  /\ \A k, l \in 1 .. FindMax :
       Taken(k) /\ Taken(l) /\ g_finds[k].at = g_finds[l].at => k = l
  /\ \A h \in Pointer : Ours(h) =>
       g_state = "ready" /\ \E k \in Slots(h) : Serves(g_finds[k], held[h])

LEMMA InitSearches == FindInit => SearchesInv
<1> SUFFICES ASSUME FindInit PROVE SearchesInv
  OBVIOUS
<1>1. /\ \A k \in 1 .. FindMax : ~Taken(k)
      /\ \A h \in Pointer : ~Ours(h)
      /\ DOMAIN g_finds = 1 .. FindMax /\ DOMAIN held = Pointer
  BY DEF FindInit, Taken, Ours
<1> QED BY <1>1 DEF SearchesInv

LEMMA Records ==
  /\ \A at, names, i : [at |-> at, names |-> names, i |-> i] # Free
  /\ \A w, dir, out, end :
       [whose |-> w, dir |-> dir, out |-> out, end |-> end] # NotHeld
  /\ Kernels # NotHeld /\ Kernels.whose # "ours"
<1>1. DOMAIN Free = {} /\ DOMAIN NotHeld = {}
  BY DEF Free, NotHeld
<1>2. \A at, names, i : "at" \in DOMAIN [at |-> at, names |-> names, i |-> i]
  OBVIOUS
<1>3. \A w, dir, out, end :
        "dir" \in DOMAIN [whose |-> w, dir |-> dir, out |-> out, end |-> end]
  OBVIOUS
<1>4. "whose" \in DOMAIN Kernels /\ Kernels.whose # "ours"
  BY DEF Kernels
<1> QED BY <1>1, <1>2, <1>3, <1>4

\* A search nobody touches goes on.
LEMMA ServesOn ==
  ASSUME NEW h, NEW k, Serves(g_finds[k], held[h]), g_finds'[k] = g_finds[k],
         held'[h] = held[h], archive' = archive
  PROVE  Serves(g_finds[k], held[h])'
BY DEF Serves, ListsUpTo

\* A new search takes a slot that was free, for an address nobody holds.
LEMMA Found ==
  ASSUME StreamsInv, SearchesInv, NEW h \in Pointer, FindFirst(h)
  PROVE  SearchesInv'
<1>1. PICK key \in Keys, k \in DOMAIN g_finds :
        /\ g_finds[k] = Free /\ Listing(key) # <<>>
        /\ g_finds' = [g_finds EXCEPT ![k] =
                         [at |-> h, names |-> Listing(key), i |-> 1]]
        /\ held' = [held EXCEPT ![h] =
                      [whose |-> "ours", dir |-> key,
                       out |-> SubSeq(Listing(key), 1, 1), end |-> FALSE]]
        /\ held[h] = NotHeld
        /\ archive' = archive /\ g_state' = "ready"
  BY DEF FindFirst, Unused
<1>2. PICK names : names = Listing(key)
  OBVIOUS
<1>3. PICK f, s :
        /\ f = [at |-> h, names |-> names, i |-> 1]
        /\ s = [whose |-> "ours", dir |-> key, out |-> SubSeq(names, 1, 1),
                end |-> FALSE]
  OBVIOUS
<1>4. /\ DOMAIN g_finds = 1 .. FindMax /\ DOMAIN held = Pointer
      /\ k \in 1 .. FindMax
      /\ \A l \in 1 .. FindMax : g_finds'[l] = IF l = k THEN f ELSE g_finds[l]
      /\ \A p \in Pointer : held'[p] = IF p = h THEN s ELSE held[p]
      /\ DOMAIN g_finds' = 1 .. FindMax /\ DOMAIN held' = Pointer
  BY <1>1, <1>2, <1>3 DEF SearchesInv
<1>5. f # Free /\ s # NotHeld /\ s.whose = "ours" /\ f.at = h /\ f.i = 1
      /\ f.names = names /\ s.dir = key /\ s.out = SubSeq(names, 1, 1)
      /\ s.end = FALSE
  BY <1>3, Records
<1>6. \A l \in 1 .. FindMax : Taken(l) => g_finds[l].at # h
  BY <1>1 DEF SearchesInv, Ours
<1>7. \A p \in Pointer : Ours(p)' <=> p = h \/ Ours(p)
  BY <1>4, <1>5 DEF Ours
<1>8. \A l \in 1 .. FindMax : Taken(l)' <=> l = k \/ Taken(l)
  BY <1>4, <1>5 DEF Taken
<1>9. \A l \in 1 .. FindMax :
        Taken(l)' => g_finds'[l].at \in Pointer /\ Ours(g_finds[l].at)'
  <2> TAKE l \in 1 .. FindMax
  <2> HAVE Taken(l)'
  <2>1. PICK a : a = g_finds'[l].at
    OBVIOUS
  <2>2. CASE l = k
    BY <1>4, <1>5, <2>1, <2>2 DEF Ours
  <2>3. CASE l # k
    <3>1. a = g_finds[l].at /\ Taken(l)
      BY <1>4, <1>8, <2>1, <2>3
    <3>2. a \in Pointer /\ Ours(a)
      BY <3>1 DEF SearchesInv
    <3> QED BY <1>4, <1>5, <2>1, <3>2 DEF Ours
  <2> QED BY <2>2, <2>3
<1>10. \A l, m \in 1 .. FindMax :
         Taken(l)' /\ Taken(m)' /\ g_finds'[l].at = g_finds'[m].at => l = m
  BY <1>4, <1>5, <1>6, <1>8 DEF SearchesInv
<1>11. k \in Slots(h)' /\ Serves(g_finds[k], held[h])'
  <2>1. ListsUpTo(names, key, Len(archive)) /\ key \in Seq(DOMAIN Lower)
    BY <1>2, ListingLists, KeysAre DEF StreamsInv
  <2>2. 1 \in DOMAIN names
    <3>1. names \in Seq(Segs) /\ names # <<>>
      BY <1>1, <1>2, <2>1 DEF ListsUpTo
    <3> QED BY <3>1
  <2>3. ListsUpTo(names, key, Len(archive))'
    BY <1>1, <2>1 DEF ListsUpTo
  <2>4. k \in Slots(h)'
    BY <1>4, <1>5 DEF Slots
  <2>5. g_finds'[k] = f /\ held'[h] = s
    BY <1>4
  <2>6. /\ f = [at |-> f.at, names |-> f.names, i |-> f.i]
        /\ s = [whose |-> "ours", dir |-> s.dir, out |-> s.out, end |-> s.end]
    BY <1>3
  <2> QED BY <1>5, <2>1, <2>2, <2>3, <2>4, <2>5, <2>6 DEF Serves
<1>12. ASSUME NEW p \in Pointer \ {h}, Ours(p)
       PROVE  \E l \in Slots(p)' : Serves(g_finds[l], held[p])'
  <2>1. PICK l \in Slots(p) : Serves(g_finds[l], held[p])
    BY <1>12 DEF SearchesInv
  <2>2. l \in 1 .. FindMax /\ g_finds[l] # Free /\ g_finds[l].at = p
    BY <1>4 DEF Slots
  <2>3. g_finds'[l] = g_finds[l] /\ held'[p] = held[p]
    BY <1>1, <1>4, <2>2
  <2>4. l \in Slots(p)'
    BY <1>4, <2>2, <2>3 DEF Slots
  <2> QED BY <1>1, <2>1, <2>3, <2>4, ServesOn
<1>13. \A p \in Pointer : Ours(p)' =>
         \E l \in Slots(p)' : Serves(g_finds[l], held[p])'
  BY <1>7, <1>11, <1>12
<1> QED BY <1>1, <1>4, <1>9, <1>10, <1>13 DEF SearchesInv

\* The kernel's searches are none of ours, at an address we do not use.
LEMMA FoundElsewhere ==
  ASSUME StreamsInv, SearchesInv, NEW h \in Pointer, KernelFirst(h)
  PROVE  SearchesInv'
<1>1. /\ held[h] = NotHeld /\ held' = [held EXCEPT ![h] = Kernels]
      /\ UNCHANGED <<archive, g_state, g_finds>>
  BY DEF KernelFirst, Unused
<1>2. /\ DOMAIN held' = Pointer
      /\ \A p \in Pointer : held'[p] = IF p = h THEN Kernels ELSE held[p]
  BY <1>1 DEF SearchesInv
<1>3. \A p \in Pointer : Ours(p)' <=> Ours(p)
  BY <1>1, <1>2, Records DEF Ours
<1>4. \A k : Taken(k)' <=> Taken(k)
  BY <1>1 DEF Taken
<1>5. ASSUME NEW p \in Pointer, Ours(p)
      PROVE  \E l \in Slots(p)' : Serves(g_finds[l], held[p])'
  <2>1. PICK l \in Slots(p) : Serves(g_finds[l], held[p])
    BY <1>5 DEF SearchesInv
  <2>2. held'[p] = held[p]
    BY <1>1, <1>2, <1>5 DEF Ours
  <2>3. l \in Slots(p)'
    BY <1>1 DEF Slots
  <2> QED BY <1>1, <2>1, <2>2, <2>3, ServesOn
<1> QED BY <1>1, <1>2, <1>3, <1>4, <1>5 DEF SearchesInv

\* The next name, or the end: from the slot that serves the handle, since a
\* handle in the table is ours and has one slot.
LEMMA FoundNext ==
  ASSUME StreamsInv, SearchesInv, NEW h \in Pointer, FindNext(h)
  PROVE  SearchesInv'
<1>1. PICK k \in Slots(h) :
        /\ g_finds' = IF g_finds[k].i < Len(g_finds[k].names)
                      THEN [g_finds EXCEPT ![k].i = @ + 1] ELSE g_finds
        /\ held' = IF held[h].whose = "kernel" THEN held
                   ELSE IF g_finds[k].i < Len(g_finds[k].names)
                   THEN [held EXCEPT ![h].out =
                           Append(@, g_finds[k].names[g_finds[k].i + 1])]
                   ELSE [held EXCEPT ![h].end = TRUE]
        /\ UNCHANGED <<archive, g_state>>
  BY DEF FindNext
<1>2. /\ k \in 1 .. FindMax /\ Taken(k) /\ g_finds[k].at = h
      /\ DOMAIN g_finds = 1 .. FindMax /\ DOMAIN held = Pointer
  BY DEF Slots, Taken, SearchesInv
<1>3. /\ Ours(h) /\ \A l \in 1 .. FindMax \ {k} : Taken(l) => g_finds[l].at # h
  BY <1>2 DEF SearchesInv
<1>4. Serves(g_finds[k], held[h]) /\ g_state = "ready"
  <2>1. PICK l \in Slots(h) : Serves(g_finds[l], held[h])
    BY <1>3 DEF SearchesInv
  <2>2. l = k
    BY <1>2, <1>3, <2>1 DEF Slots, Taken
  <2> QED BY <1>3, <2>1, <2>2 DEF SearchesInv
<1>5. PICK f, s : f = g_finds[k] /\ s = held[h]
  OBVIOUS
<1>6. /\ f.names \in Seq(Segs) /\ f.i \in DOMAIN f.names
      /\ Len(f.names) \in Nat /\ f.i \in Nat /\ f.i <= Len(f.names) /\ 1 <= f.i
      /\ s.out = SubSeq(f.names, 1, f.i) /\ (s.end => f.i = Len(f.names))
  BY <1>4, <1>5 DEF Serves, ListsUpTo
<1>7. PICK g, t :
        /\ g = IF f.i < Len(f.names) THEN [f EXCEPT !.i = @ + 1] ELSE f
        /\ t = IF f.i < Len(f.names)
               THEN [s EXCEPT !.out = Append(@, f.names[f.i + 1])]
               ELSE [s EXCEPT !.end = TRUE]
  OBVIOUS
<1>8. /\ \A l \in 1 .. FindMax : g_finds'[l] = IF l = k THEN g ELSE g_finds[l]
      /\ \A p \in Pointer : held'[p] = IF p = h THEN t ELSE held[p]
      /\ DOMAIN g_finds' = 1 .. FindMax /\ DOMAIN held' = Pointer
  <2>1. held[h].whose = "ours"
    BY <1>3 DEF Ours
  <2>2. /\ DOMAIN g_finds' = 1 .. FindMax
        /\ \A l \in 1 .. FindMax : g_finds'[l] = IF l = k THEN g ELSE g_finds[l]
    <3>1. CASE f.i < Len(f.names)
      BY <1>1, <1>2, <1>5, <1>7, <3>1
    <3>2. CASE ~(f.i < Len(f.names))
      BY <1>1, <1>2, <1>5, <1>7, <3>2
    <3> QED BY <3>1, <3>2
  <2>3. /\ DOMAIN held' = Pointer
        /\ \A p \in Pointer : held'[p] = IF p = h THEN t ELSE held[p]
    <3>1. CASE f.i < Len(f.names)
      BY <1>1, <1>2, <1>5, <1>7, <2>1, <3>1
    <3>2. CASE ~(f.i < Len(f.names))
      BY <1>1, <1>2, <1>5, <1>7, <2>1, <3>2
    <3> QED BY <3>1, <3>2
  <2> QED BY <2>2, <2>3
<1>9. Serves(g, t) /\ g.at = h /\ t.whose = "ours"
  <2>1. /\ s.dir \in Seq(DOMAIN Lower) /\ ListsUpTo(f.names, s.dir, Len(archive))
        /\ f = [at |-> f.at, names |-> f.names, i |-> f.i]
        /\ s = [whose |-> "ours", dir |-> s.dir, out |-> s.out, end |-> s.end]
    BY <1>4, <1>5 DEF Serves
  <2>2. f.at = h
    BY <1>2, <1>5
  <2>3. CASE f.i < Len(f.names)
    <3>1. /\ g = [at |-> h, names |-> f.names, i |-> f.i + 1]
          /\ t = [whose |-> "ours", dir |-> s.dir,
                  out |-> Append(s.out, f.names[f.i + 1]), end |-> s.end]
      <4>1. PICK fn, fi, sd, so, se :
              /\ fn = f.names /\ fi = f.i /\ sd = s.dir /\ so = s.out /\ se = s.end
        OBVIOUS
      <4>2. /\ f = [at |-> h, names |-> fn, i |-> fi]
            /\ s = [whose |-> "ours", dir |-> sd, out |-> so, end |-> se]
        BY <2>1, <2>2, <4>1, Zenon
      <4>3. /\ g = [f EXCEPT !.i = fi + 1]
            /\ t = [s EXCEPT !.out = Append(so, fn[fi + 1])]
        BY <1>7, <2>3, <4>1
      <4>4. /\ g = [at |-> h, names |-> fn, i |-> fi + 1]
            /\ t = [whose |-> "ours", dir |-> sd, out |-> Append(so, fn[fi + 1]),
                    end |-> se]
        BY <4>2, <4>3
      <4> QED BY <4>1, <4>4, Zenon
    <3>2. Append(s.out, f.names[f.i + 1]) = SubSeq(f.names, 1, f.i + 1)
      BY <1>6, <2>3
    <3>3. f.i + 1 \in DOMAIN f.names /\ ~s.end
      BY <1>6, <2>3
    <3> QED BY <2>1, <3>1, <3>2, <3>3 DEF Serves
  <2>4. CASE ~(f.i < Len(f.names))
    <3>1. /\ g = f
          /\ t = [whose |-> "ours", dir |-> s.dir, out |-> s.out, end |-> TRUE]
      <4>1. PICK sd, so, se : sd = s.dir /\ so = s.out /\ se = s.end
        OBVIOUS
      <4>2. s = [whose |-> "ours", dir |-> sd, out |-> so, end |-> se]
        BY <2>1, <4>1, Zenon
      <4>3. g = f /\ t = [s EXCEPT !.end = TRUE]
        BY <1>7, <2>4
      <4>4. t = [whose |-> "ours", dir |-> sd, out |-> so, end |-> TRUE]
        BY <4>2, <4>3
      <4> QED BY <4>1, <4>3, <4>4, Zenon
    <3>2. f.i = Len(f.names)
      BY <1>6, <2>4
    <3> QED BY <1>6, <2>1, <2>2, <3>1, <3>2 DEF Serves
  <2> QED BY <2>3, <2>4
<1>10. g # Free /\ t # NotHeld
  <2>1. /\ g = [at |-> g.at, names |-> g.names, i |-> g.i]
        /\ t = [whose |-> "ours", dir |-> t.dir, out |-> t.out, end |-> t.end]
    BY <1>9 DEF Serves
  <2> QED BY <2>1, Records
<1>11. \A p \in Pointer : Ours(p)' <=> Ours(p)
  BY <1>3, <1>8, <1>9, <1>10 DEF Ours
<1>12. \A l \in 1 .. FindMax :
         (Taken(l)' <=> Taken(l)) /\ g_finds'[l].at = g_finds[l].at
  BY <1>2, <1>8, <1>9, <1>10 DEF Taken
<1>13. \A l \in 1 .. FindMax :
         Taken(l)' => g_finds'[l].at \in Pointer /\ Ours(g_finds[l].at)'
  <2> TAKE l \in 1 .. FindMax
  <2> HAVE Taken(l)'
  <2>1. PICK a : a = g_finds[l].at
    OBVIOUS
  <2>2. a \in Pointer /\ Ours(a) /\ g_finds'[l].at = a
    BY <1>12, <2>1 DEF SearchesInv
  <2> QED BY <1>11, <2>2 DEF Ours
<1>14. \A p \in Pointer : Ours(p)' =>
         \E l \in Slots(p)' : Serves(g_finds[l], held[p])'
  <2> TAKE p \in Pointer
  <2> HAVE Ours(p)'
  <2>1. CASE p = h
    <3>1. k \in Slots(h)'
      BY <1>2, <1>8, <1>9, <1>10 DEF Slots
    <3>2. Serves(g_finds[k], held[h])'
      <4>1. g_finds'[k] = g /\ held'[h] = t
        BY <1>2, <1>8
      <4>2. ListsUpTo(g.names, t.dir, Len(archive))'
        BY <1>1, <1>9 DEF Serves, ListsUpTo
      <4> QED BY <1>1, <1>9, <4>1, <4>2 DEF Serves
    <3> QED BY <2>1, <3>1, <3>2
  <2>2. CASE p # h
    <3>1. PICK l \in Slots(p) : Serves(g_finds[l], held[p])
      BY <1>11 DEF SearchesInv
    <3>2. l \in 1 .. FindMax /\ l # k /\ Taken(l) /\ g_finds[l].at = p
      BY <1>2, <2>2, <3>1 DEF Slots, Taken
    <3>3. g_finds'[l] = g_finds[l] /\ held'[p] = held[p]
      BY <1>8, <2>2, <3>2
    <3>4. l \in Slots(p)'
      BY <1>8, <3>2, <3>3 DEF Slots, Taken
    <3> QED BY <1>1, <3>1, <3>3, <3>4, ServesOn
  <2> QED BY <2>1, <2>2
<1> QED BY <1>1, <1>4, <1>8, <1>12, <1>13, <1>14 DEF SearchesInv

\* A handle that is closed leaves no slot behind, and takes no other's.
LEMMA FoundClosed ==
  ASSUME StreamsInv, SearchesInv, NEW h \in Pointer, FindClose(h)
  PROVE  SearchesInv'
<1>1. /\ g_finds' = [k \in DOMAIN g_finds |->
                       IF k \in Slots(h) THEN Free ELSE g_finds[k]]
      /\ held' = [held EXCEPT ![h] = NotHeld]
      /\ UNCHANGED <<archive, g_state>>
  BY DEF FindClose
<1>2. /\ DOMAIN g_finds = 1 .. FindMax /\ DOMAIN held = Pointer
      /\ DOMAIN g_finds' = 1 .. FindMax /\ DOMAIN held' = Pointer
      /\ \A k \in 1 .. FindMax :
           g_finds'[k] = IF k \in Slots(h) THEN Free ELSE g_finds[k]
      /\ \A p \in Pointer : held'[p] = IF p = h THEN NotHeld ELSE held[p]
  BY <1>1 DEF SearchesInv
<1>3. \A k \in 1 .. FindMax :
        /\ Taken(k)' <=> Taken(k) /\ g_finds[k].at # h
        /\ Taken(k)' => g_finds'[k] = g_finds[k]
  BY <1>2 DEF Taken, Slots
<1>4. \A p \in Pointer : Ours(p)' <=> Ours(p) /\ p # h
  BY <1>2 DEF Ours
<1>5. \A k \in 1 .. FindMax :
        Taken(k)' => g_finds'[k].at \in Pointer /\ Ours(g_finds[k].at)'
  <2> TAKE k \in 1 .. FindMax
  <2> HAVE Taken(k)'
  <2>1. PICK a : a = g_finds[k].at
    OBVIOUS
  <2>2. a \in Pointer /\ Ours(a) /\ g_finds'[k].at = a /\ a # h
    BY <1>3, <2>1 DEF SearchesInv
  <2> QED BY <1>4, <2>2 DEF Ours
<1>6. ASSUME NEW p \in Pointer, Ours(p)'
      PROVE  \E k \in Slots(p)' : Serves(g_finds[k], held[p])'
  <2>1. Ours(p) /\ p # h
    BY <1>4, <1>6
  <2>2. PICK k \in Slots(p) : Serves(g_finds[k], held[p])
    BY <2>1 DEF SearchesInv
  <2>3. k \in 1 .. FindMax /\ Taken(k) /\ g_finds[k].at = p
    BY <1>2, <2>2 DEF Slots, Taken
  <2>4. g_finds'[k] = g_finds[k] /\ held'[p] = held[p]
    BY <1>2, <1>3, <2>1, <2>3
  <2>5. k \in Slots(p)'
    BY <1>2, <2>3, <2>4 DEF Slots, Taken
  <2> QED BY <1>1, <2>2, <2>4, <2>5, ServesOn
<1> QED BY <1>1, <1>2, <1>3, <1>4, <1>5, <1>6 DEF SearchesInv

\* What leaves the searches alone leaves them as they were.
LEMMA SearchesStay ==
  ASSUME StreamsInv, SearchesInv, UNCHANGED <<archive, g_finds, held>>,
         Start \/ UNCHANGED g_state
  PROVE  SearchesInv'
<1>1. g_state = "ready" => g_state' = "ready"
  BY DEF Start
<1>2. \A h, k : (Ours(h)' <=> Ours(h)) /\ (Taken(k)' <=> Taken(k))
                /\ Slots(h)' = Slots(h)
  BY DEF Ours, Taken, Slots
<1>3. ASSUME NEW p \in Pointer, Ours(p)
      PROVE  \E k \in Slots(p)' : Serves(g_finds[k], held[p])'
  <2>1. PICK k \in Slots(p) : Serves(g_finds[k], held[p])
    BY <1>3 DEF SearchesInv
  <2>2. k \in Slots(p)'
    BY <1>2, <2>1
  <2> QED BY <2>1, <2>2, ServesOn
<1>4. \A k \in 1 .. FindMax : Ours(g_finds[k].at)' <=> Ours(g_finds[k].at)
  BY DEF Ours
<1> QED BY <1>1, <1>2, <1>3, <1>4 DEF SearchesInv

LEMMA RuntimeSearches ==
  StreamsInv /\ SearchesInv /\ [RuntimeNext]_runtimeVars => SearchesInv'
<1> SUFFICES ASSUME StreamsInv, SearchesInv, [RuntimeNext]_runtimeVars
             PROVE  SearchesInv'
  OBVIOUS
<1>1. CASE SearchesNext
  <2>1. CASE FindFirstFails
    BY <2>1, SearchesStay DEF FindFirstFails
  <2>2. CASE \E h \in Pointer : \/ FindFirst(h) \/ KernelFirst(h)
                                \/ FindNext(h) \/ FindClose(h)
    BY <2>2, Found, FoundElsewhere, FoundNext, FoundClosed
  <2> QED BY <1>1, <2>1, <2>2 DEF SearchesNext
<1>2. CASE StreamsNext
  <2>1. UNCHANGED <<archive, g_finds, held>> /\ (Start \/ UNCHANGED g_state)
    BY <1>2 DEF StreamsNext, Streams, findVars, OpenDirFails, OpenDir, ReadDir,
                ReadEnd, CloseDir
  <2> QED BY <2>1, SearchesStay
<1>3. CASE DescriptorsNext \/ UNCHANGED runtimeVars
  <2>1. UNCHANGED vars /\ UNCHANGED findVars
    BY <1>3 DEF DescriptorsNext, Descriptors, runtimeVars
  <2> QED BY <2>1, SearchesStay DEF vars, findVars
<1> QED BY <1>1, <1>2, <1>3 DEF RuntimeNext

\* A handle is answered by whom it belongs to, and a search returns each child
\* of its directory once, by its kind: for every tree, any size of the table and
\* any reuse of addresses.
THEOREM SearchesWhole == RuntimeSpec => []SearchWhole
<1>1. RuntimeInit => StreamsInv /\ SearchesInv
  BY InitStreams, InitSearches DEF RuntimeInit
<1>2. StreamsInv /\ SearchesInv => SearchWhole
  <2> SUFFICES ASSUME StreamsInv, SearchesInv, NEW h \in Pointer
               PROVE  /\ Cardinality(Slots(h)) = IF Ours(h) THEN 1 ELSE 0
                      /\ Ours(h) =>
                           LET s == held[h]
                               names == {s.out[j][1] : j \in DOMAIN s.out}
                               children == {Child(e, s.dir) : e \in
                                 {f \in ToSet(archive) : HasChild(f, s.dir)}}
                           IN  /\ Cardinality(names) = Len(s.out)
                               /\ names \subseteq children
                               /\ s.end => names = children
                               /\ \A j \in DOMAIN s.out :
                                    Attributes(Append(s.dir, s.out[j][1]))
                                      = s.out[j][2]
    BY DEF SearchWhole, Ours
  <2>1. CASE ~Ours(h)
    <3>1. Slots(h) = {}
      BY <2>1 DEF SearchesInv, Slots, Taken
    <3> QED BY <2>1, <3>1, FS_EmptySet
  <2>2. CASE Ours(h)
    <3>1. PICK k \in Slots(h) : Serves(g_finds[k], held[h])
      BY <2>2 DEF SearchesInv
    <3>2. Slots(h) = {k}
      BY <3>1 DEF SearchesInv, Slots, Taken
    <3>3. Cardinality(Slots(h)) = 1
      BY <3>2, FS_Singleton
    <3>4. PICK s, given, n :
            s = held[h] /\ given = g_finds[k].names /\ n = g_finds[k].i
      OBVIOUS
    <3>5. /\ s.dir \in Seq(DOMAIN Lower)
          /\ ListsUpTo(given, s.dir, Len(archive))
          /\ given \in Seq(Segs) /\ n \in 1 .. Len(given) /\ Len(given) \in Nat
          /\ s.out = SubSeq(given, 1, n) /\ (s.end => n = Len(given))
      BY <3>1, <3>4 DEF Serves, ListsUpTo
    <3>6. /\ Len(s.out) = n /\ DOMAIN s.out = 1 .. n
          /\ \A j \in 1 .. n : j \in DOMAIN given /\ s.out[j] = given[j]
      BY <3>5
    <3> DEFINE names == {s.out[j][1] : j \in DOMAIN s.out}
               children == {Child(e, s.dir) : e \in
                              {f \in ToSet(archive) : HasChild(f, s.dir)}}
    <3>7. \A x : x \in children <=> \E j \in DOMAIN archive :
                   HasChild(archive[j], s.dir) /\ x = Child(archive[j], s.dir)
      BY DEF ToSet
    <3>8. Cardinality(names) = Len(s.out)
      <4> DEFINE nth == [j \in 1 .. n |-> s.out[j][1]]
      <4>1. nth \in Surjection(1 .. n, names)
        BY <3>6 DEF Surjection
      <4>2. \A i, j \in 1 .. n : nth[i] = nth[j] => i = j
        BY <3>5, <3>6 DEF ListsUpTo
      <4>3. nth \in Injection(1 .. n, names)
        <5>1. nth \in [1 .. n -> names]
          BY <3>6
        <5> HIDE DEF nth, names
        <5> QED BY <4>2, <5>1 DEF Injection, IsInjective
      <4>4. IsFiniteSet(1 .. n) /\ Cardinality(1 .. n) = n
        BY <3>5, FS_Interval
      <4> HIDE DEF nth, names
      <4> QED BY <3>6, <4>1, <4>3, <4>4, FS_Surjection
    <3>9. \A j \in DOMAIN s.out : \E l \in DOMAIN archive :
            /\ HasChild(archive[l], s.dir)
            /\ s.out[j] = <<Child(archive[l], s.dir), Kind(archive[l], s.dir)>>
      <4> TAKE j \in DOMAIN s.out
      <4>1. j \in DOMAIN given /\ s.out[j] = given[j]
        BY <3>6
      <4>2. PICK l \in DOMAIN archive :
              /\ HasChild(archive[l], s.dir)
              /\ given[j] = <<Child(archive[l], s.dir), Kind(archive[l], s.dir)>>
        BY <3>5, <4>1 DEF ListsUpTo
      <4> QED BY <4>1, <4>2
    <3>10. names \subseteq children
      <4> SUFFICES ASSUME NEW j \in DOMAIN s.out PROVE s.out[j][1] \in children
        OBVIOUS
      <4>1. PICK l \in DOMAIN archive :
              /\ HasChild(archive[l], s.dir)
              /\ s.out[j] = <<Child(archive[l], s.dir), Kind(archive[l], s.dir)>>
        BY <3>9
      <4>2. s.out[j][1] = Child(archive[l], s.dir)
        BY <4>1
      <4> HIDE DEF children
      <4> QED BY <3>7, <4>1, <4>2
    <3>11. s.end => children \subseteq names
      <4> SUFFICES ASSUME s.end, NEW l \in DOMAIN archive,
                          HasChild(archive[l], s.dir)
                   PROVE  Child(archive[l], s.dir) \in names
        <5> HIDE DEF children, names
        <5> QED BY <3>7
      <4>1. archive \in Seq(Entry)
        BY Archived DEF StreamsInv
      <4>2. l \in 1 .. Len(archive)
        BY <4>1
      <4>3. PICK i \in DOMAIN given : given[i][1] = Child(archive[l], s.dir)
        BY <3>5, <4>2 DEF ListsUpTo
      <4>4. i \in DOMAIN s.out /\ s.out[i][1] = Child(archive[l], s.dir)
        BY <3>5, <3>6, <4>3
      <4> QED BY <4>4
    <3>12. \A j \in DOMAIN s.out :
             Attributes(Append(s.dir, s.out[j][1])) = s.out[j][2]
      <4> TAKE j \in DOMAIN s.out
      <4>1. PICK l \in DOMAIN archive :
              /\ HasChild(archive[l], s.dir)
              /\ s.out[j] = <<Child(archive[l], s.dir), Kind(archive[l], s.dir)>>
        BY <3>9
      <4>2. Readable /\ archive \in Archives
        BY <2>2 DEF SearchesInv, StreamsInv, Readable
      <4>3. Attributes(Append(s.dir, Child(archive[l], s.dir)))
              = Kind(archive[l], s.dir)
        BY <3>5, <4>1, <4>2, ChildKind
      <4> QED BY <4>1, <4>3
    <3> QED BY <2>2, <3>3, <3>4, <3>8, <3>10, <3>11, <3>12, ZenonT(40)
  <2> QED BY <2>1, <2>2
<1> QED BY <1>1, <1>2, RuntimeStreams, RuntimeSearches, PTL DEF RuntimeSpec
================================================================================
