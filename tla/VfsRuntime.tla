------------------------------ MODULE VfsRuntime ------------------------------
(***************************************************************************)
(* What vfs/vfs.c gives a shipped program: directory streams (VfsDirs), or *)
(* Windows searches (VfsFind), and descriptors (VfsFiles). They share the  *)
(* archive alone, which never changes, and no two touch each other's       *)
(* state: a behaviour follows one of them, in a program built for it.      *)
(***************************************************************************)
EXTENDS VfsFind, VfsFiles

CONSTANTS
  SearchArchives,        \* the archives that searches are made in
  FileArchive            \* the archive that descriptors are opened from

ASSUME VfsRuntimeAssumption ==
  /\ SearchArchives \subseteq Archives /\ FileArchive \in Archives
  /\ File = {j \in DOMAIN FileArchive : ~FileArchive[j].dir}

VARIABLE follows         \* "streams", "searches" or "files"

runtimeVars == <<vars, findVars, filesVars, follows>>

RuntimeInit ==
  /\ Init /\ FindInit /\ FilesInit
  /\ follows \in {"streams", "searches", "files"}
  /\ follows = "searches" => archive \in SearchArchives
  /\ IF follows = "files" THEN archive = FileArchive ELSE platform = "memfd"

Streams == follows = "streams" /\ UNCHANGED <<findVars, filesVars, follows>>
Searches == follows = "searches" /\ UNCHANGED <<filesVars, follows>>
Descriptors == follows = "files" /\ UNCHANGED <<vars, findVars, follows>>

StreamsNext ==
  \/ Streams /\ OpenDirFails
  \/ \E h \in Handle :
       \/ Streams /\ OpenDir(h)
       \/ Streams /\ ReadDir(h)
       \/ Streams /\ ReadEnd(h)
       \/ Streams /\ CloseDir(h)

SearchesNext ==
  \/ Searches /\ FindFirstFails
  \/ \E h \in Pointer :
       \/ Searches /\ FindFirst(h)
       \/ Searches /\ KernelFirst(h)
       \/ Searches /\ FindNext(h)
       \/ Searches /\ FindClose(h)

DescriptorsNext ==
  \E p \in Process :
    \/ \E e \in File :
         \/ Descriptors /\ Call(p, e)
         \/ Descriptors /\ CallCached(p, e)
    \/ Descriptors /\ TempName(p)
    \/ Descriptors /\ MkStemp(p)
    \/ Descriptors /\ Unlink(p)
    \/ Descriptors /\ Extract(p)
    \/ Descriptors /\ OpenToWrite(p)
    \/ Descriptors /\ Write(p)
    \/ Descriptors /\ Keep(p)
    \/ Descriptors /\ KeepFails(p)
    \/ Descriptors /\ Anonymous(p)
    \/ Descriptors /\ Fail(p)
    \/ Descriptors /\ Close(p)
    \/ Descriptors /\ Exit(p)
    \/ Descriptors /\ Kill(p)

RuntimeNext == StreamsNext \/ SearchesNext \/ DescriptorsNext

RuntimeSpec == RuntimeInit /\ [][RuntimeNext]_runtimeVars

-------------------------------------------------------------------------------
\* No path means one thing to one call and another to the next, and none leads
\* to unpin's metadata; checked where streams are followed, whose archives
\* include the others'.
RuntimeAgrees == follows = "streams" => CallsAgree /\ MetadataStays
===============================================================================
