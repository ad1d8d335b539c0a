----------------------------- MODULE MCVfsRuntime -----------------------------
(***************************************************************************)
(* VfsRuntime. Streams are read in every order of up to four of six        *)
(* entries: a directory with a record of its own, a sibling that sorts in  *)
(* between, two children of which one is deeper, and two of unpin's.       *)
(* Searches are made in one order of every four of them, by paths of all   *)
(* up to three segments, in two spellings. Two files, one of them empty,   *)
(* are opened by two processes.                                            *)
(***************************************************************************)
EXTENDS VfsRuntime

Alike == Permutations(Handle)

Plain == {"ftplugin", "ftplugin.vim", "8th.vim", "after", "x.vim", "unpin",
          ".unpin", "aliases", "zdict", ".", ".."}
MCLower == [s \in Plain \cup {"FTPLUGIN", "UNPIN"} |->
              CASE s = "FTPLUGIN" -> "ftplugin"
                [] s = "UNPIN" -> "unpin"
                [] OTHER -> s]

Record(p) == [path |-> p, dir |-> TRUE]
Plainfile(p) == [path |-> p, dir |-> FALSE]
Pool == {Record(<<"ftplugin">>), Plainfile(<<"ftplugin.vim">>),
         Plainfile(<<"ftplugin", "8th.vim">>),
         Plainfile(<<"ftplugin", "after", "x.vim">>),
         Plainfile(<<"unpin", "aliases">>), Plainfile(<<".unpin", "zdict">>)}

MCArchives ==
  {a \in UNION {[1 .. n -> Pool] : n \in 0 .. 4} : IsInjective(a)}

MCFileArchive ==
  <<Record(<<"ftplugin">>), Plainfile(<<"ftplugin.vim">>),
    Plainfile(<<"ftplugin", "8th.vim">>)>>
MCSearchArchives ==
  {SetToSeq(S) : S \in {T \in SUBSET Pool : Cardinality(T) \in {0, 4}}}
MCSize == [j \in 2 .. 3 |-> IF j = 2 THEN 0 ELSE 2]

MCPaths ==
  UNION {[1 .. n -> {".", "..", "ftplugin", "FTPLUGIN", "8th.vim", "unpin",
                     "UNPIN", "aliases"}] : n \in 0 .. 3}
===============================================================================
