---------------------------- MODULE MCPackageBuild ----------------------------
(***************************************************************************)
(* PackageBuild. A runtime tree replaces a member of a Cosmopolitan        *)
(* binary's own archive, which begins with the member that is dropped. In  *)
(* bin/ a link sorts before, and one after, the program; one has the       *)
(* suffix. The binary "tset" holds two programs, and "clear" is none.      *)
(* Of the pages two differ in case, and one comes packed as well.          *)
(***************************************************************************)
EXTENDS PackageBuild

MCBundled == <<".symtab.amd64", ".cosmo", "zoneinfo", "stdlib">>
MCOrder == <<"unpin", "aliases", "man", "zoneinfo">>
MCPayload == {"aliases", "man", "zoneinfo"}
MCFolderOf ==
  [n \in MCPayload |-> IF n = "zoneinfo" THEN NoFolder ELSE "unpin"]

MCBinOrder ==
  <<"clear", "clear.exe", "reset", "reset.exe", "tset", "tset.exe">>
MCExeOf == [n \in {"clear", "reset", "tset"} |->
              CASE n = "clear" -> "clear.exe" [] n = "reset" -> "reset.exe"
                [] n = "tset" -> "tset.exe"]
MCEntry == {File(k, "") : k \in {"elf", "stripped", "other"}}
           \cup {File("link", n) : n \in {"clear", "reset", "tset"}}

Row(name, fn) == [name |-> name, fn |-> fn]
MCApplets == <<Row("tset", "tset"), Row("reset", "tset"), Row("tput", "tput")>>
MCArgs == {<<>>, <<Word("w")>>, <<Select("tput"), Word("w")>>,
           <<Select("reset")>>, <<Select("gone")>>}

MCPageFiles == <<"Foo.1", "bar.1", "foo.1", "foo.1.gz">>
MCPageOf == [f \in ToSet(MCPageFiles) |-> IF f = "foo.1.gz" THEN "foo.1" ELSE f]
MCFoldFile == [f \in ToSet(MCPageFiles) |-> IF f = "Foo.1" THEN "foo.1" ELSE f]
MCFoldPage ==
  [e \in {"Foo.1", "bar.1", "foo.1"} |-> IF e = "Foo.1" THEN "foo.1" ELSE e]
MCBody == {Text("a"), Text("b")} \cup {So(e) : e \in DOMAIN MCFoldPage}
===============================================================================
