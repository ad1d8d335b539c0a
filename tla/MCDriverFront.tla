---------------------------- MODULE MCDriverFront ----------------------------
(***************************************************************************)
(* DriverFront with the command lines of a few dozen flags: every two      *)
(* codegen flags in either order, every two of the flags that say what is  *)
(* linked and how, and lines that mix both.                                *)
(***************************************************************************)
EXTENDS DriverFront

Codegen ==
  CpuFlags \cup {"-O2", "-Os"} \cup PicFlags \cup PieFlags \cup LtoFlags
LinkFlags == {"-c", "-E", "-v", "-print-file-name", "--print-file-name", "-r",
  "-shared", "-municode", "-nostdlib", "-nostartfiles", "-nodefaultlibs",
  "-lunwind", "-isysroot user"} \cup DriverModes \cup CxxSigns

UpTo(n, S) == UNION {[1 .. k -> S] : k \in 0 .. n}
Distinct(S) == {f \in UpTo(2, S) : IsInjective(f)}

For(t, flags) == {<<"clang", targetOf[t]>> \o f : f \in flags}
MCLines ==
  For("musl", UpTo(2, Codegen) \cup Distinct(LinkFlags))
  \cup For("mingw", UpTo(1, Codegen) \cup Distinct(LinkFlags))
  \cup For("darwin", UpTo(1, Codegen)
             \cup {<<f, g>> : f \in {"-r", "-c", "-isysroot user", "-flto"},
                              g \in CxxSigns \cup {"-pie"}})
  \cup {<<"clang++", targetOf[t], "-flto", "-O2">> : t \in Targets}
  \cup {<<"clang", targetOf["musl"]>> \o f : f \in
          {<<"-fno-pic", "-fPIC", "-pie">>, <<"-pie", "-a.cpp", "-no-pie">>,
           <<"-pie", "a.cpp", "-r">>, <<"-pie", "-nostdlib", "-flto">>}}
  \cup {<<"clang">>, <<"clang", targetOf["other"], "-flto">>,
        <<"clang", targetOf["other"], targetOf["mingw"]>>,
        <<"clang", targetOf["musl"], targetOf["darwin"]>>}
===============================================================================
