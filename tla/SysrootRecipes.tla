---------------------------- MODULE SysrootRecipes ----------------------------
(***************************************************************************)
(* What the three sysroot builders and the C++ runtime builder compile, in *)
(* their order (toolchain/unpin_musl.cpp).  A recipe is a sequence of      *)
(* stages; the files of one stage are built in parallel, a stage starts    *)
(* when the one before it was built.  A pool of any number of compiles     *)
(* stands here as two objects, a run of import libraries as one.           *)
(***************************************************************************)
EXTENDS Naturals, Sequences

\* One compile pool and the llvm-ar step over its objects.
Objects(pool) == {pool \o "/0.o", pool \o "/1.o"}
Archive(pool, out) == <<Objects(pool), {out}>>

MuslSysroot ==
  Archive("obj", "libc.a") \o <<{"crt1.o"}, {"Scrt1.o"}, {"rcrt1.o"}>>
  \o Archive("obj-rt", "libclang_rt.builtins.a")

MingwCrt == {"crt2.o", "crt2u.o", "dllcrt2.o"}

\* The preprocessed .def file, its import library, the aliases over both.
MingwLibs ==
  <<{"def/crt.def"}, {"implib/libcrt.a"}, {"libmingwex.a"}, {"libmsvcrt.a"}>>

WinSysroot ==
  Archive("obj", "libmingw32.a") \o <<{"crt2.o"}, {"crt2u.o"}, {"dllcrt2.o"}>>
  \o Archive("obj-rt", "libclang_rt.builtins.a") \o MingwLibs

\* The first stage is the copy of the stub out of the embedded tree.
DarwinSysroot ==
  <<{"libSystem.tbd"}>> \o Archive("obj-rt", "libclang_rt.builtins.a")

\* macOS has the unwinder in libSystem.
CxxRuntime(target) ==
  (IF target = "darwin" THEN <<>> ELSE Archive("obj/uw", "libunwind.a"))
  \o Archive("obj/ab", "libc++abi.a") \o Archive("obj/cxx", "libc++.a")

Recipe(target, s) ==
  CASE s = "cxx"           -> CxxRuntime(target)
    [] target = "musl"     -> MuslSysroot
    [] target = "mingw"    -> WinSysroot
    [] target = "darwin"   -> DarwinSysroot

\* What is removed from the tree before it is renamed into place.
ScratchFiles ==
  {"def/crt.def"} \cup
  UNION {Objects(pool) :
           pool \in {"obj", "obj-rt", "obj/uw", "obj/ab", "obj/cxx"}}

\* The clang jobs that run without UNPIN_NO_FRONT, so that the front of the
\* re-exec'd compiler injects the headers.
FrontActiveFiles(target) ==
  Objects("obj-rt") \cup
  IF target = "mingw" THEN Objects("obj") \cup MingwCrt ELSE {}

\* The empty archives musl ships, written by the builder itself.
StubFiles(target) == IF target = "musl" THEN {"libm.a", "libpthread.a"} ELSE {}
===============================================================================
