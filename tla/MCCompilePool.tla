----------------------------- MODULE MCCompilePool -----------------------------
(***************************************************************************)
(* CompilePool with the stages of a musl sysroot and its C++ runtime, and  *)
(* with those of a Windows sysroot; a pool has two or three jobs here.     *)
(***************************************************************************)
EXTENDS CompilePool, TLC

CONSTANT Target                         \* "musl" or "mingw"

\* A pool of n compiles, and a re-exec of the builder's own thread.
InPool(n, front) ==
  [jobs |-> n, pool |-> TRUE, front |-> front, opens |-> FALSE,
   closes |-> FALSE, probe |-> FALSE]
Single(front) == [InPool(1, front) EXCEPT !.pool = FALSE]
Opens(stage) == [stage EXCEPT !.opens = TRUE]
Closes(stage) == [stage EXCEPT !.closes = TRUE]

Builtins == <<[InPool(2, "on") EXCEPT !.probe = TRUE], Single("any")>>
Quietly(stage) == Opens(Closes(stage))

Musl == <<Quietly(InPool(3, "off")), Single("any"), Quietly(Single("off"))>>
Mingw == <<InPool(2, "on"), Single("any"), Single("on")>>
ImportLibs == <<Quietly(Single("off")), Single("any")>>
Cxx == <<Opens(InPool(2, "off")), Single("any"), InPool(2, "off"),
         Closes(Single("any"))>>

MCStages == IF Target = "musl" THEN Musl \o Builtins \o Cxx
            ELSE Mingw \o Builtins \o ImportLibs \o Cxx

ASSUME BracketedAssumption == StagesBracketed

Symmetry == Permutations(Worker)
===============================================================================
