---------------------------- MODULE MCSysrootCache ----------------------------
(***************************************************************************)
(* SysrootCache with the recipes of one kind of target, or ("small") with  *)
(* two files in the sysroot and one in the C++ runtime, for the runs whose *)
(* interleavings are many.                                                 *)
(***************************************************************************)
EXTENDS SysrootCache, SysrootRecipes, TLC

CONSTANT Target               \* "musl", "mingw", "darwin" or "small"

MCRecipe(s) ==
  IF Target # "small" THEN Recipe(Target, s)
  ELSE IF s = "sysroot" THEN <<{"libc.a"}, {"libclang_rt.builtins.a"}>>
  ELSE <<{"libc++.a"}>>

MCPieces == [s \in Store |->
  UNION {MCRecipe(s)[i] : i \in DOMAIN MCRecipe(s)}]

MCPiece == MCPieces["sysroot"] \cup MCPieces["cxx"]

MCStageOf == [x \in MCPiece |->
  LET s == CHOOSE t \in Store : x \in MCPieces[t]
  IN  CHOOSE i \in DOMAIN MCRecipe(s) : x \in MCRecipe(s)[i]]

\* A step reads the scratch files of the stage right before its own.
MCInputs == [x \in MCPiece |->
  LET s == CHOOSE t \in Store : x \in MCPieces[t]
  IN  {y \in MCPieces[s] \cap ScratchFiles : MCStageOf[y] = MCStageOf[x] - 1}]

MCStubs == StubFiles(Target)
MCFrontActive ==
  FrontActiveFiles(Target) \cup
  IF Target = "small" THEN {"libclang_rt.builtins.a"} ELSE {}
MCScratch == ScratchFiles \cap MCPiece

Symmetry == Permutations(Proc)
===============================================================================
