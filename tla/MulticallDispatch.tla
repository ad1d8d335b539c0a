-------------------------- MODULE MulticallDispatch --------------------------
(***************************************************************************)
(* The dispatcher of a binary that holds several programs, as flake.nix    *)
(* generates it (multicallTableDispatcherC, multicallTable): which program *)
(* an invocation runs, and what argv it is handed.                         *)
(*                                                                         *)
(* argv[0] is a name with its decorations: "lt-" before it, ".exe" behind. *)
(* Its directory, which is not looked at and stays in the argv that is     *)
(* handed on, is left out. Another argument is a word, or the selector     *)
(* (--unpin-program=).                                                     *)
(***************************************************************************)
EXTENDS SequencesExt

CONSTANTS
  Binary,           \* what the binary is called
  Applets,          \* the table, in order: a name and the program behind it
  DefaultProgram    \* defaultProgram, or NoProgram

NoProgram == "none"

ASSUME DispatchAssumption ==
  /\ Binary # NoProgram
  /\ \A i \in DOMAIN Applets : NoProgram \notin {Applets[i].name, Applets[i].fn}
  /\ DefaultProgram # NoProgram =>
       \E i \in DOMAIN Applets : Applets[i].name = DefaultProgram

Argv0(lt, name, exe) == [lt |-> lt, name |-> name, exe |-> exe]
Plain(name) == Argv0(FALSE, name, FALSE)
Word(w) == [word |-> w, select |-> NoProgram]
Select(name) == [word |-> "", select |-> name]

Announced == {Applets[i].name : i \in DOMAIN Applets}

\* The program behind a name: that of its first row.
Behind(name) ==
  Applets[SelectInSeq(Applets, LAMBDA a : a.name = name)].fn

\* defaultApplet: what the binary is named after, if it is a program.
Default ==
  LET name == IF DefaultProgram = NoProgram THEN Binary ELSE DefaultProgram
  IN  IF name \in Announced THEN Behind(name) ELSE NoProgram

\* strip_argv0_decorations (copy_basename drops the same, for a name).
Undecorated(argv) == [argv EXCEPT ![1] = Plain(@.name)]

Run(fn, argv) == [runs |-> fn, argv |-> argv]
Usage == Run(NoProgram, <<>>)

\* A first argument that selects.
Selects(argv) == Len(argv) >= 2 /\ argv[2].select # NoProgram

\* Is it the name that decides? Not the binary's own before a selector.
ByName(argv) ==
  argv[1].name \in Announced /\ (argv[1].name # Binary \/ ~Selects(argv))

\* main: by the name; else by the selector; else the default, or usage.
Dispatch(argv) ==
  LET given == Undecorated(argv)
      sel == argv[2].select
  IN  IF ByName(argv) THEN Run(Behind(argv[1].name), given)
      ELSE IF Selects(argv)
      THEN IF sel \in Announced
           THEN Run(Behind(sel), <<Plain(sel)>> \o SubSeq(argv, 3, Len(argv)))
           ELSE Usage
      ELSE IF Default = NoProgram THEN Usage ELSE Run(Default, given)

\* unpin_fix_cmdline: the command line, as a program under Windows may read it
\* again. The name may be longer than what it is written over, and a selector
\* that is quoted is left where it is.
Cmdline(argv, quoted, fits) ==
  IF ByName(argv) \/ quoted \/ ~Selects(argv) \/ Dispatch(argv) = Usage
  THEN argv
  ELSE <<IF fits THEN Plain(argv[2].select) ELSE argv[1]>>
       \o SubSeq(argv, 3, Len(argv))
===============================================================================
