----------------------------- MODULE PackageBuild -----------------------------
(***************************************************************************)
(* From what a package installs to what is embedded: its programs and the  *)
(* links to them go through the fixup hook, if the target is Cosmopolitan  *)
(* (ApelinkHook), so that what runs by a name then is what ran before      *)
(* (MulticallDispatch); its man pages are staged (ManStage); the rest is   *)
(* EmbedZip. The three share no files, and are followed one after another. *)
(***************************************************************************)
EXTENDS EmbedZip, ApelinkHook, ManStage, MulticallDispatch

CONSTANTS
  Entry,       \* what a package may install in bin/
  Body,        \* what it may install as a page
  Args,        \* what programs are called with
  MaxPrograms, \* bounds: names in bin/, and pages, that it installs
  MaxPages

ASSUME BuildAssumption ==
  /\ MaxPrograms \in Nat /\ MaxPages \in Nat
  /\ \A e \in Entry : /\ e.kind \in {"elf", "stripped", "other", "link"}
                      /\ e.kind = "link" => e.of \in Bin
  /\ NoFileThere \notin Body
  /\ Args \subseteq Seq([word : STRING, select : STRING])

VARIABLES
  doing,       \* "programs", "hooked", "pages" or "embed"
  bins,        \* bin/
  installed,   \* bin/ as it was before the hook
  pages,       \* the pages as they were written
  hasMan       \* have man pages been staged?

packageVars == <<vars, doing, bins, installed, pages, hasMan>>

NoBins == [n \in Bin |-> NoEntry]

PackageInit ==
  /\ Init /\ doing = "programs"
  /\ bins = NoBins /\ installed = NoBins /\ pages = <<>> /\ hasMan = FALSE

FailBuild ==
  phase' = "failed" /\ UNCHANGED <<target, file, base, build, log>>

Spellings(n) == {n} \cup {m \in DOMAIN ExeOf : ExeOf[m] = n}
                    \cup {ExeOf[m] : m \in {n} \cap DOMAIN ExeOf}

\* No name is installed both with the suffix and without, nor links to itself.
InstallProgram(n, e) ==
  /\ doing = "programs" /\ phase = "build" /\ target = "cosmo"
  /\ \A m \in Spellings(n) : bins[m] = NoEntry /\ e.of # m
  /\ n \in DOMAIN ExeOf \/ e.kind = "link"
  /\ Cardinality({m \in Bin : bins[m] # NoEntry}) < MaxPrograms
  /\ bins' = [bins EXCEPT ![n] =
                File(e.kind, IF e.kind = "link" THEN e.of ELSE n)]
  /\ UNCHANGED <<vars, doing, installed, pages, hasMan>>

\* cosmoApelinkBins, as preFixupHook; other targets have no such hook.
Fixup ==
  /\ doing = "programs" /\ phase = "build"
  /\ IF Unconverted(bins) # {}
     THEN FailBuild /\ UNCHANGED <<doing, bins, installed>>
     ELSE /\ doing' = "hooked" /\ bins' = Hooked(bins) /\ installed' = bins
          /\ UNCHANGED vars
  /\ UNCHANGED <<pages, hasMan>>

BeginPages ==
  /\ doing = "hooked" /\ doing' = "pages"
  /\ bins' = NoBins /\ installed' = NoBins
  /\ UNCHANGED <<vars, pages, hasMan>>

InstallPage(f, body) ==
  /\ doing = "pages" /\ phase = "build" /\ Len(pages) < MaxPages
  /\ pages' = Append(pages, [file |-> f, body |-> body])
  /\ UNCHANGED <<vars, doing, bins, installed, hasMan>>

\* unpinManStageSh, on a host that folds case or not.
StageMan(folds) ==
  /\ doing = "pages" /\ phase = "build"
  /\ IF Refused(folds, pages)
     THEN FailBuild /\ UNCHANGED <<doing, pages, hasMan>>
     ELSE /\ doing' = "embed" /\ pages' = <<>>
          /\ hasMan' = (Shipped(folds, pages) # {})
          /\ UNCHANGED vars
  /\ UNCHANGED <<bins, installed>>

Embedding ==
  doing = "embed" /\ UNCHANGED <<doing, bins, installed, pages, hasMan>>
Stageable(names) == "man" \in names => hasMan

PackageNext ==
  \/ \E n \in Bin, e \in Entry : InstallProgram(n, e)
  \/ Fixup
  \/ BeginPages
  \/ \E f \in ToSet(PageFiles), body \in Body : InstallPage(f, body)
  \/ \E folds \in BOOLEAN : StageMan(folds)
  \/ \E names \in SUBSET Payload, trained \in BOOLEAN :
       Embedding /\ Stageable(names) /\ BuildEmbed(names, trained)
  \/ Embedding /\ WrapCopy
  \/ \E declared, links, trained \in BOOLEAN, names \in SUBSET Payload :
       /\ Embedding /\ Stageable(names)
       /\ WrapEmbed(declared, links, names, trained)
  \/ Embedding /\ Ship
  \/ Embedding /\ Fail

PackageSpec == PackageInit /\ [][PackageNext]_packageVars

-------------------------------------------------------------------------------
\* What a call by a name of bin/ runs. One binary holds several programs.
IsExe(m) == \E k \in DOMAIN ExeOf : ExeOf[k] = m
Stem(m) == IF IsExe(m) THEN CHOOSE k \in DOMAIN ExeOf : ExeOf[k] = m ELSE m

Invoke(dir, m, lt, args) ==
  LET to == dir[End(dir, m)]
  IN  IF to.of = Binary /\ to.kind # "other"
      THEN Dispatch(<<Argv0(lt, Stem(m), IsExe(m))>> \o args)
      ELSE Run(to.of, <<>>)

\* Whatever a name of bin/ ran before the hook renamed the programs, it runs
\* after, by itself or with the suffix, and is handed the same argv, its own
\* name first. (A link to a link may be left dangling: SurfaceSurvives.)
NamesRun ==
  doing = "hooked" =>
    \A n \in Bin :
      LET to == IF installed[n].kind = "link" THEN installed[n].of ELSE n
      IN  installed[to].kind \in {"elf", "other"} =>
            \E m \in Spellings(n) :
              /\ Exists(bins, m)
              /\ \A args \in Args, lt \in BOOLEAN :
                   Invoke(bins, m, lt, args) = Invoke(installed, n, FALSE, args)

\* "Same-directory symlinks whose target was just renamed get rewired so the
\* package's own multi-name surface survives": every name of bin/ that led to a
\* file still does, by itself or with the suffix. The second loop comes to a link
\* to a link too early, if it sorts first: what it leads to has no new name yet.
SurfaceSurvives ==
  doing = "hooked" =>
    \A n \in Bin :
      Exists(installed, n) => \E m \in Spellings(n) : Exists(bins, m)

\* What is staged does not depend on whether the host folds case (mkmeta.py).
PagesAlike == doing = "pages" => FoldSafe(pages)
===============================================================================
