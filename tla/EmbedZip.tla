------------------------------- MODULE EmbedZip --------------------------------
(***************************************************************************)
(* The archive behind a shipped binary. A package's build may embed        *)
(* aliases, man pages and a runtime tree into its binary (withUnpinEmbed); *)
(* a second build copies that binary, strips the copy and embeds what it   *)
(* ships (unpinEmbedWrap). Each embedding packs everything its build has   *)
(* staged so far and puts it behind the program, in place of the archive   *)
(* it put there before; a Cosmopolitan binary already has an archive,      *)
(* which the program itself reads and which is carried over.               *)
(*                                                                         *)
(* A failing command fails the build, and nothing is shipped.              *)
(***************************************************************************)
EXTENDS PackTool

CONSTANTS
  Bundled,   \* what the linker put into a Cosmopolitan binary's archive
  Payload,   \* the names a build may stage, "aliases" and "man" among them
  MaxCalls   \* bound: embeddings of the first build

ASSUME EmbedAssumption ==
  /\ {"aliases", "man"} \subseteq Payload /\ Payload = DOMAIN FolderOf
  /\ Bundled \in Seq(STRING) /\ IsInjective(Bundled)
  /\ ".cosmo" \in ToSet(Bundled) /\ ".cosmo" \notin ToSet(Order)
  /\ Symtab \notin ToSet(Order) /\ Dict \notin ToSet(Order \o Bundled)
  /\ MaxCalls \in Nat

VARIABLES
  target,  \* native: the copy is stripped of its archive. mingw, cosmo: not
  phase,   \* build; wrap, once copied; wrapped, once embedded; shipped; failed
  file,    \* the binary
  base,    \* the binary the current build started from
  acc,     \* what the build has staged so far
  size,    \* where the binary ended at the build's first embedding, or -1
  src,     \* a Cosmopolitan binary before its build's first embedding
  log      \* history: the embeddings, each with its build and its stage

vars == <<target, phase, file, base, acc, size, src, log>>
build == <<acc, size, src>>

Call == Len(log) + 1
IsApe == ".cosmo" \in Listed(file)

Linked ==
  IF target = "cosmo"
  THEN <<Program>>
       \o LET Store(name) == Member(name, 0, "deflate", 0)
          IN  Archive([j \in DOMAIN Bundled |-> Store(Bundled[j])], 1)
  ELSE <<Program>>

Init ==
  /\ target \in {"native", "mingw", "cosmo"} /\ phase = "build"
  /\ base = Linked /\ file = Linked
  /\ acc = {} /\ size = -1 /\ src = <<>> /\ log = <<>>

-------------------------------------------------------------------------------
(* One embedding (__unpin_embed_subtree).                                  *)

\* Mutant of Merge: what is there already stays.
MergeFirst(tree, stage) ==
  tree \cup {m \in stage : m.name \notin Names(tree)}

Merge(tree, stage) == {m \in tree : m.name \notin Names(stage)} \cup stage

Snapshot == IF src = <<>> THEN file ELSE src

\* An ordinary binary is cut back to its size before the build's first call.
Cut == IF ~IsApe /\ size # -1 THEN SubSeq(file, 1, size) ELSE file

\* Where the new archive goes: where the carried one began, or at the end.
Base == IF IsApe THEN CarryBase(Snapshot) ELSE Len(Cut)

\* Mutant of Carried: the archive is replaced like any other.
CarriedNothing(tree) == <<>>

Carried(tree) == IF IsApe THEN Carry(Snapshot, Collected(tree)) ELSE <<>>

\* The tree with a dictionary of its own, if it is big enough to train one and
\* the archive comes out smaller; then a check that all names are there.
Embed(stage, trained, next) ==
  LET tree == Merge(acc, stage)
      dict == IF trained THEN Call ELSE 0
      out == SubSeq(Cut, 1, Base) \o Pack(Carried(tree), tree, dict, Base)
  IN  /\ trained => Names(tree) # {"aliases"}
      /\ acc' = tree /\ file' = out
      /\ phase' = IF Names(tree) \subseteq Listed(out) THEN next ELSE "failed"
      /\ src' = IF IsApe THEN Snapshot ELSE src
      /\ size' = IF IsApe \/ size # -1 THEN size ELSE Len(file)

\* An unresolved link in the stage, or a command that fails.
Fail ==
  /\ phase \in {"build", "wrap", "wrapped"} /\ phase' = "failed"
  /\ UNCHANGED <<target, file, base, build, log>>

-------------------------------------------------------------------------------
(* The package's own build: withAliases, withMan, withRuntimeData.         *)

Stage(names) == {[name |-> n, by |-> Call] : n \in names}
Embedded(name) ==
  \E i \in DOMAIN log : log[i].in = "build" /\ name \in Names(log[i].stage)

BuildEmbed(names, trained) ==
  /\ phase = "build" /\ Len(log) < MaxCalls /\ names # {}
  /\ Embed(Stage(names), trained, phase)
  /\ log' = Append(log, [in |-> "build", stage |-> Stage(names),
                         list |-> "declared"])
  /\ UNCHANGED <<target, base>>

-------------------------------------------------------------------------------
(* The wrap. A build that embeds its own man pages is not wrapped; one     *)
(* that is embeds aliases only, if anything.                               *)

Stripped(f) == IF target = "native" THEN <<Program>> ELSE f

WrapCopy ==
  /\ phase = "build" /\ phase' = "wrap"
  /\ \A i \in DOMAIN log : Names(log[i].stage) = {"aliases"}
  /\ base' = file /\ file' = Stripped(file)
  /\ acc' = {} /\ size' = -1 /\ src' = <<>>
  /\ UNCHANGED <<target, log>>

\* Mutant of ReadBack: the list is harvested from the links, like any other.
ReadBackNothing == {}

\* The list a build embedded is read back from its binary, not from the copy.
ReadBack ==
  IF Embedded("aliases")
  THEN {[name |-> m.name, by |-> m.by] :
          m \in {m \in Visible(base) : m.name = "aliases"}}
  ELSE {}

\* The list is declared, else read back, else harvested from the links beside
\* the binary, if there are any.
Aliases(declared, links) ==
  IF declared \/ (ReadBack = {} /\ links) THEN Stage({"aliases"}) ELSE ReadBack

WrapEmbed(declared, links, names, trained) ==
  LET stage == Aliases(declared, links) \cup Stage(names)
  IN  /\ phase = "wrap" /\ "aliases" \notin names
      /\ IF stage = {}
         THEN ~trained /\ phase' = "wrapped" /\ UNCHANGED <<file, build, log>>
         ELSE /\ Embed(stage, trained, "wrapped")
              /\ log' = Append(log,
                   [in |-> "wrap", stage |-> stage,
                    list |-> IF declared THEN "declared" ELSE "found"])
      /\ UNCHANGED <<target, base>>

\* cosmoSymtabTrim, withCosmoStrip: the linker's symbol table is dropped, and
\* the archive closed up (zip -d).
Trimmed(f) ==
  IF Symtab \in Listed(f)
  THEN SubSeq(f, 1, CarryBase(f)) \o Archive(Carry(f, {}), CarryBase(f))
  ELSE f

Ship ==
  /\ phase = "wrapped" \/ (phase = "build" /\ Embedded("man"))
  /\ phase' = "shipped"
  /\ file' = IF target = "native" THEN file ELSE Trimmed(file)
  /\ UNCHANGED <<target, base, build, log>>

Next ==
  \/ \E names \in SUBSET Payload, trained \in BOOLEAN :
       BuildEmbed(names, trained)
  \/ WrapCopy
  \/ \E declared, links, trained \in BOOLEAN, names \in SUBSET Payload :
       WrapEmbed(declared, links, names, trained)
  \/ Ship
  \/ Fail

Spec == Init /\ [][Next]_vars

-------------------------------------------------------------------------------
Whole == phase \in {"build", "wrap", "wrapped", "shipped"}

\* The build that last embedded something, or is about to.
Current ==
  IF phase \in {"wrap", "wrapped"} \/ \E i \in DOMAIN log : log[i].in = "wrap"
  THEN "wrap" ELSE "build"

\* A reader finds everything the current build has staged, in its latest
\* content, whichever of the calls staged it.
StagedLatest ==
  Whole => \A i \in DOMAIN log : \A m \in log[i].stage :
    \/ log[i].in # Current
    \/ \E j \in DOMAIN log : /\ j > i /\ log[j].in = Current
                             /\ m.name \in Names(log[j].stage)
    \/ \E v \in Visible(file) : v.name = m.name /\ v.by = m.by

\* A Cosmopolitan binary keeps the archive it reads itself, in the form it
\* reads, all but the symbol table, with what a build staged in place of a
\* member.
StoreKept ==
  Whole /\ target = "cosmo" =>
    /\ ToSet(Bundled) \ {Symtab} \subseteq Names(Visible(file))
    /\ \A m \in Visible(file) : m.by = 0 => m.method # "zstd"
    /\ phase = "shipped" => Symtab \notin Listed(file)

\* What a build does not own: the program, and what strip leaves behind it.
Kept == IF target = "cosmo" THEN <<Program>> ELSE Stripped(base)

\* A build leaves a single archive of its own behind what it found, however
\* often it embeds, with nothing in it that is not listed; each name is listed
\* once and leads to its member; and a member's dictionary is there, and can be
\* read without one.
Readable ==
  Whole =>
    /\ Kept = SubSeq(file, 1, Len(Kept))
    /\ Len(file) > Len(Kept) =>
         {e.ofs : e \in ToSet(Listing(file))} = Len(Kept) .. Len(file) - 2
    /\ Cardinality(Names(Visible(file))) = Len(Listing(file))
    /\ \A m \in Visible(file) : m.dict # 0 =>
         Member(Dict, m.dict, "store", 0) \in Visible(file)

\* Unless the wrap declares a list, what ships is the list the package's own
\* build embedded, though the copy is stripped of it or its archive hidden; and
\* a reader from before zstd can read it.
AliasesSurvive ==
  phase = "shipped" /\ (\A i \in DOMAIN log : log[i].in = "build"
                                              \/ log[i].list # "declared") =>
    \A i \in DOMAIN log :
      log[i].in = "build" /\ "aliases" \in Names(log[i].stage) =>
        \/ \E j \in DOMAIN log : /\ j > i /\ log[j].in = "build"
                                 /\ "aliases" \in Names(log[j].stage)
        \/ Member("aliases", i, "deflate", 0) \in Visible(file)
===============================================================================
