------------------------------- MODULE ManStage -------------------------------
(***************************************************************************)
(* How a package's man pages are staged (mkmeta.py), and the links among   *)
(* them resolved before they are packed (flake.nix). A page may be a stub, *)
(* a redirect (.so) to another. Some hosts fold the case of file names     *)
(* (macOS), so that two pages can have become one file before the script   *)
(* sees them; what it ships must not depend on that.                       *)
(*                                                                         *)
(* A package installs its pages by writes in some order: a file, and what  *)
(* it then holds, a text or a redirect to a page's name.                   *)
(***************************************************************************)
EXTENDS SequencesExt

CONSTANTS
  PageFiles,    \* the files a package may install, in the order of a glob
  PageOf,       \* PageOf[f]: the name and section a file's name gives
  FoldFile,     \* FoldFile[f], FoldPage[e]: the same in lower case
  FoldPage

\* Files that differ only in case give pages that do. A file is called after its
\* page, and what follows that (form) orders the files of a page, in either case.
ASSUME ManAssumption ==
  /\ PageFiles \in Seq(STRING) /\ IsInjective(PageFiles)
  /\ \A f \in ToSet(PageFiles) :
       f \in DOMAIN FoldFile /\ PageOf[f] \in DOMAIN FoldPage
  /\ \E form \in [ToSet(PageFiles) -> 1 .. Len(PageFiles)] :
       /\ \A f, g \in ToSet(PageFiles) : FoldFile[f] = FoldFile[g] =>
            form[f] = form[g] /\ FoldPage[PageOf[f]] = FoldPage[PageOf[g]]
       /\ \A i, j \in 1 .. Len(PageFiles) :
            i < j /\ PageOf[PageFiles[i]] = PageOf[PageFiles[j]] =>
              form[PageFiles[i]] < form[PageFiles[j]]

Nowhere == "nowhere"
Text(t) == [text |-> t, so |-> Nowhere]
So(e) == [text |-> "so", so |-> e]
NoFileThere == [text |-> "none", so |-> Nowhere]

-------------------------------------------------------------------------------
(* The host.                                                               *)

\* A write. Where case is folded, a file keeps the name it was created by.
Put(folds, tree, w) ==
  LET same == {g \in DOMAIN tree : /\ tree[g] # NoFileThere
                                   /\ folds /\ FoldFile[g] = FoldFile[w.file]}
  IN  IF same = {} THEN [tree EXCEPT ![w.file] = w.body]
      ELSE [tree EXCEPT ![CHOOSE g \in same : TRUE] = w.body]

Installed(folds, writes) ==
  LET after[k \in 0 .. Len(writes)] ==
        IF k = 0 THEN [f \in ToSet(PageFiles) |-> NoFileThere]
        ELSE Put(folds, after[k - 1], writes[k])
  IN  after[Len(writes)]

-------------------------------------------------------------------------------
(* mkmeta.py.                                                              *)

\* Mutant of Twin: two pages of one name in lower case are let pass.
TwinAllowed(s, e, body) == FALSE

\* A page staged before differs from this one in case, and in content.
Twin(s, e, body) ==
  \E k \in DOMAIN s.pages :
    /\ FoldPage[s.pages[k].name] = FoldPage[e] /\ s.pages[k].body # body
    /\ \A l \in 1 .. k - 1 : FoldPage[s.pages[l].name] # FoldPage[e]

\* One turn of the loop in main: the first page of a name wins.
Consider(s, name, body) ==
  IF s.failed \/ \E k \in DOMAIN s.pages : s.pages[k].name = name THEN s
  ELSE IF body.so = name \/ Twin(s, name, body) THEN [s EXCEPT !.failed = TRUE]
  ELSE [s EXCEPT !.pages = Append(@, [name |-> name, body |-> body])]

Mkmeta(tree) ==
  LET after[k \in 0 .. Len(PageFiles)] ==
        IF k = 0 THEN [failed |-> FALSE, pages |-> <<>>]
        ELSE IF tree[PageFiles[k]] = NoFileThere THEN after[k - 1]
        ELSE Consider(after[k - 1], PageOf[PageFiles[k]], tree[PageFiles[k]])
  IN  after[Len(PageFiles)]

-------------------------------------------------------------------------------
(* __unpin_embed_subtree: links become copies of what they lead to.        *)

\* The page a redirect names; on a host that folds case, in any case.
Target(folds, pages, e) ==
  {k \in DOMAIN pages :
     \/ pages[k].name = e
     \/ folds /\ FoldPage[pages[k].name] = FoldPage[e]}

\* Where page k leads: the text at the end of the redirects, or nowhere.
Reads(folds, pages, k) ==
  LET at[n \in 0 .. Len(pages)] ==
        IF n = 0 THEN pages[k].body
        ELSE LET to == Target(folds, pages, at[n - 1].so)
             IN  IF at[n - 1].so = Nowhere \/ to = {} THEN at[n - 1]
                 ELSE pages[CHOOSE j \in to : TRUE].body
  IN  at[Len(pages)]

Packed(folds, pages) ==
  {[name |-> pages[k].name, text |-> Reads(folds, pages, k).text] :
     k \in DOMAIN pages}

\* A redirect that leads to no text fails the build.
Refused(folds, writes) ==
  LET s == Mkmeta(Installed(folds, writes))
  IN  s.failed \/ \E k \in DOMAIN s.pages :
                    Reads(folds, s.pages, k).so # Nowhere

Shipped(folds, writes) ==
  Packed(folds, Mkmeta(Installed(folds, writes)).pages)

-------------------------------------------------------------------------------
\* A package that builds where case counts ships the same pages where it is
\* folded, or is refused there: none is lost, and none becomes another.
FoldSafe(writes) ==
  ~Refused(FALSE, writes) /\ ~Refused(TRUE, writes) =>
    \A p \in Shipped(FALSE, writes) :
      \E q \in Shipped(TRUE, writes) :
        FoldPage[q.name] = FoldPage[p.name] /\ q.text = p.text
===============================================================================
