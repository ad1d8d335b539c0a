----------------------------- MODULE ClangOverlay -----------------------------
(***************************************************************************)
(* The file system that clang is given over the archive's tree             *)
(* (toolchain/unpin_clang_vfs.cpp): status, openFileForRead and dir_begin  *)
(* normalise a path, take what lies below the mount, and look it up in the *)
(* node table; a directory is listed by walking the whole table. Iterators *)
(* stay open while clang makes other calls.                                *)
(*                                                                         *)
(* A requested path is its components; the mount is the first of them.     *)
(***************************************************************************)
EXTENDS VfsIndex, LexicalPath

CONSTANTS
  Vroot,       \* the mount's name
  Requests,    \* paths clang asks for: are they absolute, and their components
  Iterator     \* how many directories it lists at a time

ASSUME ClangOverlayAssumption ==
  Requests \subseteq [root : BOOLEAN, names : Seq(Seq(Byte))]

VARIABLES
  asked,       \* the request whose lookup is under way, or None
  answer,      \* the answer clang has not used yet, or None
  iter         \* iter[h]: a ZipDirIter, or None

overlayVars == <<indexVars, asked, answer, iter>>

None == <<>>

OverlayInit ==
  /\ IndexInit /\ asked = None /\ answer = None
  /\ iter = [h \in Iterator |-> None]

-------------------------------------------------------------------------------
Dot == <<46>>
DotDot == <<46, 46>>

\* Mutant of RemoveDot: a path cannot leave the mount.
RemoveDotClamped(root, names, n) ==
  IF n = Dot THEN names
  ELSE IF n = DotDot THEN IF Len(names) > 1 THEN Front(names) ELSE names
  ELSE Append(names, n)

\* llvm::sys::path::remove_dots of the components: nothing is above the root,
\* and a relative path keeps what leads out of it.
RemoveDot(root, names, n) ==
  IF n = Dot THEN names
  ELSE IF n = DotDot /\ names # <<>> /\ Last(names) # DotDot THEN Front(names)
  ELSE IF n = DotDot /\ root THEN names
  ELSE Append(names, n)
RemoveDots(r) ==
  LET out[k \in 0 .. Len(r.names)] ==
        IF k = 0 THEN <<>> ELSE RemoveDot(r.root, out[k - 1], r.names[k])
  IN  out[Len(r.names)]

\* toRel: is it below the mount, and the name there as the archive writes it.
Under(r) == r.root /\ RemoveDots(r) # <<>> /\ Head(RemoveDots(r)) = Vroot
Join(path, n) == IF path = <<>> THEN n ELSE path \o <<Slash>> \o n
PathOf(names) ==
  LET out[k \in 0 .. Len(names)] ==
        IF k = 0 THEN <<>> ELSE Join(out[k - 1], names[k])
  IN  out[Len(names)]
Rel(r) == PathOf(Tail(RemoveDots(r)))

\* Mutant of IsDirectChild: a sibling whose name begins alike is taken for one.
IsChildByPrefix(parent, child) ==
  /\ child # parent /\ IsPrefix(parent, child)
  /\ Slash \notin ToSet(SubSeq(child, Len(parent) + 2, Len(child)))

\* isDirectChild.
IsDirectChild(parent, child) ==
  /\ child # <<>>
  /\ \/ parent = <<>> /\ Slash \notin ToSet(child)
     \/ /\ parent # <<>> /\ IsPrefix(parent, child)
        /\ Len(child) > Len(parent) + 1 /\ child[Len(parent) + 1] = Slash
        /\ Slash \notin ToSet(SubSeq(child, Len(parent) + 2, Len(child)))

\* ZipDirIter::increment: on to the next child.
Increment(it) ==
  LET Children == {j \in it.cursor + 1 .. Len(g_entries) :
                     IsDirectChild(it.parent, g_entries[j].path)}
      j == CHOOSE j \in Children : \A k \in Children : j <= k
  IN  IF Children = {} THEN [it EXCEPT !.cursor = Len(g_entries), !.end = TRUE]
      ELSE [it EXCEPT !.cursor = j, !.out = Append(@, g_entries[j])]

-------------------------------------------------------------------------------
\* status, openFileForRead, dir_begin: the lookup begins. Outside the mount, or
\* without an archive, the call is the real file system's.
Ask(op, r) ==
  /\ g_available # "no" /\ asked = None /\ answer = None
  /\ op = "dir" => \E h \in Iterator : iter[h] = None
  /\ IF Under(r) /\ g_available = "yes"
     THEN /\ asked' = [op |-> op, r |-> r] /\ query' = Searching(Rel(r))
          /\ UNCHANGED answer
     ELSE /\ answer' = [op |-> op, r |-> r, what |-> "none"]
          /\ UNCHANGED <<asked, query>>
  /\ UNCHANGED <<parseVars, iter>>

Found == query.at < Len(g_entries)
Kind(n) == IF n.dir THEN "dir" ELSE "file"

Answer ==
  /\ asked # None /\ query.done
  /\ asked' = None /\ query' = NoQuery
  /\ answer' = [op |-> asked.op, r |-> asked.r, what |->
       IF Found THEN Kind(g_entries[query.at + 1]) ELSE "none"]
  /\ IF asked.op = "dir" /\ Found
     THEN \E h \in Iterator :
            /\ iter[h] = None
            /\ iter' = [iter EXCEPT ![h] =
                 Increment([parent |-> query.path, cursor |-> 0, out |-> <<>>,
                            end |-> FALSE])]
     ELSE UNCHANGED iter
  /\ UNCHANGED parseVars

Use ==
  /\ answer # None /\ answer' = None
  /\ UNCHANGED <<indexVars, asked, iter>>

\* The iterator is advanced, or dropped at any place.
Advance(h) ==
  /\ iter[h] # None /\ ~iter[h].end
  /\ iter' = [iter EXCEPT ![h] = Increment(@)]
  /\ UNCHANGED <<indexVars, asked, answer>>

Drop(h) ==
  /\ iter[h] # None
  /\ iter' = [iter EXCEPT ![h] = None]
  /\ UNCHANGED <<indexVars, asked, answer>>

Lookup == Narrow \/ NotFound

OverlayNext ==
  \/ Parse /\ UNCHANGED <<asked, answer, iter>>
  \/ \E r \in Requests, op \in {"status", "open", "dir"} : Ask(op, r)
  \/ Narrow /\ UNCHANGED <<asked, answer, iter>>
  \/ NotFound /\ UNCHANGED <<asked, answer, iter>>
  \/ Answer \/ Use
  \/ \E h \in Iterator : Advance(h) \/ Drop(h)

OverlaySpec == OverlayInit /\ [][OverlayNext]_overlayVars

\* A call runs to its end.
OverlayFairSpec ==
  OverlaySpec /\ WF_overlayVars((Lookup /\ UNCHANGED <<asked, answer, iter>>)
                               \/ Answer)

-------------------------------------------------------------------------------
\* A request gets the answer that the archive's records give to what it means,
\* however it is spelled: it stays in the mount only if it never leaves it.
OverlayAnswers ==
  answer # None =>
    LET at == Lexical(answer.r.names, Dot, DotDot)
        below == answer.r.root /\ at # <<>> /\ at[1] = Vroot
        There == {n \in Held : n.path = PathOf(Tail(at))}
    IN  answer.what = IF below /\ g_available = "yes" /\ There # {}
                      THEN Kind(CHOOSE n \in There : TRUE) ELSE "none"

\* The directory a name lies in.
ParentOf(path) ==
  SubSeq(path, 1, Cardinality({j \in DOMAIN path :
                   \E k \in j + 1 .. Len(path) : path[k] = Slash}))

\* A listing returns each record of its directory once, and no sibling's or
\* grandchild's, whatever other calls come between and however names sort.
ListsWhole ==
  \A h \in Iterator : iter[h] # None =>
    LET it == iter[h]
        Children == {n \in Held : n # Root /\ ParentOf(n.path) = it.parent}
    IN  /\ Cardinality(ToSet(it.out)) = Len(it.out)
        /\ ToSet(it.out) \subseteq Children
        /\ it.end => ToSet(it.out) = Children

\* Every call returns: the halves of the table do not stop shrinking.
EveryCallAnswered == asked # None ~> asked = None
===============================================================================
