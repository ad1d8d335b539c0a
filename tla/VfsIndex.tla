------------------------------- MODULE VfsIndex -------------------------------
(***************************************************************************)
(* The node table of the archive in the driver's own image                 *)
(* (toolchain/unpin_vfs_core.cpp): parse reads the central directory,      *)
(* record by record, into a table that it sorts, or gives up; after that   *)
(* the table never changes and unpin_vfs_find searches it by halves.       *)
(*                                                                         *)
(* A name is a sequence of bytes, as memcmp sees it.                       *)
(***************************************************************************)
EXTENDS Naturals, Sequences, SequencesExt

CONSTANTS
  Byte,        \* the bytes names are made of
  Slash,       \* the one that ends a directory's name
  Reserved,    \* ".unpin/"
  Images       \* central directories: sequences of names

\* The node of a record: a directory's name ends in a slash.
Root == [path |-> <<>>, dir |-> TRUE]
NodeOf(name) ==
  LET dir == name # <<>> /\ Last(name) = Slash
  IN  [path |-> IF dir THEN Front(name) ELSE name, dir |-> dir]

\* What the packer writes (vfs-pack/unpin-vfs-pack.c): each path of a tree once,
\* relative to its root, which has no record. unpin's own records lie in its
\* directory, which has none either; parse would show that one as ".unpin".
PathsOf(im) ==
  /\ Reserved \notin ToSet(im)
  /\ \A j \in DOMAIN im :
       LET path == NodeOf(im[j]).path
       IN  path # <<>> /\ Head(path) # Slash /\ Last(path) # Slash
  /\ \A j, k \in DOMAIN im : j # k => NodeOf(im[j]).path # NodeOf(im[k]).path

ASSUME VfsIndexAssumption ==
  /\ Byte \subseteq Nat /\ Slash \in Byte
  /\ Reserved \in Seq(Byte) /\ Images \subseteq Seq(Seq(Byte))
  /\ \A im \in Images : PathsOf(im)

VARIABLES
  image,       \* the central directory
  parsed,      \* records of it read
  es,          \* the table being made
  g_entries,   \* the table: a sequence of nodes, once g_available
  g_available, \* "no" (not yet), "yes" or "failed"
  query        \* the search under way: unpin_vfs_find, or NoQuery

parseVars == <<image, parsed, es, g_entries, g_available>>
indexVars == <<parseVars, query>>

NoQuery == <<>>

\* cmp_entry, and the comparison in unpin_vfs_find: byte by byte, and of two
\* with one the beginning of the other the shorter first.
Less(x, y) ==
  \/ IsStrictPrefix(x, y)
  \/ \E k \in DOMAIN x \cap DOMAIN y :
       x[k] < y[k] /\ \A j \in 1 .. k - 1 : x[j] = y[j]

InOrder(t) ==
  \A j, k \in DOMAIN t : j < k => ~Less(t[k].path, t[j].path)

IndexInit ==
  /\ image \in Images /\ parsed = 0 /\ es = <<Root>>
  /\ g_entries = <<>> /\ g_available = "no" /\ query = NoQuery

-------------------------------------------------------------------------------
\* One record; unpin's own are left out.
ParseRecord ==
  LET n == NodeOf(image[parsed + 1])
  IN  /\ g_available = "no" /\ parsed < Len(image)
      /\ parsed' = parsed + 1
      /\ es' = IF IsPrefix(Reserved, n.path) THEN es ELSE Append(es, n)
      /\ UNCHANGED <<image, g_entries, g_available, query>>

\* The end record or another is malformed, or there is no memory: the driver
\* goes on without the archive.
ParseFails ==
  /\ g_available = "no" /\ (parsed = 0 \/ parsed < Len(image))
  /\ g_available' = "failed" /\ es' = <<>>
  /\ UNCHANGED <<image, parsed, g_entries, query>>

\* qsort, by exchanges: of the first that is out of place and what belongs
\* before it.
Sort ==
  /\ g_available = "no" /\ parsed = Len(image)
  /\ \E j, k \in DOMAIN es :
       /\ j < k /\ Less(es[k].path, es[j].path)
       /\ InOrder(SubSeq(es, 1, k - 1))
       /\ \A l \in 1 .. j - 1 : ~Less(es[k].path, es[l].path)
       /\ es' = [es EXCEPT ![j] = es[k], ![k] = es[j]]
  /\ UNCHANGED <<image, parsed, g_entries, g_available, query>>

\* Mutant of ParseEnds: the table is taken in the order of the archive.
ParseEndsUnsorted ==
  /\ g_available = "no" /\ parsed = Len(image)
  /\ g_available' = "yes" /\ g_entries' = es
  /\ UNCHANGED <<image, parsed, es, query>>

ParseEnds ==
  /\ g_available = "no" /\ parsed = Len(image) /\ InOrder(es)
  /\ g_available' = "yes" /\ g_entries' = es
  /\ UNCHANGED <<image, parsed, es, query>>

Parse == ParseRecord \/ ParseFails \/ Sort \/ ParseEnds

-------------------------------------------------------------------------------
\* unpin_vfs_find. Indices are the C's: the node i is g_entries[i + 1]; "at" is
\* the result, with -1 as the number of nodes.
Searching(path) ==
  [path |-> path, lo |-> 0, hi |-> Len(g_entries), done |-> FALSE,
   at |-> Len(g_entries)]

\* Mutant of Narrow: the middle stays in the half above it.
NarrowStays ==
  LET mid == query.lo + (query.hi - query.lo) \div 2
      e == g_entries[mid + 1].path
  IN  /\ query # NoQuery /\ ~query.done /\ query.lo < query.hi
      /\ query' = IF Less(e, query.path) THEN [query EXCEPT !.lo = mid]
                  ELSE IF Less(query.path, e) THEN [query EXCEPT !.hi = mid]
                  ELSE [query EXCEPT !.done = TRUE, !.at = mid]
      /\ UNCHANGED parseVars

Narrow ==
  LET mid == query.lo + (query.hi - query.lo) \div 2
      e == g_entries[mid + 1].path
  IN  /\ query # NoQuery /\ ~query.done /\ query.lo < query.hi
      /\ query' = IF Less(e, query.path) THEN [query EXCEPT !.lo = mid + 1]
                  ELSE IF Less(query.path, e) THEN [query EXCEPT !.hi = mid]
                  ELSE [query EXCEPT !.done = TRUE, !.at = mid]
      /\ UNCHANGED parseVars

NotFound ==
  /\ query # NoQuery /\ ~query.done /\ query.lo >= query.hi
  /\ query' = [query EXCEPT !.done = TRUE]
  /\ UNCHANGED parseVars

-------------------------------------------------------------------------------
\* What the archive holds: the root, and every record outside unpin's
\* directory.
Held ==
  {Root} \cup {NodeOf(image[j]) : j \in {k \in DOMAIN image :
                                 ~IsPrefix(Reserved, image[k])}}

\* Nothing is lost between the archive and the table, and whatever the order of
\* the records a search finds the node of that very name if there is one.
FindsExactly ==
  /\ g_available = "yes" => ToSet(g_entries) = Held
  /\ query # NoQuery /\ query.done =>
       /\ query.at < Len(g_entries) => g_entries[query.at + 1].path = query.path
       /\ query.at = Len(g_entries) => \A n \in Held : n.path # query.path
===============================================================================
