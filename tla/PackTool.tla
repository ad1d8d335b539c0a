------------------------------- MODULE PackTool -------------------------------
(***************************************************************************)
(* unpin-vfs-pack: the archive it writes from a staged tree, and the one   *)
(* it takes over from a binary (--carry).                                  *)
(*                                                                         *)
(* A binary is a sequence of units: its program, members, and central      *)
(* directories. A directory lists members by name and by their offset in   *)
(* the binary; readers go by the one that ends the binary. A member has    *)
(* its content by the embedding that staged it (0: the linker, or the tool *)
(* itself), and what it takes to decode it: a method, and the dictionary   *)
(* it was compressed with (0: none).                                       *)
(***************************************************************************)
EXTENDS Integers, SequencesExt

CONSTANTS
  Order,     \* the names a tree can have, folders too, in the order of LC_ALL=C
  FolderOf   \* FolderOf[n]: the folder a file lies in, or NoFolder

NoFolder == ""

ASSUME PackAssumption ==
  /\ Order \in Seq(STRING) /\ IsInjective(Order)
  /\ \A n \in DOMAIN FolderOf :
       /\ n \in ToSet(Order) /\ FolderOf[n] \in ToSet(Order) \cup {NoFolder}
       /\ FolderOf[n] \notin DOMAIN FolderOf

Dict == ".unpin/zdict"
Symtab == ".symtab.amd64"

Program == [program |-> TRUE]
Member(name, by, method, dict) ==
  [name |-> name, by |-> by, method |-> method, dict |-> dict]

Names(S) == {m.name : m \in S}

\* What s has of S, in the order of s.
Only(s, S) ==
  LET kept[n \in 0 .. Len(s)] ==
        IF n = 0 THEN <<>>
        ELSE IF s[n] \in S THEN Append(kept[n - 1], s[n]) ELSE kept[n - 1]
  IN  kept[Len(s)]

-------------------------------------------------------------------------------
(* Reading.                                                                *)

\* The directory that ends a binary, if it ends in one.
Listing(f) ==
  IF "entries" \in DOMAIN f[Len(f)] THEN f[Len(f)].entries ELSE <<>>
Listed(f) == Names(ToSet(Listing(f)))

\* A local header is where the directory says, and of that name.
Leads(f, e) ==
  /\ e.ofs + 1 \in DOMAIN f /\ "name" \in DOMAIN f[e.ofs + 1]
  /\ f[e.ofs + 1].name = e.name
Visible(f) == {f[e.ofs + 1] : e \in {x \in ToSet(Listing(f)) : Leads(f, x)}}

-------------------------------------------------------------------------------
(* Writing.                                                                *)

\* The archive as the writer lays it out, from offset 0.
Written(units) ==
  [j \in DOMAIN units |-> [name |-> units[j].name, ofs |-> j - 1]]

\* adjust_offsets: for an archive that begins at `base` of the binary.
AdjustOffsets(entries, base) ==
  [j \in DOMAIN entries |-> [entries[j] EXCEPT !.ofs = @ + base]]

Archive(units, base) ==
  units \o <<[entries |-> AdjustOffsets(Written(units), base)]>>

\* carry_from, carried_is_superseded: the members of a binary's archive as they
\* are, less those the tree replaces.
Carry(f, names) ==
  LET entries == Only(Listing(f), {e \in ToSet(Listing(f)) :
                                     e.name # Symtab /\ e.name \notin names})
  IN  [j \in DOMAIN entries |-> f[entries[j].ofs + 1]]

\* Mutant of CarryBase: the lowest offset of what is kept.
CarryBaseKept(f) ==
  LET kept == {e \in ToSet(Listing(f)) : e.name # Symtab}
  IN  IF kept = {} THEN Len(f) ELSE Min({e.ofs : e \in kept})

\* Where that archive begins: at its lowest offset, or at the end.
CarryBase(f) ==
  IF Listing(f) = <<>> THEN Len(f)
  ELSE Min({e.ofs : e \in ToSet(Listing(f))})

\* visit, ent_cmp: the files of the tree and their folders, sorted.
Collected(tree) ==
  Names(tree) \cup ({FolderOf[n] : n \in Names(tree)} \ {NoFolder})
Sorted(tree) == Only(Order, Collected(tree))

\* wants_deflate (--deflate unpin/aliases); no caller passes --store.
Method(n) == IF n = "aliases" THEN "deflate" ELSE "zstd"

\* emit_entry, add_file: a folder is an empty member, and what is compressed
\* with zstd takes the dictionary, if there is one.
Emit(tree, n, dict) ==
  IF n \notin Names(tree) THEN Member(n, 0, "store", 0)
  ELSE LET m == CHOOSE x \in tree : x.name = n
       IN  Member(n, m.by, Method(n), IF Method(n) = "zstd" THEN dict ELSE 0)

\* main: what is carried, the dictionary, the tree.
Pack(carried, tree, dict, base) ==
  LET names == Sorted(tree)
      zdict == IF dict = 0 THEN <<>> ELSE <<Member(Dict, dict, "store", 0)>>
      files == [j \in DOMAIN names |-> Emit(tree, names[j], dict)]
  IN  Archive(carried \o zdict \o files, base)
===============================================================================
