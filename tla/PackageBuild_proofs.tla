-------------------------- MODULE PackageBuild_proofs --------------------------
(***************************************************************************)
(* What a package ships, for any names, any number of embeddings and the   *)
(* three kinds of binary: of the archives behind its binary (PackTool,     *)
(* EmbedZip), and of the program that answers a call (MulticallDispatch).  *)
(***************************************************************************)
EXTENDS PackageBuild, LexicalPath_proofs

-------------------------------------------------------------------------------
(* The loops that keep some of a sequence.                                 *)

Keeping(s, S, kept) ==
  [n \in 0 .. Len(s) |->
     IF n = 0 THEN <<>>
     ELSE IF s[n] \in S THEN Append(kept[n - 1], s[n]) ELSE kept[n - 1]]

LEMMA OnlyDefined ==
  ASSUME NEW X, NEW s \in Seq(X), NEW S
  PROVE  \E kept : kept = Keeping(s, S, kept) /\ Only(s, S) = kept[Len(s)]
<1> DEFINE N == Len(s)
           Y == Seq(X)
           Next1(x, t) == IF x \in S THEN Append(t, x) ELSE t
           G == [n \in 1 .. N |-> [t \in Y |-> Next1(s[n], t)]]
           kept == CHOOSE f : f = Keeping(s, S, f)
<1>1. \A n \in 1 .. N, t \in Y : Next1(s[n], t) \in Y
  OBVIOUS
<1>2. G \in [1 .. N -> [Y -> Y]]
  <2> HIDE DEF Next1, Y
  <2> QED BY <1>1
<1>3. <<>> \in Y /\ N \in Nat
  OBVIOUS
<1>4. PICK f : Folds(f, Y, <<>>, N, G)
  <2> HIDE DEF G, Y, N
  <2> QED BY <1>2, <1>3, FoldExists
<1>5. f \in [0 .. N -> Y] /\ f[0] = <<>>
      /\ \A n \in 1 .. N : f[n] = G[n][f[n - 1]]
  <2> HIDE DEF G, Y, N
  <2> QED BY <1>4 DEF Folds
<1>6. \A n \in 1 .. N : f[n - 1] \in Y /\ f[n] = Next1(s[n], f[n - 1])
  <2> TAKE n \in 1 .. N
  <2> HIDE DEF Next1, Y
  <2>1. f[n - 1] \in Y
    BY <1>3, <1>5
  <2>2. G[n] = [t \in Y |-> Next1(s[n], t)]
    OBVIOUS
  <2> HIDE DEF G
  <2> QED BY <1>5, <2>1, <2>2
<1>7. f = Keeping(s, S, f)
  <2> HIDE DEF G, Y
  <2>1. ASSUME NEW n \in 0 .. N PROVE f[n] = Keeping(s, S, f)[n]
    <3>1. CASE n = 0
      BY <1>5, <3>1 DEF Keeping
    <3>2. CASE n # 0
      <4>1. n \in 1 .. N
        BY <1>3, <3>2
      <4> QED BY <1>6, <3>2, <4>1 DEF Keeping
    <3> QED BY <3>1, <3>2
  <2>2. f = [n \in 0 .. N |-> f[n]]
    BY <1>5
  <2>3. Keeping(s, S, f) = [n \in 0 .. N |-> Keeping(s, S, f)[n]]
    BY DEF Keeping
  <2> QED BY <2>1, <2>2, <2>3
<1>8. kept = Keeping(s, S, kept)
  BY <1>7
<1>9. Only(s, S) = kept[N]
  BY DEF Only, Keeping
<1> QED
  <2> HIDE DEF kept
  <2> QED BY <1>8, <1>9

\* What is kept is what there is of both, each as often as it was there.
LEMMA OnlyFacts ==
  ASSUME NEW X, NEW s \in Seq(X), NEW S
  PROVE  /\ Only(s, S) \in Seq(X)
         /\ ToSet(Only(s, S)) = ToSet(s) \cap S
         /\ IsInjective(s) => IsInjective(Only(s, S))
<1>1. PICK kept : kept = Keeping(s, S, kept) /\ Only(s, S) = kept[Len(s)]
  BY OnlyDefined
<1> DEFINE N == Len(s)
           Made(n) == \A i \in 1 .. Len(kept[n]) :
                        \E l \in 1 .. n : kept[n][i] = s[l] /\ s[l] \in S
           All(n) == \A l \in 1 .. n : s[l] \in S =>
                       \E i \in 1 .. Len(kept[n]) : kept[n][i] = s[l]
           Once1(n) == IsInjective(s) =>
                        \A i, j \in 1 .. Len(kept[n]) :
                          kept[n][i] = kept[n][j] => i = j
           Good(n) == kept[n] \in Seq(X) /\ Made(n) /\ All(n) /\ Once1(n)
           T == {n \in Nat : n <= N => Good(n)}
<1>2. N \in Nat
  OBVIOUS
<1>3. Good(0)
  <2>1. kept[0] = <<>>
    BY <1>1, <1>2 DEF Keeping
  <2> QED BY <2>1
<1>4. ASSUME NEW n \in Nat, n + 1 <= N, Good(n) PROVE Good(n + 1)
  <2>1. kept[n + 1] = IF s[n + 1] \in S THEN Append(kept[n], s[n + 1])
                      ELSE kept[n]
    <3>1. n + 1 \in 0 .. N /\ n + 1 # 0 /\ (n + 1) - 1 = n
      BY <1>2, <1>4
    <3>2. Keeping(s, S, kept)[n + 1] =
            IF s[n + 1] \in S THEN Append(kept[n], s[n + 1]) ELSE kept[n]
      BY <3>1 DEF Keeping
    <3> QED BY <1>1, <3>2
  <2>2. n + 1 \in DOMAIN s /\ s[n + 1] \in X /\ 1 .. n \subseteq DOMAIN s
    BY <1>2, <1>4
  <2>3. CASE s[n + 1] \in S
    <3>1. kept[n + 1] = Append(kept[n], s[n + 1])
      BY <2>1, <2>3
    <3>2. /\ kept[n + 1] \in Seq(X) /\ Len(kept[n]) \in Nat
          /\ Len(kept[n + 1]) = Len(kept[n]) + 1
          /\ \A i \in 1 .. Len(kept[n]) : kept[n + 1][i] = kept[n][i]
          /\ kept[n + 1][Len(kept[n]) + 1] = s[n + 1]
      BY <1>4, <2>2, <3>1, AppendProperties
    <3>3. \A i \in 1 .. Len(kept[n + 1]) :
            i \in 1 .. Len(kept[n]) \/ i = Len(kept[n]) + 1
      BY <3>2
    <3>4. Made(n + 1)
      <4> TAKE i \in 1 .. Len(kept[n + 1])
      <4>1. CASE i \in 1 .. Len(kept[n])
        <5>1. PICK l \in 1 .. n : kept[n][i] = s[l] /\ s[l] \in S
          BY <1>4, <4>1
        <5> QED BY <3>2, <4>1, <5>1
      <4>2. CASE i = Len(kept[n]) + 1
        BY <2>3, <3>2, <4>2
      <4> QED BY <3>3, <4>1, <4>2
    <3>5. All(n + 1)
      <4> TAKE l \in 1 .. n + 1
      <4>1. CASE l \in 1 .. n
        BY <1>4, <3>2, <4>1
      <4>2. CASE l = n + 1
        BY <3>2, <4>2
      <4> QED BY <4>1, <4>2
    <3>6. Once1(n + 1)
      <4> SUFFICES ASSUME IsInjective(s),
                          NEW i \in 1 .. Len(kept[n + 1]),
                          NEW j \in 1 .. Len(kept[n + 1]),
                          kept[n + 1][i] = kept[n + 1][j]
                   PROVE  i = j
        OBVIOUS
      <4>1. \A k \in 1 .. Len(kept[n]) : kept[n][k] # s[n + 1]
        <5> TAKE k \in 1 .. Len(kept[n])
        <5>1. PICK l \in 1 .. n : kept[n][k] = s[l] /\ s[l] \in S
          BY <1>4
        <5> QED BY <2>2, <5>1 DEF IsInjective
      <4>2. CASE i \in 1 .. Len(kept[n]) /\ j \in 1 .. Len(kept[n])
        BY <1>4, <3>2, <4>2
      <4>3. CASE i = Len(kept[n]) + 1 \/ j = Len(kept[n]) + 1
        BY <3>2, <3>3, <4>1, <4>3
      <4> QED BY <3>3, <4>2, <4>3
    <3> QED BY <3>2, <3>4, <3>5, <3>6
  <2>4. CASE s[n + 1] \notin S
    <3>1. kept[n + 1] = kept[n]
      BY <2>1, <2>4
    <3>2. \A l \in 1 .. n + 1 : l \in 1 .. n \/ l = n + 1
      OBVIOUS
    <3>3. All(n + 1)
      BY <1>4, <2>4, <3>1, <3>2
    <3>4. Made(n + 1) /\ Once1(n + 1)
      BY <1>4, <3>1
    <3> QED BY <1>4, <3>1, <3>3, <3>4
  <2> QED BY <2>3, <2>4
<1>5. T = Nat
  <2>1. 0 \in T
    BY <1>3
  <2>2. \A n \in T : n + 1 \in T
    <3> SUFFICES ASSUME NEW n \in T PROVE n + 1 \in T
      OBVIOUS
    <3> HIDE DEF Good
    <3> QED BY <1>2, <1>4
  <2>3. T \in SUBSET Nat
    OBVIOUS
  <2> HIDE DEF T
  <2> QED BY <2>1, <2>2, <2>3, Induct
<1>6. Good(N)
  <2>1. N \in T
    <3> HIDE DEF T
    <3> QED BY <1>2, <1>5
  <2>2. N <= N
    BY <1>2
  <2> HIDE DEF Good
  <2> QED BY <2>1, <2>2
<1>7. kept[N] \in Seq(X) /\ DOMAIN kept[N] = 1 .. Len(kept[N])
  BY <1>6
<1>8. ToSet(kept[N]) = ToSet(s) \cap S
  <2>1. DOMAIN s = 1 .. N
    OBVIOUS
  <2>2. ASSUME NEW x \in ToSet(kept[N]) PROVE x \in ToSet(s) \cap S
    <3>1. PICK i \in 1 .. Len(kept[N]) : x = kept[N][i]
      BY <1>7, <2>2 DEF ToSet
    <3>2. PICK l \in 1 .. N : kept[N][i] = s[l] /\ s[l] \in S
      BY <1>6
    <3> QED BY <2>1, <3>1, <3>2 DEF ToSet
  <2>3. ASSUME NEW x \in ToSet(s), x \in S PROVE x \in ToSet(kept[N])
    <3>1. PICK l \in 1 .. N : x = s[l]
      BY <2>1, <2>3 DEF ToSet
    <3>2. PICK i \in 1 .. Len(kept[N]) : kept[N][i] = s[l]
      BY <1>6, <2>3, <3>1
    <3> QED BY <1>7, <3>1, <3>2 DEF ToSet
  <2> QED BY <2>2, <2>3
<1>9. IsInjective(s) => IsInjective(kept[N])
  BY <1>6, <1>7 DEF IsInjective
<1> QED BY <1>1, <1>7, <1>8, <1>9

-------------------------------------------------------------------------------
(* Archives (PackTool): what a reader finds in one that follows p.         *)

AnyName == ToSet(Order) \cup ToSet(Bundled) \cup {Dict, Symtab}
AnyMember == [name : AnyName, by : Nat, method : {"store", "deflate", "zstd"},
              dict : Nat]
AnyRecord == [name : AnyName, ofs : Nat]
Directory == [entries : Seq(AnyRecord)]
Unit == {Program} \cup AnyMember \cup Directory

\* The directory of the members u, behind b units.
Records(u, b) == AdjustOffsets(Written(u), b)
DirectoryOf(u, b) == [entries |-> Records(u, b)]

LEMMA Shapes ==
  /\ DOMAIN Program = {"program"}
  /\ \A m \in AnyMember : DOMAIN m = {"name", "by", "method", "dict"}
  /\ \A d \in Directory : DOMAIN d = {"entries"}
  /\ {"program", "name", "entries"} \cap {"by"} = {}
  /\ "entries" \notin {"program"} /\ "name" \notin {"program"}
  /\ "entries" \notin {"name", "by", "method", "dict"}
  /\ "name" \notin {"entries"}
BY DEF Program, AnyMember, Directory

LEMMA RecordsAre ==
  ASSUME NEW u \in Seq(AnyMember), NEW b \in Nat
  PROVE  /\ Records(u, b) \in Seq(AnyRecord)
         /\ Len(Records(u, b)) = Len(u)
         /\ \A j \in 1 .. Len(u) :
              Records(u, b)[j] = [name |-> u[j].name, ofs |-> j - 1 + b]
<1>1. DOMAIN u = 1 .. Len(u) /\ Len(u) \in Nat
  OBVIOUS
<1>2. \A j \in 1 .. Len(u) : u[j].name \in AnyName
  <2> TAKE j \in 1 .. Len(u)
  <2>1. u[j] \in AnyMember
    BY <1>1
  <2> QED BY <2>1 DEF AnyMember
<1>3. Records(u, b) =
        [j \in 1 .. Len(u) |-> [name |-> u[j].name, ofs |-> j - 1 + b]]
  BY <1>1 DEF Records, AdjustOffsets, Written
<1>4. \A j \in 1 .. Len(u) :
        [name |-> u[j].name, ofs |-> j - 1 + b] \in AnyRecord
  BY <1>2 DEF AnyRecord
<1> HIDE DEF AnyRecord
<1> QED BY <1>1, <1>3, <1>4

\* The units of a file: what was there, the members, the directory.
LEMMA ArchiveUnits ==
  ASSUME NEW p \in Seq(Unit), NEW u \in Seq(AnyMember), NEW f,
         f = p \o Archive(u, Len(p))
  PROVE  /\ f \in Seq(Unit) /\ Len(f) = Len(p) + Len(u) + 1
         /\ Len(p) \in Nat /\ Len(u) \in Nat
         /\ \A j \in 1 .. Len(p) : f[j] = p[j]
         /\ \A j \in 1 .. Len(u) : f[Len(p) + j] = u[j]
         /\ f[Len(f)] = DirectoryOf(u, Len(p))
         /\ SubSeq(f, 1, Len(p)) = p
<1> DEFINE d == DirectoryOf(u, Len(p))
<1>1. Len(p) \in Nat /\ Len(u) \in Nat
  OBVIOUS
<1>2. d \in Unit
  BY <1>1, RecordsAre DEF DirectoryOf, Directory, Unit
<1>3. u \in Seq(Unit)
  <2>1. AnyMember \subseteq Unit
    BY DEF Unit
  <2> HIDE DEF AnyMember, Unit
  <2> QED BY <2>1
<1>4. Archive(u, Len(p)) = u \o <<d>>
  BY DEF Archive, DirectoryOf, Records
<1> HIDE DEF d, Unit, AnyMember
<1>5. <<d>> \in Seq(Unit) /\ Len(<<d>>) = 1 /\ <<d>>[1] = d
  BY <1>2
<1>6. /\ u \o <<d>> \in Seq(Unit) /\ Len(u \o <<d>>) = Len(u) + 1
      /\ \A j \in 1 .. Len(u) : (u \o <<d>>)[j] = u[j]
      /\ (u \o <<d>>)[Len(u) + 1] = d
  BY <1>1, <1>3, <1>5
<1> DEFINE a == u \o <<d>>
<1> HIDE DEF a
<1>7. /\ a \in Seq(Unit) /\ Len(a) = Len(u) + 1 /\ f = p \o a
      /\ \A j \in 1 .. Len(u) : a[j] = u[j]
      /\ a[Len(u) + 1] = d
  BY <1>4, <1>6 DEF a
<1>8. /\ f \in Seq(Unit) /\ Len(f) = Len(p) + Len(a)
      /\ \A j \in 1 .. Len(p) : f[j] = p[j]
      /\ \A j \in 1 .. Len(a) : f[Len(p) + j] = a[j]
  <2>1. f \in Seq(Unit) /\ Len(f) = Len(p) + Len(a)
    BY <1>7, ConcatProperties, ZenonT(40)
  <2>2. \A j \in 1 .. Len(p) : f[j] = p[j]
    BY <1>1, <1>7
  <2>3. ASSUME NEW j \in 1 .. Len(a) PROVE f[Len(p) + j] = a[j]
    <3>1. Len(a) \in Nat
      BY <1>1, <1>7
    <3>2. /\ Len(p) + j \in 1 .. Len(p) + Len(a) /\ ~(Len(p) + j <= Len(p))
          /\ (Len(p) + j) - Len(p) = j
      BY <1>1, <3>1
    <3> QED BY <1>7, <3>2, ConcatProperties
  <2> QED BY <2>1, <2>2, <2>3
<1>9. f[Len(f)] = d
  <2>1. Len(u) + 1 \in 1 .. Len(a) /\ Len(f) = Len(p) + (Len(u) + 1)
    BY <1>1, <1>7, <1>8
  <2> QED BY <1>7, <1>8, <2>1
<1>10. Len(p) \in 0 .. Len(f)
  BY <1>1, <1>7, <1>8
<1>11. SubSeq(f, 1, Len(p)) = p
  <2>1. /\ Len(SubSeq(f, 1, Len(p))) = Len(p)
        /\ \A i \in 1 .. Len(p) : SubSeq(f, 1, Len(p))[i] = f[i]
    BY <1>8, <1>10, Beginning
  <2>2. SubSeq(f, 1, Len(p)) \in Seq(Unit)
    BY <1>8
  <2> QED BY <1>8, <2>1, <2>2
<1> QED BY <1>1, <1>7, <1>8, <1>9, <1>11 DEF d

\* The record of the member j, and where it leads.
LedTo(f, p, u, j) ==
  /\ Listing(f)[j].name = u[j].name
  /\ Listing(f)[j].ofs = j - 1 + Len(p)
  /\ f[Listing(f)[j].ofs + 1] = u[j]
  /\ Leads(f, Listing(f)[j])

LEMMA ArchiveListing ==
  ASSUME NEW p \in Seq(Unit), NEW u \in Seq(AnyMember), NEW f,
         f = p \o Archive(u, Len(p))
  PROVE  /\ Listing(f) = Records(u, Len(p))
         /\ Listing(f) \in Seq(AnyRecord) /\ Len(Listing(f)) = Len(u)
         /\ DOMAIN Listing(f) = 1 .. Len(u)
         /\ \A j \in 1 .. Len(u) : LedTo(f, p, u, j)
         /\ IsInjective(Listing(f))
<1>1. /\ f \in Seq(Unit) /\ Len(f) = Len(p) + Len(u) + 1
      /\ Len(p) \in Nat /\ Len(u) \in Nat
      /\ \A j \in 1 .. Len(u) : f[Len(p) + j] = u[j]
      /\ f[Len(f)] = DirectoryOf(u, Len(p))
  BY ArchiveUnits, ZenonT(40)
<1>2. Listing(f) = Records(u, Len(p))
  BY <1>1 DEF Listing, DirectoryOf
<1>3. /\ Listing(f) \in Seq(AnyRecord) /\ Len(Listing(f)) = Len(u)
      /\ \A j \in 1 .. Len(u) :
           Listing(f)[j] = [name |-> u[j].name, ofs |-> j - 1 + Len(p)]
  BY <1>1, <1>2, RecordsAre
<1>4. DOMAIN Listing(f) = 1 .. Len(u)
  <2> HIDE DEF AnyRecord
  <2> QED BY <1>1, <1>3
<1>5. ASSUME NEW j \in 1 .. Len(u)
      PROVE  LedTo(f, p, u, j)
  <2>1. Listing(f)[j].name = u[j].name /\ Listing(f)[j].ofs = j - 1 + Len(p)
    <3>1. Listing(f)[j] = [name |-> u[j].name, ofs |-> j - 1 + Len(p)]
      BY <1>3
    <3> QED BY <3>1
  <2>2. /\ Listing(f)[j].ofs + 1 = Len(p) + j
        /\ Len(p) + j \in 1 .. Len(f)
    BY <1>1, <2>1
  <2>3. DOMAIN f = 1 .. Len(f)
    BY <1>1
  <2>4. f[Listing(f)[j].ofs + 1] = u[j]
    BY <1>1, <2>2
  <2>5. "name" \in DOMAIN u[j]
    <3>1. u[j] \in AnyMember
      BY <1>1
    <3> QED BY <3>1, Shapes
  <2>6. Leads(f, Listing(f)[j])
    BY <2>1, <2>2, <2>3, <2>4, <2>5 DEF Leads
  <2> QED BY <2>1, <2>4, <2>6 DEF LedTo
<1>6. IsInjective(Listing(f))
  <2> SUFFICES ASSUME NEW i \in 1 .. Len(u), NEW j \in 1 .. Len(u),
                      Listing(f)[i] = Listing(f)[j]
               PROVE  i = j
    BY <1>4 DEF IsInjective
  <2>1. i - 1 + Len(p) = j - 1 + Len(p)
    BY <1>5 DEF LedTo
  <2> QED BY <1>1, <2>1
<1> QED BY <1>2, <1>3, <1>4, <1>5, <1>6

\* No two of the members have a name in common.
Unique(u) == \A j, k \in DOMAIN u : u[j].name = u[k].name => j = k

LEMMA ArchiveRead ==
  ASSUME NEW p \in Seq(Unit), NEW u \in Seq(AnyMember), NEW f,
         f = p \o Archive(u, Len(p))
  PROVE  /\ Visible(f) = ToSet(u) /\ Listed(f) = Names(ToSet(u))
         /\ u # <<>> => CarryBase(f) = Len(p)
         /\ {e.ofs : e \in ToSet(Listing(f))} = Len(p) .. Len(f) - 2
<1>1. /\ Len(Listing(f)) = Len(u) /\ DOMAIN Listing(f) = 1 .. Len(u)
      /\ \A j \in 1 .. Len(u) :
           /\ Listing(f)[j].name = u[j].name
           /\ Listing(f)[j].ofs = j - 1 + Len(p)
           /\ f[Listing(f)[j].ofs + 1] = u[j]
           /\ Leads(f, Listing(f)[j])
  <2>1. /\ Len(Listing(f)) = Len(u) /\ DOMAIN Listing(f) = 1 .. Len(u)
        /\ \A j \in 1 .. Len(u) : LedTo(f, p, u, j)
    BY ArchiveListing, Zenon
  <2> QED BY <2>1 DEF LedTo
<1>2. /\ DOMAIN u = 1 .. Len(u) /\ Len(u) \in Nat /\ Len(p) \in Nat
      /\ Len(f) = Len(p) + Len(u) + 1
  <2>1. Len(f) = Len(p) + Len(u) + 1
    BY ArchiveUnits, Zenon
  <2> QED BY <2>1
<1>3. ToSet(Listing(f)) = {Listing(f)[j] : j \in 1 .. Len(u)}
  BY <1>1 DEF ToSet
<1>4. Visible(f) = ToSet(u)
  <2>1. {x \in ToSet(Listing(f)) : Leads(f, x)} = ToSet(Listing(f))
    BY <1>1, <1>3
  <2>2. Visible(f) = {f[e.ofs + 1] : e \in ToSet(Listing(f))}
    BY <2>1 DEF Visible
  <2>3. \A j \in 1 .. Len(u) : f[Listing(f)[j].ofs + 1] = u[j]
    BY <1>1
  <2>4. Visible(f) \subseteq ToSet(u)
    <3> SUFFICES ASSUME NEW e \in ToSet(Listing(f))
                 PROVE  f[e.ofs + 1] \in ToSet(u)
      BY <2>2
    <3>1. PICK j \in 1 .. Len(u) : e = Listing(f)[j]
      BY <1>3
    <3>2. f[e.ofs + 1] = u[j]
      BY <2>3, <3>1
    <3> QED BY <1>2, <3>2 DEF ToSet
  <2>5. ToSet(u) \subseteq Visible(f)
    <3> SUFFICES ASSUME NEW j \in 1 .. Len(u) PROVE u[j] \in Visible(f)
      BY <1>2 DEF ToSet
    <3>1. Listing(f)[j] \in ToSet(Listing(f))
      BY <1>3
    <3> QED BY <2>2, <2>3, <3>1
  <2> QED BY <2>4, <2>5
<1>5. Listed(f) = Names(ToSet(u))
  <2>1. Listed(f) = {e.name : e \in ToSet(Listing(f))}
    BY DEF Listed, Names
  <2>2. Listed(f) = {Listing(f)[j].name : j \in 1 .. Len(u)}
    BY <1>3, <2>1
  <2>3. Names(ToSet(u)) = {u[j].name : j \in 1 .. Len(u)}
    BY <1>2 DEF Names, ToSet
  <2>4. \A j \in 1 .. Len(u) : Listing(f)[j].name = u[j].name
    BY <1>1
  <2> QED BY <2>2, <2>3, <2>4, ZenonT(40)
<1>6. {e.ofs : e \in ToSet(Listing(f))} = Len(p) .. Len(f) - 2
  <2> DEFINE O == {e.ofs : e \in ToSet(Listing(f))}
  <2>1. O = {Listing(f)[j].ofs : j \in 1 .. Len(u)}
    BY <1>3
  <2>2. \A j \in 1 .. Len(u) : Listing(f)[j].ofs = j - 1 + Len(p)
    BY <1>1
  <2> HIDE DEF O
  <2>3. O = {j - 1 + Len(p) : j \in 1 .. Len(u)}
    BY <2>1, <2>2
  <2>4. ASSUME NEW o \in Len(p) .. Len(f) - 2 PROVE o \in O
    <3>1. o - Len(p) + 1 \in 1 .. Len(u) /\ (o - Len(p) + 1) - 1 + Len(p) = o
      BY <1>2
    <3> QED BY <2>3, <3>1
  <2>5. ASSUME NEW j \in 1 .. Len(u) PROVE j - 1 + Len(p) \in Len(p) .. Len(f) - 2
    BY <1>2
  <2>6. O = Len(p) .. Len(f) - 2
    BY <2>3, <2>4, <2>5
  <2> QED BY <2>6 DEF O
<1>7. ASSUME u # <<>> PROVE CarryBase(f) = Len(p)
  <2> DEFINE O == {e.ofs : e \in ToSet(Listing(f))}
  <2>1. Len(u) > 0
    BY <1>2, <1>7
  <2>2. Listing(f) # <<>>
    BY <1>1, <2>1
  <2>3. CarryBase(f) = Min(O)
    BY <2>2 DEF CarryBase
  <2>4. O = Len(p) .. Len(f) - 2
    BY <1>6
  <2>5. Len(p) \in O /\ \A o \in O : Len(p) <= o /\ (o \in Int)
    <3> HIDE DEF O
    <3>1. Len(p) \in Len(p) .. Len(f) - 2
      BY <1>2, <2>1
    <3>2. \A o \in Len(p) .. Len(f) - 2 : Len(p) <= o /\ (o \in Int)
      BY <1>2
    <3> QED BY <2>4, <3>1, <3>2
  <2> HIDE DEF O
  <2>6. Min(O) = Len(p)
    <3>1. Min(O) \in O /\ \A o \in O : Min(O) <= o
      BY <2>5 DEF Min
    <3> QED BY <1>2, <2>5, <3>1
  <2> QED BY <2>3, <2>6
<1> QED BY <1>4, <1>5, <1>6, <1>7

-------------------------------------------------------------------------------
(* What is packed: the members carried over, and the tree.                 *)

\* carry_from: everything but the symbol table and what the tree replaces.
Unreplaced(u, names) ==
  {m \in ToSet(u) : m.name # Symtab /\ m.name \notin names}

LEMMA CarryFacts ==
  ASSUME NEW p \in Seq(Unit), NEW u \in Seq(AnyMember), Unique(u), NEW f,
         f = p \o Archive(u, Len(p)), NEW names
  PROVE  /\ Carry(f, names) \in Seq(AnyMember) /\ Unique(Carry(f, names))
         /\ ToSet(Carry(f, names)) = Unreplaced(u, names)
<1> DEFINE L == Listing(f)
           K == {e \in ToSet(L) : e.name # Symtab /\ e.name \notin names}
           es == Only(L, K)
           c == [j \in DOMAIN es |-> f[es[j].ofs + 1]]
<1>1. /\ L \in Seq(AnyRecord) /\ DOMAIN L = 1 .. Len(u) /\ IsInjective(L)
      /\ \A j \in 1 .. Len(u) : LedTo(f, p, u, j)
  BY ArchiveListing, Zenon
<1>2. Carry(f, names) = c
  BY DEF Carry
<1>3. DOMAIN u = 1 .. Len(u) /\ Len(u) \in Nat
  OBVIOUS
<1>4. es \in Seq(AnyRecord) /\ ToSet(es) = K /\ IsInjective(es)
  <2>1. K \subseteq ToSet(L)
    OBVIOUS
  <2> HIDE DEF L, K
  <2>2. L \in Seq(AnyRecord) /\ IsInjective(L)
    BY <1>1
  <2>3. /\ es \in Seq(AnyRecord) /\ ToSet(es) = ToSet(L) \cap K
        /\ IsInjective(L) => IsInjective(es)
    BY <2>2, OnlyFacts, Zenon
  <2> HIDE DEF es
  <2> QED BY <2>1, <2>2, <2>3
<1> HIDE DEF AnyRecord, AnyMember
<1>5. DOMAIN es = 1 .. Len(es) /\ Len(es) \in Nat
  <2> HIDE DEF es
  <2> QED BY <1>4
<1>6. ASSUME NEW j \in DOMAIN es
      PROVE  \E l \in 1 .. Len(u) :
               /\ es[j] = L[l] /\ c[j] = u[l]
               /\ u[l].name # Symtab /\ u[l].name \notin names
  <2>1. es[j] \in K
    <3> HIDE DEF es, K
    <3> QED BY <1>4 DEF ToSet
  <2>2. PICK l \in 1 .. Len(u) : es[j] = L[l]
    <3>1. es[j] \in ToSet(L)
      BY <2>1
    <3> HIDE DEF es, L
    <3> QED BY <1>1, <3>1 DEF ToSet
  <2>3. c[j] = f[L[l].ofs + 1]
    <3> HIDE DEF es, L
    <3> QED BY <2>2
  <2>4. LedTo(f, p, u, l)
    BY <1>1
  <2>5. c[j] = u[l]
    <3> HIDE DEF c
    <3> QED BY <2>3, <2>4 DEF LedTo
  <2>6. L[l].name # Symtab /\ L[l].name \notin names
    BY <2>1, <2>2
  <2> HIDE DEF c, es
  <2> QED BY <2>2, <2>4, <2>5, <2>6 DEF LedTo
<1>7. ASSUME NEW m \in ToSet(u), m.name # Symtab, m.name \notin names
      PROVE  \E j \in DOMAIN es : c[j] = m
  <2>1. PICK l \in 1 .. Len(u) : m = u[l]
    BY <1>3 DEF ToSet
  <2>2. LedTo(f, p, u, l)
    BY <1>1
  <2>3. L[l] \in K
    <3>1. L[l] \in ToSet(L)
      <4> HIDE DEF L
      <4> QED BY <1>1 DEF ToSet
    <3> QED BY <1>7, <2>1, <2>2, <3>1 DEF LedTo
  <2>4. PICK j \in DOMAIN es : es[j] = L[l]
    <3> HIDE DEF es, K, L
    <3> QED BY <1>4, <2>3 DEF ToSet
  <2>5. c[j] = f[L[l].ofs + 1]
    <3> HIDE DEF es, L
    <3> QED BY <2>4
  <2> HIDE DEF c, es
  <2> QED BY <2>1, <2>2, <2>5 DEF LedTo
<1>8. c \in Seq(AnyMember) /\ DOMAIN c = DOMAIN es
  <2>1. \A j \in 1 .. Len(es) : c[j] \in AnyMember
    <3> TAKE j \in 1 .. Len(es)
    <3>1. PICK l \in 1 .. Len(u) : c[j] = u[l]
      <4> HIDE DEF c, es, L
      <4> QED BY <1>5, <1>6
    <3> HIDE DEF c, es
    <3> QED BY <3>1
  <2>2. c = [j \in 1 .. Len(es) |-> c[j]]
    <3> HIDE DEF es
    <3> QED BY <1>5
  <2>3. DOMAIN c = DOMAIN es
    OBVIOUS
  <2> HIDE DEF c, es
  <2> QED BY <1>5, <2>1, <2>2, <2>3
<1>9. Unique(c)
  <2> SUFFICES ASSUME NEW i \in DOMAIN es, NEW j \in DOMAIN es,
                      c[i].name = c[j].name
               PROVE  i = j
    <3> HIDE DEF c, es
    <3> QED BY <1>8 DEF Unique
  <2> HIDE DEF c, es, L
  <2>1. PICK k \in 1 .. Len(u) : es[i] = L[k] /\ c[i] = u[k]
    BY <1>6
  <2>2. PICK l \in 1 .. Len(u) : es[j] = L[l] /\ c[j] = u[l]
    BY <1>6
  <2>3. k = l
    BY <1>3, <2>1, <2>2 DEF Unique
  <2> QED BY <1>4, <2>1, <2>2, <2>3 DEF IsInjective
<1>10. ToSet(c) = {m \in ToSet(u) : m.name # Symtab /\ m.name \notin names}
  <2>1. ASSUME NEW m \in ToSet(c)
        PROVE  m \in ToSet(u) /\ m.name # Symtab /\ m.name \notin names
    <3> HIDE DEF c, es
    <3>1. PICK j \in DOMAIN es : m = c[j]
      BY <1>8 DEF ToSet
    <3>2. PICK l \in 1 .. Len(u) : /\ c[j] = u[l] /\ u[l].name # Symtab
                                   /\ u[l].name \notin names
      BY <1>6
    <3> QED BY <1>3, <3>1, <3>2 DEF ToSet
  <2>2. ASSUME NEW m \in ToSet(u), m.name # Symtab, m.name \notin names
        PROVE  m \in ToSet(c)
    <3> HIDE DEF c, es
    <3>1. PICK j \in DOMAIN es : c[j] = m
      BY <1>7, <2>2
    <3> QED BY <1>8, <3>1 DEF ToSet
  <2> HIDE DEF c
  <2> QED BY <2>1, <2>2
<1> QED
  <2> HIDE DEF c
  <2> QED BY <1>2, <1>8, <1>9, <1>10 DEF Unreplaced

LEMMA UniqueJoin ==
  ASSUME NEW u \in Seq(AnyMember), NEW w \in Seq(AnyMember),
         Unique(u), Unique(w), Names(ToSet(u)) \cap Names(ToSet(w)) = {}
  PROVE  /\ u \o w \in Seq(AnyMember) /\ Unique(u \o w)
         /\ ToSet(u \o w) = ToSet(u) \cup ToSet(w)
<1> HIDE DEF AnyMember
<1>1. /\ DOMAIN u = 1 .. Len(u) /\ DOMAIN w = 1 .. Len(w)
      /\ Len(u) \in Nat /\ Len(w) \in Nat
  OBVIOUS
<1>2. /\ u \o w \in Seq(AnyMember) /\ Len(u \o w) = Len(u) + Len(w)
      /\ \A i \in 1 .. Len(u) + Len(w) :
           (u \o w)[i] = IF i <= Len(u) THEN u[i] ELSE w[i - Len(u)]
  BY ConcatProperties, Zenon
<1> DEFINE v == u \o w
<1> HIDE DEF v
<1>3. /\ v \in Seq(AnyMember) /\ DOMAIN v = 1 .. Len(u) + Len(w)
      /\ \A i \in 1 .. Len(u) : v[i] = u[i]
      /\ \A i \in 1 .. Len(w) : v[Len(u) + i] = w[i]
  <2>1. v \in Seq(AnyMember) /\ Len(v) = Len(u) + Len(w)
    BY <1>2 DEF v
  <2>2. \A i \in 1 .. Len(u) + Len(w) :
           v[i] = IF i <= Len(u) THEN u[i] ELSE w[i - Len(u)]
    BY <1>2 DEF v
  <2>3. DOMAIN v = 1 .. Len(u) + Len(w)
    BY <2>1
  <2>4. \A i \in 1 .. Len(u) : v[i] = u[i]
    BY <1>1, <2>2
  <2>5. ASSUME NEW i \in 1 .. Len(w) PROVE v[Len(u) + i] = w[i]
    <3>1. /\ Len(u) + i \in 1 .. Len(u) + Len(w) /\ ~(Len(u) + i <= Len(u))
          /\ (Len(u) + i) - Len(u) = i
      BY <1>1
    <3> QED BY <2>2, <3>1
  <2> QED BY <2>1, <2>3, <2>4, <2>5
<1>4. \A i \in DOMAIN v : \/ i \in 1 .. Len(u)
                          \/ \E j \in 1 .. Len(w) : i = Len(u) + j
  <2> TAKE i \in DOMAIN v
  <2>1. i \in 1 .. Len(u) \/ i - Len(u) \in 1 .. Len(w)
    BY <1>1, <1>3
  <2>2. i = Len(u) + (i - Len(u))
    BY <1>1, <1>3
  <2> QED BY <2>1, <2>2
<1>5. \A i \in 1 .. Len(u) : v[i].name \in Names(ToSet(u))
  BY <1>1, <1>3 DEF Names, ToSet
<1>6. \A i \in 1 .. Len(w) : v[Len(u) + i].name \in Names(ToSet(w))
  BY <1>1, <1>3 DEF Names, ToSet
<1>7. Unique(v)
  <2> SUFFICES ASSUME NEW i \in DOMAIN v, NEW j \in DOMAIN v,
                      v[i].name = v[j].name
               PROVE  i = j
    BY DEF Unique
  <2>1. CASE i \in 1 .. Len(u) /\ j \in 1 .. Len(u)
    BY <1>1, <1>3, <2>1 DEF Unique
  <2>2. CASE i \notin 1 .. Len(u) /\ j \notin 1 .. Len(u)
    <3>1. PICK k \in 1 .. Len(w) : i = Len(u) + k
      BY <1>4, <2>2
    <3>2. PICK l \in 1 .. Len(w) : j = Len(u) + l
      BY <1>4, <2>2
    <3>3. v[i] = w[k] /\ v[j] = w[l]
      BY <1>3, <3>1, <3>2
    <3>4. k = l
      BY <1>1, <3>3 DEF Unique
    <3> QED BY <3>1, <3>2, <3>4
  <2>3. CASE i \in 1 .. Len(u) /\ j \notin 1 .. Len(u)
    BY <1>4, <1>5, <1>6, <2>3
  <2>4. CASE i \notin 1 .. Len(u) /\ j \in 1 .. Len(u)
    BY <1>4, <1>5, <1>6, <2>4
  <2> QED BY <2>1, <2>2, <2>3, <2>4
<1>8. ToSet(v) = ToSet(u) \cup ToSet(w)
  <2>1. \A x \in ToSet(v) : x \in ToSet(u) \cup ToSet(w)
    <3> SUFFICES ASSUME NEW i \in DOMAIN v
                 PROVE  v[i] \in ToSet(u) \cup ToSet(w)
      BY DEF ToSet
    <3>1. CASE i \in 1 .. Len(u)
      BY <1>1, <1>3, <3>1 DEF ToSet
    <3>2. CASE \E j \in 1 .. Len(w) : i = Len(u) + j
      BY <1>1, <1>3, <3>2 DEF ToSet
    <3> QED BY <1>4, <3>1, <3>2
  <2>2. \A x \in ToSet(u) : x \in ToSet(v)
    <3> SUFFICES ASSUME NEW i \in 1 .. Len(u) PROVE u[i] \in ToSet(v)
      BY <1>1 DEF ToSet
    <3>1. i \in 1 .. Len(u) + Len(w)
      BY <1>1
    <3> QED BY <1>3, <3>1 DEF ToSet
  <2>3. \A x \in ToSet(w) : x \in ToSet(v)
    <3> SUFFICES ASSUME NEW i \in 1 .. Len(w) PROVE w[i] \in ToSet(v)
      BY <1>1 DEF ToSet
    <3>1. Len(u) + i \in 1 .. Len(u) + Len(w)
      BY <1>1
    <3> QED BY <1>3, <3>1 DEF ToSet
  <2> QED BY <2>1, <2>2, <2>3
<1> QED BY <1>3, <1>7, <1>8 DEF v

\* A tree that is staged: one file by a name.
StagedFile == [name : Payload, by : Nat \ {0}]
Tree(tree) ==
  /\ tree \subseteq StagedFile
  /\ \A a, b \in tree : a.name = b.name => a = b

LEMMA PayloadFacts ==
  /\ Payload \subseteq ToSet(Order) /\ "aliases" \in Payload
  /\ \A n \in Payload : FolderOf[n] \in ToSet(Order) \cup {NoFolder}
  /\ Order \in Seq(ToSet(Order)) /\ IsInjective(Order)
  /\ Bundled \in Seq(ToSet(Bundled)) /\ IsInjective(Bundled)
  /\ ".cosmo" \in ToSet(Bundled) /\ ".cosmo" \notin ToSet(Order)
  /\ Symtab \notin ToSet(Order)
  /\ Dict \notin ToSet(Order) /\ Dict \notin ToSet(Bundled)
<1>1. Order \in Seq(STRING) /\ Bundled \in Seq(STRING)
  BY PackAssumption, EmbedAssumption
<1>2. Order \in Seq(ToSet(Order)) /\ Bundled \in Seq(ToSet(Bundled))
  <2>1. \A s \in Seq(STRING) : s \in Seq(ToSet(s))
    <3> TAKE s \in Seq(STRING)
    <3>1. Len(s) \in Nat /\ s = [i \in 1 .. Len(s) |-> s[i]]
      OBVIOUS
    <3>2. \A i \in 1 .. Len(s) : s[i] \in ToSet(s)
      BY DEF ToSet
    <3> QED BY <3>1, <3>2
  <2> QED BY <1>1, <2>1
<1>3. Dict \notin ToSet(Order) /\ Dict \notin ToSet(Bundled)
  <2>1. ToSet(Order \o Bundled) = ToSet(Order) \cup ToSet(Bundled)
    <3> DEFINE v == Order \o Bundled
    <3>1. /\ Len(v) = Len(Order) + Len(Bundled) /\ DOMAIN v = 1 .. Len(v)
          /\ \A i \in 1 .. Len(Order) + Len(Bundled) :
               v[i] = IF i <= Len(Order) THEN Order[i]
                      ELSE Bundled[i - Len(Order)]
      BY <1>1, ConcatProperties
    <3>2. /\ DOMAIN Order = 1 .. Len(Order) /\ Len(Order) \in Nat
          /\ DOMAIN Bundled = 1 .. Len(Bundled) /\ Len(Bundled) \in Nat
      BY <1>1
    <3> HIDE DEF v
    <3>3. \A x \in ToSet(v) : x \in ToSet(Order) \cup ToSet(Bundled)
      <4> SUFFICES ASSUME NEW i \in 1 .. Len(Order) + Len(Bundled)
                   PROVE  v[i] \in ToSet(Order) \cup ToSet(Bundled)
        BY <3>1 DEF ToSet
      <4>1. i \in 1 .. Len(Order) \/ i - Len(Order) \in 1 .. Len(Bundled)
        BY <3>2
      <4> QED BY <3>1, <3>2, <4>1 DEF ToSet
    <3>4. \A x \in ToSet(Order) : x \in ToSet(v)
      <4> SUFFICES ASSUME NEW i \in 1 .. Len(Order) PROVE Order[i] \in ToSet(v)
        BY <3>2 DEF ToSet
      <4>1. i \in 1 .. Len(Order) + Len(Bundled) /\ i <= Len(Order)
        BY <3>2
      <4> QED BY <3>1, <4>1 DEF ToSet
    <3>5. \A x \in ToSet(Bundled) : x \in ToSet(v)
      <4> SUFFICES ASSUME NEW i \in 1 .. Len(Bundled)
                   PROVE  Bundled[i] \in ToSet(v)
        BY <3>2 DEF ToSet
      <4>1. /\ Len(Order) + i \in 1 .. Len(Order) + Len(Bundled)
            /\ ~(Len(Order) + i <= Len(Order))
            /\ (Len(Order) + i) - Len(Order) = i
        BY <3>2
      <4> QED BY <3>1, <4>1 DEF ToSet
    <3> QED BY <3>3, <3>4, <3>5 DEF v
  <2> QED BY <2>1, EmbedAssumption
<1>4. /\ Payload \subseteq ToSet(Order) /\ "aliases" \in Payload
      /\ \A n \in Payload : FolderOf[n] \in ToSet(Order) \cup {NoFolder}
  BY PackAssumption, EmbedAssumption
<1> QED BY <1>2, <1>3, <1>4, PackAssumption, EmbedAssumption

LEMMA CollectedFacts ==
  ASSUME NEW tree, Tree(tree)
  PROVE  /\ Names(tree) \subseteq Payload /\ Names(tree) \subseteq Collected(tree)
         /\ Collected(tree) \subseteq ToSet(Order)
         /\ Sorted(tree) \in Seq(ToSet(Order)) /\ IsInjective(Sorted(tree))
         /\ ToSet(Sorted(tree)) = Collected(tree)
<1>1. Names(tree) \subseteq Payload
  BY DEF Names, Tree, StagedFile
<1>2. /\ Names(tree) \subseteq Collected(tree)
      /\ Collected(tree) \subseteq ToSet(Order)
  BY <1>1, PayloadFacts DEF Collected
<1>3. /\ Sorted(tree) \in Seq(ToSet(Order))
      /\ ToSet(Sorted(tree)) = ToSet(Order) \cap Collected(tree)
      /\ IsInjective(Order) => IsInjective(Sorted(tree))
  BY PayloadFacts, OnlyFacts, Zenon DEF Sorted
<1> QED BY <1>1, <1>2, <1>3, PayloadFacts

\* emit_entry: a folder, or a file with its content.
LEMMA EmitFacts ==
  ASSUME NEW tree, Tree(tree), NEW d \in Nat, NEW n \in Collected(tree)
  PROVE  /\ Emit(tree, n, d) \in AnyMember /\ Emit(tree, n, d).name = n
         /\ n \notin Names(tree) => Emit(tree, n, d) = Member(n, 0, "store", 0)
         /\ \A m \in tree : m.name = n =>
              Emit(tree, n, d) = Member(n, m.by, Method(n),
                                        IF Method(n) = "zstd" THEN d ELSE 0)
<1>1. n \in AnyName
  BY CollectedFacts DEF AnyName
<1>2. CASE n \notin Names(tree)
  <2>1. Emit(tree, n, d) = Member(n, 0, "store", 0)
    BY <1>2 DEF Emit
  <2>2. \A m \in tree : m.name # n
    BY <1>2 DEF Names
  <2> QED BY <1>1, <1>2, <2>1, <2>2 DEF Member, AnyMember
<1>3. CASE n \in Names(tree)
  <2>1. PICK m \in tree : m.name = n
    BY <1>3 DEF Names
  <2>2. \A x \in tree : x.name = n => x = m
    BY <2>1 DEF Tree
  <2>3. (CHOOSE x \in tree : x.name = n) = m
    BY <2>1, <2>2
  <2>4. Emit(tree, n, d) = Member(n, m.by, Method(n),
                                  IF Method(n) = "zstd" THEN d ELSE 0)
    BY <1>3, <2>3 DEF Emit
  <2>5. m.by \in Nat
    BY <2>1 DEF Tree, StagedFile
  <2>6. Method(n) \in {"deflate", "zstd"}
    BY DEF Method
  <2>7. Emit(tree, n, d) \in AnyMember /\ Emit(tree, n, d).name = n
    BY <1>1, <2>4, <2>5, <2>6 DEF Member, AnyMember
  <2> QED BY <1>3, <2>2, <2>4, <2>7
<1> QED BY <1>2, <1>3

\* main: what is in the archive.
Dictionary(d) == IF d = 0 THEN {} ELSE {Member(Dict, d, "store", 0)}
Files(tree, d) == {Emit(tree, n, d) : n \in Collected(tree)}

InPack(c, tree, d) ==
  c \o (IF d = 0 THEN <<>> ELSE <<Member(Dict, d, "store", 0)>>)
    \o [j \in DOMAIN Sorted(tree) |-> Emit(tree, Sorted(tree)[j], d)]

LEMMA PackFacts ==
  ASSUME NEW tree, Tree(tree), NEW d \in Nat, NEW c \in Seq(AnyMember),
         Unique(c), Dict \notin Names(ToSet(c)),
         Names(ToSet(c)) \cap Collected(tree) = {}
  PROVE  /\ \A b : Pack(c, tree, d, b) = Archive(InPack(c, tree, d), b)
         /\ InPack(c, tree, d) \in Seq(AnyMember)
         /\ Unique(InPack(c, tree, d))
         /\ ToSet(InPack(c, tree, d)) =
              (ToSet(c) \cup Dictionary(d)) \cup Files(tree, d)
<1> DEFINE z == IF d = 0 THEN <<>> ELSE <<Member(Dict, d, "store", 0)>>
           names == Sorted(tree)
           w == [j \in DOMAIN names |-> Emit(tree, names[j], d)]
<1>1. \A b : Pack(c, tree, d, b) = Archive(InPack(c, tree, d), b)
  BY DEF Pack, InPack
<1>2. /\ z \in Seq(AnyMember) /\ Unique(z) /\ ToSet(z) = Dictionary(d)
      /\ Names(ToSet(z)) \subseteq {Dict}
  <2>1. CASE d = 0
    BY <2>1 DEF Unique, ToSet, Dictionary, Names
  <2>2. CASE d # 0
    <3> DEFINE m == Member(Dict, d, "store", 0)
    <3>1. m \in AnyMember /\ m.name = Dict
      BY DEF Member, AnyMember, AnyName
    <3> HIDE DEF m
    <3>2. <<m>> \in Seq(AnyMember) /\ DOMAIN <<m>> = {1} /\ <<m>>[1] = m
      BY <3>1
    <3>3. z = <<m>> /\ Dictionary(d) = {m}
      BY <2>2 DEF m, Dictionary
    <3>4. ToSet(<<m>>) = {m}
      BY <3>2 DEF ToSet
    <3> HIDE DEF z
    <3> QED BY <3>1, <3>2, <3>3, <3>4 DEF Unique, Names
  <2> QED BY <2>1, <2>2
<1>3. /\ names \in Seq(ToSet(Order)) /\ ToSet(names) = Collected(tree)
      /\ IsInjective(names)
  BY CollectedFacts
<1>4. DOMAIN names = 1 .. Len(names) /\ Len(names) \in Nat
  <2> HIDE DEF names
  <2> QED BY <1>3
<1>5. \A j \in DOMAIN names :
        /\ names[j] \in Collected(tree) /\ w[j] = Emit(tree, names[j], d)
        /\ w[j] \in AnyMember /\ w[j].name = names[j]
  <2> TAKE j \in DOMAIN names
  <2>1. names[j] \in Collected(tree)
    <3> HIDE DEF names
    <3> QED BY <1>3 DEF ToSet
  <2>2. w[j] = Emit(tree, names[j], d)
    <3> HIDE DEF names
    <3> QED OBVIOUS
  <2> HIDE DEF w, names
  <2> QED BY <2>1, <2>2, EmitFacts
<1>6. w \in Seq(AnyMember) /\ DOMAIN w = DOMAIN names
  <2>1. w = [j \in 1 .. Len(names) |-> w[j]]
    <3> HIDE DEF names
    <3> QED BY <1>4
  <2>2. DOMAIN w = DOMAIN names
    OBVIOUS
  <2> HIDE DEF w, names
  <2> QED BY <1>4, <1>5, <2>1, <2>2
<1>7. Unique(w)
  <2> HIDE DEF w, names
  <2> QED BY <1>3, <1>5, <1>6 DEF Unique, IsInjective
<1>8. ToSet(w) = Files(tree, d)
  <2> HIDE DEF w, names
  <2>1. \A x \in ToSet(w) : x \in Files(tree, d)
    BY <1>5, <1>6 DEF ToSet, Files
  <2>2. ASSUME NEW n \in Collected(tree) PROVE Emit(tree, n, d) \in ToSet(w)
    <3>1. PICK j \in DOMAIN names : names[j] = n
      BY <1>3 DEF ToSet
    <3> QED BY <1>5, <1>6, <3>1 DEF ToSet
  <2> QED BY <2>1, <2>2 DEF Files
<1>9. Names(ToSet(w)) = Collected(tree)
  <2> HIDE DEF w, names
  <2>1. \A n \in Collected(tree) : Emit(tree, n, d).name = n
    BY EmitFacts
  <2> QED BY <1>8, <2>1 DEF Files, Names
<1>10. Dict \notin Collected(tree)
  BY CollectedFacts, PayloadFacts
<1> HIDE DEF z, w, names
<1>11. /\ c \o z \in Seq(AnyMember) /\ Unique(c \o z)
       /\ ToSet(c \o z) = ToSet(c) \cup Dictionary(d)
  <2>1. Names(ToSet(c)) \cap Names(ToSet(z)) = {}
    BY <1>2
  <2> QED BY <1>2, <2>1, UniqueJoin
<1>12. Names(ToSet(c \o z)) \cap Names(ToSet(w)) = {}
  <2>1. Names(ToSet(c \o z)) = Names(ToSet(c)) \cup Names(ToSet(z))
    BY <1>2, <1>11 DEF Names
  <2> QED BY <1>2, <1>9, <1>10, <2>1
<1>13. /\ (c \o z) \o w \in Seq(AnyMember) /\ Unique((c \o z) \o w)
       /\ ToSet((c \o z) \o w) =
            (ToSet(c) \cup Dictionary(d)) \cup Files(tree, d)
  <2> DEFINE cz == c \o z
  <2> HIDE DEF cz
  <2>1. /\ cz \in Seq(AnyMember) /\ Unique(cz)
        /\ ToSet(cz) = ToSet(c) \cup Dictionary(d)
        /\ Names(ToSet(cz)) \cap Names(ToSet(w)) = {}
    BY <1>11, <1>12 DEF cz
  <2>2. /\ cz \o w \in Seq(AnyMember) /\ Unique(cz \o w)
        /\ ToSet(cz \o w) = ToSet(cz) \cup ToSet(w)
    BY <1>6, <1>7, <2>1, UniqueJoin
  <2>3. ToSet(cz \o w) = (ToSet(c) \cup Dictionary(d)) \cup Files(tree, d)
    BY <1>8, <2>1, <2>2
  <2> QED BY <2>2, <2>3 DEF cz
<1>14. InPack(c, tree, d) = (c \o z) \o w
  BY DEF InPack, z, w, names
<1> QED BY <1>1, <1>13, <1>14

-------------------------------------------------------------------------------
(* The inductive invariant of a build (EmbedZip).                          *)

\* What an archive holds can be decoded; or needs no dictionary at all.
Decodes(u) ==
  \A m \in ToSet(u) : m.dict # 0 => Member(Dict, m.dict, "store", 0) \in ToSet(u)
NoDictionary(u) == \A m \in ToSet(u) : m.dict = 0 /\ m.name # Dict

\* It has a staged file, the aliases in a form that old readers can read.
Shows(u, m) ==
  \E v \in ToSet(u) :
    /\ v.name = m.name /\ v.by = m.by
    /\ m.name = "aliases" => v = Member("aliases", m.by, "deflate", 0)

\* On Cosmopolitan it has what the linker put there; elsewhere, nothing else.
Stores(u) ==
  IF target = "cosmo"
  THEN /\ ToSet(Bundled) \ {Symtab} \subseteq Names(ToSet(u))
       /\ \A m \in ToSet(u) : m.by = 0 => m.method # "zstd"
  ELSE Names(ToSet(u)) \subseteq ToSet(Order) \cup {Dict}

\* The archive of a build that has staged `tree`.
Holds(u, tree) ==
  /\ Unique(u) /\ u # <<>> /\ Decodes(u) /\ Stores(u)
  /\ \A m \in tree : Shows(u, m)
  /\ tree # {} => target # "cosmo" \/ Symtab \notin Names(ToSet(u))
  /\ Names(tree) \subseteq {"aliases"} => NoDictionary(u)

\* What a build starts from has at most one archive, and no dictionary.
BaseInv ==
  \/ base = <<Program>> /\ target # "cosmo"
  \/ \E u \in Seq(AnyMember) :
       /\ base = <<Program>> \o Archive(u, 1)
       /\ Unique(u) /\ u # <<>> /\ NoDictionary(u) /\ Stores(u)

\* The binary is what a build finds, and the archive behind it.
FileInv ==
  Whole => \/ target # "cosmo" /\ acc = {} /\ file = Kept
           \/ \E u \in Seq(AnyMember) :
                file = Kept \o Archive(u, Len(Kept)) /\ Holds(u, acc)

\* What the build remembers between its calls.
CallsInv ==
  phase \in {"build", "wrap", "wrapped"} =>
    IF acc = {} THEN size = -1 /\ src = <<>> /\ file = Stripped(base)
    ELSE IF target = "cosmo" THEN size = -1 /\ src = base
    ELSE size = Len(Kept) /\ src = <<>>

\* What it has staged is the latest of what its calls brought.
Later(i, name) ==
  \E j \in DOMAIN log : /\ j > i /\ log[j].in = log[i].in
                        /\ name \in Names(log[j].stage)
Logged == [in : {"build", "wrap"}, stage : SUBSET StagedFile,
           list : {"declared", "found"}]
LogInv ==
  /\ log \in Seq(Logged)
  /\ \A i \in DOMAIN log : log[i].in = "build" =>
       \A m \in log[i].stage : m.by = i
  /\ phase \in {"build", "wrap"} => \A i \in DOMAIN log : log[i].in = "build"
  /\ phase = "build" =>
       /\ base = Linked
       /\ acc = {} => log = <<>>
       /\ \A m \in acc : \E i \in DOMAIN log : m \in log[i].stage
  /\ Whole => \A i \in DOMAIN log : log[i].in = Current =>
       \A m \in log[i].stage : Later(i, m.name) \/ m \in acc

\* The list of aliases, from the build to what is shipped.
ListOf(i) == [name |-> "aliases", by |-> i]
Undeclared ==
  \A i \in DOMAIN log : log[i].in = "build" \/ log[i].list # "declared"
AliasInv ==
  /\ phase = "wrap" =>
       /\ acc = {}
       /\ ReadBack = IF log = <<>> THEN {} ELSE {ListOf(Len(log))}
  /\ phase \in {"wrap", "wrapped"} =>
       \A i \in DOMAIN log :
         log[i].in = "build" => Names(log[i].stage) = {"aliases"}
  /\ phase = "wrapped" /\ (\A i \in DOMAIN log : log[i].in = "build") =>
       log = <<>>
  /\ phase \in {"wrapped", "shipped"} /\ Undeclared =>
       \A i \in DOMAIN log :
         log[i].in = "build" /\ "aliases" \in Names(log[i].stage) =>
           Later(i, "aliases") \/ ListOf(i) \in acc

ShipInv == phase = "shipped" /\ target = "cosmo" => Symtab \notin Listed(file)

Phases == {"build", "wrap", "wrapped", "shipped", "failed"}

IInv ==
  /\ target \in {"native", "mingw", "cosmo"} /\ phase \in Phases
  /\ Whole => Tree(acc)
  /\ BaseInv /\ FileInv /\ CallsInv /\ LogInv /\ AliasInv /\ ShipInv

-------------------------------------------------------------------------------
(* What a build finds, and what an embedding makes of it.                  *)

LEMMA ProgramOnly ==
  /\ <<Program>> \in Seq(Unit) /\ Len(<<Program>>) = 1
  /\ Listing(<<Program>>) = <<>> /\ Listed(<<Program>>) = {}
  /\ Visible(<<Program>>) = {}
<1>1. Program \in Unit
  BY DEF Unit
<1>2. <<Program>> \in Seq(Unit) /\ Len(<<Program>>) = 1
      /\ <<Program>>[1] = Program
  <2> HIDE DEF Program, Unit
  <2> QED BY <1>1
<1>3. Listing(<<Program>>) = <<>>
  <2> DEFINE f == <<Program>>
  <2>1. f[Len(f)] = Program
    <3> HIDE DEF Program
    <3> QED BY <1>2
  <2> HIDE DEF f
  <2>2. "entries" \notin DOMAIN f[Len(f)]
    BY <2>1, Shapes
  <2>3. Listing(f) = <<>>
    BY <2>2 DEF Listing
  <2> QED BY <2>3 DEF f
<1>4. ToSet(Listing(<<Program>>)) = {}
  BY <1>3 DEF ToSet
<1>5. Listed(<<Program>>) = {} /\ Visible(<<Program>>) = {}
  BY <1>4 DEF Listed, Names, Visible
<1> QED BY <1>2, <1>3, <1>5

\* The base of a Cosmopolitan build, and of any other one.
CosmoBase(u) ==
  /\ base = <<Program>> \o Archive(u, 1)
  /\ Unique(u) /\ u # <<>> /\ NoDictionary(u) /\ Stores(u)

LEMMA KeptFacts ==
  ASSUME BaseInv, target \in {"native", "mingw", "cosmo"}
  PROVE  /\ Kept \in Seq(Unit) /\ Len(Kept) \in Nat \ {0}
         /\ target = "cosmo" =>
              /\ Kept = <<Program>> /\ Stripped(base) = base
              /\ \E u \in Seq(AnyMember) : CosmoBase(u)
         /\ target # "cosmo" =>
              /\ Stripped(base) = Kept
              /\ ".cosmo" \notin Listed(Kept) /\ Symtab \notin Listed(Kept)
<1>1. CASE target = "cosmo"
  <2>1. Kept = <<Program>> /\ Stripped(base) = base
    BY <1>1 DEF Kept, Stripped
  <2>2. \E u \in Seq(AnyMember) : CosmoBase(u)
    BY <1>1 DEF BaseInv, CosmoBase
  <2> QED BY <1>1, <2>1, <2>2, ProgramOnly
<1>2. CASE target # "cosmo" /\ Stripped(base) = <<Program>>
  <2>1. Kept = <<Program>>
    BY <1>2 DEF Kept
  <2> QED BY <1>2, <2>1, ProgramOnly
<1>3. CASE target # "cosmo" /\ Stripped(base) # <<Program>>
  <2>1. Stripped(base) = base /\ Kept = base /\ base # <<Program>>
    BY <1>3 DEF Kept, Stripped
  <2>2. PICK u \in Seq(AnyMember) : CosmoBase(u)
    BY <2>1 DEF BaseInv, CosmoBase
  <2>3. base = <<Program>> \o Archive(u, Len(<<Program>>))
    BY <2>2, ProgramOnly DEF CosmoBase
  <2>4. base \in Seq(Unit) /\ Len(base) = 1 + Len(u) + 1
    <3>1. base \in Seq(Unit) /\ Len(base) = Len(<<Program>>) + Len(u) + 1
      BY <2>3, ArchiveUnits, ProgramOnly, ZenonT(40)
    <3> QED BY <3>1, ProgramOnly, Zenon
  <2>5. Listed(base) = Names(ToSet(u))
    BY <2>3, ArchiveRead, ProgramOnly
  <2>6. ".cosmo" \notin Names(ToSet(u)) /\ Symtab \notin Names(ToSet(u))
    <3>1. Names(ToSet(u)) \subseteq ToSet(Order) \cup {Dict}
      BY <1>3, <2>2 DEF CosmoBase, Stores
    <3>2. /\ ".cosmo" # Dict /\ ".cosmo" \notin ToSet(Order)
          /\ Symtab # Dict /\ Symtab \notin ToSet(Order)
      BY PayloadFacts DEF Symtab, Dict
    <3> QED BY <3>1, <3>2
  <2>7. Len(base) \in Nat \ {0}
    <3>1. Len(u) \in Nat
      OBVIOUS
    <3> QED BY <2>4, <3>1
  <2> QED BY <1>3, <2>1, <2>4, <2>5, <2>6, <2>7
<1> QED BY <1>1, <1>2, <1>3

\* A binary with an archive behind what it was, and the units of it.
Backs(u, tree) ==
  file = Kept \o Archive(u, Len(Kept)) /\ Holds(u, tree)

LEMMA ApeFacts ==
  ASSUME IInv, Whole
  PROVE  IsApe <=> target = "cosmo"
<1>1. BaseInv /\ target \in {"native", "mingw", "cosmo"}
  BY DEF IInv
<1>2. CASE target # "cosmo" /\ acc = {} /\ file = Kept
  BY <1>1, <1>2, KeptFacts DEF IsApe
<1>3. CASE \E u \in Seq(AnyMember) : Backs(u, acc)
  <2>1. PICK u \in Seq(AnyMember) : Backs(u, acc)
    BY <1>3
  <2>2. Listed(file) = Names(ToSet(u))
    <3>1. Kept \in Seq(Unit) /\ file = Kept \o Archive(u, Len(Kept))
      BY <1>1, <2>1, KeptFacts DEF Backs
    <3> QED BY <3>1, ArchiveRead
  <2>3. Stores(u)
    BY <2>1 DEF Backs, Holds
  <2>4. CASE target = "cosmo"
    <3>1. ".cosmo" \in ToSet(Bundled) \ {Symtab}
      BY PayloadFacts DEF Symtab
    <3>2. ToSet(Bundled) \ {Symtab} \subseteq Names(ToSet(u))
      BY <2>3, <2>4 DEF Stores
    <3> QED BY <2>2, <2>4, <3>1, <3>2 DEF IsApe
  <2>5. CASE target # "cosmo"
    <3>1. Names(ToSet(u)) \subseteq ToSet(Order) \cup {Dict}
      BY <2>3, <2>5 DEF Stores
    <3>2. ".cosmo" # Dict /\ ".cosmo" \notin ToSet(Order)
      BY PayloadFacts
    <3> QED BY <2>2, <2>5, <3>1, <3>2 DEF IsApe
  <2> QED BY <2>4, <2>5
<1>4. FileInv
  BY DEF IInv
<1> QED BY <1>2, <1>3, <1>4 DEF FileInv, Backs

\* What an embedding carries over, into an archive with the tree.
CarriesFor(c, tree) ==
  /\ c \in Seq(AnyMember) /\ Unique(c) /\ NoDictionary(c)
  /\ Names(ToSet(c)) \cap Collected(tree) = {}
  /\ Symtab \notin Names(ToSet(c))
  /\ \A m \in ToSet(c) : m.by = 0 => m.method # "zstd"
  /\ IF target = "cosmo"
     THEN ToSet(Bundled) \ {Symtab} \subseteq Names(ToSet(c)) \cup Collected(tree)
     ELSE c = <<>>

LEMMA PackHolds ==
  ASSUME NEW tree, Tree(tree), tree # {}, NEW d \in Nat,
         Names(tree) = {"aliases"} => d = 0,
         NEW c, CarriesFor(c, tree), NEW u, u = InPack(c, tree, d)
  PROVE  u \in Seq(AnyMember) /\ Holds(u, tree)
<1>1. Dict \notin Names(ToSet(c))
  BY DEF CarriesFor, NoDictionary, Names
<1>2. /\ u \in Seq(AnyMember) /\ Unique(u)
      /\ ToSet(u) = (ToSet(c) \cup Dictionary(d)) \cup Files(tree, d)
  BY <1>1, PackFacts DEF CarriesFor
<1> DEFINE U == ToSet(u)
<1>3. /\ Names(tree) \subseteq Payload /\ Names(tree) \subseteq Collected(tree)
      /\ Collected(tree) \subseteq ToSet(Order)
  BY CollectedFacts
<1>4. \A x \in Dictionary(d) : x = Member(Dict, d, "store", 0) /\ d # 0
  BY DEF Dictionary
<1>5. ASSUME NEW n \in Collected(tree)
      PROVE  LET e == Emit(tree, n, d)
             IN  /\ e.name = n /\ (e.dict = 0 \/ e.dict = d)
                 /\ e.by = 0 => e.method # "zstd"
  <2>1. CASE n \notin Names(tree)
    <3>1. Emit(tree, n, d) = Member(n, 0, "store", 0)
      BY <1>5, <2>1, EmitFacts
    <3> QED BY <3>1 DEF Member
  <2>2. CASE n \in Names(tree)
    <3>1. PICK m \in tree : m.name = n
      BY <2>2 DEF Names
    <3>2. Emit(tree, n, d) = Member(n, m.by, Method(n),
                                    IF Method(n) = "zstd" THEN d ELSE 0)
      BY <1>5, <3>1, EmitFacts
    <3>3. m.by # 0
      BY <3>1 DEF Tree, StagedFile
    <3> QED BY <3>2, <3>3 DEF Member
  <2> QED BY <2>1, <2>2
<1>6. Decodes(u)
  <2> SUFFICES ASSUME NEW m \in U, m.dict # 0
               PROVE  Member(Dict, m.dict, "store", 0) \in U
    BY DEF Decodes
  <2>1. m \notin ToSet(c)
    BY DEF CarriesFor, NoDictionary
  <2>2. m \notin Dictionary(d)
    BY <1>4 DEF Member
  <2>3. PICK n \in Collected(tree) : m = Emit(tree, n, d)
    BY <1>2, <2>1, <2>2 DEF Files
  <2>4. m.dict = d
    BY <1>5, <2>3
  <2>5. Member(Dict, d, "store", 0) \in Dictionary(d)
    BY <2>4 DEF Dictionary
  <2> QED BY <1>2, <2>4, <2>5
<1>7. Names(ToSet(u)) =
        (Names(ToSet(c)) \cup Names(Dictionary(d))) \cup Collected(tree)
  <2>1. Names(Files(tree, d)) = Collected(tree)
    BY <1>5 DEF Names, Files
  <2>2. Names(ToSet(u)) = (Names(ToSet(c)) \cup Names(Dictionary(d)))
                          \cup Names(Files(tree, d))
    BY <1>2 DEF Names
  <2> QED BY <2>1, <2>2
<1>8. Names(Dictionary(d)) \subseteq {Dict}
  BY <1>4 DEF Names, Member
<1>9. Stores(u)
  <2>1. CASE target = "cosmo"
    <3>1. ToSet(Bundled) \ {Symtab} \subseteq Names(ToSet(u))
      BY <1>7, <2>1 DEF CarriesFor
    <3>2. ASSUME NEW m \in ToSet(u), m.by = 0 PROVE m.method # "zstd"
      <4>1. CASE m \in ToSet(c)
        BY <3>2, <4>1 DEF CarriesFor
      <4>2. CASE m \in Dictionary(d)
        BY <1>4, <4>2 DEF Member
      <4>3. CASE m \in Files(tree, d)
        <5>1. PICK n \in Collected(tree) : m = Emit(tree, n, d)
          BY <4>3 DEF Files
        <5> QED BY <1>5, <3>2, <5>1
      <4> QED BY <1>2, <4>1, <4>2, <4>3
    <3> QED BY <2>1, <3>1, <3>2 DEF Stores
  <2>2. CASE target # "cosmo"
    <3>1. Names(ToSet(c)) = {}
      BY <2>2 DEF CarriesFor, Names, ToSet
    <3> QED BY <1>3, <1>7, <1>8, <2>2, <3>1 DEF Stores
  <2> QED BY <2>1, <2>2
<1>10. ASSUME NEW m \in tree PROVE Shows(u, m)
  <2>1. m.name \in Collected(tree)
    BY <1>3 DEF Names
  <2>2. Emit(tree, m.name, d) =
          Member(m.name, m.by, Method(m.name),
                 IF Method(m.name) = "zstd" THEN d ELSE 0)
    BY <2>1, EmitFacts
  <2>3. Emit(tree, m.name, d) \in ToSet(u)
    BY <1>2, <2>1 DEF Files
  <2>4. /\ Emit(tree, m.name, d).name = m.name
        /\ Emit(tree, m.name, d).by = m.by
    BY <2>2 DEF Member
  <2>5. m.name = "aliases" =>
          Emit(tree, m.name, d) = Member("aliases", m.by, "deflate", 0)
    BY <2>2 DEF Method
  <2> QED BY <2>3, <2>4, <2>5 DEF Shows
<1>11. Symtab \notin Names(ToSet(u))
  <2>1. Symtab # Dict
    BY DEF Symtab, Dict
  <2> QED BY <1>3, <1>7, <1>8, <2>1, PayloadFacts DEF CarriesFor
<1>12. Names(tree) # {}
  BY DEF Names
<1>13. Names(tree) \subseteq {"aliases"} => NoDictionary(u)
  <2> SUFFICES ASSUME Names(tree) \subseteq {"aliases"}, NEW m \in ToSet(u)
               PROVE  m.dict = 0 /\ m.name # Dict
    BY DEF NoDictionary
  <2>1. d = 0
    BY <1>12
  <2>2. CASE m \in ToSet(c)
    BY <2>2 DEF CarriesFor, NoDictionary
  <2>3. CASE m \in Files(tree, d)
    <3>1. PICK n \in Collected(tree) : m = Emit(tree, n, d)
      BY <2>3 DEF Files
    <3> QED BY <1>3, <1>5, <2>1, <3>1, PayloadFacts
  <2>4. m \notin Dictionary(d)
    BY <1>4, <2>1
  <2> QED BY <1>2, <2>2, <2>3, <2>4
<1>14. u # <<>>
  <2>1. PICK m \in tree : TRUE
    OBVIOUS
  <2>2. ToSet(u) # {}
    BY <1>10, <2>1 DEF Shows
  <2> QED BY <2>2 DEF ToSet
<1> QED BY <1>2, <1>6, <1>9, <1>10, <1>11, <1>13, <1>14 DEF Holds

\* carry_from, on what a Cosmopolitan build started from.
LEMMA CarriedFor ==
  ASSUME BaseInv, target = "cosmo", NEW tree, Tree(tree)
  PROVE  CarryBase(base) = 1 /\ CarriesFor(Carry(base, Collected(tree)), tree)
<1>1. PICK u \in Seq(AnyMember) : CosmoBase(u)
  BY KeptFacts
<1> DEFINE c == Carry(base, Collected(tree))
           p == <<Program>>
<1>2. p \in Seq(Unit) /\ Len(p) = 1
  BY ProgramOnly
<1> HIDE DEF p
<1>3. base = p \o Archive(u, Len(p)) /\ Unique(u) /\ u # <<>>
      /\ NoDictionary(u) /\ Stores(u)
  BY <1>1, <1>2 DEF CosmoBase, p
<1>4. CarryBase(base) = 1
  BY <1>2, <1>3, ArchiveRead
<1>5. /\ c \in Seq(AnyMember) /\ Unique(c)
      /\ ToSet(c) = {m \in ToSet(u) : /\ m.name # Symtab
                                      /\ m.name \notin Collected(tree)}
  <2>1. /\ c \in Seq(AnyMember) /\ Unique(c)
        /\ ToSet(c) = Unreplaced(u, Collected(tree))
    BY <1>2, <1>3, CarryFacts, Zenon
  <2> QED BY <2>1 DEF Unreplaced
<1> HIDE DEF c
<1>6. /\ NoDictionary(c) /\ Symtab \notin Names(ToSet(c))
      /\ Names(ToSet(c)) \cap Collected(tree) = {}
  BY <1>3, <1>5 DEF NoDictionary, Names
<1>7. \A m \in ToSet(c) : m.by = 0 => m.method # "zstd"
  BY <1>3, <1>5 DEF Stores
<1>8. ToSet(Bundled) \ {Symtab} \subseteq Names(ToSet(c)) \cup Collected(tree)
  <2> SUFFICES ASSUME NEW n \in ToSet(Bundled) \ {Symtab},
                      n \notin Collected(tree)
               PROVE  n \in Names(ToSet(c))
    OBVIOUS
  <2>1. PICK m \in ToSet(u) : m.name = n
    BY <1>3 DEF Stores, Names
  <2>2. m \in ToSet(c)
    BY <1>5, <2>1
  <2> QED BY <2>1, <2>2 DEF Names
<1> QED BY <1>4, <1>5, <1>6, <1>7, <1>8 DEF CarriesFor, c

LEMMA MergeTree ==
  ASSUME NEW tree, NEW stage, Tree(tree), Tree(stage), stage # {}
  PROVE  /\ Tree(Merge(tree, stage)) /\ Merge(tree, stage) # {}
         /\ stage \subseteq Merge(tree, stage)
         /\ Merge(tree, stage) \subseteq tree \cup stage
         /\ \A m \in tree : m \in Merge(tree, stage) \/ m.name \in Names(stage)
<1>1. ASSUME NEW a \in Merge(tree, stage), NEW b \in Merge(tree, stage),
             a.name = b.name
      PROVE  a = b
  BY <1>1 DEF Tree, Merge, Names
<1>2. /\ Merge(tree, stage) \subseteq tree \cup stage
      /\ stage \subseteq Merge(tree, stage)
      /\ \A m \in tree : m \in Merge(tree, stage) \/ m.name \in Names(stage)
  BY DEF Merge
<1> QED BY <1>1, <1>2 DEF Tree

\* What every embedding leaves, of whichever build.
LEMMA EmbedMakes ==
  ASSUME IInv, phase \in {"build", "wrap"},
         NEW stage, Tree(stage), stage # {}, NEW trained \in BOOLEAN,
         NEW next, Embed(stage, trained, next)
  PROVE  /\ acc' = Merge(acc, stage) /\ Tree(acc') /\ acc' # {}
         /\ phase' \in {next, "failed"}
         /\ \E u \in Seq(AnyMember) :
              file' = Kept \o Archive(u, Len(Kept)) /\ Holds(u, acc')
         /\ IF target = "cosmo" THEN size' = -1 /\ src' = base
            ELSE size' = Len(Kept) /\ src' = <<>>
<1> DEFINE tree == Merge(acc, stage)
           d == IF trained THEN Call ELSE 0
           c == Carried(tree)
           u == InPack(c, tree, d)
<1>1. /\ Whole /\ Tree(acc) /\ BaseInv /\ FileInv /\ CallsInv
      /\ target \in {"native", "mingw", "cosmo"}
  BY DEF IInv, Whole
<1>2. IsApe <=> target = "cosmo"
  BY <1>1, ApeFacts
<1>3. Tree(tree) /\ tree # {}
  BY <1>1, MergeTree
<1> HIDE DEF tree
<1>4. d \in Nat
  <2>1. Len(log) \in Nat
    <3>1. log \in Seq(Logged)
      BY DEF IInv, LogInv
    <3> QED BY <3>1
  <2> QED BY <2>1 DEF Call
<1> HIDE DEF d
<1>5. /\ Kept \in Seq(Unit) /\ Len(Kept) \in Nat \ {0}
      /\ target = "cosmo" => Kept = <<Program>> /\ Stripped(base) = base
      /\ target # "cosmo" => Stripped(base) = Kept
  BY <1>1, KeptFacts
<1>6. \/ target # "cosmo" /\ acc = {} /\ file = Kept
      \/ \E v \in Seq(AnyMember) : Backs(v, acc)
  BY <1>1 DEF FileInv, Backs
<1>7. \A v \in Seq(AnyMember) : Backs(v, acc) => SubSeq(file, 1, Len(Kept)) = Kept
  <2> SUFFICES ASSUME NEW v \in Seq(AnyMember), Backs(v, acc)
               PROVE  SubSeq(file, 1, Len(Kept)) = Kept
    OBVIOUS
  <2>1. file = Kept \o Archive(v, Len(Kept))
    BY DEF Backs
  <2> QED BY <1>5, <2>1, ArchiveUnits
<1>7a. target = "cosmo" => Snapshot = base
  <2>1. CASE target = "cosmo" /\ acc = {}
    BY <1>1, <1>5, <2>1 DEF CallsInv, Snapshot
  <2>2. CASE target = "cosmo" /\ acc # {}
    <3>1. src = base
      BY <1>1, <2>2 DEF CallsInv
    <3>2. base # <<>>
      <4>1. PICK v \in Seq(AnyMember) : CosmoBase(v)
        BY <1>1, <2>2, KeptFacts
      <4>2. base = <<Program>> \o Archive(v, Len(<<Program>>))
        BY <4>1, ProgramOnly DEF CosmoBase
      <4>3. Len(base) = Len(<<Program>>) + Len(v) + 1 /\ Len(v) \in Nat
        BY <4>2, ProgramOnly, ArchiveUnits, ZenonT(40)
      <4> QED BY <4>3, ProgramOnly
    <3> QED BY <3>1, <3>2 DEF Snapshot
  <2> QED BY <2>1, <2>2
<1>8. /\ SubSeq(Cut, 1, Base) = Kept /\ Base = Len(Kept)
      /\ CarriesFor(c, tree)
  <2>1. CASE target = "cosmo"
    <3>2. Base = 1 /\ c = Carry(base, Collected(tree))
      BY <1>1, <1>2, <1>3, <1>7a, <2>1, CarriedFor DEF Base, Carried
    <3>3. CarriesFor(c, tree)
      BY <1>1, <1>3, <2>1, <3>2, CarriedFor
    <3>4. Cut = file
      BY <1>2, <2>1 DEF Cut
    <3>5. SubSeq(file, 1, Len(Kept)) = Kept
      BY <1>6, <1>7, <2>1
    <3>6. Len(Kept) = 1
      BY <1>5, <2>1, ProgramOnly
    <3> QED BY <3>2, <3>3, <3>4, <3>5, <3>6
  <2>2. CASE target # "cosmo"
    <3>1. Cut = Kept
      <4>1. CASE acc = {}
        BY <1>1, <1>5, <2>2, <4>1 DEF CallsInv, Cut
      <4>2. CASE acc # {}
        <5>1. size = Len(Kept) /\ size # -1
          BY <1>1, <1>5, <2>2, <4>2 DEF CallsInv
        <5> QED BY <1>2, <1>6, <1>7, <2>2, <4>2, <5>1 DEF Cut
      <4> QED BY <4>1, <4>2
    <3>2. Base = Len(Kept) /\ c = <<>>
      BY <1>2, <2>2, <3>1 DEF Base, Carried
    <3>3. SubSeq(Kept, 1, Len(Kept)) = Kept
      <4> HIDE DEF Unit
      <4> QED BY <1>5
    <3>4. CarriesFor(<<>>, tree)
      <4>1. ToSet(<<>>) = {} /\ <<>> \in Seq(AnyMember)
        BY DEF ToSet
      <4> QED BY <2>2, <4>1 DEF CarriesFor, Unique, NoDictionary, Names
    <3> QED BY <3>1, <3>2, <3>3, <3>4
  <2> QED BY <2>1, <2>2
<1> HIDE DEF c
<1>9. Names(tree) = {"aliases"} => d = 0
  BY DEF Embed, tree, d
<1>10. u \in Seq(AnyMember) /\ Holds(u, tree)
  BY <1>3, <1>4, <1>8, <1>9, PackHolds
<1>11. file' = Kept \o Pack(c, tree, d, Len(Kept))
  BY <1>8, Zenon DEF Embed, tree, d, c
<1>12. Pack(c, tree, d, Len(Kept)) = Archive(u, Len(Kept))
  BY DEF Pack, InPack
<1>13. acc' = tree /\ phase' \in {next, "failed"}
  BY DEF Embed, tree
<1>14. IF target = "cosmo" THEN size' = -1 /\ src' = base
       ELSE size' = Len(Kept) /\ src' = <<>>
  <2>1. CASE target = "cosmo"
    <3>1. size' = size /\ src' = Snapshot
      BY <1>2, <2>1 DEF Embed
    <3>2. size = -1
      BY <1>1, <2>1 DEF CallsInv
    <3> QED BY <1>7a, <2>1, <3>1, <3>2
  <2>2. CASE target # "cosmo"
    <3>1. src' = src /\ size' = IF size # -1 THEN size ELSE Len(file)
      BY <1>2, <2>2 DEF Embed
    <3>2. src = <<>>
      BY <1>1, <2>2 DEF CallsInv
    <3>3. CASE acc = {}
      BY <1>1, <1>5, <2>2, <3>1, <3>2, <3>3 DEF CallsInv
    <3>4. CASE acc # {}
      BY <1>1, <1>5, <2>2, <3>1, <3>2, <3>4 DEF CallsInv
    <3> QED BY <3>3, <3>4
  <2> QED BY <2>1, <2>2
<1> HIDE DEF u
<1> QED BY <1>3, <1>10, <1>11, <1>12, <1>13, <1>14 DEF tree

-------------------------------------------------------------------------------
(* The invariant is inductive.                                             *)

\* The linker's archive.
LEMMA LinkedFacts ==
  ASSUME target \in {"native", "mingw", "cosmo"}
  PROVE  /\ target # "cosmo" => Linked = <<Program>>
         /\ target = "cosmo" =>
              \E u \in Seq(AnyMember) :
                /\ Linked = <<Program>> \o Archive(u, 1)
                /\ Holds(u, {}) /\ NoDictionary(u)
<1> DEFINE Store(name) == Member(name, 0, "deflate", 0)
           u == [j \in DOMAIN Bundled |-> Store(Bundled[j])]
<1>1. target # "cosmo" => Linked = <<Program>>
  BY DEF Linked
<1>2. target = "cosmo" => Linked = <<Program>> \o Archive(u, 1)
  BY DEF Linked
<1>3. /\ DOMAIN Bundled = 1 .. Len(Bundled) /\ Len(Bundled) \in Nat
      /\ \A j \in DOMAIN Bundled : Bundled[j] \in ToSet(Bundled)
  BY PayloadFacts DEF ToSet
<1>4. \A j \in DOMAIN u : u[j] = Store(Bundled[j]) /\ u[j] \in AnyMember
  <2> SUFFICES ASSUME NEW j \in DOMAIN Bundled
               PROVE  Store(Bundled[j]) \in AnyMember
    OBVIOUS
  <2> QED BY <1>3 DEF Member, AnyMember, AnyName
<1>5. u \in Seq(AnyMember) /\ DOMAIN u = DOMAIN Bundled
  BY <1>3, <1>4
<1> HIDE DEF u, AnyMember
<1>6. \A j \in DOMAIN Bundled :
        /\ u[j].name = Bundled[j] /\ u[j].by = 0 /\ u[j].dict = 0
        /\ u[j].method = "deflate"
  BY <1>4, <1>5 DEF Member
<1>7. Unique(u)
  BY <1>5, <1>6, PayloadFacts DEF Unique, IsInjective
<1>8. NoDictionary(u) /\ Decodes(u)
  <2>1. ASSUME NEW m \in ToSet(u) PROVE m.dict = 0 /\ m.name # Dict
    <3>1. PICK j \in DOMAIN Bundled : m = u[j]
      BY <1>5 DEF ToSet
    <3>2. Bundled[j] # Dict
      BY <1>3, PayloadFacts
    <3> QED BY <1>6, <3>1, <3>2
  <2> QED BY <2>1 DEF NoDictionary, Decodes
<1>9. Names(ToSet(u)) = ToSet(Bundled)
  BY <1>5, <1>6 DEF Names, ToSet
<1>10. target = "cosmo" => Stores(u)
  BY <1>5, <1>6, <1>9 DEF Stores, ToSet
<1>11. u # <<>>
  <2>1. ToSet(<<>>) = {}
    BY DEF ToSet
  <2>2. ToSet(u) # {}
    BY <1>9, PayloadFacts DEF Names
  <2> QED BY <2>1, <2>2
<1>12. target = "cosmo" => Holds(u, {})
  BY <1>7, <1>8, <1>10, <1>11 DEF Holds
<1> QED BY <1>1, <1>2, <1>5, <1>8, <1>12

LEMMA InvHolds == Init => IInv
<1> SUFFICES ASSUME Init PROVE IInv
  OBVIOUS
<1>1. target \in {"native", "mingw", "cosmo"} /\ phase \in Phases
  BY DEF Init, Phases
<1>2. /\ base = Linked /\ file = Linked /\ acc = {} /\ size = -1 /\ src = <<>>
      /\ log = <<>> /\ phase = "build"
  BY DEF Init
<1>3. BaseInv
  <2>1. CASE target = "cosmo"
    <3>1. PICK u \in Seq(AnyMember) :
            /\ Linked = <<Program>> \o Archive(u, 1)
            /\ Holds(u, {}) /\ NoDictionary(u)
      BY <1>1, <2>1, LinkedFacts
    <3> QED BY <1>2, <3>1 DEF BaseInv, Holds
  <2>2. CASE target # "cosmo"
    BY <1>1, <1>2, <2>2, LinkedFacts DEF BaseInv
  <2> QED BY <2>1, <2>2
<1>4. FileInv /\ CallsInv
  <2>1. CASE target = "cosmo"
    <3>1. PICK u \in Seq(AnyMember) :
            /\ Linked = <<Program>> \o Archive(u, 1)
            /\ Holds(u, {}) /\ NoDictionary(u)
      BY <1>1, <2>1, LinkedFacts
    <3>2. Kept = <<Program>> /\ Len(Kept) = 1 /\ Stripped(base) = base
      BY <2>1, ProgramOnly DEF Kept, Stripped
    <3>3. file = Kept \o Archive(u, Len(Kept)) /\ Holds(u, acc)
      BY <1>2, <3>1, <3>2
    <3> QED BY <1>2, <2>1, <3>2, <3>3 DEF FileInv, CallsInv
  <2>2. CASE target # "cosmo"
    <3>1. Kept = <<Program>> /\ Stripped(base) = <<Program>>
      BY <1>1, <1>2, <2>2, LinkedFacts DEF Kept, Stripped
    <3> QED BY <1>1, <1>2, <2>2, <3>1, LinkedFacts DEF FileInv, CallsInv
  <2> QED BY <2>1, <2>2
<1>5. LogInv /\ AliasInv /\ ShipInv
  <2>1. log \in Seq(Logged) /\ DOMAIN log = {}
    BY <1>2
  <2>2. LogInv
    BY <1>2, <2>1 DEF LogInv
  <2>3. AliasInv /\ ShipInv
    BY <1>2, <2>1 DEF AliasInv, ShipInv
  <2> QED BY <2>2, <2>3
<1>6. Tree(acc)
  BY <1>2 DEF Tree
<1> QED BY <1>1, <1>3, <1>4, <1>5, <1>6 DEF IInv

LEMMA BaseStays ==
  ASSUME BaseInv, UNCHANGED <<target, base>>
  PROVE  BaseInv' /\ Kept' = Kept /\ Stripped(base)' = Stripped(base)
<1>1. \A u : Stores(u)' <=> Stores(u)
  BY DEF Stores
<1>2. BaseInv'
  <2>1. CASE base = <<Program>> /\ target # "cosmo"
    BY <2>1 DEF BaseInv
  <2>2. CASE \E u \in Seq(AnyMember) : CosmoBase(u)
    BY <1>1, <2>2 DEF BaseInv, CosmoBase
  <2> QED BY <2>1, <2>2 DEF BaseInv, CosmoBase
<1>3. Kept' = Kept /\ Stripped(base)' = Stripped(base)
  BY DEF Kept, Stripped
<1> QED BY <1>2, <1>3

LEMMA EmbedKeeps ==
  ASSUME IInv, phase \in {"build", "wrap"},
         NEW stage, Tree(stage), stage # {}, NEW trained \in BOOLEAN,
         NEW next \in {"build", "wrapped"}, Embed(stage, trained, next),
         UNCHANGED <<target, base>>
  PROVE  /\ target' \in {"native", "mingw", "cosmo"} /\ phase' \in Phases
         /\ Tree(acc)' /\ BaseInv' /\ FileInv' /\ CallsInv' /\ ShipInv'
         /\ acc' = Merge(acc, stage) /\ phase' \in {next, "failed"}
         /\ acc' # {}
<1>1. /\ acc' = Merge(acc, stage) /\ Tree(acc') /\ acc' # {}
      /\ phase' \in {next, "failed"}
      /\ \E u \in Seq(AnyMember) :
           file' = Kept \o Archive(u, Len(Kept)) /\ Holds(u, acc')
      /\ IF target = "cosmo" THEN size' = -1 /\ src' = base
         ELSE size' = Len(Kept) /\ src' = <<>>
  BY EmbedMakes
<1>2. BaseInv' /\ Kept' = Kept
  BY BaseStays DEF IInv
<1>3. \A u : Holds(u, acc)' <=> Holds(u, acc')
  BY DEF Holds, Stores
<1>4. FileInv'
  BY <1>1, <1>2, <1>3 DEF FileInv
<1>5. CallsInv'
  BY <1>1, <1>2 DEF CallsInv
<1>6. Tree(acc)'
  BY <1>1
<1>7. ShipInv' /\ phase' \in Phases
  BY <1>1 DEF ShipInv, Phases
<1> QED BY <1>1, <1>2, <1>4, <1>5, <1>6, <1>7 DEF IInv

\* One call more: its number, and what it has staged.
LEMMA StageFacts ==
  ASSUME LogInv, NEW names \in SUBSET Payload
  PROVE  /\ Len(log) \in Nat /\ DOMAIN log = 1 .. Len(log)
         /\ Call = Len(log) + 1 /\ Call \in Nat \ {0}
         /\ Tree(Stage(names)) /\ Names(Stage(names)) = names
         /\ \A m \in Stage(names) : m.by = Call
         /\ names # {} => Stage(names) # {}
<1>1. Len(log) \in Nat /\ DOMAIN log = 1 .. Len(log)
  <2>1. log \in Seq(Logged)
    BY DEF LogInv
  <2> QED BY <2>1
<1>2. Call = Len(log) + 1 /\ Call \in Nat \ {0}
  BY <1>1 DEF Call
<1>3. /\ Tree(Stage(names)) /\ \A m \in Stage(names) : m.by = Call
      /\ names # {} => Stage(names) # {}
  <2> DEFINE File1(n) == [name |-> n, by |-> Call]
  <2>1. Stage(names) = {File1(n) : n \in names}
    BY DEF Stage
  <2>2. \A n \in names : /\ File1(n).name = n /\ File1(n).by = Call
                         /\ File1(n) \in StagedFile
    BY <1>2 DEF StagedFile
  <2> HIDE DEF File1
  <2>3. Stage(names) \subseteq StagedFile
    BY <2>1, <2>2
  <2>4. \A a, b \in Stage(names) : a.name = b.name => a = b
    BY <2>1, <2>2
  <2>5. \A m \in Stage(names) : m.by = Call
    BY <2>1, <2>2
  <2>6. names # {} => Stage(names) # {}
    BY <2>1
  <2> QED BY <2>3, <2>4, <2>5, <2>6 DEF Tree
<1>4. Names(Stage(names)) = names
  <2> DEFINE File1(n) == [name |-> n, by |-> Call]
  <2>1. Stage(names) = {File1(n) : n \in names}
    BY DEF Stage
  <2>2. \A n \in names : File1(n).name = n
    OBVIOUS
  <2> HIDE DEF File1
  <2> QED BY <2>1, <2>2 DEF Names
<1> QED BY <1>1, <1>2, <1>3, <1>4

LEMMA LogGrows ==
  ASSUME LogInv, NEW e \in Logged, log' = Append(log, e)
  PROVE  /\ log' \in Seq(Logged) /\ Len(log') = Len(log) + 1
         /\ DOMAIN log = 1 .. Len(log) /\ Len(log) \in Nat
         /\ DOMAIN log' = 1 .. Len(log) + 1
         /\ log'[Len(log) + 1] = e
         /\ \A i \in DOMAIN log : log'[i] = log[i] /\ (i \in DOMAIN log')
         /\ \A i \in DOMAIN log' : i \in DOMAIN log \/ i = Len(log) + 1
<1>1. log \in Seq(Logged)
  BY DEF LogInv
<1> HIDE DEF Logged
<1>2. /\ log' \in Seq(Logged) /\ Len(log') = Len(log) + 1
      /\ \A i \in 1 .. Len(log) : log'[i] = log[i]
      /\ log'[Len(log) + 1] = e
  BY <1>1, AppendProperties
<1>3. /\ DOMAIN log = 1 .. Len(log) /\ Len(log) \in Nat
      /\ DOMAIN log' = 1 .. Len(log')
  BY <1>1, <1>2
<1> QED BY <1>2, <1>3

LEMMA BuildEmbedKeeps ==
  ASSUME IInv, NEW names \in SUBSET Payload, NEW trained \in BOOLEAN,
         BuildEmbed(names, trained)
  PROVE  IInv'
<1> DEFINE stage == Stage(names)
           e == [in |-> "build", stage |-> stage, list |-> "declared"]
<1>1. /\ phase = "build" /\ names # {} /\ Embed(stage, trained, phase)
      /\ log' = Append(log, e) /\ UNCHANGED <<target, base>>
  BY DEF BuildEmbed
<1>2. LogInv
  BY DEF IInv
<1>3. /\ Tree(stage) /\ stage # {} /\ Names(stage) = names
      /\ Call = Len(log) + 1 /\ \A m \in stage : m.by = Call
  BY <1>1, <1>2, StageFacts
<1>4. e \in Logged
  BY <1>3 DEF Logged, Tree
<1> HIDE DEF stage
<1>5. /\ e.in = "build" /\ e.stage = stage
  OBVIOUS
<1> HIDE DEF e
<1>6. /\ target' \in {"native", "mingw", "cosmo"} /\ phase' \in Phases
      /\ Tree(acc)' /\ BaseInv' /\ FileInv' /\ CallsInv' /\ ShipInv'
      /\ acc' = Merge(acc, stage) /\ phase' \in {"build", "failed"}
      /\ acc' # {}
  BY <1>1, <1>3, EmbedKeeps
<1>7. /\ log' \in Seq(Logged) /\ DOMAIN log = 1 .. Len(log) /\ Len(log) \in Nat
      /\ DOMAIN log' = 1 .. Len(log) + 1 /\ log'[Len(log) + 1] = e
      /\ \A i \in DOMAIN log : log'[i] = log[i] /\ (i \in DOMAIN log')
      /\ \A i \in DOMAIN log' : i \in DOMAIN log \/ i = Len(log) + 1
  BY <1>1, <1>2, <1>4, LogGrows
<1>8. \A i \in DOMAIN log : log[i].in = "build"
  BY <1>1, <1>2 DEF LogInv
<1>9. \A i \in DOMAIN log' : log'[i].in = "build"
  BY <1>5, <1>7, <1>8
<1>10. /\ stage \subseteq acc' /\ acc' \subseteq acc \cup stage
       /\ \A m \in acc : m \in acc' \/ m.name \in Names(stage)
  <2>1. Tree(acc)
    BY <1>1 DEF IInv, Whole
  <2> QED BY <1>3, <1>6, <2>1, MergeTree
<1>11. \A i \in DOMAIN log : \A n :
         Later(i, n) \/ n \in Names(stage) => Later(i, n)'
  <2> SUFFICES ASSUME NEW i \in DOMAIN log, NEW n,
                      Later(i, n) \/ n \in Names(stage)
               PROVE  Later(i, n)'
    OBVIOUS
  <2>1. CASE Later(i, n)
    BY <1>7, <2>1 DEF Later
  <2>2. CASE n \in Names(stage)
    <3>1. Len(log) + 1 \in DOMAIN log' /\ Len(log) + 1 > i
      BY <1>7
    <3> QED BY <1>5, <1>7, <1>8, <2>2, <3>1 DEF Later
  <2> QED BY <2>1, <2>2
<1>12. LogInv'
  <2>1. \A i \in DOMAIN log' : \A m \in log'[i].stage : m.by = i
    BY <1>2, <1>3, <1>5, <1>7, <1>8 DEF LogInv
  <2>2. phase' = "build" => (base = Linked)' /\ acc' # {}
    BY <1>1, <1>2, <1>6 DEF LogInv, Linked
  <2>3. \A m \in acc' : \E i \in DOMAIN log' : m \in log'[i].stage
    <3> SUFFICES ASSUME NEW m \in acc'
                 PROVE  \E i \in DOMAIN log' : m \in log'[i].stage
      OBVIOUS
    <3>1. CASE m \in acc
      <4>1. PICK i \in DOMAIN log : m \in log[i].stage
        BY <1>1, <1>2, <3>1 DEF LogInv
      <4> QED BY <1>7, <4>1
    <3>2. CASE m \in stage
      <4>1. Len(log) + 1 \in DOMAIN log'
        BY <1>7
      <4> QED BY <1>5, <1>7, <3>2, <4>1
    <3> QED BY <1>10, <3>1, <3>2
  <2>4. \A i \in DOMAIN log' : \A m \in log'[i].stage :
          Later(i, m.name)' \/ m \in acc'
    <3> SUFFICES ASSUME NEW i \in DOMAIN log', NEW m \in log'[i].stage
                 PROVE  Later(i, m.name)' \/ m \in acc'
      OBVIOUS
    <3>1. CASE i \in DOMAIN log
      <4>1. Current = "build"
        BY <1>1, <1>8 DEF Current
      <4>2. Later(i, m.name) \/ m \in acc
        BY <1>1, <1>2, <1>7, <1>8, <3>1, <4>1 DEF LogInv, Whole
      <4> QED BY <1>10, <1>11, <3>1, <4>2
    <3>2. CASE i = Len(log) + 1
      BY <1>5, <1>7, <1>10, <3>2
    <3> QED BY <1>7, <3>1, <3>2
  <2> QED BY <1>6, <1>7, <1>9, <2>1, <2>2, <2>3, <2>4 DEF LogInv
<1>13. AliasInv'
  BY <1>6 DEF AliasInv
<1> QED BY <1>6, <1>12, <1>13 DEF IInv

\* The package's own build starts from what the linker left.
LEMMA BuiltFacts ==
  ASSUME IInv, phase = "build"
  PROVE  /\ Kept = <<Program>>
         /\ \/ target # "cosmo" /\ acc = {} /\ file = <<Program>>
            \/ \E u \in Seq(AnyMember) :
                 /\ file = <<Program>> \o Archive(u, 1) /\ Holds(u, acc)
                 /\ Visible(file) = ToSet(u)
<1>1. /\ target \in {"native", "mingw", "cosmo"} /\ base = Linked
      /\ FileInv /\ Whole
  BY DEF IInv, LogInv, Whole
<1>2. Kept = <<Program>>
  <2>1. CASE target = "cosmo"
    BY <2>1 DEF Kept
  <2>2. CASE target # "cosmo"
    BY <1>1, <2>2, LinkedFacts DEF Kept, Stripped
  <2> QED BY <2>1, <2>2
<1>3. ASSUME NEW u \in Seq(AnyMember), Backs(u, acc)
      PROVE  /\ file = <<Program>> \o Archive(u, 1) /\ Holds(u, acc)
             /\ Visible(file) = ToSet(u)
  <2>1. Len(Kept) = 1 /\ Kept \in Seq(Unit)
    BY <1>2, ProgramOnly
  <2>2. file = Kept \o Archive(u, Len(Kept)) /\ Holds(u, acc)
    BY <1>3 DEF Backs
  <2>3. Visible(file) = ToSet(u)
    BY <2>1, <2>2, ArchiveRead
  <2> QED BY <1>2, <2>1, <2>2, <2>3
<1>4. \/ target # "cosmo" /\ acc = {} /\ file = Kept
      \/ \E u \in Seq(AnyMember) : Backs(u, acc)
  BY <1>1 DEF FileInv, Backs
<1> QED BY <1>2, <1>3, <1>4

\* The aliases a build embedded last are the only ones in its archive.
LEMMA AliasesRead ==
  ASSUME NEW u \in Seq(AnyMember), Unique(u), NEW m,
         m.name = "aliases", Shows(u, m)
  PROVE  {[name |-> x.name, by |-> x.by] :
            x \in {x \in ToSet(u) : x.name = "aliases"}} = {ListOf(m.by)}
<1>1. PICK v \in ToSet(u) : v.name = "aliases" /\ v.by = m.by
  BY DEF Shows
<1>2. {x \in ToSet(u) : x.name = "aliases"} = {v}
  BY <1>1 DEF Unique, ToSet
<1> QED BY <1>1, <1>2 DEF ListOf

LEMMA WrapCopyKeeps ==
  ASSUME IInv, WrapCopy
  PROVE  IInv'
<1>1. /\ phase = "build" /\ phase' = "wrap" /\ base' = file
      /\ file' = Stripped(file) /\ acc' = {} /\ size' = -1 /\ src' = <<>>
      /\ \A i \in DOMAIN log : Names(log[i].stage) = {"aliases"}
      /\ target' = target /\ log' = log
  BY DEF WrapCopy
<1>2. /\ target \in {"native", "mingw", "cosmo"} /\ LogInv /\ Tree(acc)
  BY <1>1 DEF IInv, Whole
<1>3. /\ log \in Seq(Logged) /\ Len(log) \in Nat /\ DOMAIN log = 1 .. Len(log)
      /\ \A i \in DOMAIN log : log[i].in = "build"
  <2>1. log \in Seq(Logged)
    BY <1>2 DEF LogInv
  <2> QED BY <1>1, <1>2, <2>1 DEF LogInv
<1>4. \A u : Stores(u)' <=> Stores(u)
  BY <1>1 DEF Stores
<1>5. ASSUME NEW u \in Seq(AnyMember), Holds(u, acc)
      PROVE  NoDictionary(u) /\ Unique(u) /\ u # <<>> /\ Stores(u)
  <2>1. ASSUME NEW m \in acc PROVE m.name = "aliases"
    <3>1. PICK i \in DOMAIN log : m \in log[i].stage
      BY <1>1, <1>2 DEF LogInv
    <3> QED BY <1>1, <3>1 DEF Names
  <2>2. Names(acc) \subseteq {"aliases"}
    BY <2>1 DEF Names
  <2> QED BY <1>5, <2>2 DEF Holds
<1>6. ASSUME target # "cosmo", acc = {}, file = <<Program>>
      PROVE  /\ BaseInv' /\ FileInv' /\ CallsInv'
             /\ ReadBack' = IF log = <<>> THEN {} ELSE {ListOf(Len(log))}
  <2>1. BaseInv'
    BY <1>1, <1>6 DEF BaseInv
  <2>2. Stripped(file) = <<Program>> /\ Kept' = <<Program>>
    BY <1>1, <1>6 DEF Stripped, Kept
  <2>3. FileInv' /\ CallsInv'
    BY <1>1, <1>6, <2>2 DEF FileInv, CallsInv, Stripped
  <2>4. log = <<>>
    BY <1>1, <1>2, <1>6 DEF LogInv
  <2>5. ReadBack' = {}
    BY <1>1, <2>4 DEF ReadBack, Embedded
  <2> QED BY <2>1, <2>3, <2>4, <2>5
<1>7. ASSUME \E u \in Seq(AnyMember) :
               /\ file = <<Program>> \o Archive(u, 1) /\ Holds(u, acc)
               /\ Visible(file) = ToSet(u)
      PROVE  /\ BaseInv' /\ FileInv' /\ CallsInv'
             /\ ReadBack' = IF log = <<>> THEN {} ELSE {ListOf(Len(log))}
  <2>1. PICK u \in Seq(AnyMember) :
          /\ file = <<Program>> \o Archive(u, 1) /\ Holds(u, acc)
          /\ Visible(file) = ToSet(u)
    BY <1>7
  <2>2. BaseInv'
    BY <1>1, <1>4, <1>5, <2>1 DEF BaseInv
  <2>3. CallsInv'
    BY <1>1 DEF CallsInv, Stripped
  <2>4. FileInv'
    <3>1. CASE target = "cosmo"
      <4>1. file' = file /\ Kept' = <<Program>> /\ Len(<<Program>>) = 1
        BY <1>1, <3>1, ProgramOnly DEF Stripped, Kept
      <4>2. Holds(u, acc)'
        <5>1. Decodes(u) /\ (\A m \in {} : Shows(u, m))
          BY <2>1 DEF Holds
        <5> QED BY <1>1, <1>4, <1>5, <2>1, <5>1 DEF Holds
      <4> QED BY <2>1, <4>1, <4>2 DEF FileInv
    <3>2. CASE target # "cosmo"
      BY <1>1, <3>2 DEF FileInv, Stripped, Kept
    <3> QED BY <3>1, <3>2
  <2>5. ReadBack' = IF log = <<>> THEN {} ELSE {ListOf(Len(log))}
    <3>1. CASE log = <<>>
      BY <1>1, <3>1 DEF ReadBack, Embedded
    <3>2. CASE log # <<>>
      <4> DEFINE k == Len(log)
      <4>1. k \in DOMAIN log
        BY <1>3, <3>2
      <4>2. PICK m \in log[k].stage : m.name = "aliases"
        BY <1>1, <4>1 DEF Names
      <4>3. ~Later(k, "aliases")
        BY <1>3 DEF Later
      <4>4. Current = "build" /\ log[k].in = "build"
        BY <1>1, <1>3, <4>1 DEF Current
      <4>5. m \in acc /\ m.by = k
        BY <1>1, <1>2, <4>1, <4>2, <4>3, <4>4 DEF LogInv, Whole
      <4>6. Embedded("aliases")
        BY <4>1, <4>2, <4>4 DEF Embedded, Names
      <4>7. ReadBack' =
              {[name |-> x.name, by |-> x.by] :
                 x \in {x \in ToSet(u) : x.name = "aliases"}}
        BY <1>1, <2>1, <4>6 DEF ReadBack, Embedded
      <4>8. Shows(u, m) /\ Unique(u)
        BY <2>1, <4>5 DEF Holds
      <4> QED BY <3>2, <4>2, <4>5, <4>7, <4>8, AliasesRead
    <3> QED BY <3>1, <3>2
  <2> QED BY <2>2, <2>3, <2>4, <2>5
<1>8. /\ BaseInv' /\ FileInv' /\ CallsInv'
      /\ ReadBack' = IF log = <<>> THEN {} ELSE {ListOf(Len(log))}
  BY <1>1, <1>6, <1>7, BuiltFacts
<1>9. LogInv'
  <2>1. Current' = "wrap"
    BY <1>1 DEF Current
  <2> QED BY <1>1, <1>2, <1>3, <2>1 DEF LogInv
<1>10. AliasInv' /\ ShipInv'
  <2>1. ListOf(Len(log))' = ListOf(Len(log))
    BY <1>1 DEF ListOf
  <2> QED BY <1>1, <1>8, <2>1 DEF AliasInv, ShipInv
<1>11. Tree(acc)' /\ phase' \in Phases
  BY <1>1 DEF Tree, Phases
<1> QED BY <1>1, <1>2, <1>8, <1>9, <1>10, <1>11 DEF IInv

LEMMA FailKeeps ==
  ASSUME IInv, phase' = "failed", UNCHANGED <<target, file, base, build, log>>
  PROVE  IInv'
<1>1. BaseInv' /\ FileInv' /\ CallsInv' /\ ShipInv' /\ AliasInv'
  BY BaseStays DEF IInv, FileInv, Whole, CallsInv, ShipInv, AliasInv
<1>2. LogInv'
  BY DEF IInv, LogInv, Whole
<1> QED BY <1>1, <1>2 DEF IInv, Phases, Whole

LEMMA StutterKeeps ==
  ASSUME IInv, UNCHANGED vars
  PROVE  IInv'
<1>1. /\ \A u : Stores(u)' <=> Stores(u)
      /\ BaseInv' /\ Kept' = Kept /\ Stripped(base)' = Stripped(base)
  BY BaseStays DEF IInv, vars, Stores
<1>2. \A u : Holds(u, acc)' <=> Holds(u, acc)
  BY <1>1 DEF vars, Holds
<1>3. FileInv' /\ CallsInv'
  BY <1>1, <1>2 DEF IInv, vars, FileInv, Whole, CallsInv
<1>4. ReadBack' = ReadBack
  BY DEF vars, ReadBack, Embedded
<1>5. \A i, n : Later(i, n)' <=> Later(i, n)
  BY DEF vars, Later
<1>6. LogInv' /\ AliasInv' /\ ShipInv'
  BY <1>4, <1>5 DEF IInv, vars, LogInv, AliasInv, ShipInv, Undeclared, Current,
                    Whole, Linked
<1>7. /\ target' \in {"native", "mingw", "cosmo"} /\ phase' \in Phases
      /\ (Whole => Tree(acc))'
  BY DEF IInv, vars, Whole
<1> QED BY <1>1, <1>3, <1>6, <1>7 DEF IInv

\* The list a wrap embeds is its own, or the one that was read back.
LEMMA WrapStage ==
  ASSUME IInv, phase = "wrap", NEW declared \in BOOLEAN, NEW links \in BOOLEAN,
         NEW names \in SUBSET Payload, "aliases" \notin names
  PROVE  LET stage == Aliases(declared, links) \cup Stage(names)
         IN  /\ Tree(stage)
             /\ stage = {} => log = <<>>
             /\ ~declared /\ log # <<>> => ListOf(Len(log)) \in stage
<1> DEFINE list == Aliases(declared, links)
           stage == list \cup Stage(names)
<1>1. /\ LogInv /\ ReadBack = IF log = <<>> THEN {} ELSE {ListOf(Len(log))}
  BY DEF IInv, AliasInv
<1>2. /\ Len(log) \in Nat /\ Tree(Stage(names)) /\ Names(Stage(names)) = names
      /\ Tree(Stage({"aliases"})) /\ Names(Stage({"aliases"})) = {"aliases"}
      /\ Stage({"aliases"}) # {}
  <2>1. {"aliases"} \in SUBSET Payload /\ {"aliases"} # {}
    BY PayloadFacts
  <2> QED BY <1>1, <2>1, StageFacts
<1>3. log # <<>> => ListOf(Len(log)) \in StagedFile
  <2>1. log # <<>> => Len(log) \in Nat \ {0}
    <3>1. log \in Seq(Logged)
      BY <1>1 DEF LogInv
    <3> QED BY <3>1
  <2> QED BY <2>1, PayloadFacts DEF ListOf, StagedFile
<1>4. Tree(list) /\ \A m \in list : m.name = "aliases"
  <2>1. CASE list = Stage({"aliases"})
    BY <1>2, <2>1 DEF Names
  <2>2. CASE list = ReadBack
    <3>1. CASE log = <<>>
      BY <1>1, <2>2, <3>1 DEF Tree
    <3>2. CASE log # <<>>
      <4>1. list = {ListOf(Len(log))}
        BY <1>1, <2>2, <3>2
      <4>2. ListOf(Len(log)).name = "aliases"
        BY DEF ListOf
      <4> QED BY <1>3, <3>2, <4>1, <4>2 DEF Tree
    <3> QED BY <3>1, <3>2
  <2>3. list = Stage({"aliases"}) \/ list = ReadBack
    BY DEF Aliases
  <2> HIDE DEF list
  <2> QED BY <2>1, <2>2, <2>3
<1>5. Tree(stage)
  <2> HIDE DEF list
  <2>1. \A a \in list, b \in Stage(names) : a.name # b.name
    BY <1>2, <1>4 DEF Names
  <2> QED BY <1>2, <1>4, <2>1 DEF Tree
<1>6. ASSUME log # <<>> PROVE stage # {} /\ (~declared => ListOf(Len(log)) \in stage)
  <2>1. ReadBack = {ListOf(Len(log))}
    BY <1>1, <1>6
  <2> QED BY <1>2, <2>1 DEF Aliases
<1> HIDE DEF list
<1> QED BY <1>5, <1>6 DEF list

LEMMA WrapEmbedKeeps ==
  ASSUME IInv, NEW declared \in BOOLEAN, NEW links \in BOOLEAN,
         NEW names \in SUBSET Payload, NEW trained \in BOOLEAN,
         WrapEmbed(declared, links, names, trained)
  PROVE  IInv'
<1> DEFINE stage == Aliases(declared, links) \cup Stage(names)
           e == [in |-> "wrap", stage |-> stage,
                 list |-> IF declared THEN "declared" ELSE "found"]
<1>1. /\ phase = "wrap" /\ "aliases" \notin names /\ UNCHANGED <<target, base>>
      /\ IF stage = {}
         THEN phase' = "wrapped" /\ UNCHANGED <<file, build, log>>
         ELSE /\ Embed(stage, trained, "wrapped")
              /\ log' = Append(log, e)
  BY DEF WrapEmbed
<1>2. LogInv /\ AliasInv /\ BaseInv /\ Whole
  BY <1>1 DEF IInv, Whole
<1>3. /\ Tree(stage) /\ (stage = {} => log = <<>>)
      /\ ~declared /\ log # <<>> => ListOf(Len(log)) \in stage
  BY <1>1, WrapStage
<1>4. e \in Logged
  BY <1>3 DEF Logged, Tree
<1>5. e.in = "wrap" /\ e.stage = stage /\ (declared => e.list = "declared")
  BY DEF e
<1> HIDE DEF stage, e
<1>6. acc = {} /\ \A i \in DOMAIN log : log[i].in = "build"
  BY <1>1, <1>2 DEF AliasInv, LogInv
<1>7. ASSUME stage = {} PROVE IInv'
  <2>1. phase' = "wrapped" /\ UNCHANGED <<target, base, file, acc, size, src, log>>
    BY <1>1, <1>7 DEF build
  <2>2. log = <<>> /\ log' = <<>> /\ DOMAIN log = {} /\ DOMAIN log' = {}
    BY <1>3, <1>7, <2>1
  <2>3. BaseInv' /\ Kept' = Kept /\ Stripped(base)' = Stripped(base)
    BY <1>1, <1>2, BaseStays
  <2>4. \A u : Holds(u, acc)' <=> Holds(u, acc)
    BY <2>1 DEF Holds, Stores
  <2>5. FileInv' /\ CallsInv'
    BY <1>1, <1>2, <2>1, <2>3, <2>4 DEF IInv, FileInv, CallsInv
  <2>6. LogInv' /\ AliasInv' /\ ShipInv'
    BY <1>2, <2>1, <2>2 DEF LogInv, AliasInv, ShipInv
  <2>7. target' \in {"native", "mingw", "cosmo"} /\ phase' \in Phases /\ Tree(acc)'
    BY <1>2, <2>1 DEF IInv, Phases
  <2> QED BY <2>3, <2>5, <2>6, <2>7 DEF IInv
<1>8. ASSUME stage # {} PROVE IInv'
  <2>1. Embed(stage, trained, "wrapped") /\ log' = Append(log, e)
    BY <1>1, <1>8
  <2>2. /\ target' \in {"native", "mingw", "cosmo"} /\ phase' \in Phases
        /\ Tree(acc)' /\ BaseInv' /\ FileInv' /\ CallsInv' /\ ShipInv'
        /\ acc' = Merge(acc, stage) /\ phase' \in {"wrapped", "failed"}
    BY <1>1, <1>3, <1>8, <2>1, EmbedKeeps
  <2>3. /\ log' \in Seq(Logged) /\ DOMAIN log = 1 .. Len(log) /\ Len(log) \in Nat
        /\ DOMAIN log' = 1 .. Len(log) + 1 /\ log'[Len(log) + 1] = e
        /\ \A i \in DOMAIN log : log'[i] = log[i] /\ (i \in DOMAIN log')
        /\ \A i \in DOMAIN log' : i \in DOMAIN log \/ i = Len(log) + 1
    BY <1>2, <1>4, <2>1, LogGrows
  <2>4. stage \subseteq acc'
    BY <2>2 DEF Merge
  <2>5. \A i \in DOMAIN log' : log'[i].in = "build" => i \in DOMAIN log
    BY <1>5, <2>3
  <2>6. LogInv'
    <3>1. \A i \in DOMAIN log' : log'[i].in = "build" =>
            \A m \in log'[i].stage : m.by = i
      BY <1>2, <2>3, <2>5 DEF LogInv
    <3>2. \A i \in DOMAIN log' : log'[i].in = "wrap" => log'[i].stage \subseteq acc'
      BY <1>5, <1>6, <2>3, <2>4
    <3>3. Current' = "wrap"
      <4>1. Len(log) + 1 \in DOMAIN log'
        BY <2>3
      <4> QED BY <1>5, <2>3, <4>1 DEF Current
    <3> QED BY <2>2, <2>3, <3>1, <3>2, <3>3 DEF LogInv
  <2>7. \A i \in DOMAIN log : Names(log[i].stage) = {"aliases"}
    BY <1>1, <1>2, <1>6 DEF AliasInv
  <2>8. AliasInv'
    <3>1. phase' # "wrap"
      BY <2>2
    <3>2. \A i \in DOMAIN log' :
            log'[i].in = "build" => Names(log'[i].stage) = {"aliases"}
      BY <2>3, <2>5, <2>7
    <3>3. ~(\A i \in DOMAIN log' : log'[i].in = "build")
      <4>1. Len(log) + 1 \in DOMAIN log'
        BY <2>3
      <4> QED BY <1>5, <2>3, <4>1
    <3>4. ASSUME Undeclared', NEW i \in DOMAIN log', log'[i].in = "build"
          PROVE  Later(i, "aliases")' \/ ListOf(i)' \in acc'
      <4>1. ~declared
        <5>1. Len(log) + 1 \in DOMAIN log'
          BY <2>3
        <5>2. log'[Len(log) + 1].in = "build"
              \/ log'[Len(log) + 1].list # "declared"
          BY <3>4, <5>1 DEF Undeclared
        <5> QED BY <1>5, <2>3, <5>2
      <4>2. i \in DOMAIN log
        BY <2>5, <3>4
      <4>3. ListOf(Len(log)) \in acc'
        <5>1. log # <<>>
          BY <4>2
        <5> QED BY <1>3, <2>4, <4>1, <5>1
      <4>4. CASE i = Len(log)
        BY <4>3, <4>4 DEF ListOf
      <4>5. CASE i # Len(log)
        <5>1. Len(log) \in DOMAIN log /\ Len(log) > i
          BY <2>3, <4>2, <4>5
        <5>2. /\ Len(log) \in DOMAIN log' /\ log'[Len(log)] = log[Len(log)]
              /\ log'[i] = log[i]
          BY <2>3, <4>2, <5>1
        <5>3. "aliases" \in Names(log[Len(log)].stage)
          BY <2>7, <5>1
        <5> QED BY <1>6, <4>2, <5>1, <5>2, <5>3 DEF Later
      <4> QED BY <4>4, <4>5
    <3> QED BY <3>1, <3>2, <3>3, <3>4 DEF AliasInv
  <2> QED BY <2>2, <2>6, <2>8 DEF IInv
<1> QED BY <1>7, <1>8

\* zip -d, on what a Cosmopolitan build made without staging anything.
LEMMA TrimmedHolds ==
  ASSUME target = "cosmo", NEW u \in Seq(AnyMember), Holds(u, {}),
         NEW f, f = <<Program>> \o Archive(u, 1), Symtab \in Listed(f)
  PROVE  \E v \in Seq(AnyMember) :
           /\ Trimmed(f) = <<Program>> \o Archive(v, 1) /\ Holds(v, {})
           /\ Symtab \notin Names(ToSet(v))
<1> DEFINE p == <<Program>>
           v == Carry(f, {})
<1>1. p \in Seq(Unit) /\ Len(p) = 1
  BY ProgramOnly
<1> HIDE DEF p
<1>2. f = p \o Archive(u, Len(p)) /\ Unique(u) /\ u # <<>> /\ Stores(u)
  BY <1>1 DEF Holds, p
<1>3. CarryBase(f) = 1
  BY <1>1, <1>2, ArchiveRead
<1>4. v \in Seq(AnyMember) /\ Unique(v) /\ ToSet(v) = Unreplaced(u, {})
  BY <1>1, <1>2, CarryFacts, Zenon
<1>5. SubSeq(f, 1, 1) = p
  <2>1. SubSeq(f, 1, Len(p)) = p
    BY <1>1, <1>2, ArchiveUnits, Zenon
  <2> QED BY <1>1, <2>1
<1>6. Trimmed(f) = p \o Archive(v, 1)
  BY <1>3, <1>5 DEF Trimmed
<1> HIDE DEF v
<1>7. \A m : m \in ToSet(v) <=> m \in ToSet(u) /\ m.name # Symtab
  BY <1>4 DEF Unreplaced
<1>8. NoDictionary(u)
  <2>1. Names({}) \subseteq {"aliases"}
    BY DEF Names
  <2> QED BY <2>1 DEF Holds
<1>9. NoDictionary(v) /\ Decodes(v)
  BY <1>7, <1>8 DEF NoDictionary, Decodes
<1>10. ToSet(Bundled) \ {Symtab} \subseteq Names(ToSet(v))
  <2> SUFFICES ASSUME NEW n \in ToSet(Bundled) \ {Symtab}
               PROVE  n \in Names(ToSet(v))
    OBVIOUS
  <2>1. n \in Names(ToSet(u))
    BY <1>2 DEF Stores
  <2>2. PICK m \in ToSet(u) : m.name = n
    BY <2>1 DEF Names
  <2>3. m \in ToSet(v)
    BY <1>7, <2>2
  <2> QED BY <2>2, <2>3 DEF Names
<1>11. Stores(v)
  BY <1>2, <1>7, <1>10 DEF Stores
<1>12. v # <<>>
  <2>1. ".cosmo" \in Names(ToSet(v))
    BY <1>10, PayloadFacts DEF Symtab
  <2> QED BY <2>1 DEF Names, ToSet
<1>13. Holds(v, {}) /\ Symtab \notin Names(ToSet(v))
  BY <1>4, <1>7, <1>9, <1>11, <1>12 DEF Holds, Names
<1> QED BY <1>4, <1>6, <1>13 DEF p

LEMMA ShipKeeps ==
  ASSUME IInv, Ship
  PROVE  IInv'
<1>1. /\ phase = "wrapped" \/ (phase = "build" /\ Embedded("man"))
      /\ phase' = "shipped"
      /\ file' = IF target = "native" THEN file ELSE Trimmed(file)
      /\ target' = target /\ base' = base /\ acc' = acc /\ size' = size
      /\ src' = src /\ log' = log
  BY DEF Ship, build
<1>2. /\ Whole /\ LogInv /\ AliasInv /\ BaseInv /\ FileInv /\ Tree(acc)
      /\ target \in {"native", "mingw", "cosmo"}
  BY <1>1 DEF IInv, Whole
<1>3. /\ \A u, t : Holds(u, t)' <=> Holds(u, t')
      /\ BaseInv' /\ Kept' = Kept
  BY <1>1, <1>2, BaseStays DEF Holds, Stores
<1>4. Kept \in Seq(Unit) /\ (target = "cosmo" => Kept = <<Program>>)
      /\ (target # "cosmo" => Symtab \notin Listed(Kept))
  BY <1>2, KeptFacts
<1>5. \/ target # "cosmo" /\ acc = {} /\ file = Kept
      \/ \E u \in Seq(AnyMember) : Backs(u, acc)
  BY <1>2 DEF FileInv, Backs
<1>6. \A u \in Seq(AnyMember) : Backs(u, acc) => Listed(file) = Names(ToSet(u))
  <2> SUFFICES ASSUME NEW u \in Seq(AnyMember), Backs(u, acc)
               PROVE  Listed(file) = Names(ToSet(u))
    OBVIOUS
  <2>1. file = Kept \o Archive(u, Len(Kept))
    BY DEF Backs
  <2> QED BY <1>4, <2>1, ArchiveRead
<1>7. FileInv' /\ ShipInv'
  <2>1. CASE Symtab \notin Listed(file)
    <3>1. file' = file
      BY <1>1, <2>1 DEF Trimmed
    <3>2. \A u : Holds(u, acc)' <=> Holds(u, acc)
      BY <1>1 DEF Holds, Stores
    <3> QED BY <1>1, <1>2, <1>3, <2>1, <3>1, <3>2
            DEF FileInv, ShipInv
  <2>2. CASE Symtab \in Listed(file)
    <3>1. PICK u \in Seq(AnyMember) : Backs(u, acc)
      BY <1>4, <1>5, <2>2
    <3>2. Symtab \in Names(ToSet(u)) /\ Holds(u, acc)
      BY <1>6, <2>2, <3>1 DEF Backs
    <3>3. target = "cosmo"
      <4>1. CASE target # "cosmo"
        <5>1. Names(ToSet(u)) \subseteq ToSet(Order) \cup {Dict}
          BY <3>2, <4>1 DEF Holds, Stores
        <5>2. Symtab # Dict
          BY DEF Symtab, Dict
        <5> QED BY <3>2, <5>1, <5>2, PayloadFacts
      <4> QED BY <4>1
    <3>4. acc = {}
      BY <3>2, <3>3 DEF Holds
    <3>5. file = <<Program>> \o Archive(u, 1)
      BY <1>4, <3>1, <3>3, ProgramOnly DEF Backs
    <3>6. PICK v \in Seq(AnyMember) :
            /\ Trimmed(file) = <<Program>> \o Archive(v, 1) /\ Holds(v, {})
            /\ Symtab \notin Names(ToSet(v))
      BY <2>2, <3>2, <3>3, <3>4, <3>5, TrimmedHolds
    <3>7. file' = Kept \o Archive(v, Len(Kept)) /\ Kept' = Kept
      BY <1>1, <1>3, <1>4, <3>3, <3>6, ProgramOnly
    <3>8. Holds(v, acc)'
      BY <1>1, <3>4, <3>6 DEF Holds, Stores
    <3>9. FileInv'
      BY <3>7, <3>8 DEF FileInv
    <3>10. Listed(file') = Names(ToSet(v))
      BY <1>4, <3>7, ArchiveRead
    <3>11. ShipInv'
      BY <3>6, <3>10 DEF ShipInv
    <3> QED BY <3>9, <3>11
  <2> QED BY <2>1, <2>2
<1>8. CallsInv' /\ Tree(acc)'
  BY <1>1, <1>2 DEF CallsInv
<1>9. \A i, n : Later(i, n)' <=> Later(i, n)
  BY <1>1 DEF Later
<1>10. LogInv'
  <2>1. log = <<>> \/ Current' = Current
    <3>1. CASE \E i \in DOMAIN log : log[i].in = "wrap"
      BY <1>1, <3>1 DEF Current
    <3>2. CASE ~\E i \in DOMAIN log : log[i].in = "wrap"
      <4>1. \A i \in DOMAIN log : log[i].in = "build"
        <5>1. ASSUME NEW i \in DOMAIN log PROVE log[i] \in Logged
          <6>1. log \in Seq(Logged)
            BY <1>2 DEF LogInv
          <6> HIDE DEF Logged
          <6> QED BY <6>1
        <5> QED BY <3>2, <5>1 DEF Logged
      <4>2. CASE phase = "wrapped"
        BY <1>2, <4>1, <4>2 DEF AliasInv
      <4>3. CASE phase = "build"
        BY <1>1, <3>2, <4>3 DEF Current
      <4> QED BY <1>1, <4>2, <4>3
    <3> QED BY <3>1, <3>2
  <2>2. \A i \in DOMAIN log' : log'[i].in = Current' =>
          \A m \in log'[i].stage : Later(i, m.name)' \/ m \in acc'
    <3>1. CASE log = <<>>
      BY <1>1, <3>1
    <3>2. CASE Current' = Current
      BY <1>1, <1>2, <1>9, <3>2 DEF LogInv
    <3> QED BY <2>1, <3>1, <3>2
  <2> QED BY <1>1, <1>2, <2>2 DEF LogInv
<1>11. AliasInv'
  <2> SUFFICES ASSUME Undeclared', NEW i \in DOMAIN log',
                      log'[i].in = "build", "aliases" \in Names(log'[i].stage)
               PROVE  Later(i, "aliases")' \/ ListOf(i)' \in acc'
    BY <1>1 DEF AliasInv
  <2>1. i \in DOMAIN log /\ log[i].in = "build" /\ Undeclared
        /\ "aliases" \in Names(log[i].stage)
    BY <1>1 DEF Undeclared
  <2>2. ListOf(i)' = ListOf(i)
    BY DEF ListOf
  <2>3. CASE phase = "wrapped"
    BY <1>1, <1>2, <1>9, <2>1, <2>2, <2>3 DEF AliasInv
  <2>4. CASE phase = "build"
    <3>1. PICK m \in log[i].stage : m.name = "aliases"
      BY <2>1 DEF Names
    <3>2. Current = "build"
      BY <1>2, <2>4 DEF Current, LogInv
    <3>3. Later(i, "aliases") \/ m \in acc
      BY <1>2, <2>1, <3>1, <3>2 DEF LogInv
    <3>4. m.by = i
      BY <1>2, <2>1, <3>1 DEF LogInv
    <3>5. m \in acc => m = ListOf(i)
      BY <1>2, <3>1, <3>4 DEF Tree, StagedFile, ListOf
    <3> QED BY <1>1, <1>9, <2>2, <3>3, <3>5
  <2> QED BY <1>1, <2>3, <2>4
<1> QED BY <1>1, <1>2, <1>3, <1>7, <1>8, <1>10, <1>11 DEF IInv, Phases

\* The inductive invariant of a build, for any names and any number of calls.
THEOREM Inductive == Spec => []IInv
<1>1. Init => IInv
  BY InvHolds
<1>2. IInv /\ [Next]_vars => IInv'
  <2> SUFFICES ASSUME IInv, [Next]_vars PROVE IInv'
    OBVIOUS
  <2>1. CASE \E names \in SUBSET Payload, trained \in BOOLEAN :
               BuildEmbed(names, trained)
    BY <2>1, BuildEmbedKeeps
  <2>2. CASE WrapCopy
    BY <2>2, WrapCopyKeeps
  <2>3. CASE \E declared, links, trained \in BOOLEAN, names \in SUBSET Payload :
               WrapEmbed(declared, links, names, trained)
    BY <2>3, WrapEmbedKeeps
  <2>4. CASE Ship
    BY <2>4, ShipKeeps
  <2>5. CASE Fail
    BY <2>5, FailKeeps DEF Fail
  <2>6. CASE UNCHANGED vars
    BY <2>6, StutterKeeps
  <2> QED BY <2>1, <2>2, <2>3, <2>4, <2>5, <2>6 DEF Next
<1> QED BY <1>1, <1>2, PTL DEF Spec

-------------------------------------------------------------------------------
(* What readers of the binary find.                                        *)

\* h numbers the members of V.
Numbers(h, V, m) ==
  /\ \A j \in V : h[j] \in 1 .. m
  /\ \A j, k \in V : h[j] = h[k] => j = k
  /\ \A i \in 1 .. m : \E j \in V : h[j] = i

LEMMA Numbered ==
  ASSUME NEW V, NEW h, NEW m \in Nat, Numbers(h, V, m)
  PROVE  Cardinality(V) = m
BY AtDepths DEF Numbers

\* As many names as records, when no two members have one in common.
LEMMA ListedOnce ==
  ASSUME NEW p \in Seq(Unit), NEW u \in Seq(AnyMember), Unique(u), NEW f,
         f = p \o Archive(u, Len(p))
  PROVE  Cardinality(Names(Visible(f))) = Len(Listing(f))
<1> DEFINE V == Names(ToSet(u))
           h == [n \in V |-> CHOOSE j \in 1 .. Len(u) : u[j].name = n]
<1>1. Visible(f) = ToSet(u) /\ Len(Listing(f)) = Len(u)
  BY ArchiveRead, ArchiveListing, ZenonT(40)
<1>2. DOMAIN u = 1 .. Len(u) /\ Len(u) \in Nat
  OBVIOUS
<1>3. \A j \in 1 .. Len(u) : u[j].name \in V
  BY <1>2 DEF Names, ToSet
<1>4. \A n \in V : \E j \in 1 .. Len(u) : u[j].name = n
  BY <1>2 DEF Names, ToSet
<1>5. \A n \in V : h[n] \in 1 .. Len(u) /\ u[h[n]].name = n
  <2> TAKE n \in V
  <2>1. h[n] = CHOOSE j \in 1 .. Len(u) : u[j].name = n
    <3> HIDE DEF V
    <3> QED OBVIOUS
  <2> HIDE DEF h
  <2> QED BY <1>4, <2>1
<1> HIDE DEF V, h
<1>6. \A j \in 1 .. Len(u) : h[u[j].name] = j
  BY <1>2, <1>3, <1>5 DEF Unique
<1>7. \A i \in 1 .. Len(u) : \E n \in V : h[n] = i
  BY <1>3, <1>6
<1>8. \A j, k \in V : h[j] = h[k] => j = k
  BY <1>5
<1>9. Cardinality(V) = Len(u)
  <2> DEFINE m == Len(u)
  <2>1. m \in Nat /\ \A n \in V : h[n] \in 1 .. m
    BY <1>2, <1>5
  <2>2. \A i \in 1 .. m : \E n \in V : h[n] = i
    BY <1>7
  <2> HIDE DEF m
  <2>3. Cardinality(V) = m
    <3>1. Numbers(h, V, m)
      BY <1>8, <2>1, <2>2 DEF Numbers
    <3> QED BY <2>1, <3>1, Numbered
  <2> QED BY <2>3 DEF m
<1> QED BY <1>1, <1>9 DEF V

\* The archive behind the binary, or what the build found.
LEMMA ShippedFile ==
  ASSUME IInv, Whole
  PROVE  /\ Kept \in Seq(Unit) /\ Len(Kept) \in Nat
         /\ \/ target # "cosmo" /\ acc = {} /\ file = Kept
            \/ \E u \in Seq(AnyMember) :
                 Backs(u, acc) /\ Visible(file) = ToSet(u)
<1>1. BaseInv /\ FileInv /\ target \in {"native", "mingw", "cosmo"}
  BY DEF IInv
<1>2. Kept \in Seq(Unit) /\ Len(Kept) \in Nat
  BY <1>1, KeptFacts
<1>3. ASSUME NEW u \in Seq(AnyMember), Backs(u, acc)
      PROVE  Visible(file) = ToSet(u)
  <2>1. file = Kept \o Archive(u, Len(Kept))
    BY <1>3 DEF Backs
  <2> QED BY <1>2, <2>1, ArchiveRead
<1>4. \/ target # "cosmo" /\ acc = {} /\ file = Kept
      \/ \E u \in Seq(AnyMember) : Backs(u, acc)
  BY <1>1 DEF FileInv, Backs
<1> QED BY <1>2, <1>3, <1>4

LEMMA LatestFollows == IInv => StagedLatest
<1> SUFFICES ASSUME IInv, Whole, NEW i \in DOMAIN log, NEW m \in log[i].stage,
                    log[i].in = Current
             PROVE  \/ \E j \in DOMAIN log : /\ j > i /\ log[j].in = Current
                                             /\ m.name \in Names(log[j].stage)
                    \/ \E v \in Visible(file) : v.name = m.name /\ v.by = m.by
  BY DEF StagedLatest
<1>1. Later(i, m.name) \/ m \in acc
  BY DEF IInv, LogInv
<1>2. CASE Later(i, m.name)
  BY <1>2 DEF Later
<1>3. CASE m \in acc
  <2>1. PICK u \in Seq(AnyMember) : Backs(u, acc) /\ Visible(file) = ToSet(u)
    BY <1>3, ShippedFile
  <2>2. Shows(u, m)
    BY <1>3, <2>1 DEF Backs, Holds
  <2> QED BY <2>1, <2>2 DEF Shows
<1> QED BY <1>1, <1>2, <1>3

LEMMA StoreFollows == IInv => StoreKept
<1> SUFFICES ASSUME IInv, Whole, target = "cosmo"
             PROVE  /\ ToSet(Bundled) \ {Symtab} \subseteq Names(Visible(file))
                    /\ \A m \in Visible(file) : m.by = 0 => m.method # "zstd"
                    /\ phase = "shipped" => Symtab \notin Listed(file)
  BY DEF StoreKept
<1>1. PICK u \in Seq(AnyMember) : Backs(u, acc) /\ Visible(file) = ToSet(u)
  BY ShippedFile
<1>2. Stores(u)
  BY <1>1 DEF Backs, Holds
<1> QED BY <1>1, <1>2 DEF Stores, IInv, ShipInv

LEMMA ReadableFollows == IInv => Readable
<1> SUFFICES ASSUME IInv, Whole
             PROVE  /\ Kept = SubSeq(file, 1, Len(Kept))
                    /\ Len(file) > Len(Kept) =>
                         {e.ofs : e \in ToSet(Listing(file))}
                           = Len(Kept) .. Len(file) - 2
                    /\ Cardinality(Names(Visible(file))) = Len(Listing(file))
                    /\ \A m \in Visible(file) : m.dict # 0 =>
                         Member(Dict, m.dict, "store", 0) \in Visible(file)
  BY DEF Readable
<1>1. Kept \in Seq(Unit) /\ Len(Kept) \in Nat
  BY ShippedFile
<1>2. CASE \E u \in Seq(AnyMember) : Backs(u, acc) /\ Visible(file) = ToSet(u)
  <2>1. PICK u \in Seq(AnyMember) : Backs(u, acc) /\ Visible(file) = ToSet(u)
    BY <1>2
  <2>2. file = Kept \o Archive(u, Len(Kept)) /\ Unique(u) /\ Decodes(u)
    BY <2>1 DEF Backs, Holds
  <2>3. Kept = SubSeq(file, 1, Len(Kept))
    BY <1>1, <2>2, ArchiveUnits, Zenon
  <2>4. {e.ofs : e \in ToSet(Listing(file))} = Len(Kept) .. Len(file) - 2
    BY <1>1, <2>2, ArchiveRead, Zenon
  <2>5. Cardinality(Names(Visible(file))) = Len(Listing(file))
    BY <1>1, <2>2, ListedOnce, Zenon
  <2> QED BY <2>1, <2>2, <2>3, <2>4, <2>5 DEF Decodes
<1>3. CASE target # "cosmo" /\ acc = {} /\ file = Kept
  <2>1. SubSeq(Kept, 1, Len(Kept)) = Kept
    <3> HIDE DEF Unit
    <3> QED BY <1>1
  <2>2. CASE Kept = <<Program>>
    <3>1. Visible(file) = {} /\ Listing(file) = <<>>
      BY <1>3, <2>2, ProgramOnly
    <3>2. Cardinality(Names({})) = 0
      <4>1. Names({}) = {}
        BY DEF Names
      <4> QED BY <4>1, FS_EmptySet
    <3>3. Cardinality(Names(Visible(file))) = Len(Listing(file))
      BY <3>1, <3>2
    <3>4. ~(Len(file) > Len(Kept))
      BY <1>1, <1>3
    <3> QED BY <1>3, <2>1, <3>1, <3>3, <3>4
  <2>3. CASE Kept # <<Program>>
    <3>1. Kept = base /\ base # <<Program>>
      BY <1>3, <2>3 DEF Kept, Stripped
    <3>2. PICK u \in Seq(AnyMember) : CosmoBase(u)
      BY <3>1 DEF IInv, BaseInv, CosmoBase
    <3>3. /\ file = <<Program>> \o Archive(u, Len(<<Program>>))
          /\ Unique(u) /\ NoDictionary(u)
      BY <1>3, <3>1, <3>2, ProgramOnly DEF CosmoBase
    <3>4. Cardinality(Names(Visible(file))) = Len(Listing(file))
      BY <3>3, ProgramOnly, ListedOnce, Zenon
    <3>5. Visible(file) = ToSet(u)
      BY <3>3, ProgramOnly, ArchiveRead, Zenon
    <3> QED BY <1>1, <1>3, <2>1, <3>3, <3>4, <3>5 DEF NoDictionary
  <2> QED BY <2>2, <2>3
<1> QED BY <1>2, <1>3, ShippedFile

LEMMA AliasesFollow == IInv => AliasesSurvive
<1> SUFFICES ASSUME IInv, phase = "shipped", Undeclared,
                    NEW i \in DOMAIN log, log[i].in = "build",
                    "aliases" \in Names(log[i].stage)
             PROVE  \/ \E j \in DOMAIN log :
                         /\ j > i /\ log[j].in = "build"
                         /\ "aliases" \in Names(log[j].stage)
                    \/ Member("aliases", i, "deflate", 0) \in Visible(file)
  BY DEF AliasesSurvive, Undeclared
<1>1. Later(i, "aliases") \/ ListOf(i) \in acc
  BY DEF IInv, AliasInv
<1>2. CASE Later(i, "aliases")
  BY <1>2 DEF Later
<1>3. CASE ListOf(i) \in acc
  <2>1. PICK u \in Seq(AnyMember) : Backs(u, acc) /\ Visible(file) = ToSet(u)
    BY <1>3, ShippedFile DEF Whole
  <2>2. Shows(u, ListOf(i))
    BY <1>3, <2>1 DEF Backs, Holds
  <2>3. ListOf(i).name = "aliases" /\ ListOf(i).by = i
    BY DEF ListOf
  <2> QED BY <2>1, <2>2, <2>3 DEF Shows
<1> QED BY <1>1, <1>2, <1>3

-------------------------------------------------------------------------------
(* The whole build embeds as an embedding by itself does.                  *)

\* What the hook and the pages do is no step of the embedding, or fails it.
THEOREM PackageEmbeds == PackageSpec => Spec
<1>1. PackageInit => Init
  BY DEF PackageInit
<1>2. [PackageNext]_packageVars => [Next]_vars
  <2> SUFFICES ASSUME [PackageNext]_packageVars PROVE [Next]_vars
    OBVIOUS
  <2>1. FailBuild /\ phase = "build" => Fail
    BY DEF FailBuild, Fail
  <2>2. CASE \E n \in Bin, e \in Entry : InstallProgram(n, e)
    BY <2>2 DEF InstallProgram
  <2>3. CASE Fixup
    BY <2>1, <2>3 DEF Fixup, Next
  <2>4. CASE BeginPages
    BY <2>4 DEF BeginPages
  <2>5. CASE \E f \in ToSet(PageFiles), body \in Body : InstallPage(f, body)
    BY <2>5 DEF InstallPage
  <2>6. CASE \E folds \in BOOLEAN : StageMan(folds)
    BY <2>1, <2>6 DEF StageMan, Next
  <2>7. CASE \E names \in SUBSET Payload, trained \in BOOLEAN :
               Embedding /\ Stageable(names) /\ BuildEmbed(names, trained)
    BY <2>7 DEF Next
  <2>8. CASE \E declared, links, trained \in BOOLEAN,
                names \in SUBSET Payload :
               /\ Embedding /\ Stageable(names)
               /\ WrapEmbed(declared, links, names, trained)
    BY <2>8 DEF Next
  <2>9. CASE Embedding /\ (WrapCopy \/ Ship \/ Fail)
    BY <2>9 DEF Next
  <2>10. CASE UNCHANGED packageVars
    BY <2>10 DEF packageVars
  <2> QED BY <2>2, <2>3, <2>4, <2>5, <2>6, <2>7, <2>8, <2>9, <2>10
          DEF PackageNext
<1> QED BY <1>1, <1>2, PTL DEF PackageSpec, Spec

\* A reader finds what was staged last, whichever call staged it
\* (__unpin_embed_subtree packs the whole tree again).
THEOREM LatestShown == PackageSpec => []StagedLatest
BY PackageEmbeds, Inductive, LatestFollows, PTL

\* A Cosmopolitan binary keeps its own archive, in the form it can read
\* (--carry), all but the symbol table.
THEOREM StoreStays == PackageSpec => []StoreKept
BY PackageEmbeds, Inductive, StoreFollows, PTL

\* Behind the program is one archive, with nothing unlisted, no name twice, and
\* the dictionary of what needs one.
THEOREM OneArchive == PackageSpec => []Readable
BY PackageEmbeds, Inductive, ReadableFollows, PTL

\* The list of aliases a build embedded is in what ships, though the copy is
\* stripped of it, unless the wrap declares another.
THEOREM AliasesKept == PackageSpec => []AliasesSurvive
BY PackageEmbeds, Inductive, AliasesFollow, PTL

-------------------------------------------------------------------------------
(* Which program runs (MulticallDispatch): the two places that take an     *)
(* invocation apart, the dispatcher and the rewrite of the command line,   *)
(* agree.                                                                  *)

\* What is done to argv[0] leaves the other arguments alone.
LEMMA UndecoratedTail ==
  ASSUME NEW S, NEW argv \in Seq(S), Len(argv) > 0
  PROVE  /\ Len(Undecorated(argv)) = Len(argv)
         /\ \A i \in 2 .. Len(argv) : Undecorated(argv)[i] = argv[i]
  BY DEF Undecorated

\* On Windows a program that reads its command line again (unpin_fix_cmdline)
\* finds the arguments the dispatcher handed it, whatever the table, unless the
\* selector was quoted: the selector is gone from both or from neither.
THEOREM LineAgrees ==
  ASSUME NEW S, NEW argv \in Seq(S), Len(argv) > 0, NEW fits \in BOOLEAN,
         Dispatch(argv) # Usage
  PROVE  LET line == Cmdline(argv, FALSE, fits)
             handed == Dispatch(argv).argv
         IN  /\ Len(line) = Len(handed)
             /\ \A i \in 2 .. Len(line) : line[i] = handed[i]
<1> DEFINE rest == SubSeq(argv, 3, Len(argv))
           sel == argv[2].select
<1>1. CASE ByName(argv) \/ ~Selects(argv)
  <2>1. Cmdline(argv, FALSE, fits) = argv
    BY <1>1 DEF Cmdline
  <2>2. Dispatch(argv).argv = Undecorated(argv)
    BY <1>1 DEF Dispatch, Run, Usage
  <2> QED
    BY <2>1, <2>2, UndecoratedTail
<1>2. CASE ~ByName(argv) /\ Selects(argv)
  <2>1. sel \in Announced
    BY <1>2 DEF Dispatch
  <2>2. Dispatch(argv).argv = <<Plain(sel)>> \o rest
    BY <1>2, <2>1 DEF Dispatch, Run
  <2>3. PICK first : Cmdline(argv, FALSE, fits) = <<first>> \o rest
    BY <1>2 DEF Cmdline
  <2>4. rest \in Seq(S)
    BY DEF Selects
  <2> HIDE DEF rest, sel
  <2>5. ASSUME NEW x
        PROVE  /\ Len(<<x>> \o rest) = 1 + Len(rest)
               /\ \A i \in 2 .. 1 + Len(rest) : (<<x>> \o rest)[i] = rest[i - 1]
    BY <2>4
  <2> QED
    BY <2>2, <2>3, <2>4, <2>5
<1> QED
  BY <1>1, <1>2

\* Of argv[0] only the name counts, with lt- and .exe or without.
LEMMA NameDecides ==
  ASSUME NEW S, NEW argv \in Seq(S), Len(argv) > 0,
         NEW N, argv[1] \in [lt : BOOLEAN, name : N, exe : BOOLEAN],
         NEW lt \in BOOLEAN, NEW exe \in BOOLEAN
  PROVE  LET other == [argv EXCEPT ![1] = Argv0(lt, argv[1].name, exe)]
         IN  Dispatch(other) = Dispatch(argv)
<1> DEFINE other == [argv EXCEPT ![1] = Argv0(lt, argv[1].name, exe)]
           T == S \cup {Argv0(lt, argv[1].name, exe)}
<1>1. /\ other \in Seq(T) /\ argv \in Seq(T) /\ Len(other) = Len(argv)
      /\ other[1] = Argv0(lt, argv[1].name, exe)
      /\ \A i \in 2 .. Len(argv) : other[i] = argv[i]
  OBVIOUS
<1>2. Undecorated(other) = Undecorated(argv)
  BY <1>1 DEF Undecorated, Argv0
<1>3. (ByName(other) <=> ByName(argv)) /\ (Selects(other) <=> Selects(argv))
  BY <1>1 DEF ByName, Selects, Argv0
<1>4. other[1].name = argv[1].name
  BY <1>1 DEF Argv0
<1>5. Selects(argv) =>
        /\ other[2] = argv[2]
        /\ SubSeq(other, 3, Len(other)) = SubSeq(argv, 3, Len(argv))
  BY <1>1 DEF Selects
<1> SUFFICES Dispatch(other) = Dispatch(argv)
  OBVIOUS
<1> HIDE DEF other
<1>6. CASE ByName(argv)
  <2>1. Dispatch(argv) = Run(Behind(argv[1].name), Undecorated(argv))
    BY <1>6 DEF Dispatch
  <2>2. Dispatch(other) = Run(Behind(other[1].name), Undecorated(other))
    BY <1>3, <1>6 DEF Dispatch
  <2> QED
    BY <1>2, <1>4, <2>1, <2>2, Zenon
<1>7. CASE ~ByName(argv) /\ Selects(argv)
  <2> DEFINE Selected(a) ==
        IF a[2].select \in Announced
        THEN Run(Behind(a[2].select),
                 <<Plain(a[2].select)>> \o SubSeq(a, 3, Len(a)))
        ELSE Usage
  <2>1. Dispatch(argv) = Selected(argv)
    BY <1>7 DEF Dispatch
  <2>2. Dispatch(other) = Selected(other)
    BY <1>3, <1>7 DEF Dispatch
  <2>3. Selected(other) = Selected(argv)
    BY <1>5, <1>7, Zenon
  <2> HIDE DEF Selected
  <2> QED
    BY <2>1, <2>2, <2>3, Zenon
<1>8. CASE ~ByName(argv) /\ ~Selects(argv)
  <2> DEFINE Bare(a) ==
        IF Default = NoProgram THEN Usage ELSE Run(Default, Undecorated(a))
  <2>1. Dispatch(argv) = Bare(argv)
    BY <1>8 DEF Dispatch
  <2>2. Dispatch(other) = Bare(other)
    BY <1>3, <1>8 DEF Dispatch
  <2>3. Bare(other) = Bare(argv)
    BY <1>2, Zenon
  <2> HIDE DEF Bare
  <2> QED
    BY <2>1, <2>2, <2>3, Zenon
<1> QED
  BY <1>6, <1>7, <1>8

\* Induction up to the end of a loop.
LEMMA UpTo ==
  ASSUME NEW N \in Nat, NEW T \in SUBSET Nat, 0 \in T,
         \A k \in 1 .. N : k - 1 \in T => k \in T
  PROVE  \A k \in 0 .. N : k \in T
<1> DEFINE U == {k \in Nat : k <= N => k \in T}
<1>1. 0 \in U
  OBVIOUS
<1>2. ASSUME NEW k \in U PROVE k + 1 \in U
  <2> SUFFICES ASSUME k + 1 <= N PROVE k + 1 \in T
    OBVIOUS
  <2>1. k + 1 \in 1 .. N /\ (k + 1) - 1 = k /\ k \in T
    OBVIOUS
  <2> QED BY <2>1
<1>3. U = Nat
  <2>1. U \in SUBSET Nat
    OBVIOUS
  <2> HIDE DEF U
  <2> QED BY <1>1, <1>2, <2>1, Induct
<1> QED BY <1>3

-------------------------------------------------------------------------------
(* The hook (ApelinkHook) and what a name runs after it.                   *)

\* What a name of bin/ can stand for. An absent one is of no kind.
BinKinds == {"elf", "stripped", "other", "link", "pe"}
BinEntry == {NoEntry} \cup [kind : BinKinds, of : Bin]
BinDir == [Bin -> BinEntry]

LEMMA NoEntryKind == NoEntry.kind = "none"
BY Zenon DEF NoEntry

LEMMA FileFacts ==
  ASSUME NEW k \in BinKinds, NEW o \in Bin
  PROVE  /\ File(k, o) \in BinEntry /\ File(k, o).kind = k
         /\ File(k, o).of = o /\ File(k, o) # NoEntry
<1>1. /\ File(k, o) \in [kind : BinKinds, of : Bin]
      /\ File(k, o).kind = k /\ File(k, o).of = o
  BY DEF File
<1>2. k # "none"
  BY DEF BinKinds
<1> QED BY <1>1, <1>2, NoEntryKind DEF BinEntry

LEMMA EntryFacts ==
  ASSUME NEW e \in BinEntry
  PROVE  /\ e = NoEntry <=> e.kind = "none"
         /\ e # NoEntry => e.kind \in BinKinds /\ e.of \in Bin
<1>1. CASE e = NoEntry
  BY <1>1, NoEntryKind
<1>2. CASE e \in [kind : BinKinds, of : Bin]
  <2>1. e.kind \in BinKinds /\ e.of \in Bin
    BY <1>2
  <2>2. e.kind # "none"
    BY <2>1 DEF BinKinds
  <2> QED BY <2>1, <2>2, NoEntryKind
<1> QED BY <1>1, <1>2 DEF BinEntry

\* The names with and without the suffix.
LEMMA NameFacts ==
  /\ Len(BinOrder) \in Nat
  /\ \A n \in DOMAIN ExeOf :
       n \in Bin /\ ExeOf[n] \in Bin /\ ExeOf[n] \notin DOMAIN ExeOf
  /\ \A n, m \in DOMAIN ExeOf : ExeOf[n] = ExeOf[m] => n = m
  /\ \A n \in Bin : \E i \in 1 .. Len(BinOrder) : BinOrder[i] = n
  /\ \A i, j \in 1 .. Len(BinOrder) : BinOrder[i] = BinOrder[j] => i = j
  /\ \A i \in 1 .. Len(BinOrder) : BinOrder[i] \in Bin
<1>1. BinOrder \in Seq(STRING) /\ DOMAIN BinOrder = 1 .. Len(BinOrder)
      /\ Len(BinOrder) \in Nat
  BY HookAssumption
<1>2. \A n : n \in Bin <=> \E i \in 1 .. Len(BinOrder) : BinOrder[i] = n
  BY <1>1 DEF Bin, ToSet
<1>3. \A n \in DOMAIN ExeOf :
       n \in Bin /\ ExeOf[n] \in Bin /\ ExeOf[n] \notin DOMAIN ExeOf
  BY HookAssumption DEF Bin
<1>4. \A n, m \in DOMAIN ExeOf : ExeOf[n] = ExeOf[m] => n = m
  BY HookAssumption DEF IsInjective
<1>5. \A i, j \in 1 .. Len(BinOrder) : BinOrder[i] = BinOrder[j] => i = j
  BY <1>1, HookAssumption DEF IsInjective
<1> QED BY <1>1, <1>2, <1>3, <1>4, <1>5

-------------------------------------------------------------------------------
(* Where a name leads, if it is no link, or a link to what is none.        *)

Led(dir, n, at) ==
  [k \in 0 .. Len(BinOrder) |->
     IF k = 0 THEN n
     ELSE IF dir[at[k - 1]].kind = "link" THEN dir[at[k - 1]].of
     ELSE at[k - 1]]

LEMMA EndIs ==
  ASSUME NEW dir, NEW n \in Bin, NEW t, dir[t].kind # "link",
         t = n \/ (dir[n].kind = "link" /\ dir[n].of = t)
  PROVE  End(dir, n) = t
<1> DEFINE N == Len(BinOrder)
           one == [k \in 0 .. N |-> IF k = 0 THEN n ELSE t]
           at == CHOOSE f : f = Led(dir, n, f)
<1>1. N \in Nat /\ N >= 1
  BY NameFacts
<1>2. one = Led(dir, n, one)
  <2>1. ASSUME NEW k \in 0 .. N PROVE one[k] = Led(dir, n, one)[k]
    <3>1. CASE k = 0
      BY <3>1 DEF Led
    <3>2. CASE k # 0
      <4>1. k - 1 \in 0 .. N /\ (k - 1 = 0 \/ one[k - 1] = t)
        BY <1>1, <3>2
      <4>2. one[k] = t /\ (one[k - 1] = n \/ one[k - 1] = t)
        BY <3>2, <4>1
      <4>3. Led(dir, n, one)[k] = IF dir[one[k - 1]].kind = "link"
                                  THEN dir[one[k - 1]].of ELSE one[k - 1]
        BY <3>2 DEF Led
      <4> HIDE DEF one
      <4> QED BY <4>2, <4>3
    <3> QED BY <3>1, <3>2
  <2>2. Led(dir, n, one) = [k \in 0 .. N |-> Led(dir, n, one)[k]]
    BY DEF Led
  <2> QED BY <2>1, <2>2
<1>3. at = Led(dir, n, at)
  <2> HIDE DEF one
  <2> QED BY <1>2
<1>4. End(dir, n) = at[N]
  BY DEF End, Led
<1> HIDE DEF at, one, N
<1>5. at[0] = n
  BY <1>1, <1>3 DEF Led, N
<1>6. \A k \in 1 .. N : at[k] = IF dir[at[k - 1]].kind = "link"
                                THEN dir[at[k - 1]].of ELSE at[k - 1]
  BY <1>1, <1>3 DEF Led, N
<1> DEFINE T == {k \in Nat : k + 1 <= N => at[k + 1] = t}
<1>7. 0 \in T
  <2>1. 1 \in 1 .. N /\ 1 - 1 = 0 /\ 0 + 1 = 1
    BY <1>1
  <2> QED BY <1>5, <1>6, <2>1
<1>8. ASSUME NEW k \in T PROVE k + 1 \in T
  <2> SUFFICES ASSUME (k + 1) + 1 <= N PROVE at[(k + 1) + 1] = t
    OBVIOUS
  <2>1. at[k + 1] = t
    BY <1>1
  <2>2. (k + 1) + 1 \in 1 .. N /\ ((k + 1) + 1) - 1 = k + 1
    BY <1>1
  <2> QED BY <1>6, <2>1, <2>2
<1>9. T = Nat
  <2>1. T \in SUBSET Nat
    OBVIOUS
  <2> HIDE DEF T
  <2> QED BY <1>7, <1>8, <2>1, Induct
<1>10. N - 1 \in T
  <2> HIDE DEF T
  <2> QED BY <1>1, <1>9
<1>11. at[N] = t
  BY <1>1, <1>10
<1> QED BY <1>4, <1>11

LEMMA ExistsIs ==
  ASSUME NEW dir, NEW n \in Bin, NEW t, dir[t].kind # "link",
         t = n \/ (dir[n].kind = "link" /\ dir[n].of = t)
  PROVE  Exists(dir, n) <=> dir[t].kind # "none"
BY EndIs DEF Exists

-------------------------------------------------------------------------------
(* The second loop.                                                        *)

Turns(dir, after) ==
  [k \in 0 .. Len(BinOrder) |->
     IF k = 0 THEN dir
     ELSE IF dir[BinOrder[k]] = NoEntry THEN after[k - 1]
     ELSE Rewire(after[k - 1], BinOrder[k])]

\* after[k] is bin/ behind k turns.
Looped(dir, after) ==
  /\ after[0] = dir /\ \A k \in 0 .. Len(BinOrder) : after[k] \in BinDir
  /\ \A k \in 1 .. Len(BinOrder) :
       after[k] = IF dir[BinOrder[k]] = NoEntry THEN after[k - 1]
                  ELSE Rewire(after[k - 1], BinOrder[k])

\* What a turn may change: the name whose turn it is, and that with the suffix.
LEMMA RewireFacts ==
  ASSUME NEW dir \in BinDir, NEW n \in Bin
  PROVE  /\ Rewire(dir, n) \in BinDir
         /\ \A x \in Bin :
              (x = n => dir[n].kind # "link")
              /\ (n \in DOMAIN ExeOf => x # ExeOf[n])
              => Rewire(dir, n)[x] = dir[x]
<1>1. CASE ~Dangling(dir, n)
  BY <1>1 DEF Rewire
<1>2. CASE Dangling(dir, n)
  <2> DEFINE new == IF n \in DOMAIN ExeOf THEN ExeOf[n] ELSE n
             e == File("link", ExeOf[dir[n].of])
  <2>1. Rewire(dir, n) = [dir EXCEPT ![n] = NoEntry, ![new] = e]
    BY <1>2 DEF Rewire
  <2>2. dir[n].of \in DOMAIN ExeOf /\ dir[n].kind = "link"
    BY <1>2 DEF Dangling
  <2>3. new \in Bin /\ e \in BinEntry
    <3>1. "link" \in BinKinds
      BY DEF BinKinds
    <3>2. ExeOf[dir[n].of] \in Bin
      BY <2>2, NameFacts
    <3>3. e \in BinEntry
      BY <3>1, <3>2, FileFacts
    <3> QED BY <3>3, NameFacts
  <2>4. NoEntry \in BinEntry
    BY DEF BinEntry
  <2> HIDE DEF e
  <2>5. Rewire(dir, n) \in BinDir
    <3> HIDE DEF new
    <3> QED BY <2>1, <2>3, <2>4 DEF BinDir
  <2>6. ASSUME NEW x \in Bin, x # n, x # new PROVE Rewire(dir, n)[x] = dir[x]
    <3> HIDE DEF new
    <3> QED BY <2>1, <2>6 DEF BinDir
  <2> QED BY <2>2, <2>5, <2>6
<1> QED BY <1>1, <1>2

LEMMA LoopDefined ==
  ASSUME NEW dir \in BinDir
  PROVE  \E after : Looped(dir, after) /\ Rewired(dir) = after[Len(BinOrder)]
<1> DEFINE N == Len(BinOrder)
           Did(k, d) == IF dir[BinOrder[k]] = NoEntry THEN d
                        ELSE Rewire(d, BinOrder[k])
           G == [k \in 1 .. N |-> [d \in BinDir |-> Did(k, d)]]
           after == CHOOSE f : f = Turns(dir, f)
<1>1. N \in Nat /\ \A k \in 1 .. N : BinOrder[k] \in Bin
  BY NameFacts
<1>2. \A k \in 1 .. N, d \in BinDir : Did(k, d) \in BinDir
  BY <1>1, RewireFacts
<1>3. G \in [1 .. N -> [BinDir -> BinDir]]
  <2> HIDE DEF Did
  <2> QED BY <1>2
<1>4. PICK f : Folds(f, BinDir, dir, N, G)
  <2> HIDE DEF G, N
  <2> QED BY <1>1, <1>3, FoldExists
<1>5. f \in [0 .. N -> BinDir] /\ f[0] = dir
      /\ \A k \in 1 .. N : f[k] = G[k][f[k - 1]]
  <2> HIDE DEF G, N
  <2> QED BY <1>4 DEF Folds
<1>6. \A k \in 1 .. N : f[k - 1] \in BinDir /\ f[k] = Did(k, f[k - 1])
  <2> TAKE k \in 1 .. N
  <2> HIDE DEF Did
  <2>1. f[k - 1] \in BinDir
    BY <1>1, <1>5
  <2>2. G[k] = [d \in BinDir |-> Did(k, d)]
    OBVIOUS
  <2> HIDE DEF G
  <2> QED BY <1>5, <2>1, <2>2
<1>7. f = Turns(dir, f)
  <2> HIDE DEF G
  <2>1. ASSUME NEW k \in 0 .. N PROVE f[k] = Turns(dir, f)[k]
    <3>1. CASE k = 0 BY <1>5, <3>1 DEF Turns
    <3>2. CASE k # 0
      <4>1. k \in 1 .. N BY <1>1, <3>2
      <4> QED BY <1>6, <3>2, <4>1 DEF Turns
    <3> QED BY <3>1, <3>2
  <2>2. f = [k \in 0 .. N |-> f[k]]
    BY <1>5
  <2>3. Turns(dir, f) = [k \in 0 .. N |-> Turns(dir, f)[k]]
    BY DEF Turns
  <2> QED BY <2>1, <2>2, <2>3
<1>8. after = Turns(dir, after)
  BY <1>7
<1>9. Rewired(dir) = after[N]
  BY DEF Rewired, Turns
<1> HIDE DEF after, G
<1>10. /\ after[0] = dir
       /\ \A k \in 1 .. N : after[k] = Did(k, after[k - 1])
  <2>1. Turns(dir, after)[0] = dir
    BY <1>1 DEF Turns
  <2>2. \A k \in 1 .. N : Turns(dir, after)[k] = Did(k, after[k - 1])
    BY <1>1 DEF Turns
  <2> QED BY <1>8, <2>1, <2>2
<1> DEFINE T == {k \in Nat : k <= N => after[k] \in BinDir}
<1>11. T = Nat
  <2>1. 0 \in T
    BY <1>10
  <2>2. ASSUME NEW k \in T PROVE k + 1 \in T
    <3> SUFFICES ASSUME k + 1 <= N PROVE after[k + 1] \in BinDir
      OBVIOUS
    <3>1. k + 1 \in 1 .. N /\ (k + 1) - 1 = k /\ after[k] \in BinDir
      BY <1>1
    <3>2. after[k + 1] = Did(k + 1, after[k])
      BY <1>10, <3>1
    <3> HIDE DEF Did
    <3> QED BY <1>2, <3>1, <3>2
  <2>3. T \in SUBSET Nat
    OBVIOUS
  <2> HIDE DEF T
  <2> QED BY <2>1, <2>2, <2>3, Induct
<1>12. \A k \in 0 .. N : after[k] \in BinDir
  <2>1. \A k \in 0 .. N : k \in T /\ k <= N
    <3> HIDE DEF T
    <3> QED BY <1>1, <1>11
  <2> QED BY <2>1
<1> QED BY <1>9, <1>10, <1>12 DEF Looped

\* A name keeps what it is in a turn that is not its own, nor that of the name
\* without its suffix.
LEMMA TurnKeeps ==
  ASSUME NEW dir \in BinDir, NEW after, Looped(dir, after),
         NEW k \in 1 .. Len(BinOrder), NEW x \in Bin,
         BinOrder[k] = x => dir[x] = NoEntry \/ after[k - 1][x].kind # "link",
         \A n \in DOMAIN ExeOf :
           n = BinOrder[k] /\ ExeOf[n] = x => dir[n] = NoEntry
  PROVE  after[k][x] = after[k - 1][x]
<1> DEFINE n == BinOrder[k]
<1>1. n \in Bin /\ after[k - 1] \in BinDir
  <2>1. k - 1 \in 0 .. Len(BinOrder)
    BY NameFacts
  <2> QED BY <2>1, NameFacts DEF Looped
<1>2. CASE dir[n] = NoEntry
  BY <1>2 DEF Looped
<1>3. CASE dir[n] # NoEntry
  <2>1. after[k] = Rewire(after[k - 1], n)
    BY <1>3 DEF Looped
  <2> HIDE DEF n
  <2> DEFINE d == after[k - 1]
  <2>2. (x = n => d[n].kind # "link") /\ (n \in DOMAIN ExeOf => x # ExeOf[n])
    BY <1>3 DEF n
  <2> HIDE DEF d
  <2>3. Rewire(d, n)[x] = d[x]
    BY <1>1, <2>2, RewireFacts DEF d
  <2> QED BY <2>1, <2>3 DEF d
<1> QED BY <1>2, <1>3

-------------------------------------------------------------------------------
(* bin/ as a package installs it, and after the first loop.                *)

\* No name is there with the suffix and without; a file has no suffix yet, and
\* holds the program it is named after.
Installable(dir) ==
  /\ dir \in BinDir
  /\ \A n \in Bin : dir[n].kind # "pe"
  /\ \A n \in Bin : dir[n].kind \in {"elf", "stripped", "other"} =>
                      n \in DOMAIN ExeOf /\ dir[n].of = n
  /\ \A n \in DOMAIN ExeOf : dir[n] = NoEntry \/ dir[ExeOf[n]] = NoEntry

LEMMA ConvertedFacts ==
  ASSUME NEW dir, Installable(dir)
  PROVE  /\ Converted(dir) \in BinDir
         /\ \A n \in Programs(dir) : /\ Converted(dir)[n] = NoEntry
                                     /\ Converted(dir)[ExeOf[n]] = File("pe", n)
         /\ \A x \in Bin : x \notin Programs(dir)
                           /\ (\A n \in Programs(dir) : ExeOf[n] # x)
                           => Converted(dir)[x] = dir[x]
<1> DEFINE P == Programs(dir)
           At(x) == IF x \in P THEN NoEntry
                    ELSE IF \E m \in P : ExeOf[m] = x
                    THEN File("pe", dir[CHOOSE m \in P : ExeOf[m] = x].of)
                    ELSE dir[x]
<1>1. \A n \in P : /\ n \in DOMAIN ExeOf /\ n \in Bin /\ ExeOf[n] \in Bin
                   /\ ExeOf[n] \notin P /\ dir[n].of = n
  BY NameFacts DEF Programs, Installable
<1>2. Converted(dir) = [x \in Bin |-> At(x)]
  BY DEF Converted
<1> HIDE DEF P
<1>3. ASSUME NEW n \in P
      PROVE  At(n) = NoEntry /\ At(ExeOf[n]) = File("pe", n)
  <2>1. (CHOOSE m \in P : ExeOf[m] = ExeOf[n]) = n
    <3>1. \A m \in P : ExeOf[m] = ExeOf[n] => m = n
      BY <1>1, NameFacts
    <3> QED BY <3>1
  <2>2. ExeOf[n] \notin P /\ dir[n].of = n
    BY <1>1
  <2>3. \E m \in P : ExeOf[m] = ExeOf[n]
    OBVIOUS
  <2> QED BY <2>1, <2>2, <2>3
<1>4. ASSUME NEW x \in Bin, x \notin P, \A n \in P : ExeOf[n] # x
      PROVE  At(x) = dir[x]
  BY <1>4
<1>5. ASSUME NEW x \in Bin PROVE At(x) \in BinEntry
  <2>1. CASE x \in P
    BY <2>1 DEF BinEntry
  <2>2. CASE x \notin P /\ \E n \in P : ExeOf[n] = x
    <3>1. PICK n \in P : ExeOf[n] = x
      BY <2>2
    <3>2. At(x) = File("pe", n)
      BY <1>3, <3>1
    <3>3. "pe" \in BinKinds /\ n \in Bin
      BY <1>1 DEF BinKinds
    <3> HIDE DEF At
    <3> QED BY <3>2, <3>3, FileFacts
  <2>3. CASE x \notin P /\ \A n \in P : ExeOf[n] # x
    <3>1. At(x) = dir[x] /\ dir[x] \in BinEntry
      BY <1>4, <2>3 DEF Installable, BinDir
    <3> QED BY <3>1
  <2> QED BY <2>1, <2>2, <2>3
<1> HIDE DEF At
<1>6. Converted(dir) \in BinDir
  BY <1>2, <1>5 DEF BinDir
<1>7. \A n \in P : /\ Converted(dir)[n] = NoEntry
                   /\ Converted(dir)[ExeOf[n]] = File("pe", n)
  BY <1>1, <1>2, <1>3
<1>8. \A x \in Bin : x \notin P /\ (\A n \in P : ExeOf[n] # x)
                       => Converted(dir)[x] = dir[x]
  BY <1>2, <1>4
<1> QED BY <1>6, <1>7, <1>8 DEF P

\* What was there before the second loop, and is no new program, was installed.
LEMMA ThereBefore ==
  ASSUME NEW dir, Installable(dir), NEW n \in DOMAIN ExeOf,
         Converted(dir)[n] # NoEntry
  PROVE  dir[n] # NoEntry /\ dir[n].kind # "elf" /\ Converted(dir)[n] = dir[n]
<1>1. n \in Bin /\ \A m \in Programs(dir) : ExeOf[m] # n
  BY NameFacts DEF Programs
<1>2. n \notin Programs(dir)
  BY ConvertedFacts
<1>3. Converted(dir)[n] = dir[n]
  BY <1>1, <1>2, ConvertedFacts
<1> QED BY <1>2, <1>3 DEF Programs

\* A name that is neither a program nor what one is renamed to is as it was.
LEMMA LeftAlone ==
  ASSUME NEW dir, Installable(dir), NEW x \in Bin,
         dir[x] # NoEntry, dir[x].kind # "elf"
  PROVE  /\ Converted(dir)[x] = dir[x]
         /\ \A n \in DOMAIN ExeOf : ExeOf[n] = x => Converted(dir)[n] = NoEntry
<1>1. \A n \in DOMAIN ExeOf : ExeOf[n] = x => dir[n] = NoEntry
  BY DEF Installable
<1>2. \A n \in Programs(dir) : ExeOf[n] # x
  <2> SUFFICES ASSUME NEW n \in Programs(dir), ExeOf[n] = x PROVE FALSE
    OBVIOUS
  <2>1. n \in DOMAIN ExeOf /\ dir[n].kind = "elf"
    BY DEF Programs
  <2> QED BY <1>1, <2>1, NoEntryKind
<1>3. x \notin Programs(dir)
  BY DEF Programs
<1>4. Converted(dir)[x] = dir[x]
  BY <1>2, <1>3, ConvertedFacts
<1>5. ASSUME NEW n \in DOMAIN ExeOf, ExeOf[n] = x
      PROVE  Converted(dir)[n] = NoEntry
  <2>1. dir[n] = NoEntry
    BY <1>1, <1>5
  <2> QED BY <2>1, ThereBefore
<1> QED BY <1>4, <1>5

-------------------------------------------------------------------------------
(* What becomes of the three kinds of name that lead to a program.         *)

\* A file other than a program is never touched.
OtherStays(dir, after) ==
  \A x \in Bin : dir[x].kind = "other" =>
    \A k \in 0 .. Len(BinOrder) : after[k][x] = dir[x]

\* A program has its new name from then on.
ProgramStays(dir, after) ==
  \A n \in Programs(dir) :
    \A k \in 0 .. Len(BinOrder) : /\ after[k][n] = NoEntry
                                  /\ after[k][ExeOf[n]] = File("pe", n)

LEMMA LoopInduct ==
  ASSUME NEW T \in SUBSET Nat, 0 \in T,
         \A k \in 1 .. Len(BinOrder) : k - 1 \in T => k \in T
  PROVE  \A k \in 0 .. Len(BinOrder) : k \in T
BY NameFacts, UpTo

LEMMA OthersStay ==
  ASSUME NEW dir, Installable(dir), NEW after, Looped(Converted(dir), after)
  PROVE  OtherStays(dir, after)
<1> DEFINE c == Converted(dir)
<1> SUFFICES ASSUME NEW x \in Bin, dir[x].kind = "other"
             PROVE  \A k \in 0 .. Len(BinOrder) : after[k][x] = dir[x]
  BY DEF OtherStays
<1> DEFINE T == {k \in Nat : k <= Len(BinOrder) => after[k][x] = dir[x]}
<1>1. x \in DOMAIN ExeOf /\ dir[x] # NoEntry /\ c[x] = dir[x] /\ c \in BinDir
  BY LeftAlone, ConvertedFacts, NoEntryKind DEF Installable
<1>2. 0 \in T
  BY <1>1 DEF Looped
<1>3. ASSUME NEW k \in 1 .. Len(BinOrder), k - 1 \in T PROVE k \in T
  <2>1. after[k - 1][x] = dir[x]
    BY <1>3, NameFacts
  <2>2. \A n \in DOMAIN ExeOf : ExeOf[n] # x
    BY <1>1, NameFacts
  <2> HIDE DEF c
  <2>3. after[k][x] = after[k - 1][x]
    BY <1>1, <2>1, <2>2, TurnKeeps DEF c
  <2> QED BY <2>1, <2>3
<1>4. \A k \in 0 .. Len(BinOrder) : k \in T
  <2>1. T \in SUBSET Nat
    OBVIOUS
  <2> HIDE DEF T
  <2> QED BY <1>2, <1>3, <2>1, LoopInduct
<1> QED BY <1>4

LEMMA ProgramsStay ==
  ASSUME NEW dir, Installable(dir), NEW after, Looped(Converted(dir), after)
  PROVE  ProgramStays(dir, after)
<1> DEFINE c == Converted(dir)
<1> SUFFICES ASSUME NEW n \in Programs(dir)
             PROVE  \A k \in 0 .. Len(BinOrder) :
                      after[k][n] = NoEntry /\ after[k][ExeOf[n]] = File("pe", n)
  BY DEF ProgramStays
<1> DEFINE Renamed(k) == after[k][n] = NoEntry /\ after[k][ExeOf[n]] = File("pe", n)
           T == {k \in Nat : k <= Len(BinOrder) => Renamed(k)}
<1>1. /\ n \in DOMAIN ExeOf /\ n \in Bin /\ ExeOf[n] \in Bin
      /\ c[n] = NoEntry /\ c[ExeOf[n]] = File("pe", n) /\ c \in BinDir
  BY ConvertedFacts, NameFacts DEF Programs
<1>2. 0 \in T
  BY <1>1 DEF Looped
<1>3. ASSUME NEW k \in 1 .. Len(BinOrder), k - 1 \in T PROVE k \in T
  <2>1. Renamed(k - 1)
    BY <1>3, NameFacts
  <2>2. File("pe", n).kind # "link"
    <3>1. "pe" \in BinKinds
      BY DEF BinKinds
    <3>2. File("pe", n).kind = "pe"
      BY <1>1, <3>1, FileFacts
    <3> QED BY <3>2
  <2> HIDE DEF c
  <2>3. after[k][n] = after[k - 1][n]
    <3>1. \A m \in DOMAIN ExeOf : ExeOf[m] # n
      BY <1>1, NameFacts
    <3> QED BY <1>1, <3>1, TurnKeeps DEF c
  <2>4. after[k][ExeOf[n]] = after[k - 1][ExeOf[n]]
    <3> DEFINE x == ExeOf[n]
    <3>1. \A m \in DOMAIN ExeOf : ExeOf[m] = x => c[m] = NoEntry
      BY <1>1, NameFacts
    <3>2. x \in Bin /\ after[k - 1][x].kind # "link"
      BY <1>1, <2>1, <2>2
    <3> HIDE DEF x
    <3>3. after[k][x] = after[k - 1][x]
      BY <1>1, <3>1, <3>2, TurnKeeps DEF c
    <3> QED BY <3>3 DEF x
  <2> QED BY <2>1, <2>3, <2>4
<1>4. \A k \in 0 .. Len(BinOrder) : k \in T
  <2>1. T \in SUBSET Nat
    OBVIOUS
  <2> HIDE DEF T
  <2> QED BY <1>2, <1>3, <2>1, LoopInduct
<1> QED BY <1>4

\* A link to a file that is no program is never dangling.
LEMMA LinkStays ==
  ASSUME NEW dir, Installable(dir), NEW after, Looped(Converted(dir), after),
         NEW n \in Bin, dir[n].kind = "link", dir[dir[n].of].kind = "other"
  PROVE  \A k \in 0 .. Len(BinOrder) : after[k][n] = dir[n]
<1> DEFINE c == Converted(dir)
           t == dir[n].of
           T == {k \in Nat : k <= Len(BinOrder) => after[k][n] = dir[n]}
<1>1. /\ c \in BinDir /\ dir[n] # NoEntry /\ dir[n].kind # "elf"
      /\ c[n] = dir[n] /\ t \in Bin
      /\ \A m \in DOMAIN ExeOf : ExeOf[m] = n => c[m] = NoEntry
  <2>1. dir[n] # NoEntry /\ dir[n].kind # "elf" /\ dir[n] \in BinEntry
    BY NoEntryKind DEF Installable, BinDir
  <2> QED BY <2>1, LeftAlone, ConvertedFacts, EntryFacts
<1>2. 0 \in T
  BY <1>1 DEF Looped
<1>3. ASSUME NEW k \in 1 .. Len(BinOrder), k - 1 \in T PROVE k \in T
  <2> DEFINE d == after[k - 1]
  <2>1. k - 1 \in 0 .. Len(BinOrder) /\ k - 1 \in Nat
    BY NameFacts
  <2>2. d[n] = dir[n] /\ d[t] = dir[t]
    BY <1>1, <1>3, <2>1, OthersStay DEF OtherStays
  <2> HIDE DEF d, c, T
  <2>3. CASE BinOrder[k] = n
    <3>1. ~Dangling(d, n)
      <4>1. d[t].kind # "link" /\ d[t].kind # "none"
        BY <2>2
      <4>2. d[n].kind = "link" /\ d[n].of = t
        BY <2>2
      <4> HIDE DEF t
      <4>3. Exists(d, n)
        BY <4>1, <4>2, ExistsIs
      <4> QED BY <4>3 DEF Dangling
    <3>2. Rewire(d, n) = d
      BY <3>1 DEF Rewire
    <3>3. after[k] = d
      BY <2>3, <3>2 DEF Looped, d
    <3> QED BY <2>2, <3>3 DEF T
  <2>4. CASE BinOrder[k] # n
    <3>1. after[k][n] = after[k - 1][n]
      BY <1>1, <2>4, TurnKeeps DEF c
    <3> QED BY <2>2, <3>1 DEF T, d
  <2> QED BY <2>3, <2>4
<1>4. \A k \in 0 .. Len(BinOrder) : k \in T
  <2>1. T \in SUBSET Nat
    OBVIOUS
  <2> HIDE DEF T
  <2> QED BY <1>2, <1>3, <2>1, LoopInduct
<1> QED BY <1>4

\* The name a link is made again under.
NewName(n) == IF n \in DOMAIN ExeOf THEN ExeOf[n] ELSE n

\* A link to a program is as it was until its turn, and leads to the program's
\* new name from then on.
LEMMA LinkFollows ==
  ASSUME NEW dir, Installable(dir), NEW after, Looped(Converted(dir), after),
         NEW n \in Bin, dir[n].kind = "link", dir[dir[n].of].kind = "elf"
  PROVE  after[Len(BinOrder)][NewName(n)] = File("link", ExeOf[dir[n].of])
<1> DEFINE c == Converted(dir)
           t == dir[n].of
           new == NewName(n)
           e == File("link", ExeOf[t])
           N == Len(BinOrder)
<1>1. /\ c \in BinDir /\ dir[n] # NoEntry /\ dir[n].kind # "elf"
      /\ c[n] = dir[n] /\ t \in Bin
      /\ \A m \in DOMAIN ExeOf : ExeOf[m] = n => c[m] = NoEntry
  <2>1. dir[n] # NoEntry /\ dir[n].kind # "elf" /\ dir[n] \in BinEntry
    BY NoEntryKind DEF Installable, BinDir
  <2> QED BY <2>1, LeftAlone, ConvertedFacts, EntryFacts
<1>2. t \in DOMAIN ExeOf /\ t \in Programs(dir) /\ ExeOf[t] \in Bin
  BY <1>1, NameFacts DEF Installable, Programs
<1>3. new \in Bin /\ (n \in DOMAIN ExeOf => new = ExeOf[n])
      /\ (n \notin DOMAIN ExeOf => new = n)
  BY NameFacts DEF NewName
<1>4. n \in DOMAIN ExeOf => c[new] = NoEntry
  <2> SUFFICES ASSUME n \in DOMAIN ExeOf PROVE c[ExeOf[n]] = NoEntry
    BY <1>3
  <2>1. dir[ExeOf[n]] = NoEntry /\ ExeOf[n] \in Bin
    BY <1>1 , NameFacts DEF Installable
  <2>2. ExeOf[n] \notin Programs(dir)
    BY NameFacts DEF Programs
  <2>3. \A m \in Programs(dir) : ExeOf[m] # ExeOf[n]
    <3> SUFFICES ASSUME NEW m \in Programs(dir), ExeOf[m] = ExeOf[n] PROVE FALSE
      OBVIOUS
    <3>1. m \in DOMAIN ExeOf /\ dir[m].kind = "elf"
      BY DEF Programs
    <3>2. m = n
      BY <3>1, NameFacts
    <3> QED BY <3>1, <3>2
  <2> QED BY <2>1, <2>2, <2>3, ConvertedFacts
<1>5. PICK p \in 1 .. N : BinOrder[p] = n
  BY NameFacts
<1>6. \A k \in 1 .. N : BinOrder[k] = n => k = p
  BY <1>5, NameFacts
<1>7. N \in Nat
  BY NameFacts
<1>8. \A k \in 0 .. N : after[k] \in BinDir
                        /\ after[k][t] = NoEntry
                        /\ after[k][ExeOf[t]] = File("pe", t)
  BY <1>2, ProgramsStay DEF ProgramStays, Looped
<1> HIDE DEF c, new, e, N
<1> DEFINE Follows(k) == /\ k < p => after[k][n] = dir[n]
                         /\ p <= k => after[k][new] = e
           T == {k \in Nat : k <= N => Follows(k)}
<1>9. 0 \in T
  <2>1. after[0] = c
    BY DEF Looped, c
  <2> QED BY <1>1, <1>5, <2>1
<1>10. ASSUME NEW k \in 1 .. N, k - 1 \in T PROVE k \in T
  <2>1. Follows(k - 1) /\ k - 1 \in 0 .. N /\ k \in Nat
    BY <1>7, <1>10
  <2> HIDE DEF T
  <2>2. CASE k < p
    <3>1. BinOrder[k] # n
      BY <1>6, <2>2
    <3>2. after[k][n] = after[k - 1][n]
      BY <1>1, <3>1, TurnKeeps DEF c, N
    <3>3. after[k - 1][n] = dir[n]
      BY <2>1, <2>2
    <3> QED BY <2>1, <2>2, <3>2, <3>3 DEF T
  <2>3. CASE k = p
    <3> DEFINE d == after[k - 1]
    <3>1. /\ d \in BinDir /\ d[n] = dir[n] /\ d[t] = NoEntry
          /\ d[ExeOf[t]] = File("pe", t)
      BY <1>8, <2>1, <2>3
    <3>2. after[k] = Rewire(d, n)
      BY <1>1, <1>5, <2>3 DEF Looped, c, N
    <3> HIDE DEF d
    <3>3. Dangling(d, n)
      <4>1. d[n].kind = "link" /\ d[n].of = t /\ d[t].kind = "none"
        BY <3>1, NoEntryKind
      <4> DEFINE x == ExeOf[t]
      <4>2. d[x].kind = "pe" /\ x \in Bin
        <5>1. "pe" \in BinKinds
          BY DEF BinKinds
        <5> QED BY <1>1, <1>2, <3>1, <5>1, FileFacts
      <4> HIDE DEF t, x
      <4>3. ~Exists(d, n)
        BY <4>1, ExistsIs
      <4>4. Exists(d, x)
        BY <4>2, ExistsIs
      <4> QED BY <1>2, <4>1, <4>3, <4>4 DEF Dangling, x
    <3>4. Rewire(d, n) = [d EXCEPT ![n] = NoEntry, ![new] = e]
      BY <3>1, <3>3 DEF Rewire, new, NewName, e
    <3>5. Rewire(d, n)[new] = e
      BY <1>3, <3>1, <3>4 DEF BinDir
    <3> QED BY <2>1, <2>3, <3>2, <3>5 DEF T
  <2>4. CASE p < k
    <3>1. BinOrder[k] # n
      BY <1>5, <1>6, <2>4
    <3>2. after[k - 1][new] = e
      BY <1>5, <2>1, <2>4
    <3>3. BinOrder[k] = new => c[new] = NoEntry
      BY <1>3, <1>4, <3>1
    <3>4. \A m \in DOMAIN ExeOf : m = BinOrder[k] /\ ExeOf[m] = new
                                    => c[m] = NoEntry
      <4> SUFFICES ASSUME NEW m \in DOMAIN ExeOf, m = BinOrder[k],
                          ExeOf[m] = new
                   PROVE  c[m] = NoEntry
        OBVIOUS
      <4>1. CASE n \in DOMAIN ExeOf
        BY <1>3, <3>1, <4>1, NameFacts
      <4>2. CASE n \notin DOMAIN ExeOf
        BY <1>1, <1>3, <4>2
      <4> QED BY <4>1, <4>2
    <3>5. after[k][new] = after[k - 1][new]
      BY <1>1, <1>3, <3>3, <3>4, TurnKeeps DEF c, N
    <3> QED BY <1>5, <2>1, <2>4, <3>2, <3>5 DEF T
  <2> QED BY <1>5, <2>1, <2>2, <2>3, <2>4
<1>11. \A k \in 0 .. N : k \in T
  <2>1. T \in SUBSET Nat
    OBVIOUS
  <2> HIDE DEF T
  <2> QED BY <1>9, <1>10, <2>1, LoopInduct DEF N
<1>12. N \in T /\ p <= N
  BY <1>5, <1>7, <1>11
<1> QED BY <1>5, <1>7, <1>12 DEF new, e, N

-------------------------------------------------------------------------------
(* A name with the suffix calls what the name without it does.             *)

LEMMA StemFacts ==
  \A n \in DOMAIN ExeOf : Stem(n) = n /\ Stem(ExeOf[n]) = n
<1> TAKE n \in DOMAIN ExeOf
<1>1. ~IsExe(n) /\ IsExe(ExeOf[n])
  BY NameFacts DEF IsExe
<1>2. (CHOOSE k \in DOMAIN ExeOf : ExeOf[k] = ExeOf[n]) = n
  <2>1. \A k \in DOMAIN ExeOf : ExeOf[k] = ExeOf[n] => k = n
    BY NameFacts
  <2> QED BY <2>1
<1> QED BY <1>1, <1>2 DEF Stem

\* Two argvs that differ in what decorates argv[0].
LEMMA HeadReplaced ==
  ASSUME NEW S, NEW N, NEW s \in Seq(S),
         NEW a \in [lt : BOOLEAN, name : N, exe : BOOLEAN],
         NEW b \in [lt : BOOLEAN, name : N, exe : BOOLEAN], a.name = b.name
  PROVE  Dispatch(<<a>> \o s) = Dispatch(<<b>> \o s)
<1> DEFINE U == S \cup {a, b}
           f == <<a>> \o s
           g == <<b>> \o s
           h == [f EXCEPT ![1] = b]
           other == [f EXCEPT ![1] = Argv0(b.lt, f[1].name, b.exe)]
<1>1. s \in Seq(U) /\ a \in U /\ b \in U
  OBVIOUS
<1> HIDE DEF U
<1>2. f \in Seq(U) /\ g \in Seq(U)
  BY <1>1
<1>3. /\ Len(s) \in Nat /\ Len(f) = Len(s) + 1 /\ Len(g) = Len(s) + 1
      /\ f[1] = a /\ g[1] = b
      /\ \A i \in 2 .. Len(s) + 1 : f[i] = g[i]
  BY <1>1
<1>4. h = g
  <2>1. DOMAIN f = 1 .. Len(s) + 1 /\ DOMAIN g = 1 .. Len(s) + 1
    BY <1>2, <1>3
  <2>2. f = [i \in DOMAIN f |-> f[i]] /\ g = [i \in DOMAIN g |-> g[i]]
    BY <1>2
  <2>3. \A i \in 1 .. Len(s) + 1 : i = 1 \/ i \in 2 .. Len(s) + 1
    BY <1>3
  <2>4. g[1] = b /\ \A i \in 2 .. Len(s) + 1 : f[i] = g[i] /\ i # 1
    BY <1>3
  <2> HIDE DEF f, g
  <2>5. h = [i \in DOMAIN f |-> IF i = 1 THEN b ELSE f[i]]
    OBVIOUS
  <2>6. \A i \in DOMAIN g : g[i] = IF i = 1 THEN b ELSE f[i]
    BY <2>1, <2>3, <2>4
  <2> HIDE DEF h
  <2> QED BY <2>1, <2>2, <2>5, <2>6
<1>5. Len(f) > 0
  <2> HIDE DEF f, g
  <2> QED BY <1>3
<1>6. Argv0(b.lt, f[1].name, b.exe) = b
  <2>1. Argv0(b.lt, b.name, b.exe) = b
    BY DEF Argv0
  <2> QED BY <1>3, <2>1, Zenon
<1>7. other = h
  <2> HIDE DEF f
  <2> QED BY <1>6
<1> HIDE DEF f, g, h
<1>8. Dispatch(other) = Dispatch(f)
  <2>1. f[1] \in [lt : BOOLEAN, name : N, exe : BOOLEAN]
    BY <1>3
  <2>2. b.lt \in BOOLEAN /\ b.exe \in BOOLEAN
    OBVIOUS
  <2> QED BY <1>2, <1>5, <2>1, <2>2, NameDecides
<1> HIDE DEF other
<1>9. Dispatch(g) = Dispatch(f)
  BY <1>4, <1>7, <1>8, Zenon
<1> QED BY <1>9 DEF f, g

\* One program, as it was installed and under its new name.
SameProgram(e, f) ==
  e.of = f.of /\ (e.kind = "other" <=> f.kind = "other")

RunsAlike(a, m, b, n) ==
  \A args \in Args, lt \in BOOLEAN :
    Invoke(a, m, lt, args) = Invoke(b, n, FALSE, args)

\* What two names run, in two directories, when both lead to the same program.
LEMMA InvokeAlike ==
  ASSUME NEW a, NEW b, NEW m, NEW n, Stem(m) = Stem(n),
         SameProgram(a[End(a, m)], b[End(b, n)])
  PROVE  RunsAlike(a, m, b, n)
<1> SUFFICES ASSUME NEW args \in Args, NEW lt \in BOOLEAN
             PROVE  Invoke(a, m, lt, args) = Invoke(b, n, FALSE, args)
  BY DEF RunsAlike
<1> DEFINE S == [word : STRING, select : STRING]
           N == {Stem(n)}
           own == Argv0(FALSE, Stem(n), IsExe(n))
           new == Argv0(lt, Stem(n), IsExe(m))
<1>1. args \in Seq(S)
  BY BuildAssumption
<1>2. IsExe(n) \in BOOLEAN /\ IsExe(m) \in BOOLEAN
  BY DEF IsExe
<1>3. /\ own \in [lt : BOOLEAN, name : N, exe : BOOLEAN]
      /\ new \in [lt : BOOLEAN, name : N, exe : BOOLEAN]
      /\ own.name = new.name
  BY <1>2 DEF Argv0
<1> HIDE DEF own, new, N, S
<1>4. Dispatch(<<new>> \o args) = Dispatch(<<own>> \o args)
  BY <1>1, <1>3, HeadReplaced
<1>5. /\ new = Argv0(lt, Stem(m), IsExe(m))
      /\ own = Argv0(FALSE, Stem(n), IsExe(n))
  BY DEF own, new
<1> QED BY <1>4, <1>5 DEF Invoke, SameProgram

\* NamesRun, for a bin/ that is installed and its hooked form.
RunAlike(dir, hooked) ==
  \A n \in Bin :
    LET to == IF dir[n].kind = "link" THEN dir[n].of ELSE n
    IN  dir[to].kind \in {"elf", "other"} =>
          \E m \in Spellings(n) :
            /\ Exists(hooked, m)
            /\ RunsAlike(hooked, m, dir, n)

LEMMA HookKeeps ==
  ASSUME NEW dir, Installable(dir)
  PROVE  RunAlike(dir, Hooked(dir))
<1>1. Converted(dir) \in BinDir
  BY ConvertedFacts
<1>2. PICK after : /\ Looped(Converted(dir), after)
                   /\ Rewired(Converted(dir)) = after[Len(BinOrder)]
  BY <1>1, LoopDefined
<1> DEFINE N == Len(BinOrder)
           hooked == after[N]
<1>3. N \in 0 .. N
  BY NameFacts
<1>4. Hooked(dir) = hooked
  BY <1>2 DEF Hooked
<1> SUFFICES ASSUME NEW n \in Bin, NEW to,
                    to = IF dir[n].kind = "link" THEN dir[n].of ELSE n,
                    dir[to].kind \in {"elf", "other"}
             PROVE  \E m \in Spellings(n) :
                      /\ Exists(hooked, m)
                      /\ RunsAlike(hooked, m, dir, n)
  BY <1>4 DEF RunAlike
<1>5. to \in Bin
  <2>1. dir[n] \in BinEntry
    BY DEF Installable, BinDir
  <2>2. dir[n].kind = "link" => dir[n].of \in Bin
    BY <2>1, EntryFacts, NoEntryKind
  <2> QED BY <2>2
<1>6. to \in DOMAIN ExeOf /\ dir[to].of = to
  BY <1>5 DEF Installable
<1>7. End(dir, n) = to
  BY EndIs
<1>8. ASSUME NEW m \in Bin, m \in Spellings(n), Stem(m) = Stem(n),
             NEW t, End(hooked, m) = t, hooked[t].of = to,
             hooked[t].kind \notin {"none", "link"},
             hooked[t].kind = "other" <=> dir[to].kind = "other"
      PROVE  \E x \in Spellings(n) :
               /\ Exists(hooked, x)
               /\ RunsAlike(hooked, x, dir, n)
  <2> HIDE DEF hooked
  <2>1. Exists(hooked, m)
    BY <1>8 DEF Exists
  <2>2. SameProgram(hooked[End(hooked, m)], dir[End(dir, n)])
    BY <1>6, <1>7, <1>8 DEF SameProgram
  <2>3. RunsAlike(hooked, m, dir, n)
    BY <1>8, <2>2, InvokeAlike
  <2> QED BY <1>8, <2>1, <2>3
<1>9. CASE dir[to].kind = "elf"
  <2> DEFINE pe == ExeOf[to]
             m == NewName(n)
  <2>1. to \in Programs(dir) /\ pe \in Bin
    BY <1>6, <1>9, NameFacts DEF Programs
  <2>2. hooked[pe] = File("pe", to)
    BY <1>2, <1>3, <2>1, ProgramsStay DEF ProgramStays
  <2>3. "pe" \in BinKinds /\ "link" \in BinKinds
    BY DEF BinKinds
  <2>4. hooked[pe].kind = "pe" /\ hooked[pe].of = to
    BY <1>5, <2>2, <2>3, FileFacts
  <2>5. m \in Bin /\ m \in Spellings(n) /\ Stem(m) = Stem(n)
    BY NameFacts, StemFacts DEF NewName, Spellings
  <2>6. m = pe \/ (hooked[m].kind = "link" /\ hooked[m].of = pe)
    <3>1. CASE dir[n].kind # "link"
      BY <1>6, <3>1 DEF NewName
    <3>2. CASE dir[n].kind = "link"
      <4>1. hooked[m] = File("link", pe)
        BY <1>2, <1>9, <3>2, LinkFollows
      <4> QED BY <2>1, <2>3, <4>1, FileFacts
    <3> QED BY <3>1, <3>2
  <2> HIDE DEF hooked, pe, m
  <2>7. End(hooked, m) = pe
    BY <2>4, <2>5, <2>6, EndIs
  <2> QED BY <1>8, <1>9, <2>4, <2>5, <2>7
<1>10. CASE dir[to].kind = "other"
  <2>1. hooked[to] = dir[to]
    BY <1>2, <1>3, <1>5, <1>10, OthersStay DEF OtherStays
  <2>2. hooked[n] = dir[n]
    BY <1>2, <1>3, <1>10, <2>1, LinkStays
  <2>3. to = n \/ (hooked[n].kind = "link" /\ hooked[n].of = to)
    BY <2>2
  <2>4. n \in Spellings(n)
    BY DEF Spellings
  <2> HIDE DEF hooked
  <2>5. End(hooked, n) = to
    BY <1>10, <2>1, <2>3, EndIs
  <2> QED BY <1>6, <1>8, <1>10, <2>1, <2>4, <2>5
<1> QED BY <1>9, <1>10

-------------------------------------------------------------------------------
(* bin/ until the hook, and behind it.                                     *)

NamesInv ==
  /\ doing = "programs" => Installable(bins)
  /\ doing = "hooked" => Installable(installed) /\ bins = Hooked(installed)

LEMMA NamesInit == PackageInit => NamesInv
<1> SUFFICES ASSUME PackageInit PROVE NamesInv
  OBVIOUS
<1>1. doing = "programs" /\ bins = NoBins
  BY DEF PackageInit
<1>2. \A n \in Bin : NoBins[n] = NoEntry
  BY DEF NoBins
<1>3. NoBins \in BinDir
  <2>1. NoEntry \in BinEntry
    BY DEF BinEntry
  <2> QED BY <2>1 DEF BinDir, NoBins
<1>4. Installable(NoBins)
  BY <1>2, <1>3, NameFacts, NoEntryKind DEF Installable
<1> QED BY <1>1, <1>4 DEF NamesInv

LEMMA InstallKeeps ==
  ASSUME NamesInv, NEW n \in Bin, NEW e \in Entry, InstallProgram(n, e)
  PROVE  NamesInv'
<1> DEFINE of == IF e.kind = "link" THEN e.of ELSE n
           f == File(e.kind, of)
<1>1. /\ Installable(bins) /\ doing' = "programs"
      /\ bins' = [bins EXCEPT ![n] = f] /\ bins \in BinDir
  BY DEF NamesInv, InstallProgram, Installable
<1>2. e.kind \in {"elf", "stripped", "other", "link"} /\ of \in Bin
  BY BuildAssumption
<1>3. e.kind \in BinKinds /\ e.kind # "pe"
  BY <1>2 DEF BinKinds
<1> HIDE DEF of
<1>4. f \in BinEntry /\ f.kind = e.kind /\ f.of = of
  BY <1>2, <1>3, FileFacts
<1>5. /\ \A k \in DOMAIN ExeOf : ExeOf[k] = n => bins[k] = NoEntry
      /\ n \in DOMAIN ExeOf => bins[ExeOf[n]] = NoEntry
      /\ e.kind # "link" => n \in DOMAIN ExeOf
  BY DEF InstallProgram, Spellings
<1> HIDE DEF f
<1>6. /\ bins' \in BinDir /\ bins'[n] = f
      /\ \A x \in Bin : x # n => bins'[x] = bins[x]
  BY <1>1, <1>4 DEF BinDir
<1>7. \A x \in Bin : bins'[x].kind # "pe"
  BY <1>1, <1>3, <1>4, <1>6 DEF Installable
<1>8. ASSUME NEW x \in Bin, bins'[x].kind \in {"elf", "stripped", "other"}
      PROVE  x \in DOMAIN ExeOf /\ bins'[x].of = x
  <2>1. CASE x = n
    BY <1>4, <1>5, <1>6, <1>8, <2>1 DEF of
  <2>2. CASE x # n
    BY <1>1, <1>6, <1>8, <2>2 DEF Installable
  <2> QED BY <2>1, <2>2
<1>9. ASSUME NEW k \in DOMAIN ExeOf
      PROVE  bins'[k] = NoEntry \/ bins'[ExeOf[k]] = NoEntry
  <2>1. k \in Bin /\ ExeOf[k] \in Bin /\ ExeOf[k] # k
    BY NameFacts
  <2>2. CASE k = n
    BY <1>5, <1>6, <2>1, <2>2
  <2>3. CASE ExeOf[k] = n
    BY <1>5, <1>6, <2>1, <2>3
  <2>4. CASE k # n /\ ExeOf[k] # n
    BY <1>1, <1>6, <2>1, <2>4 DEF Installable
  <2> QED BY <2>2, <2>3, <2>4
<1>10. Installable(bins')
  BY <1>6, <1>7, <1>8, <1>9 DEF Installable
<1> QED BY <1>1, <1>10 DEF NamesInv

LEMMA FixupKeeps == NamesInv /\ Fixup => NamesInv'
<1> SUFFICES ASSUME NamesInv, Fixup PROVE NamesInv'
  OBVIOUS
<1>1. CASE Unconverted(bins) # {}
  <2>1. UNCHANGED <<doing, bins, installed>>
    BY <1>1 DEF Fixup
  <2> QED BY <2>1 DEF NamesInv
<1>2. CASE Unconverted(bins) = {}
  <2>1. /\ doing = "programs" /\ doing' = "hooked"
        /\ bins' = Hooked(bins) /\ installed' = bins
    BY <1>2 DEF Fixup
  <2>2. Installable(bins)
    BY <2>1 DEF NamesInv
  <2> QED BY <2>1, <2>2 DEF NamesInv
<1> QED BY <1>1, <1>2

\* What a step that does not install a program or run the hook leaves of bin/.
LEMMA NamesLeft ==
  NamesInv /\ (UNCHANGED <<doing, bins, installed>>
               \/ doing' \notin {"programs", "hooked"})
    => NamesInv'
BY DEF NamesInv

LEMMA NamesStep == NamesInv /\ [PackageNext]_packageVars => NamesInv'
<1> SUFFICES ASSUME NamesInv, [PackageNext]_packageVars PROVE NamesInv'
  OBVIOUS
<1>1. ASSUME NEW n \in Bin, NEW e \in Entry, InstallProgram(n, e)
      PROVE  NamesInv'
  BY <1>1, InstallKeeps
<1>2. CASE Fixup
  BY <1>2, FixupKeeps
<1>3. CASE BeginPages
  BY <1>3, NamesLeft DEF BeginPages
<1>4. ASSUME NEW f \in ToSet(PageFiles), NEW body \in Body, InstallPage(f, body)
      PROVE  NamesInv'
  BY <1>4, NamesLeft DEF InstallPage
<1>5. ASSUME NEW folds \in BOOLEAN, StageMan(folds)
      PROVE  NamesInv'
  <2>1. UNCHANGED <<doing, bins, installed>>
        \/ doing' \notin {"programs", "hooked"}
    BY <1>5 DEF StageMan
  <2> QED BY <2>1, NamesLeft
<1>6. CASE Embedding
  BY <1>6, NamesLeft DEF Embedding
<1>7. CASE UNCHANGED packageVars
  BY <1>7, NamesLeft DEF packageVars
<1> QED BY <1>1, <1>2, <1>3, <1>4, <1>5, <1>6, <1>7 DEF PackageNext

\* Whatever a name of bin/ ran before the hook of a Cosmopolitan build renamed
\* the programs (cosmoApelinkBins), it runs after, by itself or with ".exe", and
\* is handed the same argv (multicallTableDispatcherC): for every set of names,
\* programs and links that a package installs, in whatever order the loops of
\* the hook come to them.
THEOREM NamesRunOn == PackageSpec => []NamesRun
<1>1. NamesInv => NamesRun
  <2> SUFFICES ASSUME doing = "hooked", NamesInv
               PROVE  RunAlike(installed, bins)
    BY DEF NamesRun, RunAlike, RunsAlike
  <2> QED BY HookKeeps DEF NamesInv
<1> QED BY <1>1, NamesInit, NamesStep, PTL DEF PackageSpec

-------------------------------------------------------------------------------
(* The pages (ManStage) on a host that folds case and on one that does not. *)

ManFiles == ToSet(PageFiles)
There == Body \cup {NoFileThere}
PageTree == [ManFiles -> There]
Write == [file : ManFiles, body : Body]

LEMMA ManFilesFacts ==
  /\ Len(PageFiles) \in Nat
  /\ \A f \in ManFiles : \E i \in 1 .. Len(PageFiles) : PageFiles[i] = f
  /\ \A i \in 1 .. Len(PageFiles) : PageFiles[i] \in ManFiles
  /\ NoFileThere \notin Body
<1>1. PageFiles \in Seq(STRING) /\ DOMAIN PageFiles = 1 .. Len(PageFiles)
      /\ Len(PageFiles) \in Nat
  BY ManAssumption
<1>2. \A f : f \in ManFiles <=> \E i \in 1 .. Len(PageFiles) : PageFiles[i] = f
  BY <1>1 DEF ManFiles, ToSet
<1> QED BY <1>1, <1>2, BuildAssumption

\* The files a write goes to: those there whose names differ only in case.
Same(folds, tree, w) ==
  {g \in DOMAIN tree : /\ tree[g] # NoFileThere
                       /\ folds /\ FoldFile[g] = FoldFile[w.file]}

\* A write goes to x.
PutAt(folds, tree, w, new, x) ==
  /\ new = [tree EXCEPT ![x] = w.body]
  /\ \/ x = w.file /\ Same(folds, tree, w) = {}
     \/ folds /\ tree[x] # NoFileThere /\ FoldFile[x] = FoldFile[w.file]

LEMMA PutFacts ==
  ASSUME NEW folds \in BOOLEAN, NEW tree \in PageTree, NEW w \in Write
  PROVE  /\ Put(folds, tree, w) \in PageTree
         /\ \E x \in ManFiles : PutAt(folds, tree, w, Put(folds, tree, w), x)
<1> DEFINE S == Same(folds, tree, w)
<1>1. w.file \in ManFiles /\ w.body \in There /\ DOMAIN tree = ManFiles
  BY DEF Write, There, PageTree
<1>2. CASE S = {}
  <2>1. Put(folds, tree, w) = [tree EXCEPT ![w.file] = w.body]
    BY <1>2 DEF Put, Same
  <2> QED BY <1>1, <1>2, <2>1 DEF PageTree, PutAt
<1>3. CASE S # {}
  <2> DEFINE x == CHOOSE g \in S : TRUE
  <2>1. Put(folds, tree, w) = [tree EXCEPT ![x] = w.body]
    BY <1>3 DEF Put, Same
  <2>2. x \in S
    BY <1>3
  <2>3. x \in ManFiles /\ folds /\ tree[x] # NoFileThere
        /\ FoldFile[x] = FoldFile[w.file]
    BY <1>1, <2>2 DEF Same
  <2> HIDE DEF x
  <2> QED BY <1>1, <2>1, <2>3 DEF PageTree, PutAt
<1> QED BY <1>2, <1>3

\* after[k] is what is there behind k writes.
PutBy(folds, writes, after) ==
  /\ after[0] = [f \in ManFiles |-> NoFileThere]
  /\ \A k \in 0 .. Len(writes) : after[k] \in PageTree
  /\ \A k \in 1 .. Len(writes) : after[k] = Put(folds, after[k - 1], writes[k])

Writes(folds, writes, after) ==
  [k \in 0 .. Len(writes) |->
     IF k = 0 THEN [f \in ToSet(PageFiles) |-> NoFileThere]
     ELSE Put(folds, after[k - 1], writes[k])]

LEMMA InstallDefined ==
  ASSUME NEW folds \in BOOLEAN, NEW writes \in Seq(Write)
  PROVE  \E after : /\ PutBy(folds, writes, after)
                    /\ Installed(folds, writes) = after[Len(writes)]
<1> DEFINE N == Len(writes)
           none == [f \in ManFiles |-> NoFileThere]
           G == [k \in 1 .. N |-> [t \in PageTree |-> Put(folds, t, writes[k])]]
           after == CHOOSE f : f = Writes(folds, writes, f)
<1>1. N \in Nat /\ \A k \in 1 .. N : writes[k] \in Write
  OBVIOUS
<1>2. \A k \in 1 .. N, t \in PageTree : Put(folds, t, writes[k]) \in PageTree
  BY <1>1, PutFacts
<1>3. G \in [1 .. N -> [PageTree -> PageTree]] /\ none \in PageTree
  BY <1>2 DEF PageTree, There
<1>4. PICK f : Folds(f, PageTree, none, N, G)
  <2> HIDE DEF G, N, none
  <2> QED BY <1>1, <1>3, FoldExists
<1>5. f \in [0 .. N -> PageTree] /\ f[0] = none
      /\ \A k \in 1 .. N : f[k] = G[k][f[k - 1]]
  <2> HIDE DEF G, N, none
  <2> QED BY <1>4 DEF Folds
<1>6. \A k \in 1 .. N : f[k] = Put(folds, f[k - 1], writes[k])
  <2> TAKE k \in 1 .. N
  <2>1. f[k - 1] \in PageTree
    BY <1>1, <1>5
  <2>2. G[k] = [t \in PageTree |-> Put(folds, t, writes[k])]
    OBVIOUS
  <2> HIDE DEF G
  <2> QED BY <1>5, <2>1, <2>2
<1> HIDE DEF G
<1>7. f = Writes(folds, writes, f)
  <2>1. ASSUME NEW k \in 0 .. N PROVE f[k] = Writes(folds, writes, f)[k]
    <3>1. CASE k = 0 BY <1>5, <3>1 DEF Writes, ManFiles
    <3>2. CASE k # 0
      <4>1. k \in 1 .. N BY <1>1, <3>2
      <4> QED BY <1>6, <3>2, <4>1 DEF Writes
    <3> QED BY <3>1, <3>2
  <2>2. f = [k \in 0 .. N |-> f[k]]
    BY <1>5
  <2>3. Writes(folds, writes, f) = [k \in 0 .. N |-> Writes(folds, writes, f)[k]]
    BY DEF Writes
  <2> QED BY <2>1, <2>2, <2>3
<1>8. after = Writes(folds, writes, after)
  BY <1>7
<1>9. Installed(folds, writes) = after[N]
  BY DEF Installed, Writes
<1> HIDE DEF after
<1>10. /\ after[0] = none
       /\ \A k \in 1 .. N : after[k] = Put(folds, after[k - 1], writes[k])
  <2>1. Writes(folds, writes, after)[0] = none
    BY <1>1 DEF Writes, ManFiles
  <2>2. \A k \in 1 .. N : Writes(folds, writes, after)[k]
                            = Put(folds, after[k - 1], writes[k])
    BY <1>1 DEF Writes
  <2> HIDE DEF none
  <2> QED BY <1>8, <2>1, <2>2
<1> DEFINE T == {k \in Nat : after[k] \in PageTree}
<1>11. \A k \in 0 .. N : k \in T
  <2>1. 0 \in T /\ T \in SUBSET Nat
    BY <1>3, <1>10
  <2>2. ASSUME NEW k \in 1 .. N, k - 1 \in T PROVE k \in T
    BY <1>2, <1>10, <2>2
  <2> HIDE DEF T
  <2> QED BY <1>1, <2>1, <2>2, UpTo
<1> QED BY <1>9, <1>10, <1>11 DEF PutBy

-------------------------------------------------------------------------------
(* The same writes on both hosts.                                          *)

\* What the two hosts have: f is u with files that differ in case made one.
Merged(u, f) ==
  /\ \A x \in ManFiles : u[x] # NoFileThere =>
       \E r \in ManFiles : f[r] # NoFileThere /\ FoldFile[r] = FoldFile[x]
  /\ \A r \in ManFiles : f[r] # NoFileThere =>
       \E g \in ManFiles : u[g] = f[r] /\ FoldFile[g] = FoldFile[r]
  /\ \A r, q \in ManFiles :
       f[r] # NoFileThere /\ f[q] # NoFileThere /\ FoldFile[r] = FoldFile[q]
         => r = q

LEMMA MergedPut ==
  ASSUME NEW u \in PageTree, NEW f \in PageTree, Merged(u, f), NEW w \in Write
  PROVE  Merged(Put(FALSE, u, w), Put(TRUE, f, w))
<1> DEFINE b == w.body
           y == w.file
           v == Put(FALSE, u, w)
           h == Put(TRUE, f, w)
<1>1. y \in ManFiles /\ b # NoFileThere
  BY ManFilesFacts DEF Write
<1>2. v = [u EXCEPT ![y] = b]
  <2>1. \E z \in ManFiles : PutAt(FALSE, u, w, v, z)
    BY PutFacts, Zenon
  <2> QED BY <2>1 DEF PutAt
<1>3. PICK x \in ManFiles :
        /\ h = [f EXCEPT ![x] = b]
        /\ \/ x = y /\ Same(TRUE, f, w) = {}
           \/ f[x] # NoFileThere /\ FoldFile[x] = FoldFile[y]
  <2>1. \E z \in ManFiles : PutAt(TRUE, f, w, h, z)
    BY PutFacts, Zenon
  <2> QED BY <2>1 DEF PutAt
<1>4. /\ FoldFile[x] = FoldFile[y]
      /\ \A r \in ManFiles : f[r] # NoFileThere /\ FoldFile[r] = FoldFile[y]
                            => r = x
  <2>1. CASE x = y /\ Same(TRUE, f, w) = {}
    BY <2>1 DEF Same, PageTree
  <2>2. CASE f[x] # NoFileThere /\ FoldFile[x] = FoldFile[y]
    BY <2>2 DEF Merged
  <2> QED BY <1>3, <2>1, <2>2
<1> HIDE DEF b, y, v, h
<1>5. /\ v[y] = b /\ \A z \in ManFiles : z # y => v[z] = u[z]
      /\ h[x] = b /\ \A z \in ManFiles : z # x => h[z] = f[z]
  BY <1>1, <1>2, <1>3 DEF PageTree
<1>6. ASSUME NEW z \in ManFiles, v[z] # NoFileThere
      PROVE  \E r \in ManFiles : h[r] # NoFileThere /\ FoldFile[r] = FoldFile[z]
  <2>1. CASE z = y
    BY <1>1, <1>4, <1>5, <2>1
  <2>2. CASE z # y
    <3>1. PICK r \in ManFiles : f[r] # NoFileThere /\ FoldFile[r] = FoldFile[z]
      BY <1>5, <1>6, <2>2 DEF Merged
    <3>2. h[r] # NoFileThere
      BY <1>1, <1>5, <3>1
    <3> QED BY <3>1, <3>2
  <2> QED BY <2>1, <2>2
<1>7. ASSUME NEW r \in ManFiles, h[r] # NoFileThere
      PROVE  \E g \in ManFiles : v[g] = h[r] /\ FoldFile[g] = FoldFile[r]
  <2>1. CASE r = x
    BY <1>1, <1>4, <1>5, <2>1
  <2>2. CASE r # x
    <3>1. h[r] = f[r]
      BY <1>5, <2>2
    <3>2. PICK g \in ManFiles : u[g] = f[r] /\ FoldFile[g] = FoldFile[r]
      BY <1>7, <3>1 DEF Merged
    <3>3. g # y
      BY <1>4, <1>7, <2>2, <3>1, <3>2
    <3> QED BY <1>5, <3>1, <3>2, <3>3
  <2> QED BY <2>1, <2>2
<1>8. ASSUME NEW r \in ManFiles, NEW q \in ManFiles, h[r] # NoFileThere,
             h[q] # NoFileThere, FoldFile[r] = FoldFile[q]
      PROVE  r = q
  <2>1. CASE r # x /\ q # x
    BY <1>5, <1>8, <2>1 DEF Merged
  <2>2. CASE r = x \/ q = x
    <3>1. FoldFile[r] = FoldFile[y] /\ FoldFile[q] = FoldFile[y]
      BY <1>4, <1>8, <2>2
    <3> QED BY <1>4, <1>5, <1>8, <3>1
  <2> QED BY <2>1, <2>2
<1>9. Merged(v, h)
  BY <1>6, <1>7, <1>8 DEF Merged
<1> QED BY <1>9 DEF v, h

LEMMA InstalledMerged ==
  ASSUME NEW writes \in Seq(Write)
  PROVE  /\ Installed(FALSE, writes) \in PageTree
         /\ Installed(TRUE, writes) \in PageTree
         /\ Merged(Installed(FALSE, writes), Installed(TRUE, writes))
<1> DEFINE N == Len(writes)
<1>1. PICK u : PutBy(FALSE, writes, u) /\ Installed(FALSE, writes) = u[N]
  BY InstallDefined
<1>2. PICK f : PutBy(TRUE, writes, f) /\ Installed(TRUE, writes) = f[N]
  BY InstallDefined
<1>3. N \in Nat /\ \A k \in 1 .. N : writes[k] \in Write
  OBVIOUS
<1> DEFINE T == {k \in Nat : Merged(u[k], f[k])}
<1>4. 0 \in T
  <2>1. u[0] = [x \in ManFiles |-> NoFileThere] /\ f[0] = [x \in ManFiles |-> NoFileThere]
    BY <1>1, <1>2 DEF PutBy
  <2> QED BY <2>1 DEF Merged
<1>5. ASSUME NEW k \in 1 .. N, k - 1 \in T PROVE k \in T
  <2>1. k - 1 \in 0 .. N
    BY <1>3
  <2>2. u[k - 1] \in PageTree /\ f[k - 1] \in PageTree
    BY <1>1, <1>2, <2>1 DEF PutBy
  <2>3. u[k] = Put(FALSE, u[k - 1], writes[k])
        /\ f[k] = Put(TRUE, f[k - 1], writes[k])
    BY <1>1, <1>2 DEF PutBy
  <2>4. Merged(u[k - 1], f[k - 1])
    BY <1>5
  <2>5. Merged(u[k], f[k])
    BY <1>3, <2>2, <2>3, <2>4, MergedPut
  <2> QED BY <1>3, <2>5
<1>6. \A k \in 0 .. N : k \in T
  <2>1. T \in SUBSET Nat
    OBVIOUS
  <2> HIDE DEF T
  <2> QED BY <1>3, <1>4, <1>5, <2>1, UpTo
<1>7. N \in 0 .. N /\ N \in T
  BY <1>3, <1>6
<1> QED BY <1>1, <1>2, <1>7 DEF PutBy

-------------------------------------------------------------------------------
(* What mkmeta.py makes of what is there.                                  *)

PageName(i) == PageOf[PageFiles[i]]
Page == [name : {PageName(i) : i \in 1 .. Len(PageFiles)}, body : Body]
Staging == [failed : BOOLEAN, pages : Seq(Page)]

\* Pages that differ at most in case have one body.
OneBody(ps) ==
  \A j, l \in 1 .. Len(ps) :
    FoldPage[ps[j].name] = FoldPage[ps[l].name]
      => ps[j].body = ps[l].body

\* The file i is the first there of its page.
First(tree, i) ==
  /\ tree[PageFiles[i]] # NoFileThere
  /\ \A h \in 1 .. i - 1 :
       tree[PageFiles[h]] # NoFileThere => PageName(h) # PageName(i)

Stages(ps, j, tree, i) ==
  ps[j].name = PageName(i) /\ ps[j].body = tree[PageFiles[i]]

\* The pages are those of the first k files, each as its first file has it.
StagedUpTo(tree, ps, k) ==
  /\ ps \in Seq(Page) /\ OneBody(ps)
  /\ \A j \in 1 .. Len(ps) : \E i \in 1 .. k :
       tree[PageFiles[i]] # NoFileThere /\ Stages(ps, j, tree, i)
  /\ \A i \in 1 .. k : First(tree, i) =>
       \E j \in 1 .. Len(ps) : Stages(ps, j, tree, i)

\* No twin, no second body.
LEMMA TwinFacts ==
  ASSUME NEW s \in Staging, NEW e, NEW body, OneBody(s.pages), ~Twin(s, e, body),
         NEW j \in 1 .. Len(s.pages), FoldPage[s.pages[j].name] = FoldPage[e]
  PROVE  s.pages[j].body = body
<1> DEFINE p == s.pages
           T == {k \in 1 .. Len(p) : FoldPage[p[k].name] = FoldPage[e]}
<1>1. p \in Seq(Page) /\ Len(p) \in Nat /\ DOMAIN p = 1 .. Len(p)
  BY DEF Staging
<1> HIDE DEF p
<1>2. T \in SUBSET Nat /\ T # {} /\ j \in T
  <2>1. j \in T
    BY DEF p
  <2> QED BY <1>1, <2>1
<1>3. PICK m \in T : \A k \in T : m <= k
  <2> HIDE DEF T
  <2> QED BY <1>2, Least
<1>4. m \in 1 .. Len(p) /\ FoldPage[p[m].name] = FoldPage[e]
  OBVIOUS
<1>5. ASSUME NEW l \in 1 .. m - 1 PROVE FoldPage[p[l].name] # FoldPage[e]
  <2>1. l \in 1 .. Len(p) /\ ~(m <= l)
    BY <1>1, <1>4
  <2> QED BY <1>3, <2>1
<1>6. p[m].body = body
  BY <1>1, <1>4, <1>5 DEF Twin, p
<1> QED BY <1>4, <1>6 DEF OneBody, p

LEMMA ConsiderFacts ==
  ASSUME NEW s \in Staging, NEW i \in 1 .. Len(PageFiles), NEW body \in Body
  PROVE  /\ Consider(s, PageName(i), body) \in Staging
         /\ s.failed => Consider(s, PageName(i), body).failed
<1> DEFINE e == PageName(i)
           page == [name |-> e, body |-> body]
<1>1. page \in Page /\ s.pages \in Seq(Page) /\ s.failed \in BOOLEAN
  BY DEF Page, Staging
<1>2. /\ s \in Staging
      /\ [s EXCEPT !.failed = TRUE] \in Staging
      /\ [s EXCEPT !.pages = Append(@, page)] \in Staging
  <2> HIDE DEF page
  <2>1. Append(s.pages, page) \in Seq(Page)
    BY <1>1
  <2> QED BY <1>1, <2>1 DEF Staging
<1> QED BY <1>2 DEF Consider

\* after[k] is what is staged behind the first k files.
Considered(tree, after) ==
  /\ after[0] = [failed |-> FALSE, pages |-> <<>>]
  /\ \A k \in 0 .. Len(PageFiles) : after[k] \in Staging
  /\ \A k \in 1 .. Len(PageFiles) :
       after[k] = IF tree[PageFiles[k]] = NoFileThere THEN after[k - 1]
                  ELSE Consider(after[k - 1], PageName(k), tree[PageFiles[k]])

Considers(tree, after) ==
  [k \in 0 .. Len(PageFiles) |->
     IF k = 0 THEN [failed |-> FALSE, pages |-> <<>>]
     ELSE IF tree[PageFiles[k]] = NoFileThere THEN after[k - 1]
     ELSE Consider(after[k - 1], PageOf[PageFiles[k]], tree[PageFiles[k]])]

LEMMA MkmetaDefined ==
  ASSUME NEW tree \in PageTree
  PROVE  \E after : Considered(tree, after) /\ Mkmeta(tree) = after[Len(PageFiles)]
<1> DEFINE N == Len(PageFiles)
           none == [failed |-> FALSE, pages |-> <<>>]
           Did(k, s) == IF tree[PageFiles[k]] = NoFileThere THEN s
                        ELSE Consider(s, PageName(k), tree[PageFiles[k]])
           G == [k \in 1 .. N |-> [s \in Staging |-> Did(k, s)]]
           after == CHOOSE f : f = Considers(tree, f)
<1>1. N \in Nat /\ \A k \in 1 .. N : PageFiles[k] \in ManFiles
  BY ManFilesFacts
<1>2. ASSUME NEW k \in 1 .. N, NEW s \in Staging PROVE Did(k, s) \in Staging
  <2>1. CASE tree[PageFiles[k]] = NoFileThere
    BY <2>1
  <2>2. CASE tree[PageFiles[k]] # NoFileThere
    <3>1. tree[PageFiles[k]] \in Body
      BY <1>1, <2>2 DEF PageTree, There
    <3> QED BY <2>2, <3>1, ConsiderFacts
  <2> QED BY <2>1, <2>2
<1>3. G \in [1 .. N -> [Staging -> Staging]] /\ none \in Staging
  <2>1. none \in Staging
    BY DEF Staging
  <2> HIDE DEF Did, none
  <2> QED BY <1>2, <2>1
<1>4. PICK f : Folds(f, Staging, none, N, G)
  <2> HIDE DEF G, N, none
  <2> QED BY <1>1, <1>3, FoldExists
<1>5. f \in [0 .. N -> Staging] /\ f[0] = none
      /\ \A k \in 1 .. N : f[k] = G[k][f[k - 1]]
  <2> HIDE DEF G, N, none
  <2> QED BY <1>4 DEF Folds
<1>6. \A k \in 1 .. N : f[k] = Did(k, f[k - 1])
  <2> TAKE k \in 1 .. N
  <2> HIDE DEF Did, none
  <2>1. f[k - 1] \in Staging
    BY <1>1, <1>5
  <2>2. G[k] = [s \in Staging |-> Did(k, s)]
    OBVIOUS
  <2> HIDE DEF G
  <2> QED BY <1>5, <2>1, <2>2
<1> HIDE DEF G
<1>7. f = Considers(tree, f)
  <2>1. ASSUME NEW k \in 0 .. N PROVE f[k] = Considers(tree, f)[k]
    <3>1. CASE k = 0 BY <1>5, <3>1 DEF Considers
    <3>2. CASE k # 0
      <4>1. k \in 1 .. N BY <1>1, <3>2
      <4> QED BY <1>6, <3>2, <4>1 DEF Considers, PageName
    <3> QED BY <3>1, <3>2
  <2>2. f = [k \in 0 .. N |-> f[k]]
    BY <1>5
  <2>3. Considers(tree, f) = [k \in 0 .. N |-> Considers(tree, f)[k]]
    BY DEF Considers
  <2> QED BY <2>1, <2>2, <2>3
<1>8. after = Considers(tree, after)
  BY <1>7
<1>9. Mkmeta(tree) = after[N]
  BY DEF Mkmeta, Considers
<1> HIDE DEF after
<1>10. after[0] = none /\ \A k \in 1 .. N : after[k] = Did(k, after[k - 1])
  <2>1. Considers(tree, after)[0] = none
    BY <1>1 DEF Considers
  <2>2. \A k \in 1 .. N : Considers(tree, after)[k] = Did(k, after[k - 1])
    BY <1>1 DEF Considers, PageName
  <2> HIDE DEF none, Did
  <2> QED BY <1>8, <2>1, <2>2
<1> DEFINE T == {k \in Nat : after[k] \in Staging}
<1>11. \A k \in 0 .. N : k \in T
  <2> HIDE DEF Did, none
  <2>1. 0 \in T /\ T \in SUBSET Nat
    BY <1>3, <1>10
  <2>2. ASSUME NEW k \in 1 .. N, k - 1 \in T PROVE k \in T
    BY <1>2, <1>10, <2>2
  <2> HIDE DEF T
  <2> QED BY <1>1, <2>1, <2>2, UpTo
<1> QED BY <1>9, <1>10, <1>11 DEF Considered

\* One turn of the loop.
LEMMA ConsiderKeeps ==
  ASSUME NEW tree \in PageTree, NEW s \in Staging,
         NEW k \in 1 .. Len(PageFiles), tree[PageFiles[k]] # NoFileThere,
         ~s.failed, StagedUpTo(tree, s.pages, k - 1),
         NEW t, t = Consider(s, PageName(k), tree[PageFiles[k]]), ~t.failed
  PROVE  StagedUpTo(tree, t.pages, k)
<1> DEFINE e == PageName(k)
           body == tree[PageFiles[k]]
           page == [name |-> e, body |-> body]
           p == s.pages
<1>1. body \in Body /\ k \in Nat /\ Len(PageFiles) \in Nat
  BY ManFilesFacts DEF PageTree, There
<1>2. p \in Seq(Page) /\ DOMAIN p = 1 .. Len(p) /\ Len(p) \in Nat
  BY DEF Staging
<1>3. /\ OneBody(p)
      /\ \A j \in 1 .. Len(p) : \E i \in 1 .. k - 1 :
           tree[PageFiles[i]] # NoFileThere /\ Stages(p, j, tree, i)
      /\ \A i \in 1 .. k - 1 : First(tree, i) =>
           \E j \in 1 .. Len(p) : Stages(p, j, tree, i)
  BY DEF StagedUpTo
<1>4. CASE \E j \in DOMAIN p : p[j].name = e
  <2>1. t = s
    BY <1>4 DEF Consider
  <2>2. PICK j \in 1 .. Len(p) : p[j].name = e
    BY <1>2, <1>4
  <2>3. \E i \in 1 .. k - 1 : tree[PageFiles[i]] # NoFileThere /\ PageName(i) = e
    BY <1>3, <2>2 DEF Stages
  <2>4. ~First(tree, k)
    BY <2>3 DEF First
  <2>5. \A i \in 1 .. k : i \in 1 .. k - 1 \/ i = k
    BY <1>1
  <2>6. \A i \in 1 .. k - 1 : i \in 1 .. k
    BY <1>1
  <2> HIDE DEF p, e, body, page
  <2>7. StagedUpTo(tree, p, k)
    BY <1>2, <1>3, <2>4, <2>5, <2>6 DEF StagedUpTo
  <2> QED BY <2>1, <2>7 DEF p
<1>5. CASE ~\E j \in DOMAIN p : p[j].name = e
  <2> DEFINE q == Append(p, page)
  <2>1. ~Twin(s, e, body) /\ t = [s EXCEPT !.pages = q]
    <3> DEFINE bad == [s EXCEPT !.failed = TRUE]
    <3>1. bad.failed
      BY DEF Staging
    <3> HIDE DEF e, body, q, bad
    <3>2. t = IF body.so = e \/ Twin(s, e, body) THEN bad
              ELSE [s EXCEPT !.pages = q]
      BY <1>5 DEF Consider, e, body, q, bad
    <3> QED BY <3>1, <3>2
  <2>2. t.pages = q
    BY <2>1 DEF Staging
  <2>3. page \in Page /\ page.name = e /\ page.body = body
    BY <1>1 DEF Page
  <2> HIDE DEF page, p
  <2>4. /\ q \in Seq(Page) /\ Len(q) = Len(p) + 1 /\ q[Len(p) + 1] = page
        /\ \A j \in 1 .. Len(p) : q[j] = p[j]
    BY <1>2, <2>3
  <2>5. /\ \A j \in 1 .. Len(q) : j \in 1 .. Len(p) \/ j = Len(p) + 1
        /\ \A j \in 1 .. Len(p) : j \in 1 .. Len(q)
        /\ Len(p) + 1 \in 1 .. Len(q)
    BY <1>2, <2>4
  <2>6. /\ \A i \in 1 .. k : i \in 1 .. k - 1 \/ i = k
        /\ \A i \in 1 .. k - 1 : i \in 1 .. k
        /\ k \in 1 .. k
    BY <1>1
  <2> HIDE DEF q
  <2>7. \A j \in 1 .. Len(p) : FoldPage[p[j].name] = FoldPage[e]
                                 => p[j].body = body
    <3> HIDE DEF e, body
    <3> QED BY <1>3, <2>1, TwinFacts DEF p
  <2>8. OneBody(q)
    <3> SUFFICES ASSUME NEW j \in 1 .. Len(q), NEW l \in 1 .. Len(q),
                        FoldPage[q[j].name] = FoldPage[q[l].name]
                 PROVE  q[j].body = q[l].body
      BY DEF OneBody
    <3> HIDE DEF e, body
    <3>1. CASE j \in 1 .. Len(p) /\ l \in 1 .. Len(p)
      <4>1. q[j] = p[j] /\ q[l] = p[l]
        BY <2>4, <3>1
      <4>2. FoldPage[p[j].name] = FoldPage[p[l].name]
        BY <4>1
      <4>3. p[j].body = p[l].body
        BY <1>3, <3>1, <4>2 DEF OneBody
      <4> QED BY <4>1, <4>3
    <3>2. CASE j \in 1 .. Len(p) /\ l = Len(p) + 1
      BY <2>3, <2>4, <2>7, <3>2
    <3>3. CASE j = Len(p) + 1 /\ l \in 1 .. Len(p)
      BY <2>3, <2>4, <2>7, <3>3
    <3>4. CASE j = Len(p) + 1 /\ l = Len(p) + 1
      BY <3>4
    <3> QED BY <2>5, <3>1, <3>2, <3>3, <3>4
  <2>9. Stages(q, Len(p) + 1, tree, k)
    BY <2>3, <2>4 DEF Stages
  <2>10. \A j \in 1 .. Len(p), i \in 1 .. k :
           Stages(p, j, tree, i) => Stages(q, j, tree, i)
    BY <2>4 DEF Stages
  <2> HIDE DEF e, body
  <2>11. ASSUME NEW j \in 1 .. Len(q)
         PROVE  \E i \in 1 .. k :
                  tree[PageFiles[i]] # NoFileThere /\ Stages(q, j, tree, i)
    <3>1. CASE j \in 1 .. Len(p)
      BY <1>3, <2>6, <2>10, <3>1
    <3>2. CASE j = Len(p) + 1
      BY <2>6, <2>9, <3>2
    <3> QED BY <2>5, <3>1, <3>2
  <2>12. ASSUME NEW i \in 1 .. k, First(tree, i)
         PROVE  \E j \in 1 .. Len(q) : Stages(q, j, tree, i)
    <3>1. CASE i \in 1 .. k - 1
      BY <1>3, <2>5, <2>10, <2>12, <3>1
    <3>2. CASE i = k
      BY <2>5, <2>9, <3>2
    <3> QED BY <2>6, <3>1, <3>2
  <2>13. StagedUpTo(tree, q, k)
    BY <2>4, <2>8, <2>11, <2>12 DEF StagedUpTo
  <2> QED BY <2>2, <2>13
<1> QED BY <1>4, <1>5

LEMMA MkmetaFacts ==
  ASSUME NEW tree \in PageTree, ~Mkmeta(tree).failed
  PROVE  StagedUpTo(tree, Mkmeta(tree).pages, Len(PageFiles))
<1> DEFINE N == Len(PageFiles)
<1>1. PICK after : Considered(tree, after) /\ Mkmeta(tree) = after[N]
  BY MkmetaDefined
<1>2. N \in Nat
  BY ManFilesFacts
<1> DEFINE T == {k \in Nat : after[k].failed
                             \/ StagedUpTo(tree, after[k].pages, k)}
<1>3. 0 \in T
  <2>1. after[0].pages = <<>>
    BY <1>1 DEF Considered
  <2>2. StagedUpTo(tree, <<>>, 0)
    BY DEF StagedUpTo, OneBody
  <2> QED BY <2>1, <2>2
<1>4. ASSUME NEW k \in 1 .. N, k - 1 \in T PROVE k \in T
  <2> DEFINE s == after[k - 1]
  <2>1. k - 1 \in 0 .. N /\ k \in Nat
    BY <1>2
  <2>2. s \in Staging
    BY <1>1, <2>1 DEF Considered
  <2>3. s.failed \/ StagedUpTo(tree, s.pages, k - 1)
    BY <1>4
  <2>4. after[k] = IF tree[PageFiles[k]] = NoFileThere THEN s
                   ELSE Consider(s, PageName(k), tree[PageFiles[k]])
    BY <1>1 DEF Considered
  <2> HIDE DEF s
  <2> SUFFICES ASSUME ~after[k].failed PROVE StagedUpTo(tree, after[k].pages, k)
    BY <2>1
  <2>5. CASE tree[PageFiles[k]] = NoFileThere
    <3>1. after[k] = s /\ StagedUpTo(tree, s.pages, k - 1)
      BY <2>3, <2>4, <2>5
    <3>2. ~First(tree, k)
      BY <2>5 DEF First
    <3>3. /\ \A i \in 1 .. k : i \in 1 .. k - 1 \/ i = k
          /\ \A i \in 1 .. k - 1 : i \in 1 .. k
      BY <2>1
    <3>4. StagedUpTo(tree, s.pages, k)
      BY <3>1, <3>2, <3>3 DEF StagedUpTo
    <3> QED BY <3>1, <3>4
  <2>6. CASE tree[PageFiles[k]] # NoFileThere
    <3>1. after[k] = Consider(s, PageName(k), tree[PageFiles[k]])
      BY <2>4, <2>6
    <3>2. tree[PageFiles[k]] \in Body
      BY <2>6, ManFilesFacts DEF PageTree, There
    <3>3. ~s.failed
      BY <2>2, <3>1, <3>2, ConsiderFacts
    <3> QED BY <2>2, <2>3, <2>6, <3>1, <3>3, ConsiderKeeps
  <2> QED BY <2>5, <2>6
<1>5. \A k \in 0 .. N : k \in T
  <2>1. T \in SUBSET Nat
    OBVIOUS
  <2> HIDE DEF T
  <2> QED BY <1>2, <1>3, <1>4, <2>1, UpTo
<1>6. N \in T
  BY <1>2, <1>5
<1> QED BY <1>1, <1>6

-------------------------------------------------------------------------------
(* What the two hosts stage.                                               *)

AtMostCase(e, n) == FoldPage[e] = FoldPage[n]

\* The host that folds case has each page of the other, in some case, and no
\* page of its own has another body.
SamePages(u, f) ==
  /\ \A j \in 1 .. Len(u) : \E l \in 1 .. Len(f) :
       AtMostCase(f[l].name, u[j].name)
  /\ \A j \in 1 .. Len(u), l \in 1 .. Len(f) :
       AtMostCase(f[l].name, u[j].name) => f[l].body = u[j].body

LEMMA StagedAlike ==
  ASSUME NEW tu \in PageTree, NEW tf \in PageTree, Merged(tu, tf), NEW u, NEW f,
         StagedUpTo(tu, u, Len(PageFiles)), StagedUpTo(tf, f, Len(PageFiles))
  PROVE  SamePages(u, f)
<1> DEFINE N == Len(PageFiles)
<1>1. PICK form \in [ManFiles -> 1 .. N] :
        /\ \A x, g \in ManFiles : FoldFile[x] = FoldFile[g] =>
             form[x] = form[g] /\ FoldPage[PageOf[x]] = FoldPage[PageOf[g]]
        /\ \A i, j \in 1 .. N :
             i < j /\ PageName(i) = PageName(j)
               => form[PageFiles[i]] < form[PageFiles[j]]
  BY ManAssumption DEF ManFiles, PageName
<1>2. N \in Nat /\ \A i \in 1 .. N : PageFiles[i] \in ManFiles
  BY ManFilesFacts
<1> SUFFICES ASSUME NEW j \in 1 .. Len(u)
             PROVE  \E l \in 1 .. Len(f) :
                      /\ AtMostCase(f[l].name, u[j].name)
                      /\ \A m \in 1 .. Len(f) :
                           AtMostCase(f[m].name, u[j].name)
                             => f[m].body = u[j].body
  BY DEF SamePages
<1> DEFINE c == FoldPage[u[j].name]
           Has(r) == tf[r] # NoFileThere /\ FoldPage[PageOf[r]] = c
           T == {n \in Nat : \E r \in ManFiles : Has(r) /\ form[r] = n}
<1>3. PICK i \in 1 .. N : tu[PageFiles[i]] # NoFileThere /\ PageName(i) = u[j].name
  BY DEF StagedUpTo, Stages
<1>4. T # {} /\ T \in SUBSET Nat
  <2>1. PICK r \in ManFiles :
          tf[r] # NoFileThere /\ FoldFile[r] = FoldFile[PageFiles[i]]
    BY <1>2, <1>3 DEF Merged
  <2>2. Has(r)
    BY <1>1, <1>2, <1>3, <2>1 DEF PageName
  <2>3. form[r] \in Nat
    BY <1>1
  <2> HIDE DEF Has
  <2> QED BY <2>2, <2>3
<1>5. PICK n \in T : \A m \in T : n <= m
  <2> HIDE DEF T
  <2> QED BY <1>4, Least
<1>6. PICK r \in ManFiles : Has(r) /\ form[r] = n
  OBVIOUS
<1>7. ASSUME NEW q \in ManFiles, Has(q) PROVE ~(form[q] < form[r])
  <2>1. form[q] \in Nat /\ form[q] \in T /\ form[r] \in Nat
    BY <1>1, <1>7
  <2> HIDE DEF T, Has
  <2> QED BY <1>5, <1>6, <2>1
<1> HIDE DEF T
<1>8. PICK o \in 1 .. N : PageFiles[o] = r
  BY ManFilesFacts
<1>9. First(tf, o)
  <2> SUFFICES ASSUME NEW h \in 1 .. o - 1, tf[PageFiles[h]] # NoFileThere,
                      PageName(h) = PageName(o)
               PROVE  FALSE
    BY <1>6, <1>8 DEF First
  <2>1. h \in 1 .. N /\ h < o
    BY <1>2
  <2>2. form[PageFiles[h]] < form[r]
    BY <1>1, <1>8, <2>1
  <2>3. Has(PageFiles[h])
    BY <1>6, <1>8 DEF PageName
  <2> HIDE DEF Has
  <2> QED BY <1>2, <1>7, <2>1, <2>2, <2>3
<1>10. PICK l \in 1 .. Len(f) : f[l].name = PageName(o) /\ f[l].body = tf[r]
  BY <1>8, <1>9 DEF StagedUpTo, Stages
<1>11. PICK g \in ManFiles : tu[g] = tf[r] /\ FoldFile[g] = FoldFile[r]
  BY <1>6 DEF Merged
<1>12. form[g] = form[r] /\ FoldPage[PageOf[g]] = c
  BY <1>1, <1>6, <1>11
<1>13. PICK a \in 1 .. N : PageFiles[a] = g
  BY ManFilesFacts
<1>14. First(tu, a)
  <2> SUFFICES ASSUME NEW h \in 1 .. a - 1, tu[PageFiles[h]] # NoFileThere,
                      PageName(h) = PageName(a)
               PROVE  FALSE
    BY <1>6, <1>11, <1>13 DEF First
  <2>1. h \in 1 .. N /\ h < a
    BY <1>2
  <2>2. form[PageFiles[h]] < form[r]
    BY <1>1, <1>12, <1>13, <2>1
  <2>3. PICK q \in ManFiles :
          tf[q] # NoFileThere /\ FoldFile[q] = FoldFile[PageFiles[h]]
    BY <1>2, <2>1 DEF Merged
  <2>4. form[q] = form[PageFiles[h]] /\ Has(q)
    <3>1. form[q] = form[PageFiles[h]]
          /\ FoldPage[PageOf[q]] = FoldPage[PageOf[PageFiles[h]]]
      BY <1>1, <1>2, <2>1, <2>3
    <3>2. FoldPage[PageOf[PageFiles[h]]] = c
      BY <1>12, <1>13 DEF PageName
    <3> QED BY <2>3, <3>1, <3>2
  <2> HIDE DEF Has
  <2> QED BY <1>7, <2>2, <2>4
<1>15. PICK k \in 1 .. Len(u) : u[k].name = PageName(a) /\ u[k].body = tu[g]
  BY <1>13, <1>14 DEF StagedUpTo, Stages
<1>16. u[k].body = u[j].body
  <2>1. FoldPage[u[k].name] = FoldPage[u[j].name]
    BY <1>12, <1>13, <1>15 DEF PageName
  <2> QED BY <2>1 DEF StagedUpTo, OneBody
<1>17. f[l].body = u[j].body /\ FoldPage[f[l].name] = FoldPage[u[j].name]
  BY <1>6, <1>8, <1>10, <1>11, <1>15, <1>16 DEF PageName
<1>18. ASSUME NEW m \in 1 .. Len(f), AtMostCase(f[m].name, u[j].name)
       PROVE  f[m].body = u[j].body
  <2>1. FoldPage[f[m].name] = FoldPage[f[l].name]
    BY <1>17, <1>18 DEF AtMostCase
  <2>2. f[m].body = f[l].body
    BY <2>1 DEF StagedUpTo, OneBody
  <2> QED BY <1>17, <2>2
<1> QED BY <1>17, <1>18 DEF AtMostCase

-------------------------------------------------------------------------------
(* Where the redirects lead.                                               *)

\* A page's body, or that of the page it redirects to.
Onward(folds, ps, b) ==
  LET to == Target(folds, ps, b.so)
  IN  IF b.so = Nowhere \/ to = {} THEN b ELSE ps[CHOOSE j \in to : TRUE].body

Redirects(folds, ps, k, at) ==
  /\ at[0] = ps[k].body
  /\ \A n \in 1 .. Len(ps) : at[n] = Onward(folds, ps, at[n - 1])

RedirectsOn(folds, ps, k, at) ==
  [n \in 0 .. Len(ps) |->
     IF n = 0 THEN ps[k].body
     ELSE LET to == Target(folds, ps, at[n - 1].so)
          IN  IF at[n - 1].so = Nowhere \/ to = {} THEN at[n - 1]
              ELSE ps[CHOOSE j \in to : TRUE].body]

LEMMA OnwardIs ==
  ASSUME NEW folds, NEW ps \in Seq(Page), NEW b,
         b.so # Nowhere, Target(folds, ps, b.so) # {}
  PROVE  \E j \in 1 .. Len(ps) :
           j \in Target(folds, ps, b.so) /\ Onward(folds, ps, b) = ps[j].body
<1> DEFINE to == Target(folds, ps, b.so)
           j == CHOOSE x \in to : TRUE
<1>1. j \in to
  OBVIOUS
<1>2. j \in 1 .. Len(ps)
  BY <1>1 DEF Target
<1>3. Onward(folds, ps, b) = ps[j].body
  BY DEF Onward
<1> QED BY <1>1, <1>2, <1>3

LEMMA ReadsDefined ==
  ASSUME NEW folds \in BOOLEAN, NEW ps \in Seq(Page), NEW k \in 1 .. Len(ps)
  PROVE  \E at : Redirects(folds, ps, k, at) /\ Reads(folds, ps, k) = at[Len(ps)]
<1> DEFINE N == Len(ps)
           b0 == ps[k].body
           G == [n \in 1 .. N |-> [b \in Body |-> Onward(folds, ps, b)]]
           at == CHOOSE f : f = RedirectsOn(folds, ps, k, f)
<1>1. N \in Nat /\ b0 \in Body /\ \A j \in 1 .. N : ps[j].body \in Body
  <2>1. \A p \in Page : p.body \in Body
    BY DEF Page
  <2>2. N \in Nat /\ \A j \in 1 .. N : ps[j] \in Page
    OBVIOUS
  <2> QED BY <2>1, <2>2
<1>2. ASSUME NEW b \in Body PROVE Onward(folds, ps, b) \in Body
  <2>1. CASE b.so = Nowhere \/ Target(folds, ps, b.so) = {}
    BY <2>1 DEF Onward
  <2>2. CASE ~(b.so = Nowhere \/ Target(folds, ps, b.so) = {})
    <3>1. \E j \in 1 .. N : Onward(folds, ps, b) = ps[j].body
      BY <2>2, OnwardIs
    <3> QED BY <1>1, <3>1
  <2> QED BY <2>1, <2>2
<1>3. G \in [1 .. N -> [Body -> Body]]
  BY <1>2
<1>4. PICK f : Folds(f, Body, b0, N, G)
  <2> HIDE DEF G, N, b0
  <2> QED BY <1>1, <1>3, FoldExists
<1>5. f \in [0 .. N -> Body] /\ f[0] = b0
      /\ \A n \in 1 .. N : f[n] = G[n][f[n - 1]]
  <2> HIDE DEF G, N, b0
  <2> QED BY <1>4 DEF Folds
<1>6. \A n \in 1 .. N : f[n] = Onward(folds, ps, f[n - 1])
  <2> TAKE n \in 1 .. N
  <2>1. f[n - 1] \in Body
    BY <1>1, <1>5
  <2>2. G[n] = [b \in Body |-> Onward(folds, ps, b)]
    OBVIOUS
  <2> HIDE DEF G
  <2> QED BY <1>5, <2>1, <2>2
<1> HIDE DEF G
<1>7. ASSUME NEW g
      PROVE  /\ RedirectsOn(folds, ps, k, g)[0] = b0
             /\ \A n \in 1 .. N :
                  RedirectsOn(folds, ps, k, g)[n] = Onward(folds, ps, g[n - 1])
  BY <1>1 DEF RedirectsOn, Onward
<1>8. f = RedirectsOn(folds, ps, k, f)
  <2>1. ASSUME NEW n \in 0 .. N PROVE f[n] = RedirectsOn(folds, ps, k, f)[n]
    <3>1. CASE n = 0 BY <1>5, <1>7, <3>1
    <3>2. CASE n # 0
      <4>1. n \in 1 .. N BY <1>1, <3>2
      <4> QED BY <1>6, <1>7, <4>1
    <3> QED BY <3>1, <3>2
  <2>2. f = [n \in 0 .. N |-> f[n]]
    BY <1>5
  <2>3. RedirectsOn(folds, ps, k, f) = [n \in 0 .. N |-> RedirectsOn(folds, ps, k, f)[n]]
    BY DEF RedirectsOn
  <2> QED BY <2>1, <2>2, <2>3
<1>9. at = RedirectsOn(folds, ps, k, at)
  BY <1>8
<1>10. Reads(folds, ps, k) = at[N]
  BY DEF Reads, RedirectsOn
<1> HIDE DEF at
<1>11. Redirects(folds, ps, k, at)
  BY <1>7, <1>9 DEF Redirects
<1> QED BY <1>10, <1>11

StaysFrom(ps, at, n) == at[Len(ps)] = at[n]

\* Where redirects end, they stay.
LEMMA RedirectsEnd ==
  ASSUME NEW folds, NEW ps \in Seq(Page), NEW k, NEW at, Redirects(folds, ps, k, at),
         NEW n \in 0 .. Len(ps), Onward(folds, ps, at[n]) = at[n]
  PROVE  StaysFrom(ps, at, n)
<1> DEFINE N == Len(ps)
           T == {m \in Nat : n <= m => at[m] = at[n]}
<1>1. N \in Nat /\ n \in Nat /\ n <= N
  OBVIOUS
<1>2. \A m \in 0 .. N : m \in T
  <2>1. 0 \in T /\ T \in SUBSET Nat
    BY <1>1
  <2>2. ASSUME NEW m \in 1 .. N, m - 1 \in T PROVE m \in T
    <3>1. CASE n <= m - 1
      <4>1. at[m - 1] = at[n] /\ at[m] = Onward(folds, ps, at[m - 1])
        BY <2>2, <3>1 DEF Redirects
      <4>2. at[m] = at[n]
        BY <4>1
      <4> QED BY <1>1, <4>2
    <3>2. CASE n = m
      BY <3>2
    <3>3. CASE ~(n <= m)
      BY <1>1, <3>3
    <3> QED BY <1>1, <3>1, <3>2, <3>3
  <2> HIDE DEF T
  <2> QED BY <1>1, <2>1, <2>2, UpTo
<1>3. N \in 0 .. N
  BY <1>1
<1> QED BY <1>1, <1>2, <1>3 DEF StaysFrom

\* One redirect, followed on either host.
LEMMA OnwardAlike ==
  ASSUME NEW u \in Seq(Page), NEW f \in Seq(Page), SamePages(u, f), NEW b,
         b.so = Nowhere \/ Target(FALSE, u, b.so) # {}
  PROVE  Onward(FALSE, u, b) = Onward(TRUE, f, b)
<1>1. CASE b.so = Nowhere
  BY <1>1 DEF Onward
<1>2. CASE b.so # Nowhere
  <2> DEFINE e == b.so
  <2>1. \E j \in 1 .. Len(u) :
          j \in Target(FALSE, u, e) /\ Onward(FALSE, u, b) = u[j].body
    BY <1>2, OnwardIs, Zenon
  <2>2. PICK j \in 1 .. Len(u) :
          u[j].name = e /\ Onward(FALSE, u, b) = u[j].body
    BY <2>1 DEF Target
  <2>3. PICK l \in 1 .. Len(f) : AtMostCase(f[l].name, e)
    BY <2>2 DEF SamePages
  <2>4. l \in Target(TRUE, f, e)
    <3>1. DOMAIN f = 1 .. Len(f)
      OBVIOUS
    <3> QED BY <2>3, <3>1 DEF Target, AtMostCase
  <2>5. \E m \in 1 .. Len(f) :
          m \in Target(TRUE, f, e) /\ Onward(TRUE, f, b) = f[m].body
    BY <1>2, <2>4, OnwardIs, Zenon
  <2>6. PICK m \in 1 .. Len(f) :
          AtMostCase(f[m].name, e) /\ Onward(TRUE, f, b) = f[m].body
    BY <2>5 DEF Target, AtMostCase
  <2>7. f[m].body = u[j].body
    BY <2>2, <2>6 DEF SamePages
  <2> QED BY <2>2, <2>6, <2>7
<1> QED BY <1>1, <1>2

LEMMA ReadsAlike ==
  ASSUME NEW u \in Seq(Page), NEW f \in Seq(Page), SamePages(u, f),
         NEW j \in 1 .. Len(u), NEW l \in 1 .. Len(f),
         AtMostCase(f[l].name, u[j].name),
         Reads(FALSE, u, j).so = Nowhere, Reads(TRUE, f, l).so = Nowhere
  PROVE  Reads(FALSE, u, j) = Reads(TRUE, f, l)
<1> DEFINE N == Len(u)
           M == Len(f)
<1>1. N \in Nat /\ M \in Nat
  OBVIOUS
<1>2. \E x : Redirects(FALSE, u, j, x) /\ Reads(FALSE, u, j) = x[N]
  BY ReadsDefined, Zenon
<1>3. \E x : Redirects(TRUE, f, l, x) /\ Reads(TRUE, f, l) = x[M]
  BY ReadsDefined, Zenon
<1>4. PICK a : Redirects(FALSE, u, j, a) /\ Reads(FALSE, u, j) = a[N]
  BY <1>2
<1>5. PICK c : Redirects(TRUE, f, l, c) /\ Reads(TRUE, f, l) = c[M]
  BY <1>3
<1>6. a[N].so = Nowhere /\ c[M].so = Nowhere
  BY <1>4, <1>5
\* Once a step leads nowhere, the rest do not count.
<1>7. ASSUME NEW n \in 0 .. N, Onward(FALSE, u, a[n]) = a[n] PROVE a[N] = a[n]
  <2>1. StaysFrom(u, a, n)
    BY <1>4, <1>7, RedirectsEnd, Zenon
  <2> QED BY <2>1 DEF StaysFrom
<1>8. ASSUME NEW n \in 0 .. M, Onward(TRUE, f, c[n]) = c[n] PROVE c[M] = c[n]
  <2>1. StaysFrom(f, c, n)
    BY <1>5, <1>8, RedirectsEnd, Zenon
  <2> QED BY <2>1 DEF StaysFrom
<1>9. \A n \in 0 .. N : a[n].so = Nowhere \/ Target(FALSE, u, a[n].so) # {}
  <2> SUFFICES ASSUME NEW n \in 0 .. N, a[n].so # Nowhere,
                      Target(FALSE, u, a[n].so) = {}
               PROVE  FALSE
    OBVIOUS
  <2>1. Onward(FALSE, u, a[n]) = a[n]
    BY DEF Onward
  <2>2. a[N] = a[n]
    BY <1>7, <2>1
  <2> QED BY <1>6, <2>2
<1> DEFINE T == {n \in Nat : n <= N /\ n <= M => a[n] = c[n]}
<1>10. 0 \in T
  <2>1. a[0] = u[j].body /\ c[0] = f[l].body
    BY <1>4, <1>5 DEF Redirects
  <2>2. f[l].body = u[j].body
    BY DEF SamePages
  <2> QED BY <2>1, <2>2
<1>11. ASSUME NEW n \in T PROVE n + 1 \in T
  <2> SUFFICES ASSUME n + 1 <= N, n + 1 <= M PROVE a[n + 1] = c[n + 1]
    OBVIOUS
  <2>1. /\ n \in 0 .. N /\ a[n] = c[n] /\ (n + 1) - 1 = n
        /\ n + 1 \in 1 .. N /\ n + 1 \in 1 .. M
    BY <1>1
  <2>2. a[n + 1] = Onward(FALSE, u, a[n]) /\ c[n + 1] = Onward(TRUE, f, c[n])
    BY <1>4, <1>5, <2>1 DEF Redirects
  <2>3. Onward(FALSE, u, a[n]) = Onward(TRUE, f, a[n])
    BY <1>9, <2>1, OnwardAlike
  <2> QED BY <2>1, <2>2, <2>3
<1>12. T = Nat
  <2>1. T \in SUBSET Nat
    OBVIOUS
  <2> HIDE DEF T
  <2> QED BY <1>10, <1>11, <2>1, Induct
<1>13. \A n \in Nat : n <= N /\ n <= M => a[n] = c[n]
  BY <1>12
<1>14. CASE N <= M
  <2>1. N \in 0 .. M /\ a[N] = c[N]
    BY <1>1, <1>13, <1>14
  <2>2. Onward(TRUE, f, c[N]) = c[N]
    BY <1>6, <2>1 DEF Onward
  <2> QED BY <1>4, <1>5, <1>8, <2>1, <2>2
<1>15. CASE M <= N
  <2>1. M \in 0 .. N /\ a[M] = c[M]
    BY <1>1, <1>13, <1>15
  <2>2. Onward(FALSE, u, a[M]) = a[M]
    BY <1>6, <2>1 DEF Onward
  <2> QED BY <1>4, <1>5, <1>7, <2>1, <2>2
<1>16. N <= M \/ M <= N
  BY <1>1
<1> QED BY <1>14, <1>15, <1>16, Zenon

LEMMA WritesSafe ==
  ASSUME NEW writes \in Seq(Write)
  PROVE  FoldSafe(writes)
<1> DEFINE tu == Installed(FALSE, writes)
           tf == Installed(TRUE, writes)
           u == Mkmeta(tu).pages
           f == Mkmeta(tf).pages
<1> SUFFICES ASSUME ~Refused(FALSE, writes), ~Refused(TRUE, writes),
                    NEW p \in Shipped(FALSE, writes)
             PROVE  \E q \in Shipped(TRUE, writes) :
                      FoldPage[q.name] = FoldPage[p.name] /\ q.text = p.text
  BY DEF FoldSafe
<1>1. tu \in PageTree /\ tf \in PageTree /\ Merged(tu, tf)
  BY InstalledMerged
<1>2. /\ ~Mkmeta(tu).failed /\ ~Mkmeta(tf).failed
      /\ \A k \in DOMAIN u : Reads(FALSE, u, k).so = Nowhere
      /\ \A k \in DOMAIN f : Reads(TRUE, f, k).so = Nowhere
  BY DEF Refused
<1>3. /\ Shipped(FALSE, writes) = Packed(FALSE, u)
      /\ Shipped(TRUE, writes) = Packed(TRUE, f)
  BY DEF Shipped
<1> HIDE DEF tu, tf
<1>4. /\ StagedUpTo(tu, u, Len(PageFiles))
      /\ StagedUpTo(tf, f, Len(PageFiles))
  BY <1>1, <1>2, MkmetaFacts
<1> HIDE DEF u, f
<1>5. SamePages(u, f) /\ u \in Seq(Page) /\ f \in Seq(Page)
  BY <1>1, <1>4, StagedAlike DEF StagedUpTo
<1>6. DOMAIN u = 1 .. Len(u) /\ DOMAIN f = 1 .. Len(f)
  BY <1>5
<1>7. PICK j \in 1 .. Len(u) :
        p = [name |-> u[j].name, text |-> Reads(FALSE, u, j).text]
  BY <1>3, <1>6 DEF Packed
<1>8. PICK l \in 1 .. Len(f) : AtMostCase(f[l].name, u[j].name)
  BY <1>5 DEF SamePages
<1>9. Reads(FALSE, u, j) = Reads(TRUE, f, l)
  <2>1. Reads(FALSE, u, j).so = Nowhere /\ Reads(TRUE, f, l).so = Nowhere
    BY <1>2, <1>6, Zenon
  <2> QED BY <1>5, <1>8, <2>1, ReadsAlike
<1> DEFINE q == [name |-> f[l].name, text |-> Reads(TRUE, f, l).text]
<1>10. q \in Shipped(TRUE, writes)
  BY <1>3, <1>6 DEF Packed
<1>11. FoldPage[q.name] = FoldPage[p.name] /\ q.text = p.text
  BY <1>7, <1>8, <1>9 DEF AtMostCase
<1> QED BY <1>10, <1>11

PagesInv == pages \in Seq(Write)

LEMMA PagesStep ==
  PagesInv /\ [PackageNext]_packageVars => PagesInv'
<1> SUFFICES ASSUME PagesInv, [PackageNext]_packageVars
             PROVE  PagesInv'
  OBVIOUS
<1>1. ASSUME NEW n \in Bin, NEW e \in Entry, InstallProgram(n, e)
      PROVE  PagesInv'
  BY <1>1 DEF InstallProgram, PagesInv
<1>2. CASE Fixup
  BY <1>2 DEF Fixup, PagesInv
<1>3. CASE BeginPages
  BY <1>3 DEF BeginPages, PagesInv
<1>4. ASSUME NEW f \in ToSet(PageFiles), NEW body \in Body, InstallPage(f, body)
      PROVE  PagesInv'
  <2> DEFINE w == [file |-> f, body |-> body]
  <2>1. w \in Write /\ pages' = Append(pages, w)
    BY <1>4 DEF InstallPage, Write, ManFiles
  <2> HIDE DEF w
  <2>2. Append(pages, w) \in Seq(Write)
    BY <2>1 DEF PagesInv
  <2> QED BY <2>1, <2>2 DEF PagesInv
<1>5. ASSUME NEW folds \in BOOLEAN, StageMan(folds)
      PROVE  PagesInv'
  <2>1. pages' = pages \/ pages' = <<>>
    BY <1>5 DEF StageMan
  <2>2. <<>> \in Seq(Write) /\ pages \in Seq(Write)
    BY DEF PagesInv
  <2>3. pages' \in Seq(Write)
    BY <2>1, <2>2
  <2> QED BY <2>3 DEF PagesInv
<1>6. CASE Embedding
  BY <1>6 DEF Embedding, PagesInv
<1>7. CASE UNCHANGED packageVars
  BY <1>7 DEF packageVars, PagesInv
<1> QED BY <1>1, <1>2, <1>3, <1>4, <1>5, <1>6, <1>7 DEF PackageNext

\* The pages a package ships do not depend on whether the host it builds on folds
\* the case of file names: unless mkmeta.py or the pack refuses them on one of the
\* two, each page that ships from a host that does not fold ships from one that
\* does, in some case and with the same text. For any pages, written in any order,
\* and any redirects among them.
THEOREM PagesAlikeAlways == PackageSpec => []PagesAlike
<1>1. PackageInit => PagesInv
  BY DEF PackageInit, PagesInv
<1>2. PagesInv => PagesAlike
  BY WritesSafe DEF PagesAlike, PagesInv
<1> QED BY <1>1, <1>2, PagesStep, PTL DEF PackageSpec
===============================================================================
