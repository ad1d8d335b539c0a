--------------------------- MODULE LexicalPath_proofs ---------------------------
(***************************************************************************)
(* That a stack of segments, which two parts of the system keep, computes  *)
(* what a path means; and, before it, what the proofs about loops rest on: *)
(* induction over numbers, and functions that are defined by recursion.    *)
(***************************************************************************)
EXTENDS LexicalPath, Integers, FiniteSetTheorems, SequenceTheorems,
        WellFoundedInduction, TLAPS

-------------------------------------------------------------------------------
(* Induction, in the form the provers can use: a set of numbers in the     *)
(* place of a predicate.                                                   *)

\* A set of numbers has a least one.
LEMMA Least ==
  ASSUME NEW T \in SUBSET Nat, T # {}
  PROVE  \E m \in T : \A k \in T : m <= k
<1>1. IsWellFoundedOn(OpToRel(<, Nat), Nat)
  BY NatLessThanWellFounded
<1>2. PICK m \in T : \A k \in T : <<k, m>> \notin OpToRel(<, Nat)
  BY <1>1, WFMin, Zenon
<1>3. \A k \in T : ~(k < m)
  BY <1>2 DEF OpToRel
<1> QED BY <1>3

\* A set with zero and every successor holds all numbers.
LEMMA Induct ==
  ASSUME NEW T \in SUBSET Nat, 0 \in T, \A n \in T : n + 1 \in T
  PROVE  T = Nat
<1> SUFFICES ASSUME Nat \ T # {} PROVE FALSE
  OBVIOUS
<1>1. PICK m \in Nat \ T : \A k \in Nat \ T : m <= k
  BY Least
<1>2. m # 0 /\ m - 1 \in Nat
  BY <1>1
<1>3. m - 1 \in T
  BY <1>1, <1>2
<1> QED BY <1>1, <1>2, <1>3

\* f folds n steps, of which the step i does G[i].
Folds(f, X, x0, n, G) ==
  /\ f \in [0..n -> X] /\ f[0] = x0
  /\ \A i \in 1..n : f[i] = G[i][f[i - 1]]

\* There is such a function, whatever the steps.
LEMMA FoldExists ==
  ASSUME NEW X, NEW x0 \in X, NEW n \in Nat, NEW G \in [1..n -> [X -> X]]
  PROVE  \E f : Folds(f, X, x0, n, G)
<1> USE DEF Folds
<1> DEFINE Ok(m, f) == Folds(f, X, x0, m, G)
           Done(m) == m <= n => \E f : Ok(m, f)
           T == {m \in Nat : Done(m)}
<1>1. Done(0)
  <2>1. Ok(0, [i \in 0..0 |-> x0]) OBVIOUS
  <2> QED BY <2>1
<1>2. ASSUME NEW m \in Nat, Done(m) PROVE Done(m + 1)
  <2> SUFFICES ASSUME m + 1 <= n PROVE \E f : Ok(m + 1, f)
    OBVIOUS
  <2>1. PICK f : Ok(m, f)
    BY <1>2
  <2> DEFINE g == [i \in 0..m + 1 |->
                     IF i = m + 1 THEN G[m + 1][f[m]] ELSE f[i]]
  <2>2. Ok(m + 1, g)
    <3>1. f[m] \in X BY <2>1
    <3>2. G[m + 1][f[m]] \in X BY <3>1
    <3>3. g \in [0..m + 1 -> X] BY <2>1, <3>2
    <3>4. g[0] = x0 BY <2>1
    <3>5. ASSUME NEW i \in 1..m + 1 PROVE g[i] = G[i][g[i - 1]]
      <4>1. CASE i = m + 1 BY <4>1
      <4>2. CASE i # m + 1 BY <4>2, <2>1
      <4> QED BY <4>1, <4>2
    <3> QED BY <3>3, <3>4, <3>5
  <2> QED BY <2>2
<1>3. T = Nat
  <2> HIDE DEF Done
  <2>1. T \in SUBSET Nat /\ 0 \in T /\ \A k \in T : k + 1 \in T
    BY <1>1, <1>2
  <2> HIDE DEF T
  <2> QED BY <2>1, Induct
<1>4. Done(n)
  <2> HIDE DEF Done
  <2> QED BY <1>3
<1>5. PICK f : Ok(n, f) BY <1>4
<1> QED BY <1>5

-------------------------------------------------------------------------------
(* A path is read from left to right; "after" is what is kept so far.      *)

\* One segment after the other: "here" is passed over, "up" takes the last one
\* kept, and there is nothing above the root.
Stacked(p, here, up, after) ==
  /\ DOMAIN after = 0 .. Len(p) /\ after[0] = <<>>
  /\ \A n \in 1 .. Len(p) :
       after[n] = IF p[n] = here THEN after[n - 1]
                  ELSE IF p[n] = up THEN SubSeq(after[n - 1], 1, Len(after[n - 1]) - 1)
                  ELSE Append(after[n - 1], p[n])

\* What is kept has the type of the path, and one segment more at most.
LEMMA StackTypes ==
  ASSUME NEW S, NEW here, NEW up, NEW p \in Seq(S), NEW after,
         Stacked(p, here, up, after)
  PROVE  \A n \in 0 .. Len(p) : after[n] \in Seq(S) /\ Len(after[n]) <= n
<1> DEFINE T == {n \in Nat : n <= Len(p) => after[n] \in Seq(S) /\ Len(after[n]) <= n}
<1>1. 0 \in T
  <2>1. after[0] = <<>> BY DEF Stacked
  <2>2. <<>> \in Seq(S) /\ Len(<<>>) <= 0 OBVIOUS
  <2> QED BY <2>1, <2>2
<1>2. ASSUME NEW n \in T PROVE n + 1 \in T
  <2> SUFFICES ASSUME n + 1 <= Len(p)
               PROVE  after[n + 1] \in Seq(S) /\ Len(after[n + 1]) <= n + 1
    OBVIOUS
  <2> DEFINE a == after[n]
             b == after[n + 1]
  <2>1. n \in Nat /\ a \in Seq(S) /\ Len(a) <= n /\ Len(a) \in Nat
    OBVIOUS
  <2>2. n + 1 \in 1 .. Len(p) /\ (n + 1) - 1 = n /\ p[n + 1] \in S
    BY <2>1
  <2>3. b = IF p[n + 1] = here THEN a
            ELSE IF p[n + 1] = up THEN SubSeq(a, 1, Len(a) - 1)
            ELSE Append(a, p[n + 1])
    BY <2>2 DEF Stacked
  <2> HIDE DEF a, b
  <2>4. /\ SubSeq(a, 1, Len(a) - 1) \in Seq(S)
        /\ Len(SubSeq(a, 1, Len(a) - 1)) <= n
    <3>1. CASE Len(a) = 0
      BY <2>1, <3>1
    <3>2. CASE Len(a) > 0
      BY <2>1, <3>2
    <3> QED BY <2>1, <3>1, <3>2
  <2>5. /\ Append(a, p[n + 1]) \in Seq(S)
        /\ Len(Append(a, p[n + 1])) <= n + 1
    BY <2>1, <2>2
  <2> QED BY <2>1, <2>3, <2>4, <2>5 DEF b
<1>3. T = Nat
  <2>1. T \in SUBSET Nat OBVIOUS
  <2> HIDE DEF T
  <2> QED BY <1>1, <1>2, <2>1, Induct
<1> QED BY <1>3

\* The segments that go down, and the first depth of what follows one.
Down(p, here, up, j) == p[j] \notin {here, up}

\* Of the first n segments, those that nothing after them has taken away: the
\* path was never above them since.
Lasting(p, here, up, after, n) ==
  {j \in 1 .. n : /\ Down(p, here, up, j)
                  /\ \A k \in j .. n : Len(after[k]) >= Len(after[j])}

\* The first e members of a sequence.
LEMMA Beginning ==
  ASSUME NEW S, NEW s \in Seq(S), NEW e \in 0 .. Len(s)
  PROVE  /\ Len(SubSeq(s, 1, e)) = e
         /\ \A i \in 1 .. e : SubSeq(s, 1, e)[i] = s[i]
<1>1. e \in Nat /\ Len(s) \in Nat /\ 1 \in Int /\ e \in Int
  OBVIOUS
<1>2. \A i \in 1 .. e : s[i] \in S
  OBVIOUS
<1>3. /\ Len(SubSeq(s, 1, e)) = IF 1 <= e THEN e - 1 + 1 ELSE 0
      /\ \A i \in 1 .. e - 1 + 1 : SubSeq(s, 1, e)[i] = s[1 + i - 1]
  BY <1>1, <1>2, SubSeqProperties
<1>4. e - 1 + 1 = e /\ (1 > e => e = 0)
  BY <1>1
<1>5. \A i \in 1 .. e : 1 + i - 1 = i
  BY <1>1
<1> QED BY <1>1, <1>3, <1>4, <1>5

\* One step changes the depth by one at most, and keeps what lies below.
Moves(p, here, up, n, a, b) ==
  /\ p[n] = here => b = a
  /\ p[n] = up /\ Len(a) = 0 => Len(b) = 0
  /\ p[n] = up /\ Len(a) > 0 =>
       Len(b) = Len(a) - 1 /\ \A i \in 1 .. Len(b) : b[i] = a[i]
  /\ Down(p, here, up, n) =>
       /\ Len(b) = Len(a) + 1 /\ b[Len(b)] = p[n]
       /\ \A i \in 1 .. Len(a) : b[i] = a[i]

LEMMA StackStep ==
  ASSUME NEW S, NEW here, NEW up, here # up, NEW p \in Seq(S), NEW after,
         Stacked(p, here, up, after), NEW n \in 1 .. Len(p)
  PROVE  /\ after[n - 1] \in Seq(S) /\ after[n] \in Seq(S)
         /\ Moves(p, here, up, n, after[n - 1], after[n])
<1> DEFINE a == after[n - 1]
           b == after[n]
<1>1. n \in 0 .. Len(p) /\ n - 1 \in 0 .. Len(p) /\ p[n] \in S
  OBVIOUS
<1>2. a \in Seq(S) /\ b \in Seq(S) /\ Len(a) \in Nat
  <2>1. \A k \in 0 .. Len(p) : after[k] \in Seq(S)
    BY StackTypes
  <2> QED BY <1>1, <2>1
<1>3. b = IF p[n] = here THEN a
          ELSE IF p[n] = up THEN SubSeq(a, 1, Len(a) - 1)
          ELSE Append(a, p[n])
  BY DEF Stacked
<1> HIDE DEF a, b
<1>4. CASE p[n] = here
  BY <1>2, <1>3, <1>4 DEF Down, Moves, a, b
<1>5. CASE p[n] = up /\ Len(a) = 0
  <2>1. b = SubSeq(a, 1, Len(a) - 1)
    BY <1>3, <1>5
  <2>2. Len(b) = 0
    BY <2>1, <1>2, <1>5
  <2> QED BY <1>2, <1>5, <2>2 DEF Down, Moves, a, b
<1>6. CASE p[n] = up /\ Len(a) > 0
  <2>1. b = SubSeq(a, 1, Len(a) - 1)
    BY <1>3, <1>6
  <2>2. Len(a) - 1 \in 0 .. Len(a)
    BY <1>2, <1>6
  <2>3. Len(b) = Len(a) - 1 /\ \A i \in 1 .. Len(a) - 1 : b[i] = a[i]
    BY <1>2, <2>1, <2>2, Beginning
  <2> QED BY <1>2, <1>6, <2>3 DEF Down, Moves, a, b
<1>7. CASE Down(p, here, up, n)
  <2>1. b = Append(a, p[n])
    BY <1>3, <1>7 DEF Down
  <2>2. /\ Len(b) = Len(a) + 1 /\ b[Len(b)] = p[n]
        /\ \A i \in 1 .. Len(a) : b[i] = a[i]
    BY <2>1, <1>1, <1>2
  <2> QED BY <1>2, <1>7, <2>2 DEF Down, Moves, a, b
<1> QED BY <1>2, <1>4, <1>5, <1>6, <1>7 DEF Down, a, b

\* Each place of the stack holds a segment that lasts, and at its depth.
LEMMA StackShape ==
  ASSUME NEW S, NEW here, NEW up, here # up, NEW p \in Seq(S), NEW after,
         Stacked(p, here, up, after), NEW m \in 0 .. Len(p)
  PROVE  \A i \in 1 .. Len(after[m]) :
           \E j \in Lasting(p, here, up, after, m) :
             Len(after[j]) = i /\ after[m][i] = p[j]
<1> DEFINE Shape(n) ==
             \A i \in 1 .. Len(after[n]) :
               \E j \in Lasting(p, here, up, after, n) :
                 Len(after[j]) = i /\ after[n][i] = p[j]
           T == {n \in Nat : n <= Len(p) => Shape(n)}
<1>1. Shape(0)
  <2>1. after[0] = <<>> BY DEF Stacked
  <2>2. 1 .. Len(<<>>) = {} OBVIOUS
  <2> QED BY <2>1, <2>2
<1>2. ASSUME NEW n \in Nat, n + 1 <= Len(p), Shape(n) PROVE Shape(n + 1)
  <2> DEFINE a == after[n]
             b == after[n + 1]
  <2>1. n + 1 \in 1 .. Len(p) /\ (n + 1) - 1 = n
    BY <1>2
  <2>2. /\ a \in Seq(S) /\ b \in Seq(S)
        /\ p[n + 1] = here => b = a
        /\ p[n + 1] = up /\ Len(a) = 0 => Len(b) = 0
        /\ p[n + 1] = up /\ Len(a) > 0 =>
             Len(b) = Len(a) - 1 /\ \A i \in 1 .. Len(b) : b[i] = a[i]
        /\ Down(p, here, up, n + 1) =>
             /\ Len(b) = Len(a) + 1 /\ b[Len(b)] = p[n + 1]
             /\ \A i \in 1 .. Len(a) : b[i] = a[i]
    <3> DEFINE q == n + 1
    <3>1. q \in 1 .. Len(p) /\ q - 1 = n BY <2>1
    <3> HIDE DEF q
    <3>2. /\ after[q - 1] \in Seq(S) /\ after[q] \in Seq(S)
          /\ Moves(p, here, up, q, after[q - 1], after[q])
      BY <3>1, StackStep
    <3> QED BY <3>1, <3>2 DEF Moves, q
  <2>3. Len(a) \in Nat /\ Len(b) \in Nat
    BY <2>2
  \* A segment that lasted before lasts still if the depth is not below it.
  <2>4. ASSUME NEW j \in Lasting(p, here, up, after, n), Len(b) >= Len(after[j])
        PROVE  j \in Lasting(p, here, up, after, n + 1)
    <3>1. j \in 1 .. n + 1 /\ Down(p, here, up, j)
      BY <2>4 DEF Lasting
    <3>2. ASSUME NEW k \in j .. n + 1 PROVE Len(after[k]) >= Len(after[j])
      <4>1. CASE k = n + 1 BY <4>1, <2>4
      <4>2. CASE k # n + 1
        <5>1. k \in j .. n BY <3>1, <4>2, <1>2
        <5> QED BY <5>1, <2>4 DEF Lasting
      <4> QED BY <4>1, <4>2
    <3> QED BY <3>1, <3>2 DEF Lasting
  <2> SUFFICES ASSUME NEW i \in 1 .. Len(b)
               PROVE  \E j \in Lasting(p, here, up, after, n + 1) :
                        Len(after[j]) = i /\ b[i] = p[j]
    OBVIOUS
  <2>5. CASE i \in 1 .. Len(a) /\ b[i] = a[i]
    <3>1. PICK j \in Lasting(p, here, up, after, n) :
                 Len(after[j]) = i /\ a[i] = p[j]
      BY <1>2, <2>5
    <3>2. Len(b) >= Len(after[j])
      BY <3>1, <2>3
    <3> QED BY <2>4, <2>5, <3>1, <3>2
  <2>6. CASE Down(p, here, up, n + 1) /\ i = Len(b)
    <3>1. n + 1 \in Lasting(p, here, up, after, n + 1)
      <4>1. \A k \in n + 1 .. n + 1 : k = n + 1 BY <1>2
      <4>2. Len(b) >= Len(b) BY <2>3
      <4> QED BY <2>1, <2>6, <4>1, <4>2 DEF Lasting
    <3> QED BY <3>1, <2>2, <2>6
  <2>7. \/ i \in 1 .. Len(a) /\ b[i] = a[i]
        \/ Down(p, here, up, n + 1) /\ i = Len(b)
    <3> HIDE DEF a, b
    <3>1. CASE p[n + 1] = here
      BY <3>1, <2>2
    <3>2. CASE p[n + 1] = up
      <4>1. Len(a) > 0 BY <3>2, <2>2, <2>3
      <4>2. Len(b) = Len(a) - 1 /\ \A l \in 1 .. Len(b) : b[l] = a[l]
        BY <3>2, <4>1, <2>2
      <4> QED BY <4>2, <2>3
    <3>3. CASE Down(p, here, up, n + 1)
      <4>1. Len(b) = Len(a) + 1 /\ \A l \in 1 .. Len(a) : b[l] = a[l]
        BY <3>3, <2>2
      <4> QED BY <3>3, <4>1, <2>3
    <3> QED BY <3>1, <3>2, <3>3 DEF Down
  <2> QED BY <2>5, <2>6, <2>7
<1>3. T = Nat
  <2> HIDE DEF Shape
  <2>1. T \in SUBSET Nat /\ 0 \in T
    BY <1>1
  <2>2. \A n \in T : n + 1 \in T
    BY <1>2
  <2> HIDE DEF T
  <2> QED BY <2>1, <2>2, Induct
<1>4. Shape(m)
  <2> HIDE DEF Shape
  <2> QED BY <1>3
<1> QED BY <1>4

\* Counting the marked numbers of an interval, one by one.
Marked(P, j, k) == Cardinality({l \in j .. k : l \in P})

LEMMA MarkedNone ==
  ASSUME NEW P, NEW j \in Nat
  PROVE  Marked(P, j + 1, j) = 0
<1>1. {l \in j + 1 .. j : l \in P} = {}
  OBVIOUS
<1> QED BY <1>1, FS_EmptySet DEF Marked

LEMMA MarkedNext ==
  ASSUME NEW P, NEW j \in Nat, NEW k \in Nat, j <= k
  PROVE  /\ Marked(P, j + 1, k) \in Nat
         /\ Marked(P, j + 1, k + 1) =
              Marked(P, j + 1, k) + (IF k + 1 \in P THEN 1 ELSE 0)
<1> DEFINE M == {l \in j + 1 .. k : l \in P}
           N == {l \in j + 1 .. k + 1 : l \in P}
<1>1. IsFiniteSet(M)
  <2>1. IsFiniteSet(j + 1 .. k)
    BY FS_Interval
  <2> QED BY <2>1, FS_Subset
<1>2. Cardinality(M) \in Nat
  BY <1>1, FS_CardinalityType
<1>3. CASE k + 1 \in P
  <2>1. N = M \cup {k + 1} /\ k + 1 \notin M
    BY <1>3
  <2> HIDE DEF M, N
  <2>2. Cardinality(M \cup {k + 1}) = Cardinality(M) + 1
    BY <1>1, <2>1, FS_AddElement
  <2> QED BY <1>2, <1>3, <2>1, <2>2 DEF Marked, M, N
<1>4. CASE k + 1 \notin P
  <2>1. N = M
    BY <1>4
  <2> HIDE DEF M, N
  <2> QED BY <1>2, <1>4, <2>1 DEF Marked, M, N
<1> QED BY <1>3, <1>4

\* How Lexical counts.
UpsOf(p, up) == {l \in Nat : p[l] = up}
DownsOf(p, here, up) == {l \in Nat : Down(p, here, up, l)}

\* From a segment that goes down, the stack is never shorter than there as long
\* as what follows has no more steps up than down; and their difference is how
\* much it has grown.
LEMMA DepthCounts ==
  ASSUME NEW S, NEW here, NEW up, here # up, NEW p \in Seq(S), NEW after,
         Stacked(p, here, up, after),
         NEW j \in 1 .. Len(p), Down(p, here, up, j), NEW m \in j .. Len(p)
  PROVE  (\A k \in j .. m : Len(after[k]) >= Len(after[j])) <=>
         (\A k \in j + 1 .. m :
            Marked(UpsOf(p, up), j + 1, k) <= Marked(DownsOf(p, here, up), j + 1, k))
<1> DEFINE L(k) == Len(after[k])
           U(k) == Marked(UpsOf(p, up), j + 1, k)
           D(k) == Marked(DownsOf(p, here, up), j + 1, k)
           Above(k) == \A i \in j .. k : L(i) >= L(j)
           Counted(k) == \A i \in j + 1 .. k : U(i) <= D(i)
           Fits(k) == /\ Above(k) <=> Counted(k)
                      /\ Above(k) => L(k) - L(j) = D(k) - U(k)
           T == {k \in Nat : k \in j .. Len(p) => Fits(k)}
<1>1. \A k \in 0 .. Len(p) : after[k] \in Seq(S) /\ L(k) \in Nat
  BY StackTypes
<1>2. j \in Nat /\ L(j) \in Nat /\ L(j) >= 1
  <2>1. j \in 0 .. Len(p) /\ j - 1 \in 0 .. Len(p)
    OBVIOUS
  <2>2. Moves(p, here, up, j, after[j - 1], after[j])
    BY StackStep
  <2>3. L(j) = L(j - 1) + 1
    BY <2>2 DEF Moves
  <2>4. L(j) \in Nat /\ L(j - 1) \in Nat
    BY <1>1, <2>1
  <2> HIDE DEF L
  <2> QED BY <2>1, <2>3, <2>4
<1>3. Fits(j)
  <2>1. U(j) = 0 /\ D(j) = 0
    BY <1>2, MarkedNone
  <2>2. \A i \in j .. j : i = j
    BY <1>2
  <2>3. j + 1 .. j = {}
    BY <1>2
  <2> HIDE DEF L, U, D
  <2>4. Above(j) /\ Counted(j)
    BY <1>2, <2>2, <2>3
  <2> QED BY <1>2, <2>1, <2>4
<1>4. ASSUME NEW k \in Nat, k >= j, k + 1 <= Len(p), Fits(k)
      PROVE  Fits(k + 1)
  <2>1. k \in 0 .. Len(p) /\ k + 1 \in 1 .. Len(p) /\ k + 1 \in 0 .. Len(p)
    BY <1>2, <1>4
  <2>2. L(k) \in Nat /\ L(k + 1) \in Nat
    BY <1>1, <2>1
  <2>3. Moves(p, here, up, k + 1, after[k], after[k + 1])
    <3> DEFINE q == k + 1
    <3>1. q \in 1 .. Len(p) /\ q - 1 = k
      BY <2>1
    <3> HIDE DEF q
    <3>2. Moves(p, here, up, q, after[q - 1], after[q])
      BY <3>1, StackStep
    <3> QED BY <3>1, <3>2 DEF q
  <2>4. /\ U(k) \in Nat /\ D(k) \in Nat
        /\ U(k + 1) = U(k) + (IF p[k + 1] = up THEN 1 ELSE 0)
        /\ D(k + 1) = D(k) + (IF Down(p, here, up, k + 1) THEN 1 ELSE 0)
    <3>1. /\ U(k) \in Nat
          /\ U(k + 1) = U(k) + (IF k + 1 \in UpsOf(p, up) THEN 1 ELSE 0)
      BY <1>2, <1>4, MarkedNext, SMTT(30)
    <3>2. /\ D(k) \in Nat
          /\ D(k + 1) = D(k) + (IF k + 1 \in DownsOf(p, here, up) THEN 1 ELSE 0)
      BY <1>2, <1>4, MarkedNext
    <3>3. k + 1 \in UpsOf(p, up) <=> p[k + 1] = up
      BY DEF UpsOf
    <3>4. k + 1 \in DownsOf(p, here, up) <=> Down(p, here, up, k + 1)
      BY DEF DownsOf
    <3> QED BY <3>1, <3>2, <3>3, <3>4
  <2>5. L(k) >= 1 =>
          L(k + 1) = L(k) + (IF Down(p, here, up, k + 1) THEN 1 ELSE 0)
                          - (IF p[k + 1] = up THEN 1 ELSE 0)
    <3> SUFFICES ASSUME L(k) >= 1
                 PROVE  L(k + 1) = L(k) + (IF Down(p, here, up, k + 1) THEN 1 ELSE 0)
                                        - (IF p[k + 1] = up THEN 1 ELSE 0)
      OBVIOUS
    <3>1. CASE p[k + 1] = here
      <4>1. L(k + 1) = L(k) BY <3>1, <2>3 DEF Moves
      <4>2. ~Down(p, here, up, k + 1) /\ p[k + 1] # up BY <3>1 DEF Down
      <4> HIDE DEF L
      <4> QED BY <2>2, <4>1, <4>2
    <3>2. CASE p[k + 1] = up
      <4>1. L(k) > 0 => L(k + 1) = L(k) - 1 BY <3>2, <2>3 DEF Moves
      <4>2. ~Down(p, here, up, k + 1) BY <3>2 DEF Down
      <4> HIDE DEF L
      <4> QED BY <2>2, <3>2, <4>1, <4>2
    <3>3. CASE Down(p, here, up, k + 1)
      <4>1. L(k + 1) = L(k) + 1 BY <3>3, <2>3 DEF Moves
      <4>2. p[k + 1] # up BY <3>3 DEF Down
      <4> HIDE DEF L
      <4> QED BY <2>2, <3>3, <4>1, <4>2
    <3> QED BY <3>1, <3>2, <3>3 DEF Down
  <2> HIDE DEF U, D
  <2>6. Above(k + 1) <=> Above(k) /\ L(k + 1) >= L(j)
    <3>1. j .. k + 1 = (j .. k) \cup {k + 1}
      BY <1>2, <1>4
    <3> HIDE DEF L
    <3> QED BY <3>1
  <2>7. Counted(k + 1) <=> Counted(k) /\ U(k + 1) <= D(k + 1)
    <3>1. j + 1 .. k + 1 = (j + 1 .. k) \cup {k + 1}
      BY <1>2, <1>4
    <3> QED BY <3>1
  <2> HIDE DEF L
  <2>8. Above(k) => L(k) >= L(j)
    BY <1>2, <1>4
  <2>9. ASSUME Above(k) PROVE L(k + 1) - L(j) = D(k + 1) - U(k + 1)
    <3>1. L(k) >= 1 /\ L(k) - L(j) = D(k) - U(k)
      BY <1>2, <1>4, <2>2, <2>8, <2>9
    <3>2. L(k + 1) = L(k) + (D(k + 1) - D(k)) - (U(k + 1) - U(k))
      BY <2>2, <2>4, <2>5, <3>1
    <3>3. D(k + 1) \in Nat /\ U(k + 1) \in Nat
      BY <2>4
    <3>4. U(k) \in Nat /\ D(k) \in Nat
      BY <2>4
    <3>5. PICK a \in Nat, b \in Nat, c \in Nat : a = L(j) /\ b = L(k) /\ c = L(k + 1)
      BY <1>2, <2>2
    <3>6. PICK u \in Nat, v \in Nat, d \in Nat, e \in Nat :
            u = U(k) /\ v = U(k + 1) /\ d = D(k) /\ e = D(k + 1)
      BY <3>3, <3>4
    <3>7. b - a = d - u
      BY <3>1, <3>5, <3>6
    <3>8. c = b + (e - d) - (v - u)
      BY <3>2, <3>5, <3>6
    <3>9. c - a = e - v
      BY <3>7, <3>8
    <3> QED BY <3>5, <3>6, <3>9
  <2>10. U(k + 1) \in Nat /\ D(k + 1) \in Nat
    BY <2>4
  <2> HIDE DEF Above, Counted
  <2>11. Above(k) => (L(k + 1) >= L(j) <=> U(k + 1) <= D(k + 1))
    BY <1>2, <2>2, <2>9, <2>10
  <2>12. Above(k) <=> Counted(k)
    BY <1>4
  <2> QED BY <2>6, <2>7, <2>9, <2>11, <2>12
<1>5. T = Nat
  <2> HIDE DEF Fits
  <2>1. T \in SUBSET Nat /\ 0 \in T
    BY <1>2
  <2>2. ASSUME NEW k \in T PROVE k + 1 \in T
    <3>1. CASE k + 1 = j BY <1>3, <3>1
    <3>2. CASE k + 1 # j BY <1>2, <1>4, <3>2
    <3> QED BY <3>1, <3>2
  <2> HIDE DEF T
  <2> QED BY <2>1, <2>2, Induct
<1>6. Fits(m)
  <2>1. m \in Nat BY <1>2
  <2> HIDE DEF Fits
  <2> QED BY <1>5, <2>1
<1> QED BY <1>6

-------------------------------------------------------------------------------
(* The stack is what the path means.                                       *)

\* What lasts is at a depth of its own, the later the deeper.
LEMMA LastingRises ==
  ASSUME NEW S, NEW here, NEW up, here # up, NEW p \in Seq(S), NEW after,
         Stacked(p, here, up, after)
  PROVE  LET W == Lasting(p, here, up, after, Len(p))
         IN /\ \A j \in W : Len(after[j]) \in 1 .. Len(after[Len(p)])
            /\ \A j, k \in W : j < k => Len(after[j]) < Len(after[k])
<1> DEFINE W == Lasting(p, here, up, after, Len(p))
<1>1. \A k \in 0 .. Len(p) : Len(after[k]) \in Nat
  BY StackTypes
<1>2. \A j \in W : j \in 1 .. Len(p) /\ Down(p, here, up, j)
                   /\ \A k \in j .. Len(p) : Len(after[k]) >= Len(after[j])
  BY DEF Lasting
<1>3. ASSUME NEW j \in W
      PROVE  Len(after[j]) = Len(after[j - 1]) + 1 /\ j - 1 \in 0 .. Len(p)
  <2>1. j \in 1 .. Len(p) /\ Down(p, here, up, j)
    BY <1>2
  <2>2. Moves(p, here, up, j, after[j - 1], after[j])
    BY <2>1, StackStep
  <2> QED BY <2>1, <2>2 DEF Moves
<1> HIDE DEF W
<1>4. ASSUME NEW j \in W PROVE Len(after[j]) \in 1 .. Len(after[Len(p)])
  <2>1. j \in 1 .. Len(p) /\ j \in 0 .. Len(p) /\ Len(p) \in j .. Len(p)
    BY <1>2
  <2>2. Len(after[Len(p)]) >= Len(after[j])
    BY <1>2, <2>1
  <2>3. /\ Len(after[j - 1]) \in Nat /\ Len(after[j]) \in Nat
        /\ Len(after[Len(p)]) \in Nat
    BY <1>1, <1>3, <2>1
  <2>4. Len(after[j]) = Len(after[j - 1]) + 1
    BY <1>3
  <2> QED BY <2>2, <2>3, <2>4
<1>5. ASSUME NEW j \in W, NEW k \in W, j < k
      PROVE  Len(after[j]) < Len(after[k])
  <2>1. j \in 1 .. Len(p) /\ k \in 1 .. Len(p)
    BY <1>2
  <2>2. k - 1 \in j .. Len(p) /\ k - 1 \in 0 .. Len(p) /\ j \in 0 .. Len(p)
    BY <1>5, <2>1
  <2>3. Len(after[k - 1]) >= Len(after[j])
    BY <1>2, <2>2
  <2>4. Len(after[k - 1]) \in Nat /\ Len(after[j]) \in Nat
    BY <1>1, <2>2
  <2>5. Len(after[k]) = Len(after[k - 1]) + 1
    BY <1>3
  <2> QED BY <2>3, <2>4, <2>5
<1> QED BY <1>4, <1>5 DEF W

\* A set whose members are at the depths 1 to m, each at its own, has m.
LEMMA AtDepths ==
  ASSUME NEW V, NEW h, NEW m \in Nat,
         \A j \in V : h[j] \in 1 .. m,
         \A j, k \in V : h[j] = h[k] => j = k,
         \A i \in 1 .. m : \E j \in V : h[j] = i
  PROVE  Cardinality(V) = m
<1> DEFINE at == [i \in 1 .. m |-> CHOOSE j \in V : h[j] = i]
<1>1. \A i \in 1 .. m : at[i] \in V /\ h[at[i]] = i
  OBVIOUS
<1>2. at \in [1 .. m -> V]
  BY <1>1
<1>3. \A i, k \in 1 .. m : at[i] = at[k] => i = k
  BY <1>1
<1>4. \A j \in V : \E i \in 1 .. m : at[i] = j
  BY <1>1
<1> HIDE DEF at
<1>5. at \in Injection(1 .. m, V)
  BY <1>2, <1>3 DEF Injection, IsInjective
<1>6. at \in Surjection(1 .. m, V)
  BY <1>2, <1>4 DEF Surjection
<1>7. ExistsBijection(1 .. m, V)
  BY <1>5, <1>6 DEF ExistsBijection, Bijection
<1>8. IsFiniteSet(1 .. m) /\ Cardinality(1 .. m) = m
  <2>1. Cardinality(1 .. m) = IF 1 > m THEN 0 ELSE m - 1 + 1
    BY FS_Interval
  <2> QED BY <2>1, FS_Interval
<1> QED BY <1>7, <1>8, FS_Bijection

\* What a stack of segments keeps of a path is what stays of it by its meaning.
THEOREM StackIsLexical ==
  ASSUME NEW S, NEW here, NEW up, here # up, NEW p \in Seq(S), NEW after,
         Stacked(p, here, up, after)
  PROVE  after[Len(p)] = Lexical(p, here, up)
<1> DEFINE Ups(j, k) == Cardinality({l \in j .. k : p[l] = up})
           Downs(j, k) == Cardinality({l \in j .. k : p[l] \notin {here, up}})
           Stays(j) == /\ p[j] \notin {here, up}
                       /\ \A k \in j + 1 .. Len(p) :
                            Ups(j + 1, k) <= Downs(j + 1, k)
           W == Lasting(p, here, up, after, Len(p))
           h == [j \in 0 .. Len(p) |-> Len(after[j])]
           m == Len(after[Len(p)])
           t == after[Len(p)]
<1>1. m \in Nat /\ t \in Seq(S) /\ DOMAIN p = 1 .. Len(p) /\ Len(p) \in Nat
  <2>1. \A n \in 0 .. Len(p) : after[n] \in Seq(S)
    BY StackTypes
  <2>2. Len(p) \in 0 .. Len(p)
    OBVIOUS
  <2>3. t \in Seq(S)
    BY <2>1, <2>2
  <2> QED BY <2>3
<1>2. \A j \in 1 .. Len(p) : Stays(j) <=> j \in W
  <2> TAKE j \in 1 .. Len(p)
  <2>1. ASSUME NEW k
        PROVE  /\ Ups(j + 1, k) = Marked(UpsOf(p, up), j + 1, k)
               /\ Downs(j + 1, k) = Marked(DownsOf(p, here, up), j + 1, k)
    <3>1. {l \in j + 1 .. k : p[l] = up} = {l \in j + 1 .. k : l \in UpsOf(p, up)}
      BY DEF UpsOf
    <3>2. {l \in j + 1 .. k : p[l] \notin {here, up}}
            = {l \in j + 1 .. k : l \in DownsOf(p, here, up)}
      BY DEF DownsOf, Down
    <3> QED BY <3>1, <3>2 DEF Marked
  <2> HIDE DEF Ups, Downs
  <2>2. CASE Down(p, here, up, j)
    <3>1. Len(p) \in j .. Len(p)
      OBVIOUS
    <3>2. (\A k \in j .. Len(p) : Len(after[k]) >= Len(after[j])) <=>
          (\A k \in j + 1 .. Len(p) :
             Marked(UpsOf(p, up), j + 1, k) <= Marked(DownsOf(p, here, up), j + 1, k))
      BY <2>2, <3>1, DepthCounts
    <3> QED BY <2>1, <2>2, <3>2 DEF Lasting, Down
  <2>3. CASE ~Down(p, here, up, j)
    BY <2>3 DEF Lasting, Down
  <2> QED BY <2>2, <2>3
<1>3. /\ W \subseteq 1 .. Len(p)
      /\ \A j \in W : h[j] \in 1 .. m
      /\ \A j, k \in W : j < k => h[j] < h[k]
      /\ \A j \in W : h[j] = Len(after[j])
  <2>1. W \subseteq 1 .. Len(p)
    BY DEF Lasting
  <2>2. \A j \in W : h[j] = Len(after[j])
    BY <2>1
  <2> HIDE DEF W, h
  <2> QED BY <2>1, <2>2, LastingRises DEF W
<1>4. \A i \in 1 .. m : \E j \in W : h[j] = i /\ t[i] = p[j]
  <2>1. Len(p) \in 0 .. Len(p)
    OBVIOUS
  <2>2. \A i \in 1 .. m : \E j \in W : Len(after[j]) = i /\ t[i] = p[j]
    <3> DEFINE n == Len(p)
    <3>1. n \in 0 .. Len(p)
      BY <2>1
    <3> HIDE DEF n
    <3>2. \A i \in 1 .. Len(after[n]) :
            \E j \in Lasting(p, here, up, after, n) :
              Len(after[j]) = i /\ after[n][i] = p[j]
      BY <3>1, StackShape
    <3> QED BY <3>2 DEF n
  <2> HIDE DEF W, h
  <2> QED BY <1>3, <2>2
<1> HIDE DEF W, h, Stays
<1>5. \A j, k \in W : h[j] = h[k] => j = k
  BY <1>1, <1>3
<1>6. Cardinality({k \in DOMAIN p : Stays(k)}) = m
  <2>1. {k \in DOMAIN p : Stays(k)} = W
    BY <1>1, <1>2, <1>3
  <2>2. \A i \in 1 .. m : \E j \in W : h[j] = i
    BY <1>4
  <2>3. m \in Nat /\ \A j \in W : h[j] \in 1 .. m
    BY <1>1, <1>3
  <2> HIDE DEF m
  <2>4. Cardinality(W) = m
    BY <1>5, <2>2, <2>3, AtDepths
  <2> QED BY <2>1, <2>4
<1>7. \A k \in W : Cardinality({l \in 1 .. k : Stays(l)}) = h[k]
  <2> TAKE k \in W
  <2> DEFINE V == {l \in 1 .. k : Stays(l)}
  <2>1. V = {l \in W : l <= k}
    <3>1. k \in 1 .. Len(p)
      BY <1>3
    <3>2. \A l : l \in 1 .. k <=> l \in 1 .. Len(p) /\ l <= k
      BY <1>1, <3>1
    <3>3. \A l : l \in V <=> l \in W /\ l <= k
      BY <1>2, <1>3, <3>2
    <3> HIDE DEF V
    <3> QED BY <3>3
  <2>2. h[k] \in Nat /\ k \in Nat
    BY <1>1, <1>3
  <2>3. \A l \in V : h[l] \in 1 .. h[k]
    <3> SUFFICES ASSUME NEW l \in V PROVE h[l] \in 1 .. h[k]
      OBVIOUS
    <3>1. l \in W /\ l <= k /\ l \in Nat
      BY <1>3, <2>1
    <3>2. h[l] \in 1 .. m
      BY <1>3, <3>1
    <3>3. CASE l = k BY <3>2, <3>3, <1>1
    <3>4. CASE l < k
      <4>1. h[l] < h[k] BY <1>3, <3>1, <3>4
      <4> QED BY <1>1, <2>2, <3>2, <4>1
    <3> QED BY <2>2, <3>1, <3>3, <3>4
  <2>4. ASSUME NEW i \in 1 .. h[k] PROVE \E l \in V : h[l] = i
    <3>1. i \in 1 .. m /\ i <= h[k] /\ h[k] \in 1 .. m
      BY <1>1, <1>3, <2>2
    <3>2. PICK l \in W : h[l] = i
      BY <1>4, <3>1
    <3>3. l \in Nat /\ ~(k < l)
      <4>1. l \in Nat BY <1>3
      <4>2. k < l => h[k] < h[l] BY <1>3
      <4> QED BY <3>1, <3>2, <4>1, <4>2, <1>1
    <3>4. l <= k BY <2>2, <3>3
    <3> QED BY <2>1, <3>2, <3>4
  <2>5. \A j, l \in V : h[j] = h[l] => j = l
    BY <1>5, <2>1
  <2> HIDE DEF V
  <2>6. Cardinality(V) = h[k]
    BY <2>2, <2>3, <2>4, <2>5, AtDepths
  <2> QED BY <2>6 DEF V
<1>8. \A i \in 1 .. m :
        t[i] = p[CHOOSE k \in DOMAIN p :
                   Stays(k) /\ Cardinality({l \in 1 .. k : Stays(l)}) = i]
  <2> TAKE i \in 1 .. m
  <2> DEFINE Q(k) == Stays(k) /\ Cardinality({l \in 1 .. k : Stays(l)}) = i
  <2>1. PICK j \in W : h[j] = i /\ t[i] = p[j]
    BY <1>4
  <2>2. j \in DOMAIN p /\ Q(j)
    BY <1>1, <1>2, <1>3, <1>7, <2>1
  <2>3. \A k \in DOMAIN p : Q(k) => k = j
    BY <1>1, <1>2, <1>5, <1>7, <2>1
  <2> HIDE DEF Q
  <2>4. (CHOOSE k \in DOMAIN p : Q(k)) = j
    BY <2>2, <2>3
  <2> QED BY <2>1, <2>4 DEF Q
<1>9. Lexical(p, here, up)
        = [i \in 1 .. Cardinality({k \in DOMAIN p : Stays(k)}) |->
             p[CHOOSE k \in DOMAIN p :
                 Stays(k) /\ Cardinality({l \in 1 .. k : Stays(l)}) = i]]
  BY DEF Lexical, Stays
<1>10. t = [i \in 1 .. m |-> t[i]]
  BY <1>1, SMTT(30)
<1> QED BY <1>6, <1>8, <1>9, <1>10
===============================================================================
