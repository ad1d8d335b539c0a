-------------------------- MODULE EmbeddedFiles_proofs -------------------------
(***************************************************************************)
(* The embedded files of the toolchain. First the reader: the lazy         *)
(* decoding of files for any number of threads, files and buffers. Then    *)
(* what clang sees of them: the node table of the archive and the search   *)
(* in it, for any archives, names and requests: an order in which two      *)
(* names are never alike unless they are one, a table that is the          *)
(* archive's, and a search that never leaves the name it looks for behind. *)
(***************************************************************************)
EXTENDS VfsCore, ClangOverlay, LexicalPath_proofs

-------------------------------------------------------------------------------
(* Files and their buffers (VfsCore).                                      *)

Locked == {"reload", "malloc", "decode", "store", "unlock"}

\* Only the owner of the lock is at one of the locked control points.
Mutex == \A t \in Thread : pc[t] \in Locked <=> lock = t

\* What the owner knows of its local pointer and of the file's.
OwnerOf(t) ==
  /\ pc[t] \in Locked \cup {"lock"} => node[t] \in File
  /\ pc[t] \in {"malloc", "decode", "store"} => data[node[t]] = Null
  /\ pc[t] \in {"once", "init", "check", "lock", "reload", "malloc"} =>
       mine[t] = Null
  /\ pc[t] = "decode" => mine[t] \in Buf /\ heap[mine[t]] = "filling"
  /\ pc[t] = "store" =>
       mine[t] \in Buf /\ heap[mine[t]] = "whole" /\ of[mine[t]] = node[t]
  /\ pc[t] = "unlock" => mine[t] \in {Null, data[node[t]]}

Owners == \A t \in Thread : OwnerOf(t)

\* What is published, and what was handed out.
DataWhole ==
  \A e \in Node : data[e] # Null => heap[data[e]] = "whole" /\ of[data[e]] = e

GivenIsData == \A g \in given : g[2] # Null => data[g[1]] = g[2]

IInv ==
  /\ TypeOK /\ Mutex /\ DataWhole /\ GivenIsData /\ NoLeak
  /\ Owners

\* A published pointer stays.
DataKept == \A e \in Node : data[e] # Null => data'[e] = data[e]

LEMMA InitIInv == Init => IInv
<1> SUFFICES ASSUME Init PROVE IInv
  OBVIOUS
<1> USE VfsAssumption DEF Init
<1>1. TypeOK
  <2>1. PICK e \in Node :
          of = [b \in Buf |-> e] /\ node = [t \in Thread |-> e]
    OBVIOUS
  <2>2. of \in [Buf -> Node] /\ node \in [Thread -> Node]
    BY <2>1
  <2>3. calls \in [Thread -> 0..MaxCalls] /\ given = {}
    OBVIOUS
  <2> QED BY <2>2, <2>3 DEF TypeOK
<1>2. Mutex /\ NoLeak /\ GivenIsData
  BY DEF Mutex, Locked, NoLeak, GivenIsData
<1>3. DataWhole
  BY DEF DataWhole
<1>4. Owners
  BY DEF Owners, OwnerOf, Locked
<1> QED BY <1>1, <1>2, <1>3, <1>4 DEF IInv

-------------------------------------------------------------------------------
\* A step keeps the types.
LEMMA StepType == TypeOK /\ [Next]_vars => TypeOK'
<1> SUFFICES ASSUME TypeOK, [Next]_vars PROVE TypeOK'
  OBVIOUS
<1> USE VfsAssumption DEF TypeOK, Goto, Return, memory, Node
<1>1. ASSUME NEW t \in Thread, StartInit(t) PROVE TypeOK'
  BY <1>1 DEF StartInit
<1>2. ASSUME NEW t \in Thread, Initialize(t) PROVE TypeOK'
  BY <1>2 DEF Initialize
<1>3. ASSUME NEW t \in Thread, PassOnce(t) PROVE TypeOK'
  BY <1>3 DEF PassOnce
<1>4. ASSUME NEW t \in Thread, Refuse(t) PROVE TypeOK'
  BY <1>4 DEF Refuse
<1>5. ASSUME NEW t \in Thread, LoadHit(t) PROVE TypeOK'
  BY <1>5 DEF LoadHit
<1>6. ASSUME NEW t \in Thread, LoadMiss(t) PROVE TypeOK'
  BY <1>6 DEF LoadMiss
<1>7. ASSUME NEW t \in Thread, Lock(t) PROVE TypeOK'
  BY <1>7 DEF Lock
<1>8. ASSUME NEW t \in Thread, Reload(t) PROVE TypeOK'
  BY <1>8 DEF Reload
<1>9. ASSUME NEW t \in Thread, Malloc(t) PROVE TypeOK'
  BY <1>9 DEF Malloc
<1>10. ASSUME NEW t \in Thread, Decode(t) PROVE TypeOK'
  BY <1>10 DEF Decode
<1>11. ASSUME NEW t \in Thread, DecodeFails(t) PROVE TypeOK'
  BY <1>11 DEF DecodeFails
<1>12. ASSUME NEW t \in Thread, StoreData(t) PROVE TypeOK'
  BY <1>12 DEF StoreData
<1>13. ASSUME NEW t \in Thread, Unlock(t) PROVE TypeOK'
  BY <1>13 DEF Unlock
<1>14. ASSUME NEW t \in Thread, NEW e \in Node, Call(t, e) PROVE TypeOK'
  BY <1>14 DEF Call
<1>15. CASE UNCHANGED vars
  BY <1>15 DEF vars
<1> QED
  BY <1>1, <1>2, <1>3, <1>4, <1>5, <1>6, <1>7, <1>8, <1>9, <1>10, <1>11,
     <1>12, <1>13, <1>14, <1>15 DEF Next, Step
\* The lock has one owner.
LEMMA MutexStep == IInv /\ [Next]_vars => Mutex'
<1> SUFFICES ASSUME IInv, [Next]_vars PROVE Mutex'
  OBVIOUS
<1> USE VfsAssumption DEF IInv, TypeOK, Goto, Return, memory, Mutex, Locked
<1>1. ASSUME NEW t \in Thread, StartInit(t) PROVE Mutex'
  BY <1>1 DEF StartInit
<1>2. ASSUME NEW t \in Thread, Initialize(t) PROVE Mutex'
  BY <1>2 DEF Initialize
<1>3. ASSUME NEW t \in Thread, PassOnce(t) PROVE Mutex'
  BY <1>3 DEF PassOnce
<1>4. ASSUME NEW t \in Thread, Refuse(t) PROVE Mutex'
  BY <1>4 DEF Refuse
<1>5. ASSUME NEW t \in Thread, LoadHit(t) PROVE Mutex'
  BY <1>5 DEF LoadHit
<1>6. ASSUME NEW t \in Thread, LoadMiss(t) PROVE Mutex'
  BY <1>6 DEF LoadMiss
<1>7. ASSUME NEW t \in Thread, Lock(t) PROVE Mutex'
  BY <1>7 DEF Lock
<1>8. ASSUME NEW t \in Thread, Reload(t) PROVE Mutex'
  BY <1>8 DEF Reload
<1>9. ASSUME NEW t \in Thread, Malloc(t) PROVE Mutex'
  BY <1>9 DEF Malloc
<1>10. ASSUME NEW t \in Thread, Decode(t) PROVE Mutex'
  BY <1>10 DEF Decode
<1>11. ASSUME NEW t \in Thread, DecodeFails(t) PROVE Mutex'
  BY <1>11 DEF DecodeFails
<1>12. ASSUME NEW t \in Thread, StoreData(t) PROVE Mutex'
  BY <1>12 DEF StoreData
<1>13. ASSUME NEW t \in Thread, Unlock(t) PROVE Mutex'
  BY <1>13 DEF Unlock
<1>14. ASSUME NEW t \in Thread, NEW e \in Node, Call(t, e) PROVE Mutex'
  BY <1>14 DEF Call
<1>15. CASE UNCHANGED vars
  BY <1>15 DEF vars
<1> QED
  BY <1>1, <1>2, <1>3, <1>4, <1>5, <1>6, <1>7, <1>8, <1>9, <1>10, <1>11,
     <1>12, <1>13, <1>14, <1>15 DEF Next, Step

\* What the owner of the lock knows stays true up to its next step.
LEMMA OwnerStep == IInv /\ [Next]_vars => Owners'
<1> SUFFICES ASSUME IInv, [Next]_vars PROVE Owners'
  OBVIOUS
<1> USE VfsAssumption
    DEF IInv, TypeOK, Goto, Return, memory, Owners, OwnerOf, Mutex, Locked
<1>1. ASSUME NEW t \in Thread, StartInit(t) PROVE Owners'
  BY <1>1 DEF StartInit
<1>2. ASSUME NEW t \in Thread, Initialize(t) PROVE Owners'
  BY <1>2 DEF Initialize
<1>3. ASSUME NEW t \in Thread, PassOnce(t) PROVE Owners'
  BY <1>3 DEF PassOnce
<1>4. ASSUME NEW t \in Thread, Refuse(t) PROVE Owners'
  BY <1>4 DEF Refuse
<1>5. ASSUME NEW t \in Thread, LoadHit(t) PROVE Owners'
  BY <1>5 DEF LoadHit
<1>6. ASSUME NEW t \in Thread, LoadMiss(t) PROVE Owners'
  BY <1>6 DEF LoadMiss
<1>7. ASSUME NEW t \in Thread, Lock(t) PROVE Owners'
  BY <1>7 DEF Lock
<1>8. ASSUME NEW t \in Thread, Reload(t) PROVE Owners'
  BY <1>8 DEF Reload
<1>9. ASSUME NEW t \in Thread, Malloc(t) PROVE Owners'
  BY <1>9 DEF Malloc
<1>10. ASSUME NEW t \in Thread, Decode(t) PROVE Owners'
  BY <1>10 DEF Decode
<1>11. ASSUME NEW t \in Thread, DecodeFails(t) PROVE Owners'
  BY <1>11 DEF DecodeFails
<1>12. ASSUME NEW t \in Thread, StoreData(t) PROVE Owners'
  BY <1>12 DEF StoreData
<1>13. ASSUME NEW t \in Thread, Unlock(t) PROVE Owners'
  BY <1>13 DEF Unlock
<1>14. ASSUME NEW t \in Thread, NEW e \in Node, Call(t, e) PROVE Owners'
  BY <1>14 DEF Call
<1>15. CASE UNCHANGED vars
  BY <1>15 DEF vars
<1> QED
  BY <1>1, <1>2, <1>3, <1>4, <1>5, <1>6, <1>7, <1>8, <1>9, <1>10, <1>11,
     <1>12, <1>13, <1>14, <1>15 DEF Next, Step

\* A published buffer stays whole: nobody fills or frees it.
LEMMA WholeStep == IInv /\ [Next]_vars => DataWhole'
<1> SUFFICES ASSUME IInv, [Next]_vars PROVE DataWhole'
  OBVIOUS
<1> USE VfsAssumption
    DEF IInv, TypeOK, Goto, Return, memory, Owners, OwnerOf, Mutex, Locked,
        DataWhole
<1>1. ASSUME NEW t \in Thread, StartInit(t) PROVE DataWhole'
  BY <1>1 DEF StartInit
<1>2. ASSUME NEW t \in Thread, Initialize(t) PROVE DataWhole'
  BY <1>2 DEF Initialize
<1>3. ASSUME NEW t \in Thread, PassOnce(t) PROVE DataWhole'
  BY <1>3 DEF PassOnce
<1>4. ASSUME NEW t \in Thread, Refuse(t) PROVE DataWhole'
  BY <1>4 DEF Refuse
<1>5. ASSUME NEW t \in Thread, LoadHit(t) PROVE DataWhole'
  BY <1>5 DEF LoadHit
<1>6. ASSUME NEW t \in Thread, LoadMiss(t) PROVE DataWhole'
  BY <1>6 DEF LoadMiss
<1>7. ASSUME NEW t \in Thread, Lock(t) PROVE DataWhole'
  BY <1>7 DEF Lock
<1>8. ASSUME NEW t \in Thread, Reload(t) PROVE DataWhole'
  BY <1>8 DEF Reload
<1>9. ASSUME NEW t \in Thread, Malloc(t) PROVE DataWhole'
  BY <1>9 DEF Malloc
<1>10. ASSUME NEW t \in Thread, Decode(t) PROVE DataWhole'
  BY <1>10 DEF Decode
<1>11. ASSUME NEW t \in Thread, DecodeFails(t) PROVE DataWhole'
  BY <1>11 DEF DecodeFails
<1>12. ASSUME NEW t \in Thread, StoreData(t) PROVE DataWhole'
  BY <1>12 DEF StoreData
<1>13. ASSUME NEW t \in Thread, Unlock(t) PROVE DataWhole'
  BY <1>13 DEF Unlock
<1>14. ASSUME NEW t \in Thread, NEW e \in Node, Call(t, e) PROVE DataWhole'
  BY <1>14 DEF Call
<1>15. CASE UNCHANGED vars
  BY <1>15 DEF vars
<1> QED
  BY <1>1, <1>2, <1>3, <1>4, <1>5, <1>6, <1>7, <1>8, <1>9, <1>10, <1>11,
     <1>12, <1>13, <1>14, <1>15 DEF Next, Step

\* No step takes it back.
LEMMA KeptStep == IInv /\ [Next]_vars => DataKept
<1> SUFFICES ASSUME IInv, [Next]_vars PROVE DataKept
  OBVIOUS
<1> USE VfsAssumption
    DEF IInv, TypeOK, Goto, Return, memory, Owners, OwnerOf, Mutex, Locked,
        DataKept
<1>1. ASSUME NEW t \in Thread, StartInit(t) PROVE DataKept
  BY <1>1 DEF StartInit
<1>2. ASSUME NEW t \in Thread, Initialize(t) PROVE DataKept
  BY <1>2 DEF Initialize
<1>3. ASSUME NEW t \in Thread, PassOnce(t) PROVE DataKept
  BY <1>3 DEF PassOnce
<1>4. ASSUME NEW t \in Thread, Refuse(t) PROVE DataKept
  BY <1>4 DEF Refuse
<1>5. ASSUME NEW t \in Thread, LoadHit(t) PROVE DataKept
  BY <1>5 DEF LoadHit
<1>6. ASSUME NEW t \in Thread, LoadMiss(t) PROVE DataKept
  BY <1>6 DEF LoadMiss
<1>7. ASSUME NEW t \in Thread, Lock(t) PROVE DataKept
  BY <1>7 DEF Lock
<1>8. ASSUME NEW t \in Thread, Reload(t) PROVE DataKept
  BY <1>8 DEF Reload
<1>9. ASSUME NEW t \in Thread, Malloc(t) PROVE DataKept
  BY <1>9 DEF Malloc
<1>10. ASSUME NEW t \in Thread, Decode(t) PROVE DataKept
  BY <1>10 DEF Decode
<1>11. ASSUME NEW t \in Thread, DecodeFails(t) PROVE DataKept
  BY <1>11 DEF DecodeFails
<1>12. ASSUME NEW t \in Thread, StoreData(t) PROVE DataKept
  BY <1>12 DEF StoreData
<1>13. ASSUME NEW t \in Thread, Unlock(t) PROVE DataKept
  BY <1>13 DEF Unlock
<1>14. ASSUME NEW t \in Thread, NEW e \in Node, Call(t, e) PROVE DataKept
  BY <1>14 DEF Call
<1>15. CASE UNCHANGED vars
  BY <1>15 DEF vars
<1> QED
  BY <1>1, <1>2, <1>3, <1>4, <1>5, <1>6, <1>7, <1>8, <1>9, <1>10, <1>11,
     <1>12, <1>13, <1>14, <1>15 DEF Next, Step

\* What is handed out is what is published.
LEMMA GivenStep == IInv /\ [Next]_vars => GivenIsData'
<1> SUFFICES ASSUME IInv, [Next]_vars PROVE GivenIsData'
  OBVIOUS
<1> USE VfsAssumption
    DEF IInv, TypeOK, Goto, Return, memory, Owners, OwnerOf, Mutex, Locked,
        GivenIsData
<1>1. ASSUME NEW t \in Thread, StartInit(t) PROVE GivenIsData'
  BY <1>1 DEF StartInit
<1>2. ASSUME NEW t \in Thread, Initialize(t) PROVE GivenIsData'
  BY <1>2 DEF Initialize
<1>3. ASSUME NEW t \in Thread, PassOnce(t) PROVE GivenIsData'
  BY <1>3 DEF PassOnce
<1>4. ASSUME NEW t \in Thread, Refuse(t) PROVE GivenIsData'
  BY <1>4 DEF Refuse
<1>5. ASSUME NEW t \in Thread, LoadHit(t) PROVE GivenIsData'
  BY <1>5 DEF LoadHit
<1>6. ASSUME NEW t \in Thread, LoadMiss(t) PROVE GivenIsData'
  BY <1>6 DEF LoadMiss
<1>7. ASSUME NEW t \in Thread, Lock(t) PROVE GivenIsData'
  BY <1>7 DEF Lock
<1>8. ASSUME NEW t \in Thread, Reload(t) PROVE GivenIsData'
  BY <1>8 DEF Reload
<1>9. ASSUME NEW t \in Thread, Malloc(t) PROVE GivenIsData'
  BY <1>9 DEF Malloc
<1>10. ASSUME NEW t \in Thread, Decode(t) PROVE GivenIsData'
  BY <1>10 DEF Decode
<1>11. ASSUME NEW t \in Thread, DecodeFails(t) PROVE GivenIsData'
  BY <1>11 DEF DecodeFails
<1>12. ASSUME NEW t \in Thread, StoreData(t) PROVE GivenIsData'
  BY <1>12 DEF StoreData
<1>13. ASSUME NEW t \in Thread, Unlock(t) PROVE GivenIsData'
  BY <1>13 DEF Unlock
<1>14. ASSUME NEW t \in Thread, NEW e \in Node, Call(t, e) PROVE GivenIsData'
  BY <1>14 DEF Call
<1>15. CASE UNCHANGED vars
  BY <1>15 DEF vars
<1> QED
  BY <1>1, <1>2, <1>3, <1>4, <1>5, <1>6, <1>7, <1>8, <1>9, <1>10, <1>11,
     <1>12, <1>13, <1>14, <1>15 DEF Next, Step

\* A buffer that is not free is published or in the hands of the owner.
LEMMA LeakStep == IInv /\ [Next]_vars => NoLeak'
<1> SUFFICES ASSUME IInv, [Next]_vars PROVE NoLeak'
  OBVIOUS
<1> USE VfsAssumption
    DEF IInv, TypeOK, Goto, Return, memory, Owners, OwnerOf, Mutex, Locked,
        NoLeak, DataWhole
<1>1. ASSUME NEW t \in Thread, StartInit(t) PROVE NoLeak'
  BY <1>1 DEF StartInit
<1>2. ASSUME NEW t \in Thread, Initialize(t) PROVE NoLeak'
  BY <1>2 DEF Initialize
<1>3. ASSUME NEW t \in Thread, PassOnce(t) PROVE NoLeak'
  BY <1>3 DEF PassOnce
<1>4. ASSUME NEW t \in Thread, Refuse(t) PROVE NoLeak'
  BY <1>4 DEF Refuse
<1>5. ASSUME NEW t \in Thread, LoadHit(t) PROVE NoLeak'
  BY <1>5 DEF LoadHit
<1>6. ASSUME NEW t \in Thread, LoadMiss(t) PROVE NoLeak'
  BY <1>6 DEF LoadMiss
<1>7. ASSUME NEW t \in Thread, Lock(t) PROVE NoLeak'
  BY <1>7 DEF Lock
<1>8. ASSUME NEW t \in Thread, Reload(t) PROVE NoLeak'
  BY <1>8 DEF Reload
<1>9. ASSUME NEW t \in Thread, Malloc(t) PROVE NoLeak'
  BY <1>9 DEF Malloc
<1>10. ASSUME NEW t \in Thread, Decode(t) PROVE NoLeak'
  BY <1>10 DEF Decode
<1>11. ASSUME NEW t \in Thread, DecodeFails(t) PROVE NoLeak'
  BY <1>11 DEF DecodeFails
<1>12. ASSUME NEW t \in Thread, StoreData(t) PROVE NoLeak'
  BY <1>12 DEF StoreData
<1>13. ASSUME NEW t \in Thread, Unlock(t) PROVE NoLeak'
  BY <1>13 DEF Unlock
<1>14. ASSUME NEW t \in Thread, NEW e \in Node, Call(t, e) PROVE NoLeak'
  BY <1>14 DEF Call
<1>15. CASE UNCHANGED vars
  BY <1>15 DEF vars
<1> QED
  BY <1>1, <1>2, <1>3, <1>4, <1>5, <1>6, <1>7, <1>8, <1>9, <1>10, <1>11,
     <1>12, <1>13, <1>14, <1>15 DEF Next, Step

-------------------------------------------------------------------------------
LEMMA Inductive == Spec => []IInv
<1>1. IInv /\ [Next]_vars => IInv'
  <2> SUFFICES ASSUME IInv, [Next]_vars PROVE IInv'
    OBVIOUS
  <2>1. TypeOK'
    BY StepType DEF IInv
  <2> QED BY <2>1, MutexStep, OwnerStep, WholeStep, GivenStep, LeakStep DEF IInv
<1> QED BY <1>1, InitIInv, PTL DEF Spec

\* Every variable keeps its type.
THEOREM TypeCorrect == Spec => []TypeOK
<1>1. IInv => TypeOK
  BY DEF IInv
<1> QED BY <1>1, Inductive, PTL

\* Whatever unpin_vfs_data returned is, from then on, the whole of the file it
\* was asked for.
THEOREM Whole == Spec => []GivenIsWhole
<1>1. IInv => GivenIsWhole
  BY DEF IInv, GivenIsWhole, DataWhole, GivenIsData, TypeOK
<1> QED BY <1>1, Inductive, PTL

\* All threads are given one and the same buffer for a file.
THEOREM One == Spec => []OneAnswer
<1>1. IInv => OneAnswer
  BY DEF IInv, OneAnswer, GivenIsData, TypeOK
<1> QED BY <1>1, Inductive, PTL

\* No failed decode and no race loses a buffer.
THEOREM NoneLost == Spec => []NoLeak
<1>1. IInv => NoLeak
  BY DEF IInv
<1> QED BY <1>1, Inductive, PTL

\* A file that was decoded once is never refused afterwards.
THEOREM Kept == Spec => NeverTakenBack
<1>1. IInv /\ [Next]_vars => [DataKept]_vars
  BY KeptStep
<1>2. [DataKept]_vars =>
        [\A e \in Node : data[e] # Null => data'[e] = data[e]]_vars
  BY DEF DataKept
<1> QED BY <1>1, <1>2, Inductive, PTL DEF Spec, NeverTakenBack

-------------------------------------------------------------------------------
(* The order of names.                                                     *)

LEMMA NamesAreNumbers == Seq(Byte) \subseteq Seq(Nat)
<1> SUFFICES ASSUME NEW s \in Seq(Byte) PROVE s \in Seq(Nat)
  OBVIOUS
<1>1. Byte \subseteq Nat
  BY VfsIndexAssumption
<1>2. s \in [1 .. Len(s) -> Byte] /\ Len(s) \in Nat
  OBVIOUS
<1>3. s \in [1 .. Len(s) -> Nat]
  BY <1>1, <1>2
<1> QED BY <1>2, <1>3

\* No name is less than itself.
LEMMA LessIrreflexive ==
  ASSUME NEW x \in Seq(Nat)
  PROVE  ~Less(x, x)
<1>1. \A k \in DOMAIN x : ~(x[k] < x[k])
  OBVIOUS
<1> QED BY <1>1 DEF Less, IsStrictPrefix

\* Names of which neither is less are one.
LEMMA LessTotal ==
  ASSUME NEW x \in Seq(Nat), NEW y \in Seq(Nat), ~Less(x, y), ~Less(y, x)
  PROVE  x = y
<1> DEFINE Differ == {k \in Nat : k \in DOMAIN x \cap DOMAIN y /\ x[k] # y[k]}
<1>1. Differ = {}
  <2> SUFFICES ASSUME Differ # {} PROVE FALSE
    OBVIOUS
  <2>1. PICK m \in Differ : \A k \in Differ : m <= k
    <3> Differ \in SUBSET Nat
      OBVIOUS
    <3> HIDE DEF Differ
    <3> QED BY Least
  <2>2. \A j \in 1 .. m - 1 : x[j] = y[j]
    <3> TAKE j \in 1 .. m - 1
    <3>1. j \in Nat /\ j < m /\ j \in DOMAIN x \cap DOMAIN y
      BY <2>1
    <3> QED BY <2>1, <3>1
  <2>3. x[m] \in Nat /\ y[m] \in Nat /\ x[m] # y[m]
        /\ m \in DOMAIN x \cap DOMAIN y
    BY <2>1
  <2>4. x[m] < y[m] \/ y[m] < x[m]
    BY <2>3
  <2> QED BY <2>2, <2>3, <2>4 DEF Less
<1>2. \A k \in DOMAIN x \cap DOMAIN y : x[k] = y[k]
  BY <1>1
<1>3. CASE Len(x) <= Len(y)
  <2>1. SubSeq(x, 1, Len(x)) = SubSeq(y, 1, Len(x))
    BY <1>2, <1>3
  <2> QED BY <1>3, <2>1 DEF Less, IsStrictPrefix, IsPrefix
<1>4. CASE Len(y) <= Len(x)
  <2>1. SubSeq(y, 1, Len(y)) = SubSeq(x, 1, Len(y))
    BY <1>2, <1>4
  <2> QED BY <1>4, <2>1 DEF Less, IsStrictPrefix, IsPrefix
<1> QED BY <1>3, <1>4

-------------------------------------------------------------------------------
(* Records and nodes.                                                      *)

NodeOK == [path : Seq(Byte), dir : BOOLEAN]

LEMMA Roots == Root \in NodeOK
BY DEF Root, NodeOK

LEMMA Nodes ==
  ASSUME NEW name \in Seq(Byte)
  PROVE  NodeOf(name) \in NodeOK
<1>1. CASE name # <<>> /\ Last(name) = Slash
  <2>1. Front(name) \in Seq(Byte)
    BY <1>1 DEF Front
  <2> QED BY <1>1, <2>1 DEF NodeOf, NodeOK
<1>2. CASE ~(name # <<>> /\ Last(name) = Slash)
  BY <1>2 DEF NodeOf, NodeOK
<1> QED BY <1>1, <1>2

\* parse looks for unpin's directory in a name without its trailing slash: that
\* makes no difference but for the directory itself.
LEMMA ReservedAlike ==
  ASSUME NEW name \in Seq(Byte), name # Reserved
  PROVE  IsPrefix(Reserved, NodeOf(name).path) <=> IsPrefix(Reserved, name)
<1> Reserved \in Seq(Byte)
  BY VfsIndexAssumption
<1>1. CASE name # <<>> /\ Last(name) = Slash
  <2> DEFINE f == Front(name)
  <2>1. NodeOf(name).path = f
    BY <1>1 DEF NodeOf
  <2>2. f \in Seq(Byte) /\ Len(f) = Len(name) - 1
        /\ \A k \in 1 .. Len(f) : f[k] = name[k]
    <3>1. Len(name) \in Nat \ {0}
      BY <1>1
    <3>2. \A k \in 1 .. Len(name) - 1 : name[k] \in Byte
      BY <3>1
    <3>3. /\ SubSeq(name, 1, Len(name) - 1) \in Seq(Byte)
          /\ Len(SubSeq(name, 1, Len(name) - 1)) = Len(name) - 1
          /\ \A k \in 1 .. Len(name) - 1 :
               SubSeq(name, 1, Len(name) - 1)[k] = name[k]
      <4> DEFINE n == Len(name) - 1
      <4>1. n \in Nat
        BY <3>1
      <4>2. \A k \in 1 .. n : name[k] \in Byte
        BY <3>2
      <4> HIDE DEF n
      <4>3. /\ SubSeq(name, 1, n) \in Seq(Byte)
            /\ Len(SubSeq(name, 1, n)) = IF 1 <= n THEN n - 1 + 1 ELSE 0
            /\ \A k \in 1 .. n - 1 + 1 : SubSeq(name, 1, n)[k] = name[1 + k - 1]
        BY <4>1, <4>2, SubSeqProperties
      <4>4. \A k \in 1 .. n : SubSeq(name, 1, n)[k] = name[k]
        BY <4>1, <4>3
      <4>5. Len(SubSeq(name, 1, n)) = n
        BY <4>1, <4>3
      <4> QED BY <4>3, <4>4, <4>5 DEF n
    <3> QED BY <3>3 DEF Front
  <2>3. Len(Reserved) <= Len(f) =>
          SubSeq(f, 1, Len(Reserved)) = SubSeq(name, 1, Len(Reserved))
    BY <2>2
  <2>4. Len(Reserved) = Len(name) =>
          SubSeq(Reserved, 1, Len(Reserved)) # SubSeq(name, 1, Len(Reserved))
    OBVIOUS
  <2> HIDE DEF f
  <2> QED BY <2>1, <2>2, <2>3, <2>4 DEF IsPrefix
<1>2. CASE ~(name # <<>> /\ Last(name) = Slash)
  BY <1>2 DEF NodeOf
<1> QED BY <1>1, <1>2

-------------------------------------------------------------------------------
(* What clang asks for, as names of the archive. Both functions fold.      *)

Removal(r, out) ==
  [k \in 0 .. Len(r.names) |->
     IF k = 0 THEN <<>> ELSE RemoveDot(r.root, out[k - 1], r.names[k])]
Joining(names, out) ==
  [k \in 0 .. Len(names) |->
     IF k = 0 THEN <<>> ELSE Join(out[k - 1], names[k])]

LEMMA RemovalDefined ==
  ASSUME NEW r \in [root : BOOLEAN, names : Seq(Seq(Byte))]
  PROVE  \E out : /\ out = Removal(r, out)
                  /\ RemoveDots(r) = out[Len(r.names)]
                  /\ out \in [0 .. Len(r.names) -> Seq(Seq(Byte))]
<1> DEFINE N == Len(r.names)
           X == Seq(Seq(Byte))
           Reduce(k, s) == RemoveDot(r.root, s, r.names[k])
           G == [k \in 1 .. N |-> [s \in X |-> Reduce(k, s)]]
           out == CHOOSE f : f = Removal(r, f)
<1>1. \A k \in 1 .. N, s \in X : Reduce(k, s) \in X
  <2> TAKE k \in 1 .. N, s \in X
  <2>1. r.names[k] \in Seq(Byte)
    OBVIOUS
  <2>2. s # <<>> => Front(s) \in X
    BY DEF Front
  <2> QED BY <2>1, <2>2 DEF RemoveDot
<1>2. G \in [1 .. N -> [X -> X]]
  <2> HIDE DEF Reduce, X
  <2> QED BY <1>1
<1>3. <<>> \in X /\ N \in Nat
  OBVIOUS
<1>4. PICK f : Folds(f, X, <<>>, N, G)
  <2> HIDE DEF G, X, N
  <2> QED BY <1>2, <1>3, FoldExists
<1>5. f \in [0 .. N -> X] /\ f[0] = <<>>
      /\ \A k \in 1 .. N : f[k] = G[k][f[k - 1]]
  <2> HIDE DEF G, X, N
  <2> QED BY <1>4 DEF Folds
<1>6. \A k \in 1 .. N : f[k] = Reduce(k, f[k - 1])
  <2> TAKE k \in 1 .. N
  <2> HIDE DEF Reduce, X
  <2>1. f[k - 1] \in X
    <3>1. k - 1 \in 0 .. N
      BY <1>3
    <3> QED BY <1>5, <3>1
  <2>2. G[k] = [s \in X |-> Reduce(k, s)]
    OBVIOUS
  <2> HIDE DEF G
  <2> QED BY <1>5, <2>1, <2>2
<1>7. f = Removal(r, f)
  <2> HIDE DEF G, X
  <2> QED BY <1>3, <1>5, <1>6 DEF Removal
<1>8. out = Removal(r, out)
  BY <1>7
<1>9. RemoveDots(r) = out[N]
  BY DEF RemoveDots, Removal
<1>10. \A k \in 0 .. N : out[k] \in X
  <2> DEFINE T == {k \in Nat : k <= N => out[k] \in X}
  <2>1. 0 \in T
    <3> HIDE DEF out, X
    <3> QED BY <1>3, <1>8 DEF Removal
  <2>2. ASSUME NEW k \in T PROVE k + 1 \in T
    <3> SUFFICES ASSUME k + 1 <= N PROVE out[k + 1] \in X
      OBVIOUS
    <3>1. out[k] \in X /\ k + 1 \in 1 .. N
      BY <1>3
    <3>2. out[k + 1] = Reduce(k + 1, out[k])
      <4> HIDE DEF out
      <4>1. k + 1 \in 0 .. N /\ k + 1 # 0 /\ (k + 1) - 1 = k
        BY <1>3, <3>1
      <4>2. Removal(r, out)[k + 1] = Reduce(k + 1, out[k])
        BY <4>1 DEF Removal
      <4> QED BY <1>8, <4>2
    <3> QED BY <1>1, <3>1, <3>2
  <2>3. T = Nat
    <3>1. T \in SUBSET Nat OBVIOUS
    <3> HIDE DEF T
    <3> QED BY <2>1, <2>2, <3>1, Induct
  <2> QED BY <2>3
<1>11. out \in [0 .. N -> X]
  <2> HIDE DEF out, X
  <2> QED BY <1>8, <1>10 DEF Removal
<1> QED
  <2> HIDE DEF out
  <2> QED BY <1>8, <1>9, <1>11

LEMMA JoiningDefined ==
  ASSUME NEW names \in Seq(Seq(Byte))
  PROVE  \E out : /\ out = Joining(names, out)
                  /\ PathOf(names) = out[Len(names)]
                  /\ out \in [0 .. Len(names) -> Seq(Byte)]
<1> DEFINE N == Len(names)
           X == Seq(Byte)
           Reduce(k, s) == Join(s, names[k])
           G == [k \in 1 .. N |-> [s \in X |-> Reduce(k, s)]]
           out == CHOOSE f : f = Joining(names, f)
<1>1. \A k \in 1 .. N, s \in X : Reduce(k, s) \in X
  BY VfsIndexAssumption DEF Join
<1>2. G \in [1 .. N -> [X -> X]]
  <2> HIDE DEF Reduce, X
  <2> QED BY <1>1
<1>3. <<>> \in X /\ N \in Nat
  OBVIOUS
<1>4. PICK f : Folds(f, X, <<>>, N, G)
  <2> HIDE DEF G, X, N
  <2> QED BY <1>2, <1>3, FoldExists
<1>5. f \in [0 .. N -> X] /\ f[0] = <<>>
      /\ \A k \in 1 .. N : f[k] = G[k][f[k - 1]]
  <2> HIDE DEF G, X, N
  <2> QED BY <1>4 DEF Folds
<1>6. \A k \in 1 .. N : f[k] = Reduce(k, f[k - 1])
  <2> TAKE k \in 1 .. N
  <2> HIDE DEF Reduce, X
  <2>1. f[k - 1] \in X
    <3>1. k - 1 \in 0 .. N
      BY <1>3
    <3> QED BY <1>5, <3>1
  <2>2. G[k] = [s \in X |-> Reduce(k, s)]
    OBVIOUS
  <2> HIDE DEF G
  <2> QED BY <1>5, <2>1, <2>2
<1>7. f = Joining(names, f)
  <2> HIDE DEF G, X
  <2> QED BY <1>3, <1>5, <1>6 DEF Joining
<1>8. out = Joining(names, out)
  BY <1>7
<1>9. PathOf(names) = out[N]
  BY DEF PathOf, Joining
<1>10. \A k \in 0 .. N : out[k] \in X
  <2> DEFINE T == {k \in Nat : k <= N => out[k] \in X}
  <2>1. 0 \in T
    <3> HIDE DEF out, X
    <3> QED BY <1>3, <1>8 DEF Joining
  <2>2. ASSUME NEW k \in T PROVE k + 1 \in T
    <3> SUFFICES ASSUME k + 1 <= N PROVE out[k + 1] \in X
      OBVIOUS
    <3>1. out[k] \in X /\ k + 1 \in 1 .. N
      BY <1>3
    <3>2. out[k + 1] = Reduce(k + 1, out[k])
      <4> HIDE DEF out
      <4>1. k + 1 \in 0 .. N /\ k + 1 # 0 /\ (k + 1) - 1 = k
        BY <1>3, <3>1
      <4>2. Joining(names, out)[k + 1] = Reduce(k + 1, out[k])
        BY <4>1 DEF Joining
      <4> QED BY <1>8, <4>2
    <3> QED BY <1>1, <3>1, <3>2
  <2>3. T = Nat
    <3>1. T \in SUBSET Nat OBVIOUS
    <3> HIDE DEF T
    <3> QED BY <2>1, <2>2, <3>1, Induct
  <2> QED BY <2>3
<1>11. out \in [0 .. N -> X]
  <2> HIDE DEF out, X
  <2> QED BY <1>8, <1>10 DEF Joining
<1> QED
  <2> HIDE DEF out
  <2> QED BY <1>8, <1>9, <1>11

\* Below the mount, a request has a name of the archive.
LEMMA RelIsName ==
  ASSUME NEW r \in Requests, Under(r)
  PROVE  Rel(r) \in Seq(Byte)
<1>1. r \in [root : BOOLEAN, names : Seq(Seq(Byte))]
  BY ClangOverlayAssumption
<1>2. RemoveDots(r) \in Seq(Seq(Byte))
  <2>1. Len(r.names) \in Nat
    BY <1>1
  <2> QED BY <1>1, <2>1, RemovalDefined
<1>3. Tail(RemoveDots(r)) \in Seq(Seq(Byte))
  BY <1>2 DEF Under
<1>4. Len(Tail(RemoveDots(r))) \in Nat
  BY <1>3
<1> QED BY <1>3, <1>4, JoiningDefined DEF Rel

-------------------------------------------------------------------------------
(* The table and the search in it.                                         *)

InTable(t, path) == \E j \in 1 .. Len(t) : t[j].path = path

\* The nodes of the records read so far.
Read(n) ==
  {Root} \cup {NodeOf(image[j]) : j \in {k \in 1 .. n :
                                 ~IsPrefix(Reserved, image[k])}}

TableInv ==
  /\ image \in Images /\ parsed \in 0 .. Len(image)
  /\ g_available \in {"no", "yes", "failed"}
  /\ g_available = "no" => es \in Seq(NodeOK) /\ ToSet(es) = Read(parsed)
  /\ g_available = "yes" => /\ g_entries \in Seq(NodeOK)
                            /\ ToSet(g_entries) = Held /\ InOrder(g_entries)

Search == [path : Seq(Byte), lo : Nat, hi : Nat, done : BOOLEAN, at : Nat]

\* What a search has ruled out is below lo or not below hi.
SearchInv ==
  query # NoQuery =>
    /\ g_available = "yes" /\ query \in Search /\ query.hi <= Len(g_entries)
    /\ query.at <= Len(g_entries)
    /\ ~query.done =>
         /\ query.at = Len(g_entries)
         /\ \A j \in 1 .. Len(g_entries) :
              g_entries[j].path = query.path => query.lo < j /\ j <= query.hi
    /\ query.done /\ query.at < Len(g_entries) =>
         g_entries[query.at + 1].path = query.path
    /\ query.done /\ query.at = Len(g_entries) =>
         ~InTable(g_entries, query.path)

IndexInv == TableInv /\ SearchInv

LEMMA ImageFacts ==
  ASSUME TableInv
  PROVE  /\ image \in Seq(Seq(Byte)) /\ DOMAIN image = 1 .. Len(image)
         /\ Len(image) \in Nat /\ parsed \in Nat
         /\ \A j \in DOMAIN image : image[j] \in Seq(Byte) /\ image[j] # Reserved
<1>1. image \in Seq(Seq(Byte)) /\ Reserved \notin ToSet(image)
  BY VfsIndexAssumption DEF TableInv, PathsOf
<1> QED BY <1>1 DEF ToSet, TableInv

LEMMA InitIndex == OverlayInit => IndexInv
<1> SUFFICES ASSUME OverlayInit PROVE IndexInv
  OBVIOUS
<1>1. image \in Images /\ parsed = 0 /\ es = <<Root>> /\ g_available = "no"
      /\ query = NoQuery
  BY DEF OverlayInit, IndexInit
<1>2. es \in Seq(NodeOK) /\ ToSet(es) = {Root}
  BY <1>1, Roots DEF ToSet
<1>3. Read(parsed) = {Root}
  BY <1>1 DEF Read
<1>4. Len(image) \in Nat
  BY <1>1, VfsIndexAssumption
<1> QED BY <1>1, <1>2, <1>3, <1>4 DEF IndexInv, TableInv, SearchInv

LEMMA RecordRead ==
  ASSUME IndexInv, ParseRecord
  PROVE  IndexInv'
<1> DEFINE name == image[parsed + 1]
           n == NodeOf(name)
<1>1. /\ g_available = "no" /\ parsed < Len(image) /\ parsed' = parsed + 1
      /\ es' = IF IsPrefix(Reserved, n.path) THEN es ELSE Append(es, n)
      /\ UNCHANGED <<image, g_entries, g_available, query>>
  BY DEF ParseRecord
<1>2. TableInv /\ SearchInv
  BY DEF IndexInv
<1>3. name \in Seq(Byte) /\ name # Reserved /\ parsed' \in 0 .. Len(image)
  BY <1>1, <1>2, ImageFacts
<1>4. n \in NodeOK /\ (IsPrefix(Reserved, n.path) <=> IsPrefix(Reserved, name))
  BY <1>3, Nodes, ReservedAlike
<1>5. es \in Seq(NodeOK) /\ ToSet(es) = Read(parsed)
  BY <1>1, <1>2 DEF TableInv
<1>6. Read(parsed') = IF IsPrefix(Reserved, name) THEN Read(parsed)
                      ELSE Read(parsed) \cup {n}
  <2>1. 1 .. parsed + 1 = (1 .. parsed) \cup {parsed + 1}
    BY <1>2, ImageFacts
  <2> QED BY <1>1, <2>1 DEF Read
<1>7. es' \in Seq(NodeOK) /\ ToSet(es') = Read(parsed')
  <2>1. CASE IsPrefix(Reserved, name)
    BY <1>1, <1>4, <1>5, <1>6, <2>1
  <2>2. CASE ~IsPrefix(Reserved, name)
    <3> HIDE DEF n
    <3>1. es' = Append(es, n)
      BY <1>1, <1>4, <2>2 DEF n
    <3>2. ToSet(es') = ToSet(es) \cup {n} /\ es' \in Seq(NodeOK)
      BY <1>4, <1>5, <3>1 DEF ToSet
    <3> QED BY <1>5, <1>6, <2>2, <3>2
  <2> QED BY <2>1, <2>2
<1>8. (Read(parsed))' = Read(parsed')
  BY <1>1 DEF Read
<1> QED BY <1>1, <1>2, <1>3, <1>7, <1>8 DEF IndexInv, TableInv, SearchInv

\* An exchange loses no node.
LEMMA Exchanged ==
  ASSUME IndexInv, Sort
  PROVE  IndexInv'
<1>1. /\ g_available = "no"
      /\ UNCHANGED <<image, parsed, g_entries, g_available, query>>
  BY DEF Sort
<1>2. PICK j \in DOMAIN es, k \in DOMAIN es :
        es' = [es EXCEPT ![j] = es[k], ![k] = es[j]]
  BY DEF Sort
<1>3. es \in Seq(NodeOK) /\ ToSet(es) = Read(parsed)
  BY <1>1 DEF IndexInv, TableInv
<1>4. /\ DOMAIN es' = DOMAIN es /\ es'[j] = es[k] /\ es'[k] = es[j]
      /\ \A l \in DOMAIN es \ {j, k} : es'[l] = es[l]
  BY <1>2
<1>5. es' \in Seq(NodeOK)
  BY <1>2, <1>3
<1>6. ToSet(es') = ToSet(es)
  BY <1>4 DEF ToSet
<1>7. (Read(parsed))' = Read(parsed)
  BY <1>1 DEF Read
<1> QED BY <1>1, <1>3, <1>5, <1>6, <1>7 DEF IndexInv, TableInv, SearchInv

\* When every record was read, the nodes read are those held.
LEMMA AllRead ==
  ASSUME TableInv, parsed = Len(image)
  PROVE  Read(parsed) = Held
BY ImageFacts DEF Read, Held

LEMMA Taken ==
  ASSUME IndexInv, ParseEnds
  PROVE  IndexInv'
<1>1. /\ g_available = "no" /\ parsed = Len(image) /\ InOrder(es)
      /\ g_available' = "yes" /\ g_entries' = es
      /\ UNCHANGED <<image, parsed, es, query>>
  BY DEF ParseEnds
<1>2. es \in Seq(NodeOK) /\ ToSet(es) = Held
  BY <1>1, AllRead DEF IndexInv, TableInv
<1>3. Held' = Held
  BY <1>1 DEF Held
<1>4. query' = NoQuery
  BY <1>1 DEF IndexInv, SearchInv
<1>5. InOrder(g_entries') /\ g_entries' \in Seq(NodeOK)
  BY <1>1, <1>2
<1> QED BY <1>1, <1>2, <1>3, <1>4, <1>5 DEF IndexInv, TableInv, SearchInv, InOrder

LEMMA GivenUp ==
  ASSUME IndexInv, ParseFails
  PROVE  IndexInv'
BY DEF ParseFails, IndexInv, TableInv, SearchInv

\* The table stays once it is there.
LEMMA TableStays ==
  ASSUME TableInv, UNCHANGED parseVars
  PROVE  TableInv'
<1>1. UNCHANGED <<image, parsed, es, g_entries, g_available>>
  BY DEF parseVars
<1>2. (Read(parsed))' = Read(parsed) /\ Held' = Held
  BY <1>1 DEF Read, Held
<1> QED BY <1>1, <1>2 DEF TableInv, InOrder

LEMMA SearchBegins ==
  ASSUME IndexInv, NEW path \in Seq(Byte), g_available = "yes",
         UNCHANGED parseVars, query' = Searching(path)
  PROVE  IndexInv'
<1>1. TableInv'
  BY TableStays DEF IndexInv
<1>2. Len(g_entries) \in Nat
  BY DEF IndexInv, TableInv
<1>3. UNCHANGED <<g_entries, g_available>>
  BY DEF parseVars
<1>4. query' = [path |-> path, lo |-> 0, hi |-> Len(g_entries), done |-> FALSE,
                at |-> Len(g_entries)]
  BY DEF Searching
<1>5. SearchInv'
  BY <1>2, <1>3, <1>4 DEF SearchInv, Search, IndexInv
<1> QED BY <1>1, <1>5 DEF IndexInv

\* A step of the search leaves the name, if it is there, between its bounds.
LEMMA Narrowed ==
  ASSUME IndexInv, Narrow
  PROVE  IndexInv'
<1> DEFINE mid == query.lo + (query.hi - query.lo) \div 2
           e == g_entries[mid + 1].path
<1>1. /\ query # NoQuery /\ ~query.done /\ query.lo < query.hi
      /\ query' = IF Less(e, query.path) THEN [query EXCEPT !.lo = mid + 1]
                  ELSE IF Less(query.path, e) THEN [query EXCEPT !.hi = mid]
                  ELSE [query EXCEPT !.done = TRUE, !.at = mid]
      /\ UNCHANGED parseVars
  BY DEF Narrow
<1>2. TableInv' /\ UNCHANGED <<g_entries, g_available>>
  BY <1>1, TableStays DEF IndexInv, parseVars
<1>3. /\ g_available = "yes" /\ query \in Search /\ query.hi <= Len(g_entries)
      /\ query.at = Len(g_entries)
      /\ \A j \in 1 .. Len(g_entries) :
           g_entries[j].path = query.path => query.lo < j /\ j <= query.hi
  BY <1>1 DEF IndexInv, SearchInv
<1>4. g_entries \in Seq(NodeOK) /\ InOrder(g_entries) /\ Len(g_entries) \in Nat
  BY <1>3 DEF IndexInv, TableInv
<1>5. mid \in Nat /\ query.lo <= mid /\ mid < query.hi /\ mid + 1 \in 1 .. Len(g_entries)
  <2>1. query.lo \in Nat /\ query.hi \in Nat
    BY <1>3 DEF Search
  <2> QED BY <1>1, <1>3, <1>4, <2>1
<1>6. \A j \in 1 .. Len(g_entries) : g_entries[j].path \in Seq(Nat)
  <2>1. \A j \in 1 .. Len(g_entries) : g_entries[j].path \in Seq(Byte)
    <3> TAKE j \in 1 .. Len(g_entries)
    <3>1. g_entries[j] \in NodeOK
      BY <1>4
    <3> QED BY <3>1 DEF NodeOK
  <2> QED BY <2>1, NamesAreNumbers
<1>7. query.path \in Seq(Nat)
  <2>1. query.path \in Seq(Byte)
    BY <1>3 DEF Search
  <2> QED BY <2>1, NamesAreNumbers
<1>8. \A j, k \in 1 .. Len(g_entries) :
        j < k => ~Less(g_entries[k].path, g_entries[j].path)
  BY <1>4 DEF InOrder
<1> HIDE DEF mid
<1>9. CASE Less(e, query.path)
  <2>1. query' = [query EXCEPT !.lo = mid + 1]
    BY <1>1, <1>9
  <2>2. ASSUME NEW j \in 1 .. Len(g_entries), g_entries[j].path = query.path
        PROVE  mid + 1 < j
    <3>1. j # mid + 1
      BY <1>6, <1>9, <2>2, LessIrreflexive
    <3>2. ~(j < mid + 1)
      BY <1>5, <1>8, <1>9, <2>2
    <3> QED BY <1>5, <3>1, <3>2
  <2>3. query' \in Search /\ query'.lo = mid + 1 /\ query'.hi = query.hi
        /\ query'.done = FALSE /\ query'.at = query.at
        /\ query'.path = query.path
    <3>1. mid + 1 \in Nat /\ ~query.done /\ query \in Search
      BY <1>1, <1>3, <1>5
    <3> QED BY <2>1, <3>1 DEF Search
  <2>4. SearchInv'
    BY <1>2, <1>3, <2>2, <2>3 DEF SearchInv
  <2> QED BY <1>2, <2>4 DEF IndexInv
<1>10. CASE ~Less(e, query.path) /\ Less(query.path, e)
  <2>1. query' = [query EXCEPT !.hi = mid]
    BY <1>1, <1>10
  <2>2. ASSUME NEW j \in 1 .. Len(g_entries), g_entries[j].path = query.path
        PROVE  j <= mid
    <3>1. j # mid + 1
      BY <1>6, <1>10, <2>2, LessIrreflexive
    <3>2. ~(mid + 1 < j)
      BY <1>5, <1>8, <1>10, <2>2
    <3> QED BY <1>5, <3>1, <3>2
  <2>3. query' \in Search /\ query'.lo = query.lo /\ query'.hi = mid
        /\ query'.done = FALSE /\ query'.at = query.at
        /\ query'.path = query.path
    <3>1. mid \in Nat /\ ~query.done /\ query \in Search
      BY <1>1, <1>3, <1>5
    <3> QED BY <2>1, <3>1 DEF Search
  <2>4. SearchInv'
    BY <1>2, <1>3, <1>4, <1>5, <2>2, <2>3 DEF SearchInv, Search
  <2> QED BY <1>2, <2>4 DEF IndexInv
<1>11. CASE ~Less(e, query.path) /\ ~Less(query.path, e)
  <2>1. query' = [query EXCEPT !.done = TRUE, !.at = mid]
    BY <1>1, <1>11
  <2>2. e = query.path
    BY <1>5, <1>6, <1>7, <1>11, LessTotal
  <2>3. query' \in Search /\ query'.hi = query.hi
        /\ query'.done = TRUE /\ query'.at = mid
        /\ query'.path = query.path
    BY <1>3, <1>5, <2>1 DEF Search
  <2>4. SearchInv'
    BY <1>2, <1>3, <1>4, <1>5, <2>2, <2>3 DEF SearchInv
  <2> QED BY <1>2, <2>4 DEF IndexInv
<1> QED BY <1>9, <1>10, <1>11

LEMMA NotThere ==
  ASSUME IndexInv, NotFound
  PROVE  IndexInv'
<1>1. /\ query # NoQuery /\ ~query.done /\ query.lo >= query.hi
      /\ query' = [query EXCEPT !.done = TRUE] /\ UNCHANGED parseVars
  BY DEF NotFound
<1>2. TableInv' /\ UNCHANGED <<g_entries, g_available>>
  BY <1>1, TableStays DEF IndexInv, parseVars
<1>3. query \in Search /\ query.lo \in Nat /\ query.hi \in Nat
  BY <1>1 DEF IndexInv, SearchInv, Search
<1>4. ~InTable(g_entries, query.path) /\ Len(g_entries) \in Nat
  BY <1>1, <1>3 DEF IndexInv, SearchInv, TableInv, InTable
<1>5. /\ query' \in Search /\ query'.hi = query.hi /\ query'.done = TRUE
      /\ query'.at = query.at /\ query'.path = query.path
  BY <1>1, <1>3 DEF Search
<1>6. /\ g_available = "yes" /\ query.hi <= Len(g_entries)
      /\ query.at = Len(g_entries)
  BY <1>1 DEF IndexInv, SearchInv
<1>7. SearchInv'
  BY <1>2, <1>4, <1>5, <1>6 DEF SearchInv, InTable
<1> QED BY <1>2, <1>7 DEF IndexInv

LEMMA IndexNext == IndexInv /\ [OverlayNext]_overlayVars => IndexInv'
<1> SUFFICES ASSUME IndexInv, [OverlayNext]_overlayVars PROVE IndexInv'
  OBVIOUS
<1>1. CASE Parse
  BY <1>1, RecordRead, GivenUp, Exchanged, Taken DEF Parse
<1>2. ASSUME NEW r \in Requests, NEW op, Ask(op, r) PROVE IndexInv'
  <2>1. CASE Under(r) /\ g_available = "yes"
    BY <1>2, <2>1, RelIsName, SearchBegins DEF Ask
  <2>2. CASE ~(Under(r) /\ g_available = "yes")
    BY <1>2, <2>2, TableStays DEF Ask, IndexInv, SearchInv, parseVars
  <2> QED BY <2>1, <2>2
<1>3. CASE Narrow
  BY <1>3, Narrowed
<1>4. CASE NotFound
  BY <1>4, NotThere
<1>5. CASE Answer
  BY <1>5, TableStays DEF Answer, IndexInv, SearchInv
<1>6. CASE UNCHANGED indexVars
  BY <1>6, TableStays DEF indexVars, IndexInv, SearchInv, parseVars
<1>7. Use \/ (\E h \in Iterator : Advance(h) \/ Drop(h)) \/ UNCHANGED overlayVars
        => UNCHANGED indexVars
  BY DEF Use, Advance, Drop, overlayVars
<1> QED BY <1>1, <1>2, <1>3, <1>4, <1>5, <1>6, <1>7 DEF OverlayNext

\* The table holds the archive's nodes, no more and no less; and a search that
\* is over found the node of that very name, or there is none: for any archive,
\* in whatever order its records lie.
THEOREM Exact == OverlaySpec => []FindsExactly
<1>1. IndexInv => FindsExactly
  <2> SUFFICES ASSUME IndexInv PROVE FindsExactly
    OBVIOUS
  <2>1. ASSUME query # NoQuery, query.done, query.at = Len(g_entries),
               NEW n \in Held
        PROVE  n.path # query.path
    <3>1. ToSet(g_entries) = Held /\ ~InTable(g_entries, query.path)
          /\ g_entries \in Seq(NodeOK)
      BY <2>1 DEF IndexInv, TableInv, SearchInv
    <3>2. PICK j \in 1 .. Len(g_entries) : n = g_entries[j]
      BY <2>1, <3>1 DEF ToSet
    <3> QED BY <3>1, <3>2 DEF InTable
  <2> QED BY <2>1 DEF FindsExactly, IndexInv, TableInv, SearchInv
<1> QED BY InitIndex, IndexNext, <1>1, PTL DEF OverlaySpec

-------------------------------------------------------------------------------
(* What a request is answered (ClangOverlay).                              *)

\* remove_dots keeps a stack of components: of an absolute path, one without
\* "..", so that each ".." takes one away.
LEMMA DotsMean ==
  ASSUME NEW r \in Requests, r.root
  PROVE  RemoveDots(r) = Lexical(r.names, Dot, DotDot)
<1> DEFINE N == Len(r.names)
           X == Seq(Seq(Byte))
<1>1. r.names \in X /\ N \in Nat /\ r \in [root : BOOLEAN, names : X]
  BY ClangOverlayAssumption
<1>2. PICK out : /\ out = Removal(r, out) /\ RemoveDots(r) = out[N]
                 /\ out \in [0 .. N -> X]
  <2> HIDE DEF X
  <2>1. \E out : /\ out = Removal(r, out) /\ RemoveDots(r) = out[Len(r.names)]
                 /\ out \in [0 .. Len(r.names) -> X]
    BY <1>1, RemovalDefined DEF X
  <2> QED BY <2>1
<1>3. out[0] = <<>>
  <2>1. 0 \in 0 .. N BY <1>1
  <2> QED BY <1>2, <2>1 DEF Removal
<1>4. \A k \in 1 .. N : out[k] = RemoveDot(TRUE, out[k - 1], r.names[k])
  <2> TAKE k \in 1 .. N
  <2>1. k \in 0 .. N /\ k # 0 BY <1>1
  <2>2. Removal(r, out)[k] = RemoveDot(r.root, out[k - 1], r.names[k])
    BY <2>1 DEF Removal
  <2> QED BY <1>2, <2>2
<1> DEFINE Clean(s) == \A i \in 1 .. Len(s) : s[i] # DotDot
           T == {k \in Nat : k <= N => Clean(out[k])}
<1>5. ASSUME NEW k \in 1 .. N, Clean(out[k - 1])
      PROVE  /\ Clean(out[k])
             /\ out[k] = IF r.names[k] = Dot THEN out[k - 1]
                         ELSE IF r.names[k] = DotDot
                           THEN SubSeq(out[k - 1], 1, Len(out[k - 1]) - 1)
                         ELSE Append(out[k - 1], r.names[k])
  <2> DEFINE s == out[k - 1]
             n == r.names[k]
  <2>1. s \in X /\ n \in Seq(Byte) /\ Len(s) \in Nat
    <3>1. k - 1 \in 0 .. N BY <1>1
    <3>2. n \in Seq(Byte) BY <1>1
    <3>3. s \in X
      <4> HIDE DEF X, N
      <4> QED BY <1>2, <3>1
    <3> QED BY <3>2, <3>3
  <2>2. out[k] = RemoveDot(TRUE, s, n)
    BY <1>4
  <2>3. Clean(s)
    BY <1>5
  <2> HIDE DEF s, n
  <2>4. CASE n = Dot
    <3>1. out[k] = s BY <2>2, <2>4 DEF RemoveDot
    <3> QED BY <2>3, <2>4, <3>1 DEF s, n
  <2>5. CASE n # Dot /\ n = DotDot /\ s = <<>>
    <3>1. out[k] = s BY <2>2, <2>5 DEF RemoveDot
    <3>2. SubSeq(s, 1, Len(s) - 1) = s BY <2>5
    <3> QED BY <2>3, <2>5, <3>1, <3>2 DEF s, n
  <2>6. CASE n # Dot /\ n = DotDot /\ s # <<>>
    <3>1. Len(s) > 0 /\ Last(s) # DotDot
      BY <2>1, <2>3, <2>6 DEF Last
    <3>2. out[k] = SubSeq(s, 1, Len(s) - 1)
      BY <2>2, <2>6, <3>1 DEF RemoveDot, Front
    <3>3. Clean(SubSeq(s, 1, Len(s) - 1))
      <4> DEFINE e == Len(s) - 1
      <4>1. e \in 0 .. Len(s) BY <2>1, <3>1
      <4> HIDE DEF e
      <4>2. Len(SubSeq(s, 1, e)) = e /\ \A i \in 1 .. e : SubSeq(s, 1, e)[i] = s[i]
        BY <2>1, <4>1, Beginning
      <4>4. Clean(SubSeq(s, 1, e))
        BY <2>1, <2>3, <4>1, <4>2
      <4> QED BY <4>4 DEF e
    <3> QED BY <2>6, <3>2, <3>3 DEF s, n
  <2>7. CASE n # Dot /\ n # DotDot
    <3>1. out[k] = Append(s, n) BY <2>2, <2>7 DEF RemoveDot
    <3>2. Clean(Append(s, n)) BY <2>1, <2>3, <2>7
    <3> QED BY <2>7, <3>1, <3>2 DEF s, n
  <2> QED BY <2>4, <2>5, <2>6, <2>7
<1> HIDE DEF Clean
<1>6. T = Nat
  <2>1. 0 \in T
    BY <1>3 DEF Clean
  <2>2. ASSUME NEW k \in T PROVE k + 1 \in T
    <3> SUFFICES ASSUME k + 1 <= N PROVE Clean(out[k + 1])
      OBVIOUS
    <3> DEFINE q == k + 1
    <3>1. q \in 1 .. N /\ q - 1 = k /\ Clean(out[k]) BY <1>1
    <3> HIDE DEF q
    <3>2. Clean(out[q]) BY <1>5, <3>1
    <3> QED BY <3>2 DEF q
  <2>3. T \in SUBSET Nat OBVIOUS
  <2> HIDE DEF T
  <2> QED BY <2>1, <2>2, <2>3, Induct
<1>7. Stacked(r.names, Dot, DotDot, out)
  <2>1. \A k \in 1 .. N : Clean(out[k - 1])
    <3> TAKE k \in 1 .. N
    <3>1. k - 1 \in Nat /\ k - 1 <= N BY <1>1
    <3> QED BY <1>6, <3>1
  <2>2. \A k \in 1 .. N :
          out[k] = IF r.names[k] = Dot THEN out[k - 1]
                   ELSE IF r.names[k] = DotDot
                     THEN SubSeq(out[k - 1], 1, Len(out[k - 1]) - 1)
                   ELSE Append(out[k - 1], r.names[k])
    BY <1>5, <2>1
  <2> QED BY <1>2, <1>3, <2>2 DEF Stacked
<1>8. Dot # DotDot
  BY DEF Dot, DotDot
<1>9. out[Len(r.names)] = Lexical(r.names, Dot, DotDot)
  BY <1>1, <1>7, <1>8, StackIsLexical
<1> QED BY <1>2, <1>9

\* Two nodes of one path are one.
LEMMA OneNode ==
  ASSUME TableInv, NEW n \in Held, NEW m \in Held, n.path = m.path
  PROVE  n = m
<1>1. PathsOf(image)
  BY VfsIndexAssumption DEF TableInv
<1>2. ASSUME NEW x \in Held
      PROVE  \/ x = Root
             \/ \E j \in DOMAIN image : x = NodeOf(image[j])
  BY DEF Held
<1>3. \A j \in DOMAIN image : NodeOf(image[j]).path # <<>>
  BY <1>1 DEF PathsOf
<1>4. \A j, k \in DOMAIN image :
        NodeOf(image[j]).path = NodeOf(image[k]).path => j = k
  BY <1>1 DEF PathsOf
<1>5. Root.path = <<>>
  BY DEF Root
<1> QED BY <1>2, <1>3, <1>4, <1>5

\* What a request deserves, by the name the overlay makes of it.
Verdict(r) ==
  LET There == {n \in Held : n.path = Rel(r)}
  IN  IF Under(r) /\ g_available = "yes" /\ There # {}
      THEN Kind(CHOOSE n \in There : TRUE) ELSE "none"

\* The search is for the request under way, and its answer for that one.
AnswerInv ==
  /\ asked # None =>
       /\ asked.r \in Requests /\ Under(asked.r)
       /\ query # NoQuery /\ query.path = Rel(asked.r)
  /\ answer # None =>
       /\ answer.r \in Requests /\ g_available # "no"
       /\ answer.what = Verdict(answer.r)

LEMMA InitAnswer == OverlayInit => AnswerInv
BY DEF OverlayInit, AnswerInv

\* What is not known to be a call's step changes no verdict.
LEMMA VerdictStays ==
  ASSUME UNCHANGED parseVars, NEW r
  PROVE  Verdict(r)' = Verdict(r)
<1>1. Held' = Held /\ g_available' = g_available
  BY DEF Held, parseVars
<1> QED BY <1>1 DEF Verdict

LEMMA Asked ==
  ASSUME IndexInv, AnswerInv, NEW r \in Requests, NEW op, Ask(op, r)
  PROVE  AnswerInv'
<1>1. /\ g_available # "no" /\ asked = None /\ answer = None
      /\ UNCHANGED parseVars /\ g_available' = g_available
  BY DEF Ask, parseVars
<1>2. CASE Under(r) /\ g_available = "yes"
  <2>1. /\ asked' = [op |-> op, r |-> r] /\ query' = Searching(Rel(r))
        /\ answer' = answer
    BY <1>2 DEF Ask
  <2>2. query' # NoQuery /\ query'.path = Rel(r)
    <3>1. query' = [path |-> Rel(r), lo |-> 0, hi |-> Len(g_entries),
                    done |-> FALSE, at |-> Len(g_entries)]
      BY <2>1 DEF Searching
    <3> QED BY <3>1 DEF NoQuery
  <2> QED BY <1>1, <1>2, <2>1, <2>2 DEF AnswerInv
<1>3. CASE ~(Under(r) /\ g_available = "yes")
  <2>1. /\ answer' = [op |-> op, r |-> r, what |-> "none"]
        /\ asked' = asked /\ query' = query
    BY <1>3 DEF Ask
  <2>2. Verdict(r)' = "none"
    <3>1. Verdict(r) = "none" BY <1>3 DEF Verdict
    <3> QED BY <1>1, <3>1, VerdictStays
  <2>3. (Verdict(answer.r))' = Verdict(r)'
    <3>1. answer'.r = r BY <2>1
    <3> QED BY <3>1 DEF Verdict, Under, Rel
  <2> QED BY <1>1, <2>1, <2>2, <2>3 DEF AnswerInv
<1> QED BY <1>2, <1>3

LEMMA Answered ==
  ASSUME IndexInv, AnswerInv, Answer
  PROVE  AnswerInv'
<1>1. /\ asked # None /\ query.done /\ asked' = None
      /\ answer' = [op |-> asked.op, r |-> asked.r, what |->
           IF Found THEN Kind(g_entries[query.at + 1]) ELSE "none"]
      /\ UNCHANGED parseVars
  BY DEF Answer
<1>2. /\ asked.r \in Requests /\ Under(asked.r)
      /\ query # NoQuery /\ query.path = Rel(asked.r)
  BY <1>1 DEF AnswerInv
<1>3. /\ g_available = "yes" /\ query \in Search
      /\ query.at < Len(g_entries) => g_entries[query.at + 1].path = query.path
      /\ query.at = Len(g_entries) => ~InTable(g_entries, query.path)
      /\ g_entries \in Seq(NodeOK) /\ ToSet(g_entries) = Held
  BY <1>1, <1>2 DEF IndexInv, SearchInv, TableInv
<1>4. query.at \in Nat /\ query.at <= Len(g_entries) /\ Len(g_entries) \in Nat
  BY <1>1, <1>2, <1>3 DEF IndexInv, SearchInv, Search
<1>r. PICK r : r = asked.r
  OBVIOUS
<1> DEFINE There == {n \in Held : n.path = Rel(r)}
<1>5. ASSUME Found PROVE answer'.what = Verdict(r)
  <2> DEFINE e == g_entries[query.at + 1]
  <2>1. query.at + 1 \in 1 .. Len(g_entries) /\ query.at < Len(g_entries)
    BY <1>4, <1>5 DEF Found
  <2>2. e \in Held /\ e.path = Rel(r)
    BY <1>r, <1>2, <1>3, <2>1 DEF ToSet
  <2>3. \A n \in There : n = e
    BY <2>2, OneNode DEF IndexInv
  <2>4. (CHOOSE n \in There : TRUE) = e /\ There # {}
    BY <2>2, <2>3
  <2>5. Verdict(r) = Kind(e)
    BY <1>r, <1>2, <1>3, <2>4 DEF Verdict
  <2>6. answer'.what = Kind(e)
    BY <1>1, <1>5
  <2> QED BY <2>5, <2>6
<1>6. ASSUME ~Found PROVE answer'.what = Verdict(r)
  <2>1. ~InTable(g_entries, Rel(r))
    BY <1>r, <1>2, <1>3, <1>4, <1>6 DEF Found
  <2>2. There = {}
    BY <1>3, <2>1 DEF ToSet, InTable
  <2>3. Verdict(r) = "none"
    BY <2>2 DEF Verdict
  <2>4. answer'.what = "none"
    BY <1>1, <1>6
  <2> QED BY <2>3, <2>4
<1>7. answer'.what = Verdict(r)
  BY <1>5, <1>6
<1>8. answer'.r = r /\ r \in Requests /\ g_available' = g_available
  BY <1>r, <1>1, <1>2 DEF parseVars
<1>9. (Verdict(answer.r))' = Verdict(r)
  <2>1. (Verdict(answer.r))' = Verdict(r)'
    BY <1>8 DEF Verdict, Under, Rel
  <2> QED BY <1>1, <2>1, VerdictStays
<1> QED BY <1>1, <1>3, <1>7, <1>8, <1>9 DEF AnswerInv

\* A step of the search keeps what it is for.
LEMMA SearchedOn ==
  ASSUME IndexInv, AnswerInv, Narrow \/ NotFound, UNCHANGED <<asked, answer>>
  PROVE  AnswerInv'
<1>1. query # NoQuery /\ UNCHANGED parseVars /\ g_available' = g_available
  BY DEF Narrow, NotFound, parseVars
<1>2. query \in Search
  BY <1>1 DEF IndexInv, SearchInv
<1>3. query' # NoQuery /\ query'.path = query.path
  <2> DEFINE mid == query.lo + (query.hi - query.lo) \div 2
  <2>1. \/ query' = [query EXCEPT !.lo = mid + 1]
        \/ query' = [query EXCEPT !.hi = mid]
        \/ query' = [query EXCEPT !.done = TRUE, !.at = mid]
        \/ query' = [query EXCEPT !.done = TRUE]
    BY DEF Narrow, NotFound
  <2> HIDE DEF mid
  <2>2. DOMAIN query = {"path", "lo", "hi", "done", "at"}
    BY <1>2 DEF Search
  <2>3. "path" \in DOMAIN query' /\ query'.path = query.path
    BY <1>2, <2>1, <2>2 DEF Search
  <2>4. "path" \notin DOMAIN <<>>
    OBVIOUS
  <2> QED BY <2>3, <2>4 DEF NoQuery
<1>4. \A r : Verdict(r)' = Verdict(r)
  BY <1>1, VerdictStays
<1>5. answer' = answer /\ asked' = asked
  OBVIOUS
<1>r. PICK r : r = answer.r
  OBVIOUS
<1>6. answer # None => (Verdict(answer.r))' = Verdict(answer.r)
  <2>1. answer'.r = r BY <1>r, <1>5
  <2>2. (Verdict(answer.r))' = Verdict(r)' BY <2>1 DEF Verdict, Under, Rel
  <2> QED BY <1>r, <1>4, <2>2
<1> QED BY <1>1, <1>3, <1>5, <1>6 DEF AnswerInv

LEMMA AnswerNext ==
  IndexInv /\ AnswerInv /\ [OverlayNext]_overlayVars => AnswerInv'
<1> SUFFICES ASSUME IndexInv, AnswerInv, [OverlayNext]_overlayVars
             PROVE  AnswerInv'
  OBVIOUS
<1>1. CASE Parse /\ UNCHANGED <<asked, answer, iter>>
  <2>1. g_available = "no"
    BY <1>1 DEF Parse, ParseRecord, ParseFails, Sort, ParseEnds
  <2>2. answer = None /\ asked = None
    BY <2>1 DEF AnswerInv, IndexInv, SearchInv
  <2> QED BY <1>1, <2>2 DEF AnswerInv
<1>2. ASSUME NEW r \in Requests, NEW op, Ask(op, r) PROVE AnswerInv'
  BY <1>2, Asked
<1>3. CASE (Narrow \/ NotFound) /\ UNCHANGED <<asked, answer, iter>>
  BY <1>3, SearchedOn
<1>4. CASE Answer
  BY <1>4, Answered
<1>5. CASE UNCHANGED <<indexVars, asked>> /\ (answer' = answer \/ answer' = None)
  <2>1. UNCHANGED <<parseVars, query, asked>> /\ g_available' = g_available
    BY <1>5 DEF indexVars, parseVars
  <2>2. CASE answer' = None
    BY <2>1, <2>2 DEF AnswerInv
  <2>3. CASE answer' = answer
    <3>r. PICK r : r = answer.r
      OBVIOUS
    <3>1. answer'.r = r BY <2>3, <3>r
    <3>2. (Verdict(answer.r))' = Verdict(r)'
      BY <3>1 DEF Verdict, Under, Rel
    <3>3. Verdict(r)' = Verdict(r)
      BY <2>1, VerdictStays
    <3> QED BY <2>1, <2>3, <3>r, <3>2, <3>3 DEF AnswerInv
  <2> QED BY <1>5, <2>2, <2>3
<1>6. Use \/ (\E h \in Iterator : Advance(h) \/ Drop(h)) \/ UNCHANGED overlayVars
        => UNCHANGED <<indexVars, asked>> /\ (answer' = answer \/ answer' = None)
  BY DEF Use, Advance, Drop, overlayVars
<1> QED BY <1>1, <1>2, <1>3, <1>4, <1>5, <1>6 DEF OverlayNext

\* A request, however it is spelled, gets the answer that the archive's records
\* give to what it means, for any archive and any requests.
THEOREM AnswersMeant == OverlaySpec => []OverlayAnswers
<1>1. IndexInv /\ AnswerInv => OverlayAnswers
  <2> SUFFICES ASSUME IndexInv, AnswerInv, answer # None
               PROVE  LET at == Lexical(answer.r.names, Dot, DotDot)
                          below == answer.r.root /\ at # <<>> /\ at[1] = Vroot
                          There == {n \in Held : n.path = PathOf(Tail(at))}
                      IN  answer.what =
                            IF below /\ g_available = "yes" /\ There # {}
                            THEN Kind(CHOOSE n \in There : TRUE) ELSE "none"
    BY DEF OverlayAnswers
  <2>1. answer.r \in Requests /\ answer.what = Verdict(answer.r)
    BY DEF AnswerInv
  <2>2. CASE answer.r.root
    <3>1. RemoveDots(answer.r) = Lexical(answer.r.names, Dot, DotDot)
      BY <2>1, <2>2, DotsMean
    <3> QED BY <2>1, <2>2, <3>1 DEF Verdict, Under, Rel
  <2>3. CASE ~answer.r.root
    BY <2>1, <2>3 DEF Verdict, Under
  <2> QED BY <2>2, <2>3
<1> QED BY InitIndex, IndexNext, InitAnswer, AnswerNext, <1>1, PTL
        DEF OverlaySpec

-------------------------------------------------------------------------------
(* Listings (ClangOverlay).                                                *)

\* Where a name that begins and ends in no slash is parted from its directory.
LEMMA LastSlash ==
  ASSUME NEW s \in Seq(Byte), \E k \in DOMAIN s : s[k] = Slash
  PROVE  \E q \in DOMAIN s : s[q] = Slash /\ \A k \in q + 1 .. Len(s) : s[k] # Slash
<1> DEFINE T == {n \in Nat : n < Len(s) /\ s[Len(s) - n] = Slash}
<1>1. Len(s) \in Nat /\ DOMAIN s = 1 .. Len(s)
  OBVIOUS
<1>2. T \in SUBSET Nat /\ T # {}
  <2>1. PICK k \in DOMAIN s : s[k] = Slash
    OBVIOUS
  <2>2. Len(s) - k \in T
    BY <1>1, <2>1
  <2> QED BY <2>2
<1>3. PICK m \in T : \A n \in T : m <= n
  <2> HIDE DEF T
  <2> QED BY <1>2, Least
<1> DEFINE q == Len(s) - m
<1>4. q \in DOMAIN s /\ s[q] = Slash
  BY <1>1, <1>3
<1>5. ASSUME NEW k \in q + 1 .. Len(s), s[k] = Slash PROVE FALSE
  <2>1. Len(s) - k \in Nat /\ Len(s) - k < m /\ Len(s) - (Len(s) - k) = k
    BY <1>1, <1>3, <1>5
  <2>2. Len(s) - k \in T
    BY <1>1, <1>3, <1>5, <2>1
  <2> QED BY <1>3, <2>1, <2>2
<1> QED BY <1>4, <1>5

LEMMA ParentIs ==
  ASSUME NEW s \in Seq(Byte), NEW q \in 0 .. Len(s),
         q > 0 => s[q] = Slash, \A k \in q + 1 .. Len(s) : s[k] # Slash
  PROVE  ParentOf(s) = IF q = 0 THEN <<>> ELSE SubSeq(s, 1, q - 1)
<1> DEFINE K == {j \in DOMAIN s : \E k \in j + 1 .. Len(s) : s[k] = Slash}
<1>1. Len(s) \in Nat /\ q \in Nat /\ DOMAIN s = 1 .. Len(s)
  OBVIOUS
<1>2. CASE q = 0
  <2>1. K = {}
    BY <1>1, <1>2
  <2>2. Cardinality(K) = 0
    BY <2>1, FS_EmptySet
  <2>3. SubSeq(s, 1, 0) = <<>>
    OBVIOUS
  <2> HIDE DEF K
  <2> QED BY <1>2, <2>2, <2>3 DEF ParentOf, K
<1>3. CASE q > 0
  <2>1. K = 1 .. q - 1
    <3>1. ASSUME NEW j \in K PROVE j \in 1 .. q - 1
      <4>1. PICK k \in j + 1 .. Len(s) : s[k] = Slash
        OBVIOUS
      <4>2. j \in 1 .. Len(s) /\ k \in Nat /\ j < k
        BY <1>1, <4>1
      <4>3. ~(k > q)
        BY <1>1, <4>1, <4>2
      <4> QED BY <1>1, <4>2, <4>3
    <3>2. ASSUME NEW j \in 1 .. q - 1 PROVE j \in K
      <4>1. q \in j + 1 .. Len(s) /\ j \in DOMAIN s
        BY <1>1, <1>3
      <4> QED BY <1>3, <4>1
    <3> QED BY <3>1, <3>2
  <2>2. Cardinality(1 .. q - 1) = q - 1
    <3> DEFINE e == q - 1
    <3>1. e \in Nat BY <1>1, <1>3
    <3> HIDE DEF e
    <3>2. Cardinality(1 .. e) = IF 1 > e THEN 0 ELSE e - 1 + 1
      BY <3>1, FS_Interval
    <3>3. Cardinality(1 .. e) = e
      BY <3>1, <3>2
    <3> QED BY <3>3 DEF e
  <2>3. ParentOf(s) = SubSeq(s, 1, Cardinality(K))
    BY DEF ParentOf
  <2> HIDE DEF K
  <2> QED BY <1>1, <1>3, <2>1, <2>2, <2>3
<1> QED BY <1>1, <1>2, <1>3

\* isDirectChild tells the children of a directory by its name.
LEMMA ChildByName ==
  ASSUME NEW s \in Seq(Byte), s # <<>>, Head(s) # Slash, Last(s) # Slash,
         NEW parent \in Seq(Byte)
  PROVE  IsDirectChild(parent, s) <=> ParentOf(s) = parent
<1>1. /\ Len(s) \in Nat /\ DOMAIN s = 1 .. Len(s) /\ Len(s) > 0
      /\ s[1] # Slash /\ s[Len(s)] # Slash /\ Len(parent) \in Nat
  BY DEF Last
<1>2. CASE \A k \in DOMAIN s : s[k] # Slash
  <2>1. ParentOf(s) = <<>>
    <3>1. 0 \in 0 .. Len(s) /\ \A k \in 0 + 1 .. Len(s) : s[k] # Slash
      BY <1>1, <1>2
    <3> QED BY <3>1, ParentIs
  <2>2. Slash \notin ToSet(s)
    BY <1>2 DEF ToSet
  <2>3. parent # <<>> => ~IsDirectChild(parent, s)
    <3> SUFFICES ASSUME parent # <<>>, IsDirectChild(parent, s) PROVE FALSE
      OBVIOUS
    <3>1. Len(s) > Len(parent) + 1 /\ s[Len(parent) + 1] = Slash
      BY DEF IsDirectChild
    <3>2. Len(parent) + 1 \in DOMAIN s
      BY <1>1, <3>1
    <3> QED BY <1>2, <3>1, <3>2
  <2> QED BY <2>1, <2>2, <2>3 DEF IsDirectChild
<1>3. CASE \E k \in DOMAIN s : s[k] = Slash
  <2>1. PICK q \in DOMAIN s : /\ s[q] = Slash
                              /\ \A k \in q + 1 .. Len(s) : s[k] # Slash
    BY <1>3, LastSlash
  <2>2. q \in 2 .. Len(s) - 1 /\ q \in 0 .. Len(s) /\ q - 1 \in 0 .. Len(s)
    BY <1>1, <2>1
  <2>3. ParentOf(s) = SubSeq(s, 1, q - 1)
    BY <2>1, <2>2, ParentIs
  <2>4. /\ Len(SubSeq(s, 1, q - 1)) = q - 1
        /\ \A i \in 1 .. q - 1 : SubSeq(s, 1, q - 1)[i] = s[i]
    <3> DEFINE e == q - 1
    <3>1. e \in 0 .. Len(s) BY <2>2
    <3> HIDE DEF e
    <3>2. Len(SubSeq(s, 1, e)) = e /\ \A i \in 1 .. e : SubSeq(s, 1, e)[i] = s[i]
      BY <3>1, Beginning
    <3> QED BY <3>2 DEF e
  <2>5. Slash \in ToSet(s)
    BY <2>1 DEF ToSet
  \* What follows the name and its slash.
  <2>6. ASSUME NEW c \in Nat, c + 1 < Len(s)
        PROVE  Slash \notin ToSet(SubSeq(s, c + 2, Len(s))) <=>
               \A k \in c + 2 .. Len(s) : s[k] # Slash
    <3> DEFINE a == c + 2
               b == Len(s)
               t == SubSeq(s, a, b)
    <3>1. a \in Nat /\ b \in Nat /\ 1 <= a /\ a <= b
      BY <1>1, <2>6
    <3>2. \A k \in a .. b : s[k] \in Byte
      BY <3>1
    <3> HIDE DEF a, b
    <3>3. /\ t \in Seq(Byte) /\ Len(t) = IF a <= b THEN b - a + 1 ELSE 0
          /\ \A i \in 1 .. b - a + 1 : t[i] = s[a + i - 1]
      BY <3>1, <3>2, SubSeqProperties
    <3>4. DOMAIN t = 1 .. b - a + 1
      BY <3>1, <3>3
    <3>5. ASSUME NEW k \in a .. b PROVE k - a + 1 \in DOMAIN t /\ t[k - a + 1] = s[k]
      <4>1. k - a + 1 \in 1 .. b - a + 1 /\ a + (k - a + 1) - 1 = k
        BY <3>1
      <4> QED BY <3>3, <3>4, <4>1
    <3>6. ASSUME NEW i \in DOMAIN t PROVE a + i - 1 \in a .. b /\ t[i] = s[a + i - 1]
      BY <3>1, <3>3, <3>4
    <3>7. Slash \notin ToSet(t) <=> \A k \in a .. b : s[k] # Slash
      <4> HIDE DEF t
      <4> QED BY <3>5, <3>6 DEF ToSet
    <3> QED BY <3>7 DEF a, b
  <2>7. ASSUME IsDirectChild(parent, s) PROVE ParentOf(s) = parent
    <3> DEFINE c == Len(parent)
    <3>1. parent # <<>> /\ IsPrefix(parent, s) /\ Len(s) > c + 1
          /\ s[c + 1] = Slash /\ Slash \notin ToSet(SubSeq(s, c + 2, Len(s)))
      BY <2>5, <2>7 DEF IsDirectChild
    <3>2. c \in Nat /\ c + 1 \in DOMAIN s
      BY <1>1, <3>1
    <3>3. \A k \in c + 2 .. Len(s) : s[k] # Slash
      BY <1>1, <2>6, <3>1, <3>2
    <3>4. q = c + 1
      <4>1. ~(q > c + 1)
        BY <2>1, <2>2, <3>2, <3>3
      <4>2. ~(c + 1 > q)
        BY <1>1, <2>1, <2>2, <3>1, <3>2
      <4> QED BY <2>2, <3>2, <4>1, <4>2
    <3>5. SubSeq(parent, 1, Len(parent)) = parent
      OBVIOUS
    <3>6. SubSeq(s, 1, c) = parent /\ q - 1 = c
      BY <3>1, <3>2, <3>4, <3>5 DEF IsPrefix
    <3> HIDE DEF c
    <3> QED BY <2>3, <3>6
  <2>8. ASSUME ParentOf(s) = parent PROVE IsDirectChild(parent, s)
    <3> DEFINE c == Len(parent)
    <3>1. c = q - 1 /\ parent = SubSeq(s, 1, q - 1)
      BY <2>3, <2>4, <2>8
    <3>2. c + 1 = q /\ c \in Nat /\ c + 2 = q + 1 /\ parent # <<>> /\ Len(s) > c + 1
      BY <2>2, <3>1, SMTT(30)
    <3>3. SubSeq(parent, 1, Len(parent)) = parent
      OBVIOUS
    <3>4. IsPrefix(parent, s)
      BY <1>1, <3>1, <3>2, <3>3 DEF IsPrefix
    <3>5. s[c + 1] = Slash
      BY <2>1, <3>2
    <3>6. Slash \notin ToSet(SubSeq(s, c + 2, Len(s)))
      <4>1. \A k \in c + 2 .. Len(s) : s[k] # Slash
        BY <2>1, <3>2
      <4> HIDE DEF c
      <4> QED BY <1>1, <2>6, <3>2, <4>1
    <3> QED BY <3>2, <3>4, <3>5, <3>6 DEF IsDirectChild
  <2> QED BY <2>7, <2>8
<1> QED BY <1>2, <1>3

\* No node is in the table twice: the archive's paths are each there once.
Once(t) == \A j, k \in DOMAIN t : t[j] = t[k] => j = k

OnceInv ==
  /\ g_available = "no" => Once(es)
  /\ g_available = "yes" => Once(g_entries)

LEMMA InitOnce == OverlayInit => OnceInv
BY DEF OverlayInit, IndexInit, OnceInv, Once

LEMMA OnceRead ==
  ASSUME IndexInv, OnceInv, ParseRecord
  PROVE  OnceInv'
<1> DEFINE n == NodeOf(image[parsed + 1])
<1>1. /\ g_available = "no" /\ parsed < Len(image)
      /\ es' = IF IsPrefix(Reserved, n.path) THEN es ELSE Append(es, n)
      /\ UNCHANGED g_available
  BY DEF ParseRecord
<1>2. /\ TableInv /\ es \in Seq(NodeOK) /\ ToSet(es) = Read(parsed) /\ Once(es)
  BY <1>1 DEF IndexInv, TableInv, OnceInv
<1>3. n \notin Read(parsed)
  <2>1. PathsOf(image) /\ DOMAIN image = 1 .. Len(image) /\ Len(image) \in Nat
        /\ parsed \in Nat
    BY <1>2, VfsIndexAssumption, ImageFacts DEF TableInv
  <2>2. parsed + 1 \in DOMAIN image
    BY <1>1, <2>1
  <2>3. n.path # <<>>
    BY <2>1, <2>2 DEF PathsOf
  <2>4. \A j \in 1 .. parsed : NodeOf(image[j]) # n
    BY <1>1, <2>1, <2>2 DEF PathsOf
  <2> HIDE DEF n
  <2> QED BY <2>3, <2>4 DEF Read, Root
<1> HIDE DEF n
<1>4. Once(Append(es, n))
  <2>1. \A j \in DOMAIN es : es[j] # n
    BY <1>2, <1>3 DEF ToSet
  <2>2. n \in NodeOK
    <3>1. parsed + 1 \in DOMAIN image /\ image[parsed + 1] \in Seq(Byte)
      BY <1>1, <1>2, ImageFacts DEF TableInv
    <3> QED BY <3>1, Nodes DEF n
  <2>3. /\ DOMAIN es = 1 .. Len(es) /\ Len(es) \in Nat
        /\ DOMAIN Append(es, n) = 1 .. Len(es) + 1
        /\ Append(es, n)[Len(es) + 1] = n
        /\ \A j \in 1 .. Len(es) : Append(es, n)[j] = es[j]
    BY <1>2, <2>2
  <2>4. \A j \in DOMAIN Append(es, n) :
          \/ j \in DOMAIN es /\ Append(es, n)[j] = es[j]
          \/ j = Len(es) + 1 /\ Append(es, n)[j] = n
    BY <2>3
  <2> QED BY <1>2, <2>1, <2>3, <2>4 DEF Once
<1> QED BY <1>1, <1>2, <1>4 DEF OnceInv

LEMMA OnceSorted ==
  ASSUME OnceInv, Sort
  PROVE  OnceInv'
<1>1. g_available = "no" /\ UNCHANGED <<g_entries, g_available>>
  BY DEF Sort
<1>2. PICK j \in DOMAIN es, k \in DOMAIN es :
        j < k /\ es' = [es EXCEPT ![j] = es[k], ![k] = es[j]]
  BY DEF Sort
<1>3. /\ DOMAIN es' = DOMAIN es /\ es'[j] = es[k] /\ es'[k] = es[j]
      /\ \A l \in DOMAIN es \ {j, k} : es'[l] = es[l]
  BY <1>2
<1>4. Once(es) BY <1>1 DEF OnceInv
<1>5. Once(es')
  BY <1>3, <1>4 DEF Once
<1> QED BY <1>1, <1>5 DEF OnceInv

LEMMA OnceNext == IndexInv /\ OnceInv /\ [OverlayNext]_overlayVars => OnceInv'
<1> SUFFICES ASSUME IndexInv, OnceInv, [OverlayNext]_overlayVars PROVE OnceInv'
  OBVIOUS
<1>1. CASE ParseRecord \/ Sort
  BY <1>1, OnceRead, OnceSorted
<1>2. CASE ParseFails
  BY <1>2 DEF ParseFails, OnceInv
<1>3. CASE ParseEnds
  BY <1>3 DEF ParseEnds, OnceInv, Once
<1>4. CASE UNCHANGED parseVars
  BY <1>4 DEF parseVars, OnceInv, Once
<1>5. OverlayNext \/ UNCHANGED overlayVars =>
        ParseRecord \/ Sort \/ ParseFails \/ ParseEnds \/ UNCHANGED parseVars
  BY DEF OverlayNext, Parse, Ask, Narrow, NotFound, Answer, Use, Advance, Drop,
         overlayVars, indexVars
<1> QED BY <1>1, <1>2, <1>3, <1>4, <1>5

\* An iterator has returned the children among the nodes it has passed.
Passed(parent, c) ==
  {g_entries[j] : j \in {k \in 1 .. c : IsDirectChild(parent, g_entries[k].path)}}

IterOK(it) ==
  /\ it = [parent |-> it.parent, cursor |-> it.cursor, out |-> it.out,
           end |-> it.end]
  /\ it.parent \in Seq(Byte) /\ it.cursor \in 0 .. Len(g_entries)
  /\ it.out \in Seq(NodeOK) /\ it.end \in BOOLEAN
  /\ ToSet(it.out) = Passed(it.parent, it.cursor)
  /\ IsFiniteSet(ToSet(it.out)) /\ Cardinality(ToSet(it.out)) = Len(it.out)
  /\ it.end => it.cursor = Len(g_entries)

IterInv ==
  /\ iter = [h \in Iterator |-> iter[h]]
  /\ \A h \in Iterator : iter[h] # None => g_available = "yes" /\ IterOK(iter[h])

LEMMA Incremented ==
  ASSUME TableInv, OnceInv, g_available = "yes", NEW it, IterOK(it)
  PROVE  IterOK(Increment(it)) /\ Increment(it) # None
<1> DEFINE Children == {j \in it.cursor + 1 .. Len(g_entries) :
                          IsDirectChild(it.parent, g_entries[j].path)}
           j == CHOOSE j \in Children : \A k \in Children : j <= k
           N == Len(g_entries)
<1>1. /\ g_entries \in Seq(NodeOK) /\ N \in Nat /\ DOMAIN g_entries = 1 .. N
      /\ Once(g_entries)
  BY DEF TableInv, OnceInv
<1>2. /\ it = [parent |-> it.parent, cursor |-> it.cursor, out |-> it.out,
               end |-> it.end]
      /\ it.parent \in Seq(Byte) /\ it.cursor \in 0 .. N
      /\ it.out \in Seq(NodeOK) /\ it.end \in BOOLEAN
      /\ ToSet(it.out) = Passed(it.parent, it.cursor)
      /\ IsFiniteSet(ToSet(it.out)) /\ Cardinality(ToSet(it.out)) = Len(it.out)
      /\ it.end => it.cursor = N
  BY DEF IterOK
<1>3. CASE Children = {}
  <2>1. Increment(it) = [it EXCEPT !.cursor = N, !.end = TRUE]
    BY <1>3 DEF Increment
  <2> DEFINE u == [parent |-> it.parent, cursor |-> N, out |-> it.out, end |-> TRUE]
  <2>2. Increment(it) = u
    BY <1>2, <2>1
  <2>3. Passed(it.parent, N) = Passed(it.parent, it.cursor)
    <3>1. \A k \in 1 .. N : IsDirectChild(it.parent, g_entries[k].path) =>
                            k \in 1 .. it.cursor
      BY <1>1, <1>2, <1>3
    <3>2. 1 .. it.cursor \subseteq 1 .. N
      BY <1>1, <1>2
    <3> QED BY <3>1, <3>2 DEF Passed
  <2>4. u # None
    BY DEF None
  <2>5. IterOK(u)
    BY <1>1, <1>2, <2>3 DEF IterOK
  <2> QED BY <2>2, <2>4, <2>5
<1>4. CASE Children # {}
  <2>1. j \in Children /\ \A k \in Children : j <= k
    <3>1. Children \in SUBSET Nat
      BY <1>1, <1>2
    <3> HIDE DEF Children
    <3>2. \E m \in Children : \A k \in Children : m <= k
      BY <1>4, <3>1, Least
    <3> QED BY <3>2
  <2>2. Increment(it) = [it EXCEPT !.cursor = j, !.out = Append(@, g_entries[j])]
    BY <1>4 DEF Increment
  <2>3. /\ j \in 1 .. N /\ j > it.cursor
        /\ IsDirectChild(it.parent, g_entries[j].path)
        /\ \A k \in it.cursor + 1 .. N :
             IsDirectChild(it.parent, g_entries[k].path) => j <= k
    <3> HIDE DEF j
    <3> QED BY <1>1, <1>2, <2>1
  <2> HIDE DEF j, Children
  <2> DEFINE e == g_entries[j]
             t == Append(it.out, e)
             u == [parent |-> it.parent, cursor |-> j, out |-> t, end |-> it.end]
  <2>4. Increment(it) = u
    BY <1>2, <2>2
  <2>5. e \in NodeOK /\ t \in Seq(NodeOK) /\ Len(t) = Len(it.out) + 1
        /\ ToSet(t) = ToSet(it.out) \cup {e}
    <3>1. e \in NodeOK BY <1>1, <2>3
    <3> HIDE DEF e
    <3>2. t \in Seq(NodeOK) /\ Len(t) = Len(it.out) + 1
      BY <1>2, <3>1
    <3>3. ToSet(t) = ToSet(it.out) \cup {e}
      <4>o. PICK o \in Seq(NodeOK) : o = it.out
        BY <1>2
      <4>1. /\ DOMAIN o = 1 .. Len(o) /\ Len(o) \in Nat
            /\ DOMAIN Append(o, e) = 1 .. Len(o) + 1
            /\ Append(o, e)[Len(o) + 1] = e
            /\ \A k \in 1 .. Len(o) : Append(o, e)[k] = o[k]
        BY <3>1
      <4>2. ToSet(Append(o, e)) = ToSet(o) \cup {e}
        BY <4>1 DEF ToSet
      <4> QED BY <4>o, <4>2
    <3> QED BY <3>1, <3>2, <3>3
  <2>6. Passed(it.parent, j) = Passed(it.parent, it.cursor) \cup {e}
    <3>1. \A k \in 1 .. j : IsDirectChild(it.parent, g_entries[k].path) =>
                            k \in 1 .. it.cursor \/ k = j
      BY <1>1, <1>2, <2>3, SMTT(30)
    <3>2. j \in 1 .. j /\ 1 .. it.cursor \subseteq 1 .. j
      BY <1>2, <2>3
    <3> QED BY <2>3, <3>1, <3>2 DEF Passed
  <2>7. e \notin ToSet(it.out)
    <3>1. \A k \in 1 .. it.cursor : g_entries[k] # e
      BY <1>1, <1>2, <2>3 DEF Once
    <3> QED BY <1>2, <3>1 DEF Passed
  <2>8. it.end = FALSE
    BY <1>1, <1>2, <2>3
  <2> HIDE DEF e, t
  <2>9. IsFiniteSet(ToSet(t)) /\ Cardinality(ToSet(t)) = Len(t)
    <3>1. /\ IsFiniteSet(ToSet(it.out) \cup {e})
          /\ Cardinality(ToSet(it.out) \cup {e}) = Cardinality(ToSet(it.out)) + 1
      BY <1>2, <2>7, FS_AddElement
    <3> QED BY <1>2, <2>5, <3>1
  <2>10. u # None
    BY DEF None
  <2>11. /\ u.parent \in Seq(Byte) /\ u.cursor \in 0 .. N
         /\ u.out \in Seq(NodeOK) /\ u.end \in BOOLEAN /\ u.end = FALSE
    BY <1>2, <2>3, <2>5, <2>8
  <2>12. ToSet(u.out) = Passed(u.parent, u.cursor)
    BY <1>2, <2>5, <2>6
  <2>13. IterOK(u)
    BY <2>9, <2>11, <2>12 DEF IterOK
  <2> QED BY <2>4, <2>10, <2>13
<1> QED BY <1>3, <1>4

LEMMA InitIter == OverlayInit => IterInv
BY DEF OverlayInit, IterInv

\* As long as the table stays, so does what is known of an iterator.
LEMMA IterStays ==
  ASSUME UNCHANGED parseVars, NEW it
  PROVE  IterOK(it)' <=> IterOK(it)
<1>1. g_entries' = g_entries
  BY DEF parseVars
<1> QED BY <1>1 DEF IterOK, Passed

LEMMA IterNext ==
  IndexInv /\ OnceInv /\ AnswerInv /\ IterInv /\ [OverlayNext]_overlayVars
    => IterInv'
<1> SUFFICES ASSUME IndexInv, OnceInv, AnswerInv, IterInv,
                    [OverlayNext]_overlayVars
             PROVE  IterInv'
  OBVIOUS
<1>1. /\ iter = [h \in Iterator |-> iter[h]]
      /\ \A h \in Iterator : iter[h] # None =>
           g_available = "yes" /\ IterOK(iter[h])
  BY DEF IterInv
\* One iterator changes, if any, and the table does not.
<1>2. ASSUME UNCHANGED parseVars, NEW g \in Iterator,
             NEW x, iter' = [iter EXCEPT ![g] = x],
             x # None => g_available = "yes" /\ IterOK(x)
      PROVE  IterInv'
  <2>1. iter'[g] = x /\ \A h \in Iterator \ {g} : iter'[h] = iter[h]
    BY <1>1, <1>2
  <2>2. iter' = [h \in Iterator |-> iter'[h]]
    BY <1>1, <1>2
  <2>3. g_available' = g_available /\ g_entries' = g_entries
    BY <1>2 DEF parseVars
  <2>4. ASSUME NEW h \in Iterator, iter'[h] # None
        PROVE  g_available' = "yes" /\ (IterOK(iter[h]))'
    <3>y. PICK y : y = iter'[h]
      OBVIOUS
    <3>1. g_available = "yes" /\ IterOK(y)
      BY <1>1, <1>2, <2>1, <2>4, <3>y
    <3>2. IterOK(y)'
      BY <1>2, <3>1, IterStays
    <3>3. (IterOK(iter[h]))' <=> IterOK(y)'
      BY <3>y DEF IterOK, Passed
    <3> QED BY <2>3, <3>1, <3>2, <3>3
  <2> QED BY <2>2, <2>4 DEF IterInv
<1>3. CASE UNCHANGED <<parseVars, iter>>
  <2>1. g_available' = g_available /\ g_entries' = g_entries /\ iter' = iter
    BY <1>3 DEF parseVars
  <2> QED BY <1>1, <2>1 DEF IterInv, IterOK, Passed
<1>4. CASE Parse /\ UNCHANGED iter
  <2>1. g_available = "no"
    BY <1>4 DEF Parse, ParseRecord, ParseFails, Sort, ParseEnds
  <2> QED BY <1>1, <1>4, <2>1 DEF IterInv
<1>5. ASSUME NEW h \in Iterator, Advance(h) PROVE IterInv'
  <2>1. /\ iter[h] # None /\ iter' = [iter EXCEPT ![h] = Increment(iter[h])]
        /\ UNCHANGED parseVars
    BY <1>5 DEF Advance, indexVars
  <2>2. g_available = "yes" /\ IterOK(iter[h])
    BY <1>1, <2>1
  <2>3. IterOK(Increment(iter[h]))
    BY <2>2, Incremented DEF IndexInv
  <2> QED BY <1>2, <2>1, <2>2, <2>3
<1>6. ASSUME NEW h \in Iterator, Drop(h) PROVE IterInv'
  <2>1. iter' = [iter EXCEPT ![h] = None] /\ UNCHANGED parseVars
    BY <1>6 DEF Drop, indexVars
  <2> QED BY <1>2, <2>1
<1>7. CASE Answer /\ ~UNCHANGED iter
  <2>y. PICK u : u = query.path
    OBVIOUS
  <2>z. PICK it : it = [parent |-> u, cursor |-> 0, out |-> <<>>, end |-> FALSE]
    OBVIOUS
  <2>1. PICK h \in Iterator : iter' = [iter EXCEPT ![h] = Increment(it)]
    <3>1. CASE asked.op = "dir" /\ Found
      <4>1. \E h \in Iterator : iter' = [iter EXCEPT ![h] = Increment(
              [parent |-> query.path, cursor |-> 0, out |-> <<>>, end |-> FALSE])]
        BY <1>7, <3>1, Zenon DEF Answer
      <4> QED BY <2>y, <2>z, <4>1, Zenon
    <3>2. CASE ~(asked.op = "dir" /\ Found)
      <4>1. UNCHANGED iter
        BY <1>7, <3>2, Zenon DEF Answer
      <4> QED BY <1>7, <4>1
    <3> QED BY <3>1, <3>2
  <2>2. query # NoQuery /\ UNCHANGED parseVars
    BY <1>7 DEF Answer, AnswerInv
  <2>3. g_available = "yes" /\ u \in Seq(Byte)
    BY <2>2, <2>y DEF IndexInv, SearchInv, Search
  <2>4. IterOK(it)
    <3>1. ToSet(<<>>) = {} /\ <<>> \in Seq(NodeOK) /\ Len(<<>>) = 0
      BY DEF ToSet
    <3>2. Passed(u, 0) = {}
      BY DEF Passed
    <3>3. IsFiniteSet({}) /\ Cardinality({}) = 0
      BY FS_EmptySet
    <3>4. Len(g_entries) \in Nat
      BY <2>3 DEF IndexInv, TableInv
    <3>5. it.parent = u /\ it.cursor = 0 /\ it.out = <<>> /\ it.end = FALSE
      BY <2>z
    <3>6. ToSet(it.out) = Passed(it.parent, it.cursor)
      BY <3>1, <3>2, <3>5
    <3>7. IsFiniteSet(ToSet(it.out)) /\ Cardinality(ToSet(it.out)) = Len(it.out)
      BY <3>1, <3>3, <3>5
    <3>8. it = [parent |-> it.parent, cursor |-> it.cursor, out |-> it.out,
                end |-> it.end]
      BY <2>z, <3>5
    <3>9. /\ it.cursor \in 0 .. Len(g_entries)
          /\ it.end => it.cursor = Len(g_entries)
      BY <3>4, <3>5
    <3>10. it.parent \in Seq(Byte) /\ it.out \in Seq(NodeOK) /\ it.end \in BOOLEAN
      BY <2>3, <3>1, <3>5
    <3> QED BY <3>6, <3>7, <3>8, <3>9, <3>10 DEF IterOK
  <2>5. IterOK(Increment(it))
    BY <2>3, <2>4, Incremented DEF IndexInv
  <2> QED BY <1>2, <2>1, <2>2, <2>3, <2>5
<1>8. ASSUME \/ Answer /\ UNCHANGED iter
             \/ Narrow /\ UNCHANGED <<asked, answer, iter>>
             \/ NotFound /\ UNCHANGED <<asked, answer, iter>>
             \/ Use \/ UNCHANGED overlayVars
             \/ \E r \in Requests, op \in {"status", "open", "dir"} : Ask(op, r)
      PROVE  UNCHANGED <<parseVars, iter>>
  BY <1>8 DEF Answer, Narrow, NotFound, Use, Ask, overlayVars, indexVars
<1> QED BY <1>3, <1>4, <1>5, <1>6, <1>7, <1>8 DEF OverlayNext

\* A listing returns each record of its directory once and nobody else's, for
\* any archive, any number of iterators and any calls between their steps.
THEOREM ListingsWhole == OverlaySpec => []ListsWhole
<1>1. ASSUME IndexInv, IterInv, NEW h \in Iterator, iter[h] # None
      PROVE  LET it == iter[h]
                 Children == {n \in Held : n # Root /\ ParentOf(n.path) = it.parent}
             IN  /\ Cardinality(ToSet(it.out)) = Len(it.out)
                 /\ ToSet(it.out) \subseteq Children
                 /\ it.end => ToSet(it.out) = Children
  <2>i. PICK it : it = iter[h]
    OBVIOUS
  <2> DEFINE Children == {n \in Held : n # Root /\ ParentOf(n.path) = it.parent}
  <2>1. IterOK(it) /\ g_available = "yes"
    BY <1>1, <2>i DEF IterInv
  <2>2. /\ g_entries \in Seq(NodeOK) /\ ToSet(g_entries) = Held
        /\ Len(g_entries) \in Nat
    BY <1>1, <2>1 DEF IndexInv, TableInv
  <2>3. ASSUME NEW n \in Held
        PROVE  IsDirectChild(it.parent, n.path) <=> n \in Children
    <3>1. CASE n = Root
      BY <3>1 DEF Root, IsDirectChild
    <3>2. CASE n # Root
      <4>1. PathsOf(image)
        BY <1>1, VfsIndexAssumption DEF IndexInv, TableInv
      <4>2. PICK j \in DOMAIN image : n = NodeOf(image[j])
        BY <3>2 DEF Held
      <4>3. n.path # <<>> /\ Head(n.path) # Slash /\ Last(n.path) # Slash
        BY <4>1, <4>2 DEF PathsOf
      <4>4. n.path \in Seq(Byte)
        <5>1. n \in NodeOK BY <2>2 DEF ToSet
        <5> QED BY <5>1 DEF NodeOK
      <4>5. it.parent \in Seq(Byte)
        BY <2>1 DEF IterOK
      <4>6. IsDirectChild(it.parent, n.path) <=> ParentOf(n.path) = it.parent
        BY <4>3, <4>4, <4>5, ChildByName
      <4> QED BY <3>2, <4>6
    <3> QED BY <3>1, <3>2
  <2>4. ToSet(it.out) = Passed(it.parent, it.cursor)
        /\ it.cursor \in 0 .. Len(g_entries)
        /\ (it.end => it.cursor = Len(g_entries))
        /\ Cardinality(ToSet(it.out)) = Len(it.out)
    BY <2>1 DEF IterOK
  <2> HIDE DEF Children
  <2>5. \A j \in 1 .. Len(g_entries) : g_entries[j] \in Held
    BY <2>2 DEF ToSet
  <2>6. Passed(it.parent, it.cursor) \subseteq Children
    BY <2>2, <2>3, <2>4, <2>5 DEF Passed
  <2>7. ASSUME it.end PROVE Children \subseteq Passed(it.parent, it.cursor)
    <3> SUFFICES ASSUME NEW n \in Children
                 PROVE  n \in Passed(it.parent, it.cursor)
      OBVIOUS
    <3>1. n \in Held BY DEF Children
    <3>2. PICK j \in 1 .. Len(g_entries) : n = g_entries[j]
      BY <2>2, <3>1 DEF ToSet
    <3> QED BY <2>3, <2>4, <2>7, <3>1, <3>2 DEF Passed
  <2>8. /\ Cardinality(ToSet(it.out)) = Len(it.out)
        /\ ToSet(it.out) \subseteq Children
        /\ it.end => ToSet(it.out) = Children
    BY <2>4, <2>6, <2>7
  <2> QED BY <2>i, <2>8 DEF Children
<1>2. IndexInv /\ IterInv => ListsWhole
  BY <1>1 DEF ListsWhole
<1> QED BY InitIndex, IndexNext, InitOnce, OnceNext, InitAnswer, AnswerNext,
           InitIter, IterNext, <1>2, PTL DEF OverlaySpec
===============================================================================
