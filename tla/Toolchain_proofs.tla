--------------------------- MODULE Toolchain_proofs ---------------------------
(***************************************************************************)
(* The two modules of the driver (toolchain/unpin_musl.cpp).               *)
(*                                                                         *)
(* Safety of the sysroot cache (SysrootCache) for any number of            *)
(* invocations and any recipe, provided open() and flock() of the lock     *)
(* file succeed; then what the driver makes of any command lines           *)
(* (DriverFront).                                                          *)
(***************************************************************************)
EXTENDS SysrootCache, DriverFront, LexicalPath_proofs

(***************************************************************************)
(* The inductive invariant.  Whoever is between taking and closing the     *)
(* lock, or has left compiles behind, holds the lock of its store, so that *)
(* what is known of the tree and of the marker at one control point stays  *)
(* true up to the next.                                                    *)
(***************************************************************************)

HoldsLockOf(p) ==
  /\ pc[p] \in Critical => lock[store[p]] = p
  /\ kids[p] # {} => pc[p] \in {"build", "dead"} /\ lock[store[p]] = p

HoldsLock == \A p \in Proc : HoldsLockOf(p)

\* What the builder knows of its tree.
TreeOf(p) ==
  LET t == tmp[store[p]] IN
  /\ pc[p] = "build" => t.exists /\ got[p] \subseteq t.has
  /\ pc[p] \in {"stamp", "mark"} => t.exists /\ Pieces[store[p]] \subseteq t.has
  /\ pc[p] = "publish" => t.exists /\ t.done /\ Kept(store[p]) \subseteq t.has

\* What it knows of the published directory.
MarkerOf(p) ==
  /\ pc[p] \in Building => ~dir[store[p]].done
  /\ pc[p] \in {"close", "verify"} => dir[store[p]].done
  /\ store[p] = "cxx" => dir["sysroot"].done

\* What it has been answered so far.
AnswersOf(p) ==
  /\ pc[p] \notin {"link", "done", "dead"} =>
       lib[p][store[p]] = "unset" /\ \A s \in Store : lib[p][s] # "none"
  /\ store[p] = "sysroot" => lib[p]["cxx"] = "unset"
  /\ store[p] = "cxx" => lib[p]["sysroot"] = "dir"

IInv ==
  /\ TypeOK
  /\ HoldsLock
  /\ \A p \in Proc : TreeOf(p) /\ MarkerOf(p) /\ AnswersOf(p)
  /\ CompleteIsWhole
  /\ NeverWedged
  /\ RefusedOnlyOnFailure
  /\ dir["cxx"].done => dir["sysroot"].done

-------------------------------------------------------------------------------
(* Type correctness, with or without the lock.                             *)

LEMMA InitType == Init => TypeOK
BY DEF Init, TypeOK, Control, Store, NoTree, Tree

LEMMA ReturnType ==
  ASSUME TypeOK, NEW p \in Proc, NEW r \in {"dir", "none"}, Return(p, r)
  PROVE  /\ pc' \in [Proc -> Control]
         /\ store' \in [Proc -> Store]
         /\ lib' \in [Proc -> [Store -> {"unset", "dir", "none"}]]
BY DEF TypeOK, Return, Control, Store

LEMMA ReleasedType ==
  ASSUME TypeOK, NEW p \in Proc
  PROVE  Released(p) \in [Store -> Proc \cup {NoProc}]
BY DEF TypeOK, Released

LEMMA TreeExists == \A t \in Tree : [t EXCEPT !.exists = TRUE] \in Tree
BY DEF Tree

LEMMA TreeUnmarked == \A t \in Tree : [t EXCEPT !.done = FALSE] \in Tree
BY DEF Tree

LEMMA TreeAdded ==
  \A t \in Tree : \A S \in SUBSET (Piece \cup Stubs) :
    [t EXCEPT !.has = @ \cup S] \in Tree
BY DEF Tree

LEMMA TreeMoved ==
  \A f, g \in [Store -> Tree] : \A s \in Store :
    [f EXCEPT ![s] = NoTree] \in [Store -> Tree]
    /\ [g EXCEPT ![s] = f[s]] \in [Store -> Tree]
BY DEF NoTree, Tree

LEMMA StepType == TypeOK /\ [Next]_vars => TypeOK'
<1> SUFFICES ASSUME TypeOK, [Next]_vars PROVE TypeOK'
  OBVIOUS
<1> USE DEF TypeOK, Goto, disk
<1>1. ASSUME NEW p \in Proc, Start(p) PROVE TypeOK'
  BY <1>1 DEF Start, Control
<1>2. ASSUME NEW p \in Proc, Check(p) PROVE TypeOK'
  <2>1. CASE dir[store[p]].done
    BY <1>2, <2>1, ReturnType DEF Check
  <2>2. CASE ~dir[store[p]].done
    BY <1>2, <2>2 DEF Check, Control
  <2> QED BY <2>1, <2>2
<1>3. ASSUME NEW p \in Proc, OpenLock(p) PROVE TypeOK'
  BY <1>3 DEF OpenLock, Control
<1>4. ASSUME NEW p \in Proc, LockFails(p) PROVE TypeOK'
  BY <1>4 DEF LockFails, Control
<1>5. ASSUME NEW p \in Proc, Acquire(p) PROVE TypeOK'
  BY <1>5 DEF Acquire, Control
<1>6. ASSUME NEW p \in Proc, Verify(p) PROVE TypeOK'
  BY <1>6, ReturnType DEF Verify
<1>7. ASSUME NEW p \in Proc, Link(p) PROVE TypeOK'
  BY <1>7 DEF Link, Control
<1>8. ASSUME NEW p \in Proc, Recheck(p) PROVE TypeOK'
  <2>1. CASE dir[store[p]].done
    BY <1>8, <2>1, ReturnType, ReleasedType DEF Recheck
  <2>2. CASE ~dir[store[p]].done
    BY <1>8, <2>2 DEF Recheck, Control
  <2> QED BY <2>1, <2>2
<1>9. ASSUME NEW p \in Proc, Clean(p) PROVE TypeOK'
  BY <1>9 DEF Clean, Control, NoTree, Tree
<1>10. ASSUME NEW p \in Proc, MakeTmp(p) PROVE TypeOK'
  <2>1. tmp' \in [Store -> Tree]
    BY <1>10, TreeExists DEF MakeTmp
  <2>2. dir' \in [Store -> Tree]
    BY <1>10, TreeExists DEF MakeTmp, Store
  <2> QED BY <1>10, <2>1, <2>2 DEF MakeTmp, Control
<1>11. ASSUME NEW p \in Proc, NEW x \in Piece, Spawn(p, x) PROVE TypeOK'
  BY <1>11 DEF Spawn
<1>12. ASSUME NEW p \in Proc, NEW x \in Piece, ChildOk(p, x) PROVE TypeOK'
  <2>1. tmp' \in [Store -> Tree]
    <3> DEFINE t == [tmp[store[p]] EXCEPT !.has = @ \cup {x}]
    <3>1. tmp[store[p]] \in Tree /\ {x} \in SUBSET (Piece \cup Stubs)
      OBVIOUS
    <3>2. t \in Tree
      BY <3>1, TreeAdded
    <3>3. tmp' = [tmp EXCEPT ![store[p]] = t]
      BY <1>12 DEF ChildOk
    <3> HIDE DEF t
    <3> QED BY <3>2, <3>3
  <2> QED BY <1>12, <2>1, ReleasedType DEF ChildOk, ChildExit
<1>13. ASSUME NEW p \in Proc, NEW x \in Piece, ChildFail(p, x) PROVE TypeOK'
  BY <1>13, ReleasedType DEF ChildFail, ChildExit
<1>14. ASSUME NEW p \in Proc, BuildFailed(p) PROVE TypeOK'
  BY <1>14, ReturnType, ReleasedType DEF BuildFailed
<1>15. ASSUME NEW p \in Proc, BuildDone(p) PROVE TypeOK'
  BY <1>15 DEF BuildDone, Control
<1>16. ASSUME NEW p \in Proc, Stamp(p) PROVE TypeOK'
  <2>1. tmp' \in [Store -> Tree]
    <3> DEFINE t(S) == [tmp["sysroot"] EXCEPT !.has = @ \cup S]
    <3>1. tmp["sysroot"] \in Tree
      BY DEF Store
    <3>2. \A S \in SUBSET Stubs : t(S) \in Tree
      <4>1. \A S \in SUBSET Stubs : S \in SUBSET (Piece \cup Stubs)
        OBVIOUS
      <4> QED BY <3>1, <4>1, TreeAdded
    <3>3. \/ tmp' = tmp
          \/ \E S \in SUBSET Stubs : tmp' = [tmp EXCEPT !["sysroot"] = t(S)]
      BY <1>16 DEF Stamp
    <3> HIDE DEF t
    <3> QED BY <3>2, <3>3
  <2>2. dir' \in [Store -> Tree]
    <3>1. dir["sysroot"] \in Tree
      BY DEF Store
    <3>2. dir' = dir \/ dir' = [dir EXCEPT !["sysroot"].done = FALSE]
      BY <1>16 DEF Stamp
    <3> QED BY <3>1, <3>2, TreeUnmarked
  <2> QED BY <1>16, <2>1, <2>2 DEF Stamp, Control
<1>17. ASSUME NEW p \in Proc, Mark(p) PROVE TypeOK'
  <2>1. tmp' \in [Store -> Tree]
    <3> DEFINE s == store[p]
               t == [tmp[s] EXCEPT !.done = TRUE]
               u == [t EXCEPT !.has = @ \ Scratch]
    <3>1. tmp[s] \in Tree
      OBVIOUS
    <3>2. t \in Tree
      BY <3>1 DEF Tree
    <3>3. u \in Tree
      <4> HIDE DEF t
      <4> QED BY <3>2 DEF Tree
    <3>4. tmp' = [tmp EXCEPT ![s] = u]
      BY <1>17 DEF Mark
    <3> HIDE DEF u
    <3> QED BY <3>3, <3>4
  <2> QED BY <1>17, <2>1 DEF Mark, Control
<1>18. ASSUME NEW p \in Proc, MarkFails(p) PROVE TypeOK'
  BY <1>18, ReleasedType DEF MarkFails, Control
<1>19. ASSUME NEW p \in Proc, Publish(p) PROVE TypeOK'
  <2>1. CASE tmp[store[p]].exists /\ ~dir[store[p]].exists
    <3>1. /\ dir' = [dir EXCEPT ![store[p]] = tmp[store[p]]]
          /\ tmp' = [tmp EXCEPT ![store[p]] = NoTree]
      BY <1>19, <2>1 DEF Publish
    <3>2. tmp' \in [Store -> Tree] /\ dir' \in [Store -> Tree]
      BY <3>1, TreeMoved
    <3> QED BY <1>19, <3>2 DEF Publish, Control
  <2>2. CASE ~(tmp[store[p]].exists /\ ~dir[store[p]].exists)
    BY <1>19, <2>2 DEF Publish, Control
  <2> QED BY <2>1, <2>2
<1>20. ASSUME NEW p \in Proc, Close(p) PROVE TypeOK'
  BY <1>20, ReleasedType DEF Close, Control
<1>21. ASSUME NEW p \in Proc, Crash(p) PROVE TypeOK'
  BY <1>21, ReleasedType DEF Crash, Control
<1>22. CASE UNCHANGED vars
  BY <1>22 DEF vars
<1> QED
  BY <1>1, <1>2, <1>3, <1>4, <1>5, <1>6, <1>7, <1>8, <1>9, <1>10, <1>11,
     <1>12, <1>13, <1>14, <1>15, <1>16, <1>17, <1>18, <1>19, <1>20, <1>21,
     <1>22 DEF Next, Step, Child

\* Every variable keeps its type, whatever the lock does.
THEOREM TypeCorrect == Spec => []TypeOK
BY InitType, StepType, PTL DEF Spec
\* What ensure...() returning does to the invocation, and to no other.
Returned(p, r) ==
  /\ \A q \in Proc : q # p =>
       pc'[q] = pc[q] /\ store'[q] = store[q] /\ lib'[q] = lib[q]
  /\ lib'[p] = [lib[p] EXCEPT ![store[p]] = r]
  /\ \/ /\ pc'[p] = "check" /\ store'[p] = "cxx"
        /\ store[p] = "sysroot" /\ r = "dir"
     \/ /\ pc'[p] = "done" /\ store'[p] = store[p]
        /\ store[p] = "sysroot" /\ r = "none"
     \/ /\ pc'[p] = "link" /\ store'[p] = store[p]
        /\ store[p] = "sysroot" => r = "dir"

Outside(p) ==
  /\ \A q \in Proc : q # p => pc'[q] = pc[q] /\ store'[q] = store[q]
  /\ pc'[p] \in {"check", "done", "link"}

LEMMA ReturnEffect ==
  ASSUME TypeOK, NEW p \in Proc, NEW r \in {"dir", "none"}, Return(p, r)
  PROVE  Returned(p, r)
BY DEF TypeOK, Return, Returned

\* Nobody takes or releases the lock of another.
LEMMA LockStep ==
  ASSUME LockMayFail = FALSE, IInv, [Next]_vars
  PROVE  HoldsLock'
<1> USE DEF IInv, TypeOK, Goto, disk, HoldsLock, HoldsLockOf, Critical
<1>1. ASSUME NEW p \in Proc, Start(p) PROVE HoldsLock'
  BY <1>1 DEF Start
<1>2. ASSUME NEW p \in Proc, Check(p) PROVE HoldsLock'
  <2>1. CASE dir[store[p]].done
    <3>1. Returned(p, "dir")
      BY <1>2, <2>1, ReturnEffect DEF Check
    <3>2. Outside(p)
      BY <3>1 DEF Returned, Outside
    <3> QED BY <1>2, <3>2 DEF Check, Outside
  <2>2. CASE ~dir[store[p]].done
    BY <1>2, <2>2 DEF Check
  <2> QED BY <2>1, <2>2
<1>3. ASSUME NEW p \in Proc, OpenLock(p) PROVE HoldsLock'
  BY <1>3 DEF OpenLock
<1>4. ASSUME NEW p \in Proc, LockFails(p) PROVE HoldsLock'
  BY <1>4 DEF LockFails
<1>5. ASSUME NEW p \in Proc, Acquire(p) PROVE HoldsLock'
  <2>1. \A q \in Proc :
          q # p => lock[store[q]] # NoProc \/ pc[q] \notin Critical
    BY <1>5, ProcAssumption DEF Acquire
  <2>2. kids[p] = {}
    BY <1>5 DEF Acquire
  <2> QED BY <1>5, <2>1, <2>2, ProcAssumption DEF Acquire
<1>6. ASSUME NEW p \in Proc, Verify(p) PROVE HoldsLock'
  <2>1. \E r \in {"dir", "none"} : Returned(p, r)
    BY <1>6, ReturnEffect DEF Verify
  <2>2. Outside(p)
    BY <2>1 DEF Returned, Outside
  <2> QED BY <1>6, <2>2 DEF Verify, Outside
<1>7. ASSUME NEW p \in Proc, Link(p) PROVE HoldsLock'
  BY <1>7 DEF Link
<1>8. ASSUME NEW p \in Proc, Recheck(p) PROVE HoldsLock'
  <2>1. CASE dir[store[p]].done
    <3>1. Returned(p, "dir")
      BY <1>8, <2>1, ReturnEffect DEF Recheck
    <3>2. Outside(p)
      BY <3>1 DEF Returned, Outside
    <3>3. \A q \in Proc : q # p /\ lock[store[q]] = q => lock'[store[q]] = q
      BY <1>8, <2>1 DEF Recheck, Released
    <3>4. kids[p] = {} /\ kids' = kids
      BY <1>8 DEF Recheck
    <3>5. ASSUME NEW q \in Proc PROVE HoldsLockOf(q)'
      <4>1. CASE q = p
        BY <3>2, <3>4, <4>1 DEF Outside, HoldsLockOf
      <4>2. CASE q # p
        BY <3>2, <3>3, <3>4, <4>2 DEF Outside, HoldsLockOf
      <4> QED BY <4>1, <4>2
    <3> QED BY <3>5
  <2>2. CASE ~dir[store[p]].done
    BY <1>8, <2>2 DEF Recheck
  <2> QED BY <2>1, <2>2
<1>9. ASSUME NEW p \in Proc, Clean(p) PROVE HoldsLock'
  BY <1>9 DEF Clean
<1>10. ASSUME NEW p \in Proc, MakeTmp(p) PROVE HoldsLock'
  BY <1>10 DEF MakeTmp
<1>11. ASSUME NEW p \in Proc, NEW x \in Piece, Spawn(p, x) PROVE HoldsLock'
  BY <1>11 DEF Spawn
<1>12. ASSUME NEW p \in Proc, NEW x \in Piece, ChildOk(p, x) PROVE HoldsLock'
  BY <1>12 DEF ChildOk, ChildExit, Released
<1>13. ASSUME NEW p \in Proc, NEW x \in Piece, ChildFail(p, x) PROVE HoldsLock'
  BY <1>13 DEF ChildFail, ChildExit, Released
<1>14. ASSUME NEW p \in Proc, BuildFailed(p) PROVE HoldsLock'
  <2>1. Returned(p, "none")
    BY <1>14, ReturnEffect DEF BuildFailed
  <2>2. Outside(p)
    BY <2>1 DEF Returned, Outside
  <2>3. \A q \in Proc : q # p /\ lock[store[q]] = q => lock'[store[q]] = q
    BY <1>14 DEF BuildFailed, Released
  <2>4. kids[p] = {} /\ kids' = kids
    BY <1>14 DEF BuildFailed
  <2>5. ASSUME NEW q \in Proc PROVE HoldsLockOf(q)'
    <3>1. CASE q = p
      BY <2>2, <2>4, <3>1 DEF Outside, HoldsLockOf
    <3>2. CASE q # p
      BY <2>2, <2>3, <2>4, <3>2 DEF Outside, HoldsLockOf
    <3> QED BY <3>1, <3>2
  <2> QED BY <2>5
<1>15. ASSUME NEW p \in Proc, BuildDone(p) PROVE HoldsLock'
  BY <1>15 DEF BuildDone
<1>16. ASSUME NEW p \in Proc, Stamp(p) PROVE HoldsLock'
  BY <1>16 DEF Stamp
<1>17. ASSUME NEW p \in Proc, Mark(p) PROVE HoldsLock'
  BY <1>17 DEF Mark
<1>18. ASSUME NEW p \in Proc, MarkFails(p) PROVE HoldsLock'
  BY <1>18 DEF MarkFails, Released
<1>19. ASSUME NEW p \in Proc, Publish(p) PROVE HoldsLock'
  BY <1>19 DEF Publish
<1>20. ASSUME NEW p \in Proc, Close(p) PROVE HoldsLock'
  BY <1>20 DEF Close, Released
<1>21. ASSUME NEW p \in Proc, Crash(p) PROVE HoldsLock'
  BY <1>21 DEF Crash, Released
<1>22. CASE UNCHANGED vars
  BY <1>22 DEF vars
<1> QED
  BY <1>1, <1>2, <1>3, <1>4, <1>5, <1>6, <1>7, <1>8, <1>9, <1>10, <1>11, <1>12,
     <1>13, <1>14, <1>15, <1>16, <1>17, <1>18, <1>19, <1>20, <1>21, <1>22 DEF
     Next, Step, Child

\* What a builder knows of its tree stays true up to its next step.
LEMMA TreeStep ==
  ASSUME LockMayFail = FALSE, IInv, [Next]_vars
  PROVE  (\A q \in Proc : TreeOf(q))'
<1> USE DEF IInv, TypeOK, Goto, disk, HoldsLock, HoldsLockOf, Critical, TreeOf
<1>1. ASSUME NEW p \in Proc, Start(p) PROVE (\A q \in Proc : TreeOf(q))'
  BY <1>1 DEF Start
<1>2. ASSUME NEW p \in Proc, Check(p) PROVE (\A q \in Proc : TreeOf(q))'
  <2>1. CASE dir[store[p]].done
    <3>1. Returned(p, "dir")
      BY <1>2, <2>1, ReturnEffect DEF Check
    <3>2. Outside(p)
      BY <3>1 DEF Returned, Outside
    <3> QED BY <1>2, <3>2 DEF Check, Outside
  <2>2. CASE ~dir[store[p]].done
    BY <1>2, <2>2 DEF Check
  <2> QED BY <2>1, <2>2
<1>3. ASSUME NEW p \in Proc, OpenLock(p) PROVE (\A q \in Proc : TreeOf(q))'
  BY <1>3 DEF OpenLock
<1>4. ASSUME NEW p \in Proc, LockFails(p) PROVE (\A q \in Proc : TreeOf(q))'
  BY <1>4 DEF LockFails
<1>5. ASSUME NEW p \in Proc, Acquire(p) PROVE (\A q \in Proc : TreeOf(q))'
  BY <1>5 DEF Acquire
<1>6. ASSUME NEW p \in Proc, Verify(p) PROVE (\A q \in Proc : TreeOf(q))'
  <2>1. \E r \in {"dir", "none"} : Returned(p, r)
    BY <1>6, ReturnEffect DEF Verify
  <2>2. Outside(p)
    BY <2>1 DEF Returned, Outside
  <2> QED BY <1>6, <2>2 DEF Verify, Outside
<1>7. ASSUME NEW p \in Proc, Link(p) PROVE (\A q \in Proc : TreeOf(q))'
  BY <1>7 DEF Link
<1>8. ASSUME NEW p \in Proc, Recheck(p) PROVE (\A q \in Proc : TreeOf(q))'
  <2>1. CASE dir[store[p]].done
    <3>1. Returned(p, "dir")
      BY <1>8, <2>1, ReturnEffect DEF Recheck
    <3>2. Outside(p)
      BY <3>1 DEF Returned, Outside
    <3> QED BY <1>8, <3>2 DEF Recheck, Outside
  <2>2. CASE ~dir[store[p]].done
    BY <1>8, <2>2 DEF Recheck
  <2> QED BY <2>1, <2>2
<1>9. ASSUME NEW p \in Proc, Clean(p) PROVE (\A q \in Proc : TreeOf(q))'
  BY <1>9 DEF Clean
<1>10. ASSUME NEW p \in Proc, MakeTmp(p) PROVE (\A q \in Proc : TreeOf(q))'
  BY <1>10 DEF MakeTmp
<1>11. ASSUME NEW p \in Proc, NEW x \in Piece, Spawn(p, x)
      PROVE  (\A q \in Proc : TreeOf(q))'
  BY <1>11 DEF Spawn
<1>12. ASSUME NEW p \in Proc, NEW x \in Piece, ChildOk(p, x)
      PROVE  (\A q \in Proc : TreeOf(q))'
  BY <1>12 DEF ChildOk, ChildExit, Released
<1>13. ASSUME NEW p \in Proc, NEW x \in Piece, ChildFail(p, x)
      PROVE  (\A q \in Proc : TreeOf(q))'
  BY <1>13 DEF ChildFail, ChildExit, Released
<1>14. ASSUME NEW p \in Proc, BuildFailed(p) PROVE (\A q \in Proc : TreeOf(q))'
  <2>1. Returned(p, "none")
    BY <1>14, ReturnEffect DEF BuildFailed
  <2>2. Outside(p)
    BY <2>1 DEF Returned, Outside
  <2> QED BY <1>14, <2>2 DEF BuildFailed, Outside
<1>15. ASSUME NEW p \in Proc, BuildDone(p) PROVE (\A q \in Proc : TreeOf(q))'
  BY <1>15 DEF BuildDone
<1>16. ASSUME NEW p \in Proc, Stamp(p) PROVE (\A q \in Proc : TreeOf(q))'
  <2>1. \A s \in Store : /\ tmp'[s].exists = tmp[s].exists
                         /\ tmp'[s].done = tmp[s].done
                         /\ tmp[s].has \subseteq tmp'[s].has
    <3>1. \/ tmp' = tmp
          \/ \E S \in SUBSET Stubs :
               tmp' = [tmp EXCEPT !["sysroot"].has = @ \cup S]
      BY <1>16 DEF Stamp
    <3>2. CASE tmp' = tmp
      BY <3>2
    <3>3. CASE \E S \in SUBSET Stubs :
                 tmp' = [tmp EXCEPT !["sysroot"].has = @ \cup S]
      <4>1. PICK S \in SUBSET Stubs :
              tmp' = [tmp EXCEPT !["sysroot"].has = @ \cup S]
        BY <3>3
      <4> QED BY <4>1 DEF Store, Tree
    <3> QED BY <3>1, <3>2, <3>3
  <2> QED BY <1>16, <2>1 DEF Stamp
<1>17. ASSUME NEW p \in Proc, Mark(p) PROVE (\A q \in Proc : TreeOf(q))'
  <2>1. /\ tmp'[store[p]].exists /\ tmp'[store[p]].done
        /\ tmp'[store[p]].has = tmp[store[p]].has \ Scratch
    BY <1>17 DEF Mark, Tree
  <2>2. Kept(store[p]) \subseteq tmp'[store[p]].has
    BY <1>17, <2>1 DEF Mark, Kept
  <2>3. ASSUME NEW q \in Proc, q # p PROVE TreeOf(q)'
    BY <1>17, <2>3 DEF Mark
  <2>4. pc'[p] = "publish" /\ store' = store
    BY <1>17 DEF Mark
  <2> QED BY <2>1, <2>2, <2>3, <2>4
<1>18. ASSUME NEW p \in Proc, MarkFails(p) PROVE (\A q \in Proc : TreeOf(q))'
  BY <1>18 DEF MarkFails, Released
<1>19. ASSUME NEW p \in Proc, Publish(p) PROVE (\A q \in Proc : TreeOf(q))'
  BY <1>19 DEF Publish
<1>20. ASSUME NEW p \in Proc, Close(p) PROVE (\A q \in Proc : TreeOf(q))'
  BY <1>20 DEF Close, Released
<1>21. ASSUME NEW p \in Proc, Crash(p) PROVE (\A q \in Proc : TreeOf(q))'
  BY <1>21 DEF Crash, Released
<1>22. CASE UNCHANGED vars
  BY <1>22 DEF vars
<1> QED
  BY <1>1, <1>2, <1>3, <1>4, <1>5, <1>6, <1>7, <1>8, <1>9, <1>10, <1>11, <1>12,
     <1>13, <1>14, <1>15, <1>16, <1>17, <1>18, <1>19, <1>20, <1>21, <1>22 DEF
     Next, Step, Child

-------------------------------------------------------------------------------
(* The published directories.                                              *)

\* A tree that becomes the directory of s, which was not there.
NewlyPublished(s) ==
  /\ ~dir[s].exists
  /\ s = "cxx" => dir["sysroot"].done
  /\ tmp[s].exists /\ tmp[s].done /\ Kept(s) \subseteq tmp[s].has
  /\ dir' = [dir EXCEPT ![s] = tmp[s]]

\* Under the lock there is no marker for the builder to remove.
LEMMA StampEffect ==
  ASSUME IInv, NEW p \in Proc, Stamp(p)
  PROVE  dir' = dir
<1>1. CASE store[p] = "sysroot"
  <2>1. dir["sysroot"] \in Tree /\ dir["sysroot"].done = FALSE
    BY <1>1 DEF IInv, MarkerOf, Building, Stamp, Goto, TypeOK, Store, Tree
  <2>2. [dir["sysroot"] EXCEPT !.done = FALSE] = dir["sysroot"]
    BY <2>1 DEF Tree
  <2>3. dir' = [dir EXCEPT !["sysroot"] = dir["sysroot"]]
    BY <1>1, <2>2 DEF Stamp
  <2> QED BY <2>3 DEF IInv, TypeOK, Store
<1>2. CASE store[p] # "sysroot"
  BY <1>2 DEF Stamp, disk
<1> QED BY <1>1, <1>2

\* Under the lock a step either leaves the directories alone or puts a whole,
\* marked tree where no directory was: the create_directories of a C++ runtime
\* and the removal of a stale marker change nothing.
LEMMA DirEffect ==
  ASSUME LockMayFail = FALSE, IInv, [Next]_vars
  PROVE  dir' = dir \/ \E s \in Store : NewlyPublished(s)
<1> DEFINE Goal == dir' = dir \/ \E s \in Store : NewlyPublished(s)
<1>1. ASSUME NEW p \in Proc, MakeTmp(p) PROVE dir' = dir
  <2>1. CASE store[p] = "cxx"
    <3>1. dir["sysroot"] \in Tree /\ dir["sysroot"].exists = TRUE
      BY <2>1 DEF IInv, MarkerOf, CompleteIsWhole, TypeOK, Store, Tree
    <3>2. [dir["sysroot"] EXCEPT !.exists = TRUE] = dir["sysroot"]
      BY <3>1 DEF Tree
    <3>3. dir' = [dir EXCEPT !["sysroot"] = dir["sysroot"]]
      BY <1>1, <2>1, <3>2 DEF MakeTmp
    <3> QED BY <3>3 DEF IInv, TypeOK, Store
  <2>2. CASE store[p] # "cxx"
    BY <1>1, <2>2 DEF MakeTmp
  <2> QED BY <2>1, <2>2
<1>2. ASSUME NEW p \in Proc, Stamp(p) PROVE dir' = dir
  BY <1>2, StampEffect
<1>3. ASSUME NEW p \in Proc, Publish(p) PROVE Goal
  <2>1. CASE tmp[store[p]].exists /\ ~dir[store[p]].exists
    <3>1. /\ store[p] \in Store
          /\ tmp[store[p]].done /\ Kept(store[p]) \subseteq tmp[store[p]].has
          /\ store[p] = "cxx" => dir["sysroot"].done
      BY <1>3 DEF IInv, TypeOK, TreeOf, MarkerOf, Publish, Goto
    <3>2. dir' = [dir EXCEPT ![store[p]] = tmp[store[p]]]
      BY <1>3, <2>1 DEF Publish
    <3> QED BY <2>1, <3>1, <3>2 DEF NewlyPublished
  <2>2. CASE ~(tmp[store[p]].exists /\ ~dir[store[p]].exists)
    BY <1>3, <2>2 DEF Publish, disk
  <2> QED BY <2>1, <2>2
<1>4. ASSUME NEW p \in Proc,
             Start(p) \/ Check(p) \/ OpenLock(p) \/ LockFails(p) \/ Acquire(p)
             \/ Verify(p) \/ Link(p) \/ Recheck(p) \/ Clean(p) \/ BuildFailed(p)
             \/ BuildDone(p) \/ Mark(p) \/ MarkFails(p) \/ Close(p) \/ Crash(p)
      PROVE  dir' = dir
  BY <1>4 DEF Start, Check, OpenLock, LockFails, Acquire, Verify, Link, Recheck,
              Clean, BuildFailed, BuildDone, Mark, MarkFails, Close, Crash, disk
<1>5. ASSUME NEW p \in Proc, NEW x \in Piece,
             Spawn(p, x) \/ ChildOk(p, x) \/ ChildFail(p, x)
      PROVE  dir' = dir
  BY <1>5 DEF Spawn, ChildOk, ChildFail, disk
<1>6. CASE UNCHANGED vars
  BY <1>6 DEF vars
<1> QED BY <1>1, <1>2, <1>3, <1>4, <1>5, <1>6 DEF Next, Step, Child


\* Published directories stay as they are, and whole.
LEMMA WholeStep ==
  ASSUME LockMayFail = FALSE, IInv, [Next]_vars
  PROVE  /\ \A s \in Store : dir[s].done => dir'[s] = dir[s]
         /\ CompleteIsWhole'
         /\ NeverWedged'
         /\ dir'["cxx"].done => dir'["sysroot"].done
<1> USE DEF IInv, TypeOK, CompleteIsWhole, NeverWedged
<1>1. CASE dir' = dir
  BY <1>1 DEF Kept
<1>2. CASE \E s \in Store : NewlyPublished(s)
  <2>1. PICK s \in Store : NewlyPublished(s)
    BY <1>2
  <2>2. dir'[s] = tmp[s] /\ ~dir[s].done
    BY <2>1 DEF NewlyPublished
  <2>3. \A t \in Store : t # s => dir'[t] = dir[t]
    BY <2>1 DEF NewlyPublished
  <2>4. \A t \in Store : dir[t].done => dir'[t] = dir[t]
    BY <2>2, <2>3
  <2>5. CompleteIsWhole' /\ NeverWedged'
    BY <2>1, <2>2, <2>3 DEF NewlyPublished, Kept
  <2>6. dir'["cxx"].done => dir'["sysroot"].done
    BY <2>1, <2>2, <2>3, <2>4 DEF NewlyPublished, Store
  <2> QED BY <2>4, <2>5, <2>6
<1> QED BY <1>1, <1>2, DirEffect

\* What an invocation knows of the markers stays true up to its next step.
LEMMA MarkerStep ==
  ASSUME LockMayFail = FALSE, IInv, [Next]_vars
  PROVE  (\A q \in Proc : MarkerOf(q))'
<1> USE DEF IInv, TypeOK, Goto, disk, HoldsLock, HoldsLockOf, Critical,
            Building, MarkerOf
<1>1. ASSUME NEW p \in Proc, Start(p) PROVE (\A q \in Proc : MarkerOf(q))'
  BY <1>1 DEF Start
<1>2. ASSUME NEW p \in Proc, Check(p) PROVE (\A q \in Proc : MarkerOf(q))'
  <2>1. CASE dir[store[p]].done
    <3>1. Returned(p, "dir")
      BY <1>2, <2>1, ReturnEffect DEF Check
    <3>2. dir' = dir
      BY <1>2 DEF Check
    <3> QED BY <2>1, <3>1, <3>2 DEF Returned
  <2>2. CASE ~dir[store[p]].done
    BY <1>2, <2>2 DEF Check
  <2> QED BY <2>1, <2>2
<1>3. ASSUME NEW p \in Proc, OpenLock(p) PROVE (\A q \in Proc : MarkerOf(q))'
  BY <1>3 DEF OpenLock
<1>4. ASSUME NEW p \in Proc, LockFails(p) PROVE (\A q \in Proc : MarkerOf(q))'
  BY <1>4 DEF LockFails
<1>5. ASSUME NEW p \in Proc, Acquire(p) PROVE (\A q \in Proc : MarkerOf(q))'
  BY <1>5 DEF Acquire
<1>6. ASSUME NEW p \in Proc, Verify(p) PROVE (\A q \in Proc : MarkerOf(q))'
  <2>1. dir[store[p]].done /\ dir' = dir
    BY <1>6 DEF Verify
  <2>2. Returned(p, "dir")
    BY <1>6, <2>1, ReturnEffect DEF Verify
  <2> QED BY <2>1, <2>2 DEF Returned
<1>7. ASSUME NEW p \in Proc, Link(p) PROVE (\A q \in Proc : MarkerOf(q))'
  BY <1>7 DEF Link
<1>8. ASSUME NEW p \in Proc, Recheck(p) PROVE (\A q \in Proc : MarkerOf(q))'
  <2>1. CASE dir[store[p]].done
    <3>1. Returned(p, "dir")
      BY <1>8, <2>1, ReturnEffect DEF Recheck
    <3>2. dir' = dir
      BY <1>8 DEF Recheck
    <3> QED BY <2>1, <3>1, <3>2 DEF Returned
  <2>2. CASE ~dir[store[p]].done
    BY <1>8, <2>2 DEF Recheck
  <2> QED BY <2>1, <2>2
<1>9. ASSUME NEW p \in Proc, Clean(p) PROVE (\A q \in Proc : MarkerOf(q))'
  BY <1>9 DEF Clean
<1>10. ASSUME NEW p \in Proc, MakeTmp(p) PROVE (\A q \in Proc : MarkerOf(q))'
  BY <1>10 DEF MakeTmp
<1>11. ASSUME NEW p \in Proc, NEW x \in Piece, Spawn(p, x)
      PROVE  (\A q \in Proc : MarkerOf(q))'
  BY <1>11 DEF Spawn
<1>12. ASSUME NEW p \in Proc, NEW x \in Piece, ChildOk(p, x)
      PROVE  (\A q \in Proc : MarkerOf(q))'
  BY <1>12 DEF ChildOk, ChildExit, Released
<1>13. ASSUME NEW p \in Proc, NEW x \in Piece, ChildFail(p, x)
      PROVE  (\A q \in Proc : MarkerOf(q))'
  BY <1>13 DEF ChildFail, ChildExit, Released
<1>14. ASSUME NEW p \in Proc, BuildFailed(p)
      PROVE  (\A q \in Proc : MarkerOf(q))'
  <2>1. Returned(p, "none") /\ dir' = dir
    BY <1>14, ReturnEffect DEF BuildFailed
  <2> QED BY <2>1 DEF Returned
<1>15. ASSUME NEW p \in Proc, BuildDone(p) PROVE (\A q \in Proc : MarkerOf(q))'
  BY <1>15 DEF BuildDone
<1>16. ASSUME NEW p \in Proc, Stamp(p) PROVE (\A q \in Proc : MarkerOf(q))'
  <2>1. dir' = dir
    BY <1>16, StampEffect
  <2> QED BY <1>16, <2>1 DEF Stamp
<1>17. ASSUME NEW p \in Proc, Mark(p) PROVE (\A q \in Proc : MarkerOf(q))'
  BY <1>17 DEF Mark
<1>18. ASSUME NEW p \in Proc, MarkFails(p) PROVE (\A q \in Proc : MarkerOf(q))'
  BY <1>18 DEF MarkFails, Released
<1>19. ASSUME NEW p \in Proc, Publish(p) PROVE (\A q \in Proc : MarkerOf(q))'
  <2>1. \A s \in Store : dir[s].done => dir'[s].done
    BY WholeStep
  <2>2. dir'[store[p]].done
    BY <1>19 DEF Publish, NeverWedged, TreeOf
  <2>3. \A s \in Store : s # store[p] => dir'[s] = dir[s]
    BY <1>19 DEF Publish
  <2>4. ASSUME NEW q \in Proc, q # p PROVE MarkerOf(q)'
    <3>1. pc'[q] = pc[q] /\ store' = store
      BY <1>19, <2>4 DEF Publish
    <3>2. pc[q] \in Building => store[q] # store[p]
      BY <1>19, <2>4 DEF Publish
    <3> QED BY <2>1, <2>3, <3>1, <3>2 DEF Store
  <2>5. MarkerOf(p)'
    BY <1>19, <2>1, <2>2 DEF Publish, Store
  <2> QED BY <2>4, <2>5
<1>20. ASSUME NEW p \in Proc, Close(p) PROVE (\A q \in Proc : MarkerOf(q))'
  BY <1>20 DEF Close, Released
<1>21. ASSUME NEW p \in Proc, Crash(p) PROVE (\A q \in Proc : MarkerOf(q))'
  BY <1>21 DEF Crash, Released
<1>22. CASE UNCHANGED vars
  BY <1>22 DEF vars
<1> QED
  BY <1>1, <1>2, <1>3, <1>4, <1>5, <1>6, <1>7, <1>8, <1>9, <1>10, <1>11, <1>12,
     <1>13, <1>14, <1>15, <1>16, <1>17, <1>18, <1>19, <1>20, <1>21, <1>22 DEF
     Next, Step, Child

\* An answer is given once per store, and a refusal only by a builder whose
\* compile has failed.
LEMMA AnswersStep ==
  ASSUME LockMayFail = FALSE, IInv, [Next]_vars
  PROVE  (\A q \in Proc : AnswersOf(q))' /\ RefusedOnlyOnFailure'
<1> DEFINE Goal == (\A q \in Proc : AnswersOf(q))' /\ RefusedOnlyOnFailure'
<1> USE DEF IInv, TypeOK, Goto, disk, AnswersOf, RefusedOnlyOnFailure
<1>0. ASSUME NEW p \in Proc, store' = store, lib' = lib,
             \A q \in Proc : q # p => pc'[q] = pc[q] /\ bad'[q] = bad[q],
             bad'[p] = {} =>
               bad[p] = {} \/ pc[p] \notin {"link", "done", "dead"},
             \/ pc[p] \notin {"link", "done", "dead"}
             \/ pc'[p] \in {"link", "done", "dead"}
      PROVE  Goal
  <2>1. ASSUME NEW q \in Proc PROVE AnswersOf(q)'
    BY <1>0
  <2>2. ASSUME NEW q \in Proc, NEW s \in Store, lib'[q][s] = "none"
        PROVE  bad'[q] # {}
    BY <1>0, <2>2
  <2> QED BY <2>1, <2>2
<1>1. ASSUME NEW p \in Proc, Returned(p, "dir"), bad' = bad,
             pc[p] \notin {"link", "done", "dead"}
      PROVE  Goal
  <2>1. ASSUME NEW q \in Proc, q # p PROVE AnswersOf(q)'
    BY <1>1, <2>1 DEF Returned
  <2>2. AnswersOf(p)'
    BY <1>1 DEF Returned, Store
  <2>3. ASSUME NEW q \in Proc, NEW s \in Store, lib'[q][s] = "none"
        PROVE  bad[q] # {}
    BY <1>1, <2>3 DEF Returned
  <2> QED BY <1>1, <2>1, <2>2, <2>3
<1>2. ASSUME NEW p \in Proc, BuildFailed(p) PROVE Goal
  <2>1. Returned(p, "none") /\ bad' = bad /\ pc[p] = "build" /\ bad[p] # {}
    BY <1>2, ReturnEffect DEF BuildFailed
  <2>2. ASSUME NEW q \in Proc, q # p PROVE AnswersOf(q)'
    BY <2>1, <2>2 DEF Returned
  <2>3. AnswersOf(p)'
    BY <2>1 DEF Returned, Store
  <2>4. ASSUME NEW q \in Proc, NEW s \in Store, lib'[q][s] = "none"
        PROVE  bad[q] # {}
    <3>1. CASE q = p
      BY <2>1, <3>1
    <3>2. CASE q # p
      BY <2>1, <2>4, <3>2 DEF Returned
    <3> QED BY <3>1, <3>2
  <2> QED BY <2>1, <2>2, <2>3, <2>4
<1>3. ASSUME NEW p \in Proc, MakeTmp(p) PROVE Goal
  BY <1>0, <1>3 DEF MakeTmp
<1>4. ASSUME NEW p \in Proc, Check(p) PROVE Goal
  <2>1. CASE dir[store[p]].done
    <3>1. Returned(p, "dir") /\ bad' = bad /\ pc[p] = "check"
      BY <1>4, <2>1, ReturnEffect DEF Check
    <3> QED BY <1>1, <3>1
  <2>2. CASE ~dir[store[p]].done
    BY <1>0, <1>4, <2>2 DEF Check
  <2> QED BY <2>1, <2>2
<1>5. ASSUME NEW p \in Proc, Verify(p) PROVE Goal
  <2>1. dir[store[p]].done
    BY <1>5 DEF Verify, MarkerOf
  <2>2. Returned(p, "dir") /\ bad' = bad /\ pc[p] = "verify"
    BY <1>5, <2>1, ReturnEffect DEF Verify
  <2> QED BY <1>1, <2>2
<1>6. ASSUME NEW p \in Proc, Recheck(p) PROVE Goal
  <2>1. CASE dir[store[p]].done
    <3>1. Returned(p, "dir") /\ bad' = bad /\ pc[p] = "recheck"
      BY <1>6, <2>1, ReturnEffect DEF Recheck
    <3> QED BY <1>1, <3>1
  <2>2. CASE ~dir[store[p]].done
    BY <1>0, <1>6, <2>2 DEF Recheck
  <2> QED BY <2>1, <2>2
<1>7. ASSUME NEW p \in Proc,
             Start(p) \/ OpenLock(p) \/ LockFails(p) \/ Acquire(p) \/ Link(p)
             \/ Clean(p) \/ BuildDone(p) \/ Mark(p) \/ MarkFails(p)
             \/ Close(p) \/ Crash(p) \/ Stamp(p) \/ Publish(p)
      PROVE  Goal
  <2>1. store' = store /\ lib' = lib /\ bad' = bad
    BY <1>7 DEF Start, OpenLock, LockFails, Acquire, Link, Clean,
                BuildDone, Mark, MarkFails, Close, Crash, Stamp, Publish
  <2>2. \A q \in Proc : q # p => pc'[q] = pc[q]
    BY <1>7 DEF Start, OpenLock, LockFails, Acquire, Link, Clean,
                BuildDone, Mark, MarkFails, Close, Crash, Stamp, Publish
  <2>3. \/ pc[p] \notin {"link", "done", "dead"}
        \/ pc'[p] \in {"link", "done", "dead"}
    BY <1>7 DEF Start, OpenLock, LockFails, Acquire, Link, Clean,
                BuildDone, Mark, MarkFails, Close, Crash, Stamp, Publish
  <2> QED BY <1>0, <2>1, <2>2, <2>3
<1>8. ASSUME NEW p \in Proc, NEW x \in Piece,
             Spawn(p, x) \/ ChildOk(p, x) \/ ChildFail(p, x)
      PROVE  Goal
  <2>1. store' = store /\ lib' = lib /\ pc' = pc
    BY <1>8 DEF Spawn, ChildOk, ChildFail
  <2>2. /\ \A q \in Proc : q # p => bad'[q] = bad[q]
        /\ bad'[p] = {} => bad[p] = {}
    BY <1>8 DEF Spawn, ChildOk, ChildFail
  <2> QED BY <1>0, <2>1, <2>2
<1>9. CASE UNCHANGED vars
  BY <1>9 DEF vars
<1> QED
  BY <1>2, <1>3, <1>4, <1>5, <1>6, <1>7, <1>8, <1>9 DEF Next, Step, Child

-------------------------------------------------------------------------------
(* The theorems.  All but TypeCorrect are about a lock that can be taken.  *)

LEMMA InitIInv == Init => IInv
<1> SUFFICES ASSUME Init PROVE IInv
  OBVIOUS
<1>1. \A s \in Store : ~dir[s].exists /\ ~dir[s].done
  BY DEF Init, NoTree
<1>2. CompleteIsWhole /\ NeverWedged /\ (dir["cxx"].done => dir["sysroot"].done)
  BY <1>1 DEF CompleteIsWhole, NeverWedged, Store
<1>3. HoldsLock /\ (\A p \in Proc : TreeOf(p))
  BY DEF Init, HoldsLock, HoldsLockOf, TreeOf, Critical
<1>4. \A p \in Proc : MarkerOf(p) /\ AnswersOf(p)
  BY DEF Init, MarkerOf, AnswersOf, Building, Store
<1>5. RefusedOnlyOnFailure
  BY DEF Init, RefusedOnlyOnFailure
<1> QED BY <1>2, <1>3, <1>4, <1>5, InitType DEF IInv

LEMMA Inductive ==
  ASSUME LockMayFail = FALSE
  PROVE  Spec => []IInv
<1>1. IInv /\ [Next]_vars => IInv'
  <2> SUFFICES ASSUME IInv, [Next]_vars PROVE IInv'
    OBVIOUS
  <2>1. TypeOK'
    BY StepType DEF IInv
  <2>2. HoldsLock'
    BY LockStep
  <2>3. (\A p \in Proc : TreeOf(p))'
    BY TreeStep
  <2>4. (\A p \in Proc : MarkerOf(p))'
    BY MarkerStep
  <2>5. (\A p \in Proc : AnswersOf(p))' /\ RefusedOnlyOnFailure'
    BY AnswersStep
  <2>6. /\ CompleteIsWhole' /\ NeverWedged'
        /\ dir'["cxx"].done => dir'["sysroot"].done
    BY WholeStep
  <2> QED BY <2>1, <2>2, <2>3, <2>4, <2>5, <2>6 DEF IInv
<1> QED BY <1>1, InitIInv, PTL DEF Spec

\* However many compiler invocations ask for a sysroot, and whichever of them
\* are killed, the tree under construction has one user at a time: neither a
\* second builder nor a compile left behind by a dead one writes to it.
THEOREM Serialized ==
  ASSUME LockMayFail = FALSE
  PROVE  Spec => []BuildersSerialized
<1>1. IInv => BuildersSerialized
  BY ProcAssumption DEF IInv, BuildersSerialized, UsesTmp, HoldsLock,
                        HoldsLockOf, Building, Critical
<1> QED BY <1>1, Inductive, PTL

\* The `.complete` marker of a published sysroot or C++ runtime can be trusted:
\* the directory has every file that the recipe compiles and keeps.
THEOREM Whole ==
  ASSUME LockMayFail = FALSE
  PROVE  Spec => []CompleteIsWhole
<1>1. IInv => CompleteIsWhole
  BY DEF IInv
<1> QED BY <1>1, Inductive, PTL

\* No crash or failed build leaves a variant directory without a marker, which
\* no later invocation could replace.
THEOREM NotWedged ==
  ASSUME LockMayFail = FALSE
  PROVE  Spec => []NeverWedged
<1>1. IInv => NeverWedged
  BY DEF IInv
<1> QED BY <1>1, Inductive, PTL

\* A published directory never changes again under the links that read it.
THEOREM Stays ==
  ASSUME LockMayFail = FALSE
  PROVE  Spec => PublishedStays
<1>1. IInv /\ [Next]_vars =>
        [\A s \in Store : dir[s].done => dir'[s] = dir[s]]_vars
  BY WholeStep
<1> QED BY <1>1, Inductive, PTL DEF Spec, PublishedStays

\* Another invocation's crash or failed build never makes ensureSysroot or
\* ensureCxxRuntime refuse: only a failed compile of one's own does.
THEOREM Refused ==
  ASSUME LockMayFail = FALSE
  PROVE  Spec => []RefusedOnlyOnFailure
<1>1. IInv => RefusedOnlyOnFailure
  BY DEF IInv
<1> QED BY <1>1, Inductive, PTL

-------------------------------------------------------------------------------
(* ensure...() implements the service.                                     *)

LEMMA GrantStep ==
  ASSUME IInv, NEW p \in Proc, Return(p, "dir"), dir[store[p]].done, dir' = dir,
         pc[p] \notin {"link", "done", "dead"}
  PROVE  Service!Next
<1>1. Service!MayAsk(p, store[p])
  BY DEF IInv, AnswersOf, Service!MayAsk
<1>2. Service!Grant(p, store[p])
  BY <1>1 DEF Service!Grant, Return, IInv, TypeOK
<1> QED BY <1>2 DEF Service!Next, IInv, TypeOK, Store, Service!Store

LEMMA RefuseStep ==
  ASSUME IInv, NEW p \in Proc, BuildFailed(p)
  PROVE  Service!Next
<1>1. Service!MayAsk(p, store[p])
  BY DEF IInv, AnswersOf, Service!MayAsk, BuildFailed
<1>2. ~dir[store[p]].done
  BY DEF IInv, MarkerOf, Building, BuildFailed
<1>3. Service!Refuse(p, store[p])
  BY <1>1, <1>2 DEF Service!Refuse, BuildFailed, Return, IInv, TypeOK, disk
<1> QED BY <1>3 DEF Service!Next, IInv, TypeOK, Store, Service!Store

LEMMA PublishStep ==
  ASSUME IInv, NEW s \in Store, NewlyPublished(s), lib' = lib
  PROVE  Service!Next
<1>1. ~dir[s].done /\ dir'[s].done
  BY DEF IInv, TypeOK, CompleteIsWhole, NewlyPublished
<1>2. \A t \in Store : t # s => dir'[t] = dir[t]
  BY DEF IInv, TypeOK, NewlyPublished
<1>3. s = "cxx" => dir["sysroot"].done
  BY DEF NewlyPublished
<1>4. [t \in Store |-> dir'[t].done] =
        [[t \in Store |-> dir[t].done] EXCEPT ![s] = TRUE]
  BY <1>1, <1>2
<1>5. Service!Publish(s)
  BY <1>1, <1>3, <1>4 DEF Service!Publish, Store
<1> QED BY <1>5 DEF Service!Next, Store, Service!Store

LEMMA ServiceStep ==
  ASSUME LockMayFail = FALSE, IInv, [Next]_vars
  PROVE  [Service!Next]_(Service!vars)
<1>1. ASSUME NEW p \in Proc, Check(p) \/ Recheck(p)
      PROVE  Service!Next \/ lib' = lib
  <2>1. dir' = dir /\ pc[p] \notin {"link", "done", "dead"}
    BY <1>1 DEF Check, Recheck, disk
  <2>2. CASE dir[store[p]].done
    <3>1. Return(p, "dir")
      BY <1>1, <2>2 DEF Check, Recheck
    <3> QED BY <2>1, <2>2, <3>1, GrantStep
  <2>3. CASE ~dir[store[p]].done
    BY <1>1, <2>3 DEF Check, Recheck
  <2> QED BY <2>2, <2>3
<1>2. ASSUME NEW p \in Proc, Verify(p) PROVE Service!Next
  <2>1. dir[store[p]].done
    BY <1>2 DEF IInv, MarkerOf, Verify
  <2>2. Return(p, "dir") /\ dir' = dir /\ pc[p] \notin {"link", "done", "dead"}
    BY <1>2, <2>1 DEF Verify, disk
  <2> QED BY <2>1, <2>2, GrantStep
<1>3. ASSUME NEW p \in Proc,
             Start(p) \/ OpenLock(p) \/ LockFails(p) \/ Acquire(p) \/ Link(p)
             \/ Clean(p) \/ MakeTmp(p) \/ BuildDone(p) \/ Stamp(p) \/ Mark(p)
             \/ MarkFails(p) \/ Publish(p) \/ Close(p) \/ Crash(p)
      PROVE  lib' = lib
  BY <1>3 DEF Start, OpenLock, LockFails, Acquire, Link, Clean, MakeTmp,
              BuildDone, Stamp, Mark, MarkFails, Publish, Close, Crash
<1>4. ASSUME NEW p \in Proc, NEW x \in Piece,
             Spawn(p, x) \/ ChildOk(p, x) \/ ChildFail(p, x)
      PROVE  lib' = lib
  BY <1>4 DEF Spawn, ChildOk, ChildFail
<1>5. Service!Next \/ lib' = lib
  BY <1>1, <1>2, <1>3, <1>4, RefuseStep DEF Next, Step, Child, vars
<1>6. CASE lib' = lib /\ dir' = dir
  BY <1>6 DEF Service!vars
<1>7. CASE lib' = lib /\ \E s \in Store : NewlyPublished(s)
  BY <1>7, PublishStep
<1> QED BY <1>5, <1>6, <1>7, DirEffect

\* What the sysroot cache does, whoever builds, waits or dies, is what the
\* abstract service allows: a store is published once, granted only after that
\* and refused only before it.
THEOREM Implements ==
  ASSUME LockMayFail = FALSE
  PROVE  Spec => ImplementsService
<1>1. Init => Service!Init
  BY DEF Init, NoTree, Service!Init, Service!Store, Store
<1>2. IInv /\ [Next]_vars => [Service!Next]_(Service!vars)
  BY ServiceStep
<1> QED BY <1>1, <1>2, Inductive, PTL DEF Spec, ImplementsService, Service!Spec

-------------------------------------------------------------------------------
(* What a line asks for. The loop of parseVariant keeps the last flag.     *)

Keeping(args, flags, kept) ==
  [n \in 0 .. Len(args) |->
     IF n <= 1 THEN NoFlag
     ELSE IF args[n] \in flags THEN args[n] ELSE kept[n - 1]]

LEMMA LastDefined ==
  ASSUME NEW S, NEW args \in Seq(S), NEW flags
  PROVE  \E kept : /\ kept = Keeping(args, flags, kept)
                   /\ LastOf(args, flags) = kept[Len(args)]
<1> DEFINE N == Len(args)
           X == S \cup {NoFlag}
           Choice(k, s) == IF k <= 1 THEN NoFlag
                         ELSE IF args[k] \in flags THEN args[k] ELSE s
           G == [k \in 1 .. N |-> [s \in X |-> Choice(k, s)]]
           kept == CHOOSE f : f = Keeping(args, flags, f)
<1>1. \A k \in 1 .. N, s \in X : Choice(k, s) \in X
  OBVIOUS
<1>2. G \in [1 .. N -> [X -> X]]
  <2> HIDE DEF Choice, X
  <2> QED BY <1>1
<1>3. NoFlag \in X /\ N \in Nat
  OBVIOUS
<1>4. PICK f : Folds(f, X, NoFlag, N, G)
  <2> HIDE DEF G, X, N
  <2> QED BY <1>2, <1>3, FoldExists
<1>5. /\ f \in [0 .. N -> X] /\ f[0] = NoFlag
      /\ \A k \in 1 .. N : f[k] = G[k][f[k - 1]]
  <2> HIDE DEF G, X, N
  <2> QED BY <1>4 DEF Folds
<1>6. \A k \in 1 .. N : f[k] = Choice(k, f[k - 1])
  <2> TAKE k \in 1 .. N
  <2> HIDE DEF Choice, X
  <2>1. f[k - 1] \in X
    <3>1. k - 1 \in 0 .. N
      BY <1>3
    <3> QED BY <1>5, <3>1
  <2>2. G[k] = [s \in X |-> Choice(k, s)]
    OBVIOUS
  <2> HIDE DEF G
  <2> QED BY <1>5, <2>1, <2>2
<1>7. f = Keeping(args, flags, f)
  <2>1. \A k \in 0 .. N : f[k] = Keeping(args, flags, f)[k]
    <3> TAKE k \in 0 .. N
    <3>1. CASE k = 0
      <4> HIDE DEF G
      <4> QED BY <1>3, <1>5, <3>1 DEF Keeping
    <3>2. CASE k # 0
      <4>1. k \in 1 .. N
        BY <3>2
      <4>2. f[k] = Choice(k, f[k - 1])
        BY <1>6, <4>1
      <4> HIDE DEF G
      <4> QED BY <4>2 DEF Keeping
    <3> QED BY <3>1, <3>2
  <2>2. /\ f = [k \in 0 .. N |-> f[k]]
        /\ Keeping(args, flags, f) = [k \in 0 .. N |-> Keeping(args, flags, f)[k]]
    <3> HIDE DEF G
    <3> QED BY <1>5 DEF Keeping
  <2> HIDE DEF N, G
  <2> QED BY <2>1, <2>2, Zenon
<1>8. kept = Keeping(args, flags, kept)
  BY <1>7
<1>9. LastOf(args, flags) = kept[N]
  BY DEF LastOf, Keeping
<1> QED
  <2> HIDE DEF kept
  <2> QED BY <1>8, <1>9

\* Is the flag the last of those it excludes, among the words from the second
\* to the n-th?
LastUpTo(args, flags, n, f) ==
  \E i \in 2 .. n : args[i] = f /\ f \in flags /\ \A j \in i + 1 .. n : args[j] \notin flags
NoneUpTo(args, flags, n) == \A i \in 2 .. n : args[i] \notin flags

\* What LastOf finds is the last of the flags, or nothing if there is none.
LEMMA LastIs ==
  ASSUME NEW S, NEW args \in Seq(S), NEW flags
  PROVE  LET f == LastOf(args, flags)
             n == Len(args)
         IN  \/ LastUpTo(args, flags, n, f)
             \/ f = NoFlag /\ NoneUpTo(args, flags, n)
<1>1. PICK kept : /\ kept = Keeping(args, flags, kept)
                  /\ LastOf(args, flags) = kept[Len(args)]
  BY LastDefined
<1> DEFINE OK(n) == \/ LastUpTo(args, flags, n, kept[n])
                    \/ kept[n] = NoFlag /\ NoneUpTo(args, flags, n)
           T == {n \in Nat : n <= Len(args) => OK(n)}
<1>2. \A n \in 0 .. Len(args) :
        kept[n] = IF n <= 1 THEN NoFlag
                  ELSE IF args[n] \in flags THEN args[n] ELSE kept[n - 1]
  <2>1. \A n \in 0 .. Len(args) : Keeping(args, flags, kept)[n] =
                  IF n <= 1 THEN NoFlag
                  ELSE IF args[n] \in flags THEN args[n] ELSE kept[n - 1]
    BY DEF Keeping
  <2> QED BY <1>1, <2>1, Zenon
<1>3. 0 \in T
  BY <1>2 DEF NoneUpTo
<1>4. ASSUME NEW n \in T PROVE n + 1 \in T
  <2> SUFFICES ASSUME n + 1 <= Len(args) PROVE OK(n + 1)
    OBVIOUS
  <2>1. /\ n \in Nat /\ n + 1 \in 0 .. Len(args) /\ OK(n) /\ (n + 1) - 1 = n
    OBVIOUS
  <2>2. kept[n + 1] = IF n + 1 <= 1 THEN NoFlag
                      ELSE IF args[n + 1] \in flags THEN args[n + 1] ELSE kept[n]
    BY <1>2, <2>1
  <2>3. CASE n = 0
    BY <2>2, <2>3 DEF NoneUpTo
  <2>4. CASE n # 0 /\ args[n + 1] \in flags
    <3>1. n + 1 \in 2 .. n + 1 /\ \A j \in (n + 1) + 1 .. n + 1 : FALSE
      BY <2>1, <2>4
    <3>2. kept[n + 1] = args[n + 1]
      BY <2>1, <2>2, <2>4
    <3> QED BY <2>4, <3>1, <3>2 DEF LastUpTo
  <2>5. CASE n # 0 /\ args[n + 1] \notin flags
    <3>1. kept[n + 1] = kept[n]
      BY <2>1, <2>2, <2>5
    <3>2. ASSUME LastUpTo(args, flags, n, kept[n])
          PROVE  LastUpTo(args, flags, n + 1, kept[n])
      BY <2>1, <2>5, <3>2 DEF LastUpTo
    <3>3. ASSUME NoneUpTo(args, flags, n)
          PROVE  NoneUpTo(args, flags, n + 1)
      BY <2>1, <2>5, <3>3 DEF NoneUpTo
    <3> QED BY <2>1, <3>1, <3>2, <3>3
  <2> QED BY <2>3, <2>4, <2>5
<1>5. T = Nat
  <2>1. T \in SUBSET Nat OBVIOUS
  <2> HIDE DEF T
  <2> QED BY <1>3, <1>4, <2>1, Induct
<1>6. OK(Len(args))
  <2>1. Len(args) \in T /\ Len(args) <= Len(args)
    BY <1>5
  <2> HIDE DEF OK
  <2> QED BY <2>1
<1>7. LastOf(args, flags) = kept[Len(args)]
  BY <1>1
<1> HIDE DEF T
<1> QED BY <1>6, <1>7

\* There is one last flag, if there is one.
LEMMA OneLast ==
  ASSUME NEW args, NEW flags, NEW n \in Nat, NEW f, NEW g,
         LastUpTo(args, flags, n, f), LastUpTo(args, flags, n, g)
  PROVE  f = g
<1>1. PICK i \in 2 .. n :
        args[i] = f /\ f \in flags /\ \A j \in i + 1 .. n : args[j] \notin flags
  BY DEF LastUpTo
<1>2. PICK k \in 2 .. n :
        args[k] = g /\ g \in flags /\ \A j \in k + 1 .. n : args[j] \notin flags
  BY DEF LastUpTo
<1>3. ~(k \in i + 1 .. n) /\ ~(i \in k + 1 .. n)
  BY <1>1, <1>2
<1>4. i = k
  BY <1>3
<1> QED BY <1>1, <1>2, <1>4

\* What a line asks for is what the last flags on it say.
LEMMA Decided ==
  ASSUME NEW S, given \in Seq(S), NEW flags, NoFlag \notin flags, NEW f \in flags
  PROVE  LastOf(given, flags) = f <=> Decides(f, flags)
<1>1. Len(given) \in Nat
  OBVIOUS
<1>2. Decides(f, flags) <=> LastUpTo(given, flags, Len(given), f)
  BY DEF Decides, LastUpTo
<1>3. LET g == LastOf(given, flags)
      IN  \/ LastUpTo(given, flags, Len(given), g)
          \/ g = NoFlag /\ NoneUpTo(given, flags, Len(given))
  BY LastIs
<1>4. LastOf(given, flags) = f => Decides(f, flags)
  BY <1>2, <1>3
<1>5. ASSUME Decides(f, flags) PROVE LastOf(given, flags) = f
  <2>1. ~NoneUpTo(given, flags, Len(given))
    BY <1>2, <1>5 DEF LastUpTo, NoneUpTo
  <2> QED BY <1>1, <1>2, <1>3, <1>5, <2>1, OneLast
<1> QED BY <1>4, <1>5

\* Words behind a line that are none of the flags change nothing.
LEMMA Behind ==
  ASSUME NEW S, NEW line \in Seq(S) \ {<<>>}, NEW words \in Seq(S), NEW flags,
         NoFlag \notin flags, \A i \in DOMAIN words : words[i] \notin flags
  PROVE  /\ LastOf(line \o words, flags) = LastOf(line, flags)
         /\ Has(line \o words, flags) <=> Has(line, flags)
<1> DEFINE all == line \o words
           n == Len(line)
           m == Len(all)
<1>1. /\ all \in Seq(S) /\ n \in Nat \ {0} /\ m \in Nat /\ n <= m
      /\ \A i \in 1 .. n : all[i] = line[i]
  OBVIOUS
<1>2. \A i \in n + 1 .. m : all[i] \notin flags
  <2> TAKE i \in n + 1 .. m
  <2>1. i - n \in DOMAIN words /\ all[i] = words[i - n]
    OBVIOUS
  <2> QED BY <2>1
<1> HIDE DEF all
<1>3. \A f : LastUpTo(line, flags, n, f) => LastUpTo(all, flags, m, f)
  <2> TAKE f
  <2> HAVE LastUpTo(line, flags, n, f)
  <2>1. PICK i \in 2 .. n : /\ line[i] = f /\ f \in flags
                            /\ \A j \in i + 1 .. n : line[j] \notin flags
    BY DEF LastUpTo
  <2>2. i \in 2 .. m /\ all[i] = f
    BY <1>1, <2>1
  <2>3. \A j \in i + 1 .. m : all[j] \notin flags
    <3> TAKE j \in i + 1 .. m
    <3>1. CASE j <= n
      BY <1>1, <2>1, <3>1
    <3>2. CASE j > n
      BY <1>1, <1>2, <2>1, <3>2
    <3> QED BY <1>1, <2>1, <3>1, <3>2
  <2> QED BY <2>1, <2>2, <2>3 DEF LastUpTo
<1>4. NoneUpTo(line, flags, n) => NoneUpTo(all, flags, m)
  <2> HAVE NoneUpTo(line, flags, n)
  <2> SUFFICES ASSUME NEW i \in 2 .. m PROVE all[i] \notin flags
    BY DEF NoneUpTo
  <2>1. CASE i <= n
    BY <1>1, <2>1 DEF NoneUpTo
  <2>2. CASE i > n
    BY <1>1, <1>2, <2>2
  <2> QED BY <1>1, <2>1, <2>2
<1>5. LET f == LastOf(line, flags)
      IN  \/ LastUpTo(line, flags, n, f)
          \/ f = NoFlag /\ NoneUpTo(line, flags, n)
  BY LastIs
<1>6. LET f == LastOf(all, flags)
      IN  \/ LastUpTo(all, flags, m, f)
          \/ f = NoFlag /\ NoneUpTo(all, flags, m)
  BY <1>1, LastIs
<1>7. ~(\E f : LastUpTo(all, flags, m, f) /\ NoneUpTo(all, flags, m))
  BY DEF LastUpTo, NoneUpTo
<1>8. LastOf(all, flags) = LastOf(line, flags)
  BY <1>1, <1>3, <1>4, <1>5, <1>6, <1>7, OneLast
<1>9. Has(all, flags) <=> Has(line, flags)
  <2>1. ASSUME NEW i \in 2 .. n, line[i] \in flags PROVE Has(all, flags)
    BY <1>1, <2>1 DEF Has
  <2>2. ASSUME NEW i \in 2 .. m, all[i] \in flags PROVE Has(line, flags)
    BY <1>1, <1>2, <2>2, SMTT(30) DEF Has
  <2> QED BY <2>1, <2>2 DEF Has
<1> QED BY <1>8, <1>9 DEF all

\* The words the front adds before it looks for libraries, and the flags that
\* it reads from a line.
HeaderWords == {"-resource-dir", "-nostdlibinc", "-nostdinc++", "-isystem c++",
                "-isystem libc", "-isysroot detected"}
Flags == TargetFlags \cup CpuFlags \cup OptFlags \cup PicFlags \cup PieFlags
         \cup LtoFlags \cup CompileFlags \cup QueryFlags
         \cup {"-r", "--print-file-name", "-nostdlib", "-nostartfiles",
               "-nodefaultlibs", "-shared", "-municode", "-lunwind"}

LEMMA TargetsAre ==
  TargetFlags = {"--target=x86_64-linux-musl", "--target=x86_64-w64-mingw32",
                 "--target=aarch64-apple-macos", "--target=x86_64-pc-windows-msvc"}
BY DEF TargetFlags, targetOf

LEMMA NoFlagIsNone == NoFlag \notin Flags
BY TargetsAre, Zenon DEF Flags, CpuFlags, OptFlags, FastFlags, PicFlags, PieFlags, LtoFlags,
     CompileFlags, QueryFlags, NoFlag

LEMMA HeadersAreNone == Flags \cap HeaderWords = {}
BY TargetsAre DEF Flags, CpuFlags, OptFlags, FastFlags, PicFlags, PieFlags, LtoFlags,
     CompileFlags, QueryFlags, HeaderWords

\* What the front reads from a line it reads from the line with its own headers
\* behind it.
LEMMA LineRead ==
  ASSUME NEW line \in Seq(STRING) \ {<<>>}, NEW words \in Seq(HeaderWords)
  PROVE  /\ parseVariant(line \o words) = parseVariant(line)
         /\ \A flags \in SUBSET Flags :
              Has(line \o words, flags) <=> Has(line, flags)
<1> DEFINE S == STRING \cup HeaderWords
           all == line \o words
<1>1. line \in Seq(S) \ {<<>>} /\ words \in Seq(S)
  OBVIOUS
<1>2. \A i \in DOMAIN words : words[i] \in HeaderWords
  OBVIOUS
<1>3. ASSUME NEW flags \in SUBSET Flags
      PROVE  /\ LastOf(all, flags) = LastOf(line, flags)
             /\ Has(all, flags) <=> Has(line, flags)
  <2>1. NoFlag \notin flags /\ \A i \in DOMAIN words : words[i] \notin flags
    BY <1>2, NoFlagIsNone, HeadersAreNone
  <2> HIDE DEF S
  <2> QED BY <1>1, <2>1, Behind
<1>4. /\ {TargetFlags, CpuFlags, OptFlags, PicFlags, PieFlags, LtoFlags}
           \subseteq SUBSET Flags
  BY DEF Flags
<1> HIDE DEF all
<1>5. parseTarget(all) = parseTarget(line)
  <2>1. /\ LastOf(all, TargetFlags) = LastOf(line, TargetFlags)
        /\ Has(all, TargetFlags) <=> Has(line, TargetFlags)
    BY <1>3, <1>4
  <2> QED BY <2>1 DEF parseTarget
<1>6. parseVariant(all) = parseVariant(line)
  <2>1. /\ LastOf(all, CpuFlags) = LastOf(line, CpuFlags)
        /\ LastOf(all, OptFlags) = LastOf(line, OptFlags)
        /\ LastOf(all, PicFlags) = LastOf(line, PicFlags)
        /\ LastOf(all, PieFlags) = LastOf(line, PieFlags)
        /\ LastOf(all, LtoFlags) = LastOf(line, LtoFlags)
    BY <1>3, <1>4
  <2> QED BY <1>5, <2>1 DEF parseVariant
<1> QED BY <1>3, <1>6 DEF all

\* The variant that is read is the one the line asks for.
LEMMA VariantAsked ==
  ASSUME given \in Seq(STRING)
  PROVE  LET V == parseVariant(given)
         IN  Asked = [payload |-> payload, triple |-> V.triple, cpu |-> V.cpu,
                      fast |-> V.fast, pic |-> V.pic, lto |-> V.lto]
<1> DEFINE V == parseVariant(given)
<1>1. ASSUME NEW flags \in SUBSET Flags, NEW f \in flags
      PROVE  LastOf(given, flags) = f <=> Decides(f, flags)
  BY <1>1, NoFlagIsNone, Decided
<1>2. /\ CpuFlags \subseteq Flags /\ OptFlags \subseteq Flags
      /\ PicFlags \subseteq Flags /\ PieFlags \subseteq Flags
      /\ LtoFlags \subseteq Flags /\ FastFlags \subseteq OptFlags
  BY DEF Flags, OptFlags
<1>3. (IF \E f \in CpuFlags : Decides(f, CpuFlags)
       THEN CHOOSE f \in CpuFlags : Decides(f, CpuFlags) ELSE NoFlag)
        = LastOf(given, CpuFlags)
  <2>1. CASE LastOf(given, CpuFlags) \in CpuFlags
    <3>1. PICK g \in CpuFlags : g = LastOf(given, CpuFlags)
      BY <2>1
    <3>2. \A f \in CpuFlags : Decides(f, CpuFlags) <=> f = g
      BY <1>1, <1>2, <3>1
    <3> QED BY <3>1, <3>2
  <2>2. CASE LastOf(given, CpuFlags) \notin CpuFlags
    <3>1. LastOf(given, CpuFlags) = NoFlag
      BY <2>2, LastIs DEF LastUpTo
    <3>2. \A f \in CpuFlags : ~Decides(f, CpuFlags)
      BY <1>1, <1>2, <2>2
    <3> QED BY <3>1, <3>2
  <2> QED BY <2>1, <2>2
<1>4. (\E f \in FastFlags : Decides(f, OptFlags))
        <=> LastOf(given, OptFlags) \in FastFlags
  <2>1. \A f \in FastFlags : LastOf(given, OptFlags) = f <=> Decides(f, OptFlags)
    BY <1>1, <1>2
  <2> QED BY <2>1
<1>5. /\ Decides("-fPIC", PicFlags) <=> LastOf(given, PicFlags) = "-fPIC"
      /\ Decides("-fno-pic", PicFlags) <=> LastOf(given, PicFlags) = "-fno-pic"
      /\ Decides("-pie", PieFlags) <=> LastOf(given, PieFlags) = "-pie"
      /\ Decides("-flto", LtoFlags) <=> LastOf(given, LtoFlags) = "-flto"
  <2>1. "-fPIC" \in PicFlags /\ "-fno-pic" \in PicFlags
        /\ "-pie" \in PieFlags /\ "-flto" \in LtoFlags
    BY DEF PicFlags, PieFlags, LtoFlags
  <2> QED BY <1>1, <1>2, <2>1
<1>6. /\ Asked.payload = payload /\ Asked.triple = V.triple
      /\ Asked.cpu = V.cpu
  BY <1>3 DEF Asked, parseVariant, target
<1>7. Asked.fast = V.fast
  <2>1. CASE \E f \in FastFlags : Decides(f, OptFlags)
    BY <1>4, <2>1 DEF Asked, parseVariant
  <2>2. CASE ~\E f \in FastFlags : Decides(f, OptFlags)
    <3>1. Asked.fast = FALSE
      BY <2>2 DEF Asked
    <3>2. V.fast = FALSE
      <4>1. LastOf(given, OptFlags) \notin FastFlags
        BY <1>4, <2>2
      <4>2. V.fast = (LastOf(given, OptFlags) \in FastFlags)
        BY DEF parseVariant
      <4> HIDE DEF V
      <4>3. (LastOf(given, OptFlags) \in FastFlags) = FALSE
        BY <4>1
      <4> QED BY <4>2, <4>3
    <3> QED BY <3>1, <3>2, Zenon
  <2> QED BY <2>1, <2>2
<1>8. Asked.pic = V.pic
  BY <1>5 DEF Asked, parseVariant
<1>9. Asked.lto = V.lto
  <2>1. CASE Decides("-flto", LtoFlags)
    BY <1>5, <2>1 DEF Asked, parseVariant
  <2>2. CASE ~Decides("-flto", LtoFlags)
    <3>1. Asked.lto = FALSE
      BY <2>2 DEF Asked
    <3>2. V.lto = FALSE
      BY <1>5, <2>2 DEF parseVariant
    <3> QED BY <3>1, <3>2, Zenon
  <2> QED BY <2>1, <2>2
<1>10. Asked = [payload |-> Asked.payload, triple |-> Asked.triple,
                cpu |-> Asked.cpu, fast |-> Asked.fast, pic |-> Asked.pic,
                lto |-> Asked.lto]
  BY DEF Asked
<1> HIDE DEF V
<1> QED BY <1>6, <1>7, <1>8, <1>9, <1>10 DEF V

-------------------------------------------------------------------------------
(* The cache, and a call.                                                  *)

\* What a directory holds by its place.
Keyed(place) ==
  [payload |-> place[2][1], triple |-> place[2][2], cpu |-> place[2][3],
   fast |-> place[2][4], pic |-> place[2][5],
   lto |-> place[2][6] /\ (place[1] = "cxx" \/ place[2][2] = "musl")]

CacheAsKeyed == \A place \in DOMAIN cache : cache[place] = Keyed(place)

LEMMA BuiltAsKeyed ==
  ASSUME NEW kind, NEW V
  PROVE  Built(kind, V) = Keyed(<<kind, variantHash(V)>>)
BY DEF Built, Keyed, variantHash

\* Whoever asks for a directory gets what its key says, or none.
LEMMA Ensured ==
  ASSUME CacheAsKeyed, NEW kind, NEW V, NEW result, Ensure(kind, V, result)
  PROVE  CacheAsKeyed' /\ result \in {NoDir, Built(kind, V)}
<1> DEFINE key == variantHash(V)
           place == <<kind, key>>
<1>1. Built(kind, V) = Keyed(place)
  BY BuiltAsKeyed
<1> HIDE DEF place
<1>2. CASE place \in DOMAIN cache /\ result = cache[place] /\ UNCHANGED cache
  BY <1>1, <1>2 DEF CacheAsKeyed
<1>3. CASE /\ place \notin DOMAIN cache /\ result = Built(kind, V)
           /\ cache' = [d \in DOMAIN cache \cup {place} |->
                          IF d = place THEN result ELSE cache[d]]
  BY <1>1, <1>3 DEF CacheAsKeyed
<1>4. CASE place \notin DOMAIN cache /\ result = NoDir /\ UNCHANGED cache
  BY <1>4 DEF CacheAsKeyed
<1> QED BY <1>2, <1>3, <1>4 DEF Ensure, place

\* Up to the libraries a line has only headers behind it, and the libraries a
\* call has found are of the variant that the line asks for.
CallInv ==
  /\ stage \in {"idle", "front", "headers", "sysroot", "link", "done"}
  /\ stage # "idle" => given \in Lines
  /\ stage = "front" => Args = given
  /\ stage \in {"headers", "sysroot", "link"} =>
       \E words \in Seq(HeaderWords) : Args = given \o words
  /\ stage \in {"idle", "front", "headers"} => sysroot = NoDir
  /\ stage \in {"idle", "front", "headers", "sysroot"} => cxxLib = NoDir
  /\ sysroot # NoDir => sysroot = Built("sysroot", parseVariant(given))
  /\ cxxLib # NoDir => cxxLib = Built("cxx", parseVariant(given))

FrontInv == CacheAsKeyed /\ CallInv

LEMMA InitFront == FrontInit => FrontInv
<1> SUFFICES ASSUME FrontInit PROVE FrontInv
  OBVIOUS
<1>1. DOMAIN cache = {}
  BY DEF FrontInit
<1> QED BY <1>1 DEF FrontInit, FrontInv, CacheAsKeyed, CallInv

LEMMA GivenLine ==
  ASSUME CallInv, stage # "idle"
  PROVE  given \in Seq(STRING) \ {<<>>}
BY DriverFrontAssumption DEF CallInv

\* The headers a line gets.
LEMMA HeadersBehind ==
  /\ <<"-resource-dir", "-nostdlibinc">> \o CxxHeaders \o <<"-isystem libc">>
       \in Seq(HeaderWords)
  /\ \A s \in {"none", "user", "detected"} :
       DarwinHeaders(s) \in Seq(HeaderWords)
<1>1. /\ <<"-resource-dir", "-nostdlibinc">> \in Seq(HeaderWords)
      /\ <<"-resource-dir">> \in Seq(HeaderWords)
      /\ <<"-nostdlibinc">> \in Seq(HeaderWords)
      /\ <<"-isysroot detected">> \in Seq(HeaderWords)
      /\ <<"-isystem libc">> \in Seq(HeaderWords)
      /\ <<"-nostdinc++", "-isystem c++">> \in Seq(HeaderWords)
      /\ <<>> \in Seq(HeaderWords)
  BY DEF HeaderWords
<1>2. \A c, w : w \in Seq(HeaderWords) => When(c, w) \in Seq(HeaderWords)
  BY <1>1 DEF When
<1>3. CxxHeaders \in Seq(HeaderWords)
  BY <1>1, <1>2 DEF CxxHeaders
<1>4. \A v, w \in Seq(HeaderWords) : v \o w \in Seq(HeaderWords)
  OBVIOUS
<1> QED BY <1>1, <1>2, <1>3, <1>4 DEF DarwinHeaders

\* A step to another place of the call that only adds words.
LEMMA Rewritten ==
  ASSUME FrontInv, NEW from, NEW to, NEW words, Rewrite(from, to, words)
  PROVE  /\ stage = from /\ stage' = to /\ Args' = Args \o words
         /\ CacheAsKeyed' /\ given' = given /\ sysroot' = sysroot
         /\ cxxLib' = cxxLib
         /\ parseVariant(given)' = parseVariant(given)
         /\ \A kind, V : Built(kind, V)' = Built(kind, V)
<1>1. /\ UNCHANGED <<payload, cache, given, sdk, sysroot, cxxLib>>
      /\ stage = from /\ stage' = to /\ Args' = Args \o words
  BY DEF Rewrite, Turn
<1>2. \A kind, V : Built(kind, V)' = Built(kind, V)
  BY <1>1 DEF Built
<1>3. parseVariant(given)' = parseVariant(given)
  BY <1>1
<1> QED BY <1>1, <1>2, <1>3 DEF FrontInv, CacheAsKeyed

LEMMA FrontNextInv == FrontInv /\ [FrontNext]_frontVars => FrontInv'
<1> SUFFICES ASSUME FrontInv, [FrontNext]_frontVars PROVE FrontInv'
  OBVIOUS
<1>0. CacheAsKeyed /\ CallInv
  BY DEF FrontInv
<1> USE DEF FrontInv
\* The call is over, but for its return.
<1>1. ASSUME NEW from \in {"front", "headers", "sysroot", "link"}, NEW words,
             Rewrite(from, "done", words)
      PROVE  FrontInv'
  BY <1>0, <1>1, Rewritten DEF CallInv
<1>2. ASSUME NEW line \in Lines, Call(line) PROVE FrontInv'
  BY <1>0, <1>2 DEF Call, Turn, CallInv, CacheAsKeyed
<1>3. CASE AddHeaders
  <2>1. PICK words \in Seq(HeaderWords) : Rewrite("front", "headers", words)
    BY <1>3, HeadersBehind DEF AddHeaders
  <2>2. /\ stage = "front" /\ stage' = "headers" /\ Args' = Args \o words
        /\ CacheAsKeyed' /\ given' = given /\ sysroot' = sysroot
        /\ cxxLib' = cxxLib
    BY <1>0, <2>1, Rewritten
  <2> QED BY <1>0, <2>2 DEF CallInv
<1>4. CASE AddDarwinHeaders
  <2>1. sdk' \in {"none", "user", "detected"}
    BY <1>4 DEF AddDarwinHeaders
  <2>2. PICK words \in Seq(HeaderWords) : Args' = given \o words
    BY <1>0, <1>4, <2>1, HeadersBehind DEF AddDarwinHeaders, Turn, CallInv
  <2> QED BY <1>0, <1>4, <2>2 DEF AddDarwinHeaders, Turn, CallInv, CacheAsKeyed
<1>5. CASE EnsureSysroot
  <2>1. PICK r : r = sysroot'
    OBVIOUS
  <2>2. /\ Ensure("sysroot", parseVariant(Args), r) /\ stage = "headers"
        /\ stage' = "sysroot" /\ UNCHANGED <<payload, given, Args, sdk, cxxLib>>
    BY <1>5, <2>1 DEF EnsureSysroot, Turn
  <2>3. parseVariant(Args) = parseVariant(given)
    BY <1>0, <2>2, GivenLine, LineRead DEF CallInv
  <2>4. CacheAsKeyed' /\ r \in {NoDir, Built("sysroot", parseVariant(given))}
    BY <1>0, <2>2, <2>3, Ensured
  <2>5. Built("sysroot", parseVariant(given))' = Built("sysroot", parseVariant(given))
    BY <2>2 DEF Built
  <2> QED BY <1>0, <2>1, <2>2, <2>4, <2>5 DEF CallInv
<1>6. CASE EnsureCxx
  <2>1. PICK r : r = cxxLib'
    OBVIOUS
  <2>2. /\ stage = "sysroot" /\ stage' = "link"
        /\ UNCHANGED <<payload, given, Args, sdk, sysroot>>
        /\ \/ Ensure("cxx", parseVariant(Args), r)
           \/ UNCHANGED <<cache, cxxLib>>
    BY <1>6, <2>1 DEF EnsureCxx, Turn
  <2>3. parseVariant(Args) = parseVariant(given)
    BY <1>0, <2>2, GivenLine, LineRead DEF CallInv
  <2>4. CacheAsKeyed' /\ r \in {NoDir, Built("cxx", parseVariant(given))}
    <3>1. CASE Ensure("cxx", parseVariant(Args), r)
      BY <1>0, <2>3, <3>1, Ensured
    <3>2. CASE UNCHANGED <<cache, cxxLib>>
      BY <1>0, <2>1, <2>2, <3>2 DEF CallInv, CacheAsKeyed
    <3> QED BY <2>2, <3>1, <3>2
  <2>5. \A s : Built(s, parseVariant(given))' = Built(s, parseVariant(given))
    BY <2>2 DEF Built
  <2> QED BY <1>0, <2>1, <2>2, <2>4, <2>5 DEF CallInv
<1>7. CASE Finish
  BY <1>0, <1>7 DEF Finish, Turn, CallInv, CacheAsKeyed
<1>8. CASE Upgrade
  BY <1>0, <1>8 DEF Upgrade, CallInv, CacheAsKeyed
<1>9. ASSUME NEW place \in DOMAIN cache, Forget(place) PROVE FrontInv'
  <2>1. CacheAsKeyed'
    BY <1>0, <1>9 DEF Forget, CacheAsKeyed
  <2>2. CallInv'
    BY <1>0, <1>9 DEF Forget, CallInv
  <2> QED BY <2>1, <2>2
<1>10. CASE UNCHANGED frontVars
  <2>1. CallInv'
    BY <1>0, <1>10 DEF frontVars, CallInv, Built
  <2>2. CacheAsKeyed'
    BY <1>0, <1>10 DEF frontVars, CacheAsKeyed
  <2> QED BY <2>1, <2>2
<1>11. ASSUME \/ NoFront \/ NotOurs \/ CompileOnly \/ GiveUp \/ AnswerQuery
              \/ LinkRelocatable \/ LinkMusl \/ LinkMingw \/ LinkDarwin
       PROVE  \E from \in {"front", "headers", "sysroot", "link"} :
                \E words : Rewrite(from, "done", words)
  <2>1. CASE LinkDarwin
    <3>1. \E words : Rewrite("link", "done", words)
      BY <2>1 DEF LinkDarwin
    <3> QED BY <3>1
  <2>2. CASE LinkMingw
    <3>1. \E words : Rewrite("link", "done", words)
      BY <2>2 DEF LinkMingw
    <3> QED BY <3>1
  <2>3. CASE LinkMusl
    <3>1. \E words : Rewrite("link", "done", words)
      BY <2>3 DEF LinkMusl
    <3> QED BY <3>1
  <2> QED BY <1>11, <2>1, <2>2, <2>3 DEF NoFront, NotOurs, CompileOnly, GiveUp,
        AnswerQuery, LinkRelocatable
<1> QED BY <1>1, <1>2, <1>3, <1>4, <1>5, <1>6, <1>7, <1>8, <1>9, <1>10, <1>11
        DEF FrontNext

LEMMA FrontServed == FrontInv => ServedAsAsked
<1> SUFFICES ASSUME FrontInv PROVE ServedAsAsked
  OBVIOUS
<1>0. CallInv
  BY DEF FrontInv
<1>1. ASSUME sysroot # NoDir \/ cxxLib # NoDir PROVE given \in Seq(STRING)
  BY <1>0, <1>1, GivenLine DEF CallInv
<1>2. PICK V : V = parseVariant(given)
  OBVIOUS
<1>3. V.lto \in BOOLEAN /\ V.triple = target
  BY <1>2 DEF parseVariant, target
<1>4. ASSUME given \in Seq(STRING)
      PROVE  Asked = [payload |-> payload, triple |-> V.triple, cpu |-> V.cpu,
                      fast |-> V.fast, pic |-> V.pic, lto |-> V.lto]
  BY <1>2, <1>4, VariantAsked
<1>5. ASSUME cxxLib # NoDir PROVE cxxLib = Asked
  <2>1. (V.lto /\ ("cxx" = "cxx" \/ V.triple = "musl")) = V.lto
    BY <1>3
  <2>2. Built("cxx", V) = Asked
    BY <1>1, <1>4, <1>5, <2>1 DEF Built
  <2> QED BY <1>0, <1>2, <1>5, <2>2 DEF CallInv
<1>6. ASSUME sysroot # NoDir
      PROVE  sysroot = [Asked EXCEPT !.lto = @ /\ target = "musl"]
  <2>1. (V.lto /\ ("sysroot" = "cxx" \/ V.triple = "musl"))
          = (V.lto /\ target = "musl")
    BY <1>3
  <2>2. sysroot = [payload |-> payload, triple |-> V.triple, cpu |-> V.cpu,
                   fast |-> V.fast, pic |-> V.pic,
                   lto |-> (V.lto /\ target = "musl")]
    BY <1>0, <1>2, <1>6, <2>1 DEF CallInv, Built
  <2>3. Asked = [payload |-> payload, triple |-> V.triple, cpu |-> V.cpu,
                 fast |-> V.fast, pic |-> V.pic, lto |-> V.lto]
    BY <1>1, <1>4, <1>6
  <2>4. [Asked EXCEPT !.lto = @ /\ target = "musl"]
          = [payload |-> payload, triple |-> V.triple, cpu |-> V.cpu,
             fast |-> V.fast, pic |-> V.pic, lto |-> (V.lto /\ target = "musl")]
    <3>1. PICK w : w = (V.lto /\ target = "musl")
      OBVIOUS
    <3>2. PICK asked : asked = Asked
      OBVIOUS
    <3>3. asked.lto = V.lto
      BY <2>3, <3>2
    <3>4. [asked EXCEPT !.lto = @ /\ target = "musl"] = [asked EXCEPT !.lto = w]
      BY <3>1, <3>3, Zenon
    <3>5. [asked EXCEPT !.lto = w]
            = [payload |-> payload, triple |-> V.triple, cpu |-> V.cpu,
               fast |-> V.fast, pic |-> V.pic, lto |-> w]
      BY <2>3, <3>2
    <3> QED BY <3>1, <3>2, <3>4, <3>5, Zenon
  <2> QED BY <2>2, <2>4
<1> QED BY <1>5, <1>6 DEF ServedAsAsked

\* Whatever lines came before and whatever was put in or taken out of the
\* cache, the libraries of a link were built by the payload in use for the
\* axes that this line asks for (variantHash, parseVariant, ensure*Sysroot).
THEOREM ServedAlways == FrontSpec => []ServedAsAsked
<1>1. FrontInit => FrontInv
  BY InitFront
<1>2. FrontInv /\ [FrontNext]_frontVars => FrontInv'
  BY FrontNextInv
<1> QED BY <1>1, <1>2, FrontServed, PTL DEF FrontSpec

-------------------------------------------------------------------------------
(* How a call ends, and what its line then says.                           *)

PrintFlags == {"-print-file-name", "--print-file-name"}
Query == target = "mingw" /\ Has(given, PrintFlags)

\* What the front has put behind the headers when a call is over.
Ending(words) ==
  \/ sysroot = NoDir /\ words = <<>>
  \/ /\ sysroot # NoDir
     /\ Query /\ words = <<"-B sysroot/lib", "-B sysroot/implib">>
  \/ /\ sysroot # NoDir /\ ~Query /\ isLinkStep(given)
     /\ \/ Has(given, {"-r"}) /\ words = <<"-nostdlib">> \o Lld
        \/ ~Has(given, {"-r"}) /\ target = "musl" /\ words = MuslLink(given)
        \/ ~Has(given, {"-r"}) /\ target = "mingw" /\ words = MingwLink(given)
        \/ ~Has(given, {"-r"}) /\ target = "darwin" /\ words = DarwinLink

\* A call comes to a place only when its line is of that kind.
PlaceInv ==
  /\ stage \in {"sysroot", "link"} => Query \/ isLinkStep(given)
  /\ stage = "link" => ~Query /\ ~Has(given, {"-r"}) /\ sysroot # NoDir
  /\ cxxLib # NoDir => CxxLine \/ target = "mingw"
  /\ stage = "done" =>
       \E headers \in Seq(HeaderWords) :
         \E words : Args = (given \o headers) \o words /\ Ending(words)

LEMMA PlaceInit == FrontInit => PlaceInv
BY DEF FrontInit, PlaceInv

\* What is read from the line while it has only headers behind it.
LEMMA StillRead ==
  ASSUME FrontInv, stage \in {"front", "headers", "sysroot", "link"}
  PROVE  /\ \E headers \in Seq(HeaderWords) : Args = given \o headers
         /\ parseVariant(Args) = parseVariant(given)
         /\ \A flags \in SUBSET Flags : Has(Args, flags) <=> Has(given, flags)
         /\ isLinkStep(Args) <=> isLinkStep(given)
         /\ IsQuery <=> Query
         /\ MuslLink(Args) = MuslLink(given)
         /\ MingwLink(Args) = MingwLink(given)
<1>1. /\ given \in Seq(STRING) \ {<<>>}
      /\ \E headers \in Seq(HeaderWords) : Args = given \o headers
  <2>1. given \in Seq(STRING) \ {<<>>}
    BY GivenLine DEF FrontInv
  <2>2. CASE stage = "front"
    <3>1. <<>> \in Seq(HeaderWords) /\ given \o <<>> = given
      BY <2>1
    <3> QED BY <2>1, <2>2, <3>1 DEF FrontInv, CallInv
  <2> QED BY <2>1, <2>2 DEF FrontInv, CallInv
<1>2. /\ parseVariant(Args) = parseVariant(given)
      /\ \A flags \in SUBSET Flags : Has(Args, flags) <=> Has(given, flags)
  BY <1>1, LineRead
<1>3. \A flags \in SUBSET Flags : Has(Args, flags) = Has(given, flags)
  BY <1>2 DEF Has
<1>4. /\ CompileFlags \cup QueryFlags \in SUBSET Flags
      /\ PrintFlags \in SUBSET Flags
      /\ {"-nostdlib", "-nostartfiles"} \in SUBSET Flags
      /\ {"-nostdlib", "-nodefaultlibs"} \in SUBSET Flags
      /\ {"-shared"} \in SUBSET Flags /\ {"-municode"} \in SUBSET Flags
  BY DEF Flags, PrintFlags, QueryFlags
<1>5. isLinkStep(Args) <=> isLinkStep(given)
  BY <1>2, <1>4 DEF isLinkStep
<1>6. IsQuery <=> Query
  BY <1>2, <1>4 DEF IsQuery, Query, PrintFlags, isPrintPathQuery
<1>7. MuslLink(Args) = MuslLink(given)
  BY <1>2 DEF MuslLink
<1>8. /\ userNoStartFiles(Args) = userNoStartFiles(given)
      /\ userNoDefaultLibs(Args) = userNoDefaultLibs(given)
      /\ mingwStartupObj(Args) = mingwStartupObj(given)
  <2>1. /\ Has(Args, {"-nostdlib", "-nostartfiles"})
             = Has(given, {"-nostdlib", "-nostartfiles"})
        /\ Has(Args, {"-nostdlib", "-nodefaultlibs"})
             = Has(given, {"-nostdlib", "-nodefaultlibs"})
        /\ Has(Args, {"-shared"}) = Has(given, {"-shared"})
        /\ Has(Args, {"-municode"}) = Has(given, {"-municode"})
    BY <1>3, <1>4
  <2> QED BY <2>1, Zenon DEF userNoStartFiles, userNoDefaultLibs, mingwStartupObj
<1>9. MingwLink(Args) = MingwLink(given)
  BY <1>8, Zenon DEF MingwLink, Startup, MingwLibs
<1> QED BY <1>1, <1>2, <1>5, <1>6, <1>7, <1>9

\* A step that ends a call keeps everything but the line.
LEMMA PlaceEnded ==
  ASSUME FrontInv, PlaceInv, NEW from \in {"front", "headers", "sysroot", "link"},
         NEW words, Rewrite(from, "done", words), Ending(words)
  PROVE  PlaceInv'
<1>1. /\ UNCHANGED <<payload, cache, given, sdk, sysroot, cxxLib>>
      /\ stage = from /\ stage' = "done" /\ Args' = Args \o words
  BY DEF Rewrite, Turn
<1>2. PICK headers \in Seq(HeaderWords) : Args = given \o headers
  BY <1>1, StillRead
<1>3. target' = target /\ CxxLine' = CxxLine /\ Query' = Query
  BY <1>1 DEF target, CxxLine, Query
<1>4. Ending(words)'
  <2>1. /\ MuslLink(given)' = MuslLink(given)
        /\ MingwLink(given)' = MingwLink(given)
        /\ DarwinLink' = DarwinLink
    BY <1>1, <1>3 DEF MuslLink, MingwLink, DarwinLink, LibDirs, HasCxx, Group,
       Startup, MingwLibs
  <2> QED BY <1>1, <1>3, <2>1 DEF Ending
<1>5. Args' = (given' \o headers) \o words
  BY <1>1, <1>2
<1> QED BY <1>1, <1>3, <1>4, <1>5 DEF PlaceInv

LEMMA PlaceNext == FrontInv /\ PlaceInv /\ [FrontNext]_frontVars => PlaceInv'
<1> SUFFICES ASSUME FrontInv, PlaceInv, [FrontNext]_frontVars PROVE PlaceInv'
  OBVIOUS
<1>0. CallInv
  BY DEF FrontInv
<1>1. CASE NoFront \/ NotOurs \/ CompileOnly \/ GiveUp
  <2>1. PICK from \in {"front", "headers", "sysroot"} :
          /\ Rewrite(from, "done", <<>>)
          /\ from = "sysroot" => sysroot = NoDir
    BY <1>1 DEF NoFront, NotOurs, CompileOnly, GiveUp
  <2>2. sysroot = NoDir
    BY <1>0, <2>1 DEF CallInv, Rewrite, Turn
  <2> QED BY <2>1, <2>2, PlaceEnded DEF Ending
<1>2. CASE AnswerQuery
  <2>1. PICK words : words = <<"-B sysroot/lib", "-B sysroot/implib">>
    OBVIOUS
  <2>2. Rewrite("sysroot", "done", words) /\ sysroot # NoDir /\ IsQuery
    BY <1>2, <2>1 DEF AnswerQuery
  <2>3. Query
    BY <2>2, StillRead DEF Rewrite, Turn
  <2>4. Ending(words)
    BY <2>1, <2>2, <2>3 DEF Ending
  <2> QED BY <2>2, <2>4, PlaceEnded
<1>3. CASE LinkRelocatable
  <2>1. PICK words : words = <<"-nostdlib">> \o Lld
    OBVIOUS
  <2>2. /\ Rewrite("sysroot", "done", words) /\ sysroot # NoDir /\ ~IsQuery
        /\ Has(Args, {"-r"}) /\ stage = "sysroot"
    BY <1>3, <2>1 DEF LinkRelocatable, isRelocatableLink, Rewrite, Turn
  <2>3. {"-r"} \in SUBSET Flags
    BY DEF Flags
  <2>4. ~Query /\ Has(given, {"-r"}) /\ isLinkStep(given)
    BY <2>2, <2>3, StillRead DEF PlaceInv
  <2>5. Ending(words)
    BY <2>1, <2>2, <2>4 DEF Ending
  <2> QED BY <2>2, <2>5, PlaceEnded
<1>4. ASSUME stage = "link"
      PROVE  sysroot # NoDir /\ ~Query /\ isLinkStep(given) /\ ~Has(given, {"-r"})
  BY <1>4 DEF PlaceInv
<1>5. CASE LinkMusl
  <2>1. PICK words : words = MuslLink(Args)
    OBVIOUS
  <2>2. Rewrite("link", "done", words) /\ target = "musl" /\ stage = "link"
    BY <1>5, <2>1 DEF LinkMusl, Rewrite, Turn
  <2>3. words = MuslLink(given)
    BY <2>1, <2>2, StillRead
  <2>4. Ending(words)
    BY <1>4, <2>2, <2>3 DEF Ending
  <2> QED BY <2>2, <2>4, PlaceEnded
<1>6. CASE LinkMingw
  <2>1. PICK words : words = MingwLink(Args)
    OBVIOUS
  <2>2. Rewrite("link", "done", words) /\ target = "mingw" /\ stage = "link"
    BY <1>6, <2>1 DEF LinkMingw, Rewrite, Turn
  <2>3. words = MingwLink(given)
    BY <2>1, <2>2, StillRead
  <2>4. Ending(words)
    BY <1>4, <2>2, <2>3 DEF Ending
  <2> QED BY <2>2, <2>4, PlaceEnded
<1>7. CASE LinkDarwin
  <2>1. PICK words : words = DarwinLink
    OBVIOUS
  <2>2. Rewrite("link", "done", words) /\ target = "darwin" /\ stage = "link"
    BY <1>7, <2>1 DEF LinkDarwin, Rewrite, Turn
  <2>3. Ending(words)
    BY <1>4, <2>1, <2>2 DEF Ending
  <2> QED BY <2>2, <2>3, PlaceEnded
\* Steps to the libraries.
<1>8. CASE EnsureSysroot
  <2>1. /\ stage = "headers" /\ stage' = "sysroot"
        /\ UNCHANGED <<payload, given, Args, sdk, cxxLib>>
        /\ IsQuery \/ isLinkStep(Args)
    BY <1>8 DEF EnsureSysroot, Turn
  <2>2. Query \/ isLinkStep(given)
    BY <2>1, StillRead
  <2>3. cxxLib = NoDir
    BY <1>0, <2>1 DEF CallInv
  <2> QED BY <2>1, <2>2, <2>3 DEF PlaceInv, Query, target, isLinkStep
<1>9. CASE EnsureCxx
  <2>1. /\ stage = "sysroot" /\ stage' = "link"
        /\ UNCHANGED <<payload, given, Args, sdk, sysroot>>
        /\ sysroot # NoDir /\ ~IsQuery /\ ~Has(Args, {"-r"})
        /\ CxxLine \/ target = "mingw" \/ UNCHANGED <<cache, cxxLib>>
    BY <1>9 DEF EnsureCxx, Turn, isRelocatableLink
  <2>2. {"-r"} \in SUBSET Flags
    BY DEF Flags
  <2>3. ~Query /\ ~Has(given, {"-r"}) /\ isLinkStep(given)
    BY <2>1, <2>2, StillRead DEF PlaceInv
  <2>4. cxxLib = NoDir
    BY <1>0, <2>1 DEF CallInv
  <2>5. cxxLib' # NoDir => CxxLine \/ target = "mingw"
    BY <2>1, <2>4
  <2>6. target' = target /\ CxxLine' = CxxLine /\ Query' = Query
    BY <2>1 DEF target, CxxLine, Query
  <2> QED BY <2>1, <2>3, <2>5, <2>6 DEF PlaceInv
<1>10. CASE \/ AddHeaders \/ AddDarwinHeaders
            \/ Finish \/ \E line \in Lines : Call(line)
  <2>1. stage' \in {"headers", "idle", "front"} /\ cxxLib' = NoDir
    <3>1. CASE AddHeaders
      BY <1>0, <3>1 DEF AddHeaders, Rewrite, Turn, CallInv
    <3>2. CASE AddDarwinHeaders
      BY <1>0, <3>2 DEF AddDarwinHeaders, Turn, CallInv
    <3>3. CASE Finish
      BY <3>3 DEF Finish, Turn
    <3>4. CASE \E line \in Lines : Call(line)
      BY <1>0, <3>4 DEF Call, Turn, CallInv
    <3> QED BY <1>10, <3>1, <3>2, <3>3, <3>4
  <2> QED BY <2>1 DEF PlaceInv
<1>11. CASE Upgrade \/ \E place \in DOMAIN cache : Forget(place)
  <2>1. stage = "idle" /\ UNCHANGED <<stage, cxxLib>>
    BY <1>11 DEF Upgrade, Forget
  <2>2. cxxLib = NoDir
    BY <1>0, <2>1 DEF CallInv
  <2> QED BY <2>1, <2>2 DEF PlaceInv
<1>12. CASE UNCHANGED frontVars
  <2>1. UNCHANGED <<given, Args, sdk, sysroot, cxxLib, stage>>
    BY <1>12 DEF frontVars
  <2>2. target' = target /\ CxxLine' = CxxLine /\ Query' = Query
    BY <2>1 DEF target, CxxLine, Query
  <2>3. \A words : Ending(words)' <=> Ending(words)
    BY <2>1, <2>2 DEF Ending, MuslLink, MingwLink, DarwinLink, LibDirs, HasCxx,
       Group, Startup, MingwLibs
  <2> QED BY <2>1, <2>2, <2>3 DEF PlaceInv
<1> QED BY <1>1, <1>2, <1>3, <1>5, <1>6, <1>7, <1>8, <1>9, <1>10, <1>11, <1>12
        DEF FrontNext

\* The words of a piece of a line.
WordsOf(u) == {u[i] : i \in DOMAIN u}

LEMMA Joined ==
  ASSUME NEW S, NEW u \in Seq(S), NEW w \in Seq(S)
  PROVE  u \o w \in Seq(S) /\ WordsOf(u \o w) = WordsOf(u) \cup WordsOf(w)
<1> DEFINE all == u \o w
           n == Len(u)
<1>1. /\ all \in Seq(S) /\ n \in Nat /\ Len(w) \in Nat /\ Len(all) = n + Len(w)
      /\ DOMAIN all = 1 .. n + Len(w) /\ DOMAIN u = 1 .. n /\ DOMAIN w = 1 .. Len(w)
      /\ \A i \in 1 .. n : all[i] = u[i]
      /\ \A i \in 1 .. Len(w) : all[n + i] = w[i]
  OBVIOUS
<1> HIDE DEF all, n
<1>2. WordsOf(all) \subseteq WordsOf(u) \cup WordsOf(w)
  <2> SUFFICES ASSUME NEW i \in DOMAIN all
               PROVE  all[i] \in WordsOf(u) \cup WordsOf(w)
    BY DEF WordsOf
  <2>1. CASE i \in 1 .. n
    BY <1>1, <2>1 DEF WordsOf
  <2>2. CASE i \notin 1 .. n
    <3>1. i - n \in 1 .. Len(w) /\ n + (i - n) = i
      BY <1>1, <2>2
    <3>2. all[i] = w[i - n]
      BY <1>1, <3>1
    <3> QED BY <1>1, <3>1, <3>2 DEF WordsOf
  <2> QED BY <2>1, <2>2
<1>3. WordsOf(u) \subseteq WordsOf(all)
  BY <1>1 DEF WordsOf
<1>4. WordsOf(w) \subseteq WordsOf(all)
  <2> SUFFICES ASSUME NEW i \in DOMAIN w PROVE w[i] \in WordsOf(all)
    BY DEF WordsOf
  <2>1. n + i \in DOMAIN all /\ all[n + i] = w[i]
    BY <1>1
  <2> QED BY <2>1 DEF WordsOf
<1> QED BY <1>1, <1>2, <1>3, <1>4 DEF all

\* What the front may put behind its headers.
FrontWords ==
  {"-static-pie", "-static", "-nostdlib", "rcrt1.o", "crt1.o", "crt2.o",
   "crt2u.o", "dllcrt2.o", "-L sysroot", "-L cxx", "-L implib", "--start-group",
   "-lc++", "-lc++abi", "-lunwind", "-lc", "-lmingw32", "-lucrt",
   "-lclang_rt.builtins", "--end-group", "-fuse-ld=lld", "-B sysroot/bin",
   "-B sysroot/lib", "-B sysroot/implib", "-isysroot detected",
   "-isysroot sysroot", "-L sysroot/usr", "-L sdk/usr", "-F sdk",
   "-search_paths_first", "-lSystem"}

LEMMA FewWords ==
  /\ <<>> \in Seq(FrontWords)
  /\ \A a \in FrontWords : <<a>> \in Seq(FrontWords)
  /\ \A a, b \in FrontWords : <<a, b>> \in Seq(FrontWords)
  /\ \A a, b, c \in FrontWords : <<a, b, c>> \in Seq(FrontWords)
OBVIOUS

LEMMA JoinedWords ==
  \A u, w \in Seq(FrontWords) :
    u \o w \in Seq(FrontWords) /\ WordsOf(u \o w) = WordsOf(u) \cup WordsOf(w)
<1> TAKE u, w \in Seq(FrontWords)
<1> QED BY Joined

LEMMA WordsIf ==
  ASSUME NEW u \in Seq(FrontWords), NEW c
  PROVE  /\ When(c, u) \in Seq(FrontWords)
         /\ WordsOf(When(c, u)) = IF c THEN WordsOf(u) ELSE {}
<1>1. <<>> \in Seq(FrontWords) /\ WordsOf(<<>>) = {}
  BY DEF WordsOf
<1>2. CASE c
  BY <1>2 DEF When
<1>3. CASE ~c
  BY <1>1, <1>3 DEF When
<1> QED BY <1>2, <1>3

\* What the front has added to the line, when a call is over.
LEMMA Added ==
  ASSUME NEW S, given \in Seq(S), NEW u \in Seq(S), Args = given \o u
  PROVE  AddedWords = WordsOf(u) /\ IsPrefix(given, Args)
<1> DEFINE n == Len(given)
<1>1. /\ Args \in Seq(S) /\ n \in Nat /\ Len(u) \in Nat /\ Len(Args) = n + Len(u)
      /\ DOMAIN u = 1 .. Len(u)
      /\ \A i \in 1 .. n : Args[i] = given[i]
      /\ \A i \in 1 .. Len(u) : Args[n + i] = u[i]
  OBVIOUS
<1>2. IsPrefix(given, Args)
  BY <1>1 DEF IsPrefix
<1> HIDE DEF n
<1>3. AddedWords \subseteq WordsOf(u)
  <2> SUFFICES ASSUME NEW i \in n + 1 .. n + Len(u) PROVE Args[i] \in WordsOf(u)
    BY <1>1 DEF AddedWords, n
  <2>1. i - n \in 1 .. Len(u) /\ n + (i - n) = i
    BY <1>1
  <2>2. Args[i] = u[i - n]
    BY <1>1, <2>1
  <2> QED BY <1>1, <2>1, <2>2 DEF WordsOf
<1>4. WordsOf(u) \subseteq AddedWords
  <2> SUFFICES ASSUME NEW i \in 1 .. Len(u) PROVE u[i] \in AddedWords
    BY <1>1 DEF WordsOf
  <2>1. n + i \in n + 1 .. Len(Args) /\ Args[n + i] = u[i]
    BY <1>1
  <2> QED BY <2>1 DEF AddedWords, n
<1> QED BY <1>2, <1>3, <1>4

\* What of a piece of a line the matching of a link looks at.
Shows(words, objects, pie, builtins, cxx, lld) ==
  /\ StartupObjects \cap words = objects
  /\ "-static-pie" \in words <=> pie
  /\ "-lclang_rt.builtins" \in words <=> builtins
  /\ CxxLibs \cap words = (IF cxx THEN CxxLibs ELSE {})
  /\ "-fuse-ld=lld" \in words <=> lld
  /\ PrintFlags \cap words = {}

LEMMA HeadersShow ==
  ASSUME NEW W, NEW H, H \subseteq HeaderWords,
         NEW objects, NEW pie, NEW builtins, NEW cxx, NEW lld,
         Shows(W, objects, pie, builtins, cxx, lld)
  PROVE  Shows(H \cup W, objects, pie, builtins, cxx, lld)
<1>1. /\ StartupObjects \cap HeaderWords = {} /\ CxxLibs \cap HeaderWords = {}
      /\ PrintFlags \cap HeaderWords = {} /\ "-static-pie" \notin HeaderWords
      /\ "-lclang_rt.builtins" \notin HeaderWords /\ "-fuse-ld=lld" \notin HeaderWords
  BY DEF StartupObjects, CxxLibs, PrintFlags, HeaderWords
<1>2. StartupObjects \cap (H \cup W) = StartupObjects \cap W
  BY <1>1
<1>3. CxxLibs \cap (H \cup W) = CxxLibs \cap W
  BY <1>1
<1>4. PrintFlags \cap (H \cup W) = PrintFlags \cap W
  BY <1>1
<1> QED BY <1>1, <1>2, <1>3, <1>4 DEF Shows

\* The words of the short pieces.
LEMMA WordsOfFew ==
  /\ WordsOf(<<>>) = {}
  /\ \A a : WordsOf(<<a>>) = {a}
  /\ \A a, b : WordsOf(<<a, b>>) = {a, b}
  /\ \A a, b, c : WordsOf(<<a, b, c>>) = {a, b, c}
<1>1. WordsOf(<<>>) = {}
  BY DEF WordsOf
<1>2. \A a : WordsOf(<<a>>) = {a}
  BY DEF WordsOf
<1>3. \A a, b : WordsOf(<<a, b>>) = {a, b}
  BY DEF WordsOf
<1>4. \A a, b, c : WordsOf(<<a, b, c>>) = {a, b, c}
  BY DEF WordsOf
<1> QED BY <1>1, <1>2, <1>3, <1>4

\* Pieces that several links share.
CxxWords == {"-lc++", "-lc++abi", "-lunwind"}
LldWords == {"-fuse-ld=lld", "-B sysroot/bin"}

LEMMA PiecesAre ==
  /\ Lld \in Seq(FrontWords) /\ WordsOf(Lld) = LldWords
  /\ LibDirs \in Seq(FrontWords)
  /\ WordsOf(LibDirs) = {"-L sysroot"} \cup (IF HasCxx THEN {"-L cxx"} ELSE {})
  /\ \A cxx \in BOOLEAN, one \in FrontWords :
       /\ Group(cxx, <<one>>) \in Seq(FrontWords)
       /\ WordsOf(Group(cxx, <<one>>))
            = {"--start-group", "-lclang_rt.builtins", "--end-group", one}
              \cup (IF cxx THEN CxxWords ELSE {})
<1>1. Lld \in Seq(FrontWords) /\ WordsOf(Lld) = LldWords
  <2>1. <<"-fuse-ld=lld", "-B sysroot/bin">> \in Seq(FrontWords)
    <3>1. {"-fuse-ld=lld", "-B sysroot/bin"} \subseteq FrontWords
      BY DEF FrontWords
    <3> QED BY <3>1, FewWords
  <2> QED BY <2>1, WordsOfFew DEF Lld, LldWords
<1>2. /\ LibDirs \in Seq(FrontWords)
      /\ WordsOf(LibDirs) = {"-L sysroot"} \cup (IF HasCxx THEN {"-L cxx"} ELSE {})
  <2>1. <<"-L sysroot">> \in Seq(FrontWords) /\ <<"-L cxx">> \in Seq(FrontWords)
    <3>1. {"-L sysroot", "-L cxx"} \subseteq FrontWords
      BY DEF FrontWords
    <3> QED BY <3>1, FewWords
  <2>. PICK u : u = <<"-L sysroot">>
    OBVIOUS
  <2>. PICK w : w = When(HasCxx, <<"-L cxx">>)
    OBVIOUS
  <2>3. /\ u \in Seq(FrontWords) /\ w \in Seq(FrontWords) /\ WordsOf(u) = {"-L sysroot"}
        /\ WordsOf(w) = IF HasCxx THEN {"-L cxx"} ELSE {}
    BY <2>1, WordsIf, WordsOfFew
  <2>4. LibDirs = u \o w
    BY DEF LibDirs
  <2>5. LibDirs \in Seq(FrontWords) /\ WordsOf(LibDirs) = WordsOf(u) \cup WordsOf(w)
    BY <2>3, <2>4, JoinedWords
  <2> QED BY <2>3, <2>5, Zenon
<1>3. ASSUME NEW cxx \in BOOLEAN, NEW one \in FrontWords
      PROVE  /\ Group(cxx, <<one>>) \in Seq(FrontWords)
             /\ WordsOf(Group(cxx, <<one>>))
                  = {"--start-group", "-lclang_rt.builtins", "--end-group", one}
                    \cup (IF cxx THEN CxxWords ELSE {})
  <2>1. /\ <<"--start-group">> \in Seq(FrontWords) /\ <<one>> \in Seq(FrontWords)
        /\ <<"-lc++", "-lc++abi", "-lunwind">> \in Seq(FrontWords)
        /\ <<"-lclang_rt.builtins", "--end-group">> \in Seq(FrontWords)
    <3>1. /\ "--start-group" \in FrontWords /\ "-lc++" \in FrontWords
          /\ "-lc++abi" \in FrontWords /\ "-lunwind" \in FrontWords
          /\ "-lclang_rt.builtins" \in FrontWords /\ "--end-group" \in FrontWords
      BY DEF FrontWords
    <3> QED BY <3>1, FewWords
  <2>. PICK a : a = <<"--start-group">>
    OBVIOUS
  <2>. PICK b : b = When(cxx, <<"-lc++", "-lc++abi", "-lunwind">>)
    OBVIOUS
  <2>. PICK c : c = <<one>>
    OBVIOUS
  <2>. PICK d : d = <<"-lclang_rt.builtins", "--end-group">>
    OBVIOUS
  <2>3. /\ a \in Seq(FrontWords) /\ b \in Seq(FrontWords) /\ c \in Seq(FrontWords)
        /\ d \in Seq(FrontWords)
        /\ WordsOf(a) = {"--start-group"} /\ WordsOf(c) = {one}
        /\ WordsOf(b) = IF cxx THEN CxxWords ELSE {}
        /\ WordsOf(d) = {"-lclang_rt.builtins", "--end-group"}
    <3>1. WordsOf(<<"-lc++", "-lc++abi", "-lunwind">>) = CxxWords
      BY WordsOfFew DEF CxxWords
    <3>2. b \in Seq(FrontWords) /\ WordsOf(b) = IF cxx THEN CxxWords ELSE {}
      BY <2>1, <3>1, WordsIf, Zenon
    <3>3. /\ WordsOf(a) = {"--start-group"} /\ WordsOf(c) = {one}
          /\ WordsOf(d) = {"-lclang_rt.builtins", "--end-group"}
      BY WordsOfFew
    <3> QED BY <2>1, <3>2, <3>3
  <2>4. a \o b \in Seq(FrontWords) /\ WordsOf(a \o b) = WordsOf(a) \cup WordsOf(b)
    BY <2>3, JoinedWords
  <2>5. /\ (a \o b) \o c \in Seq(FrontWords)
        /\ WordsOf((a \o b) \o c) = WordsOf(a \o b) \cup WordsOf(c)
    BY <2>3, <2>4, JoinedWords
  <2>6. /\ ((a \o b) \o c) \o d \in Seq(FrontWords)
        /\ WordsOf(((a \o b) \o c) \o d) = WordsOf((a \o b) \o c) \cup WordsOf(d)
    BY <2>3, <2>5, JoinedWords
  <2>7. Group(cxx, <<one>>) = ((a \o b) \o c) \o d
    BY DEF Group
  <2>8. WordsOf(Group(cxx, <<one>>))
          = {"--start-group"} \cup (IF cxx THEN CxxWords ELSE {}) \cup {one}
            \cup {"-lclang_rt.builtins", "--end-group"}
    BY <2>3, <2>4, <2>5, <2>6, <2>7
  <2> QED BY <2>6, <2>7, <2>8
<1> QED BY <1>1, <1>2, <1>3

LEMMA MuslShows ==
  LET pie == parseVariant(given).pie
      W   == WordsOf(MuslLink(given))
  IN  /\ MuslLink(given) \in Seq(FrontWords)
      /\ Shows(W, {IF pie THEN "rcrt1.o" ELSE "crt1.o"}, pie, TRUE, HasCxx, TRUE)
<1>. PICK pie : pie = parseVariant(given).pie
  OBVIOUS
<1>. PICK a : a = IF pie THEN <<"-static-pie", "-nostdlib", "rcrt1.o">>
                         ELSE <<"-static", "-nostdlib", "crt1.o">>
  OBVIOUS
<1>. PICK b : b = LibDirs
  OBVIOUS
<1>. PICK c : c = Group(HasCxx, <<"-lc">>)
  OBVIOUS
<1>1. /\ a \in Seq(FrontWords)
      /\ WordsOf(a) = IF pie THEN {"-static-pie", "-nostdlib", "rcrt1.o"}
                             ELSE {"-static", "-nostdlib", "crt1.o"}
  <2>1. /\ "-static-pie" \in FrontWords /\ "-nostdlib" \in FrontWords
        /\ "rcrt1.o" \in FrontWords /\ "-static" \in FrontWords
        /\ "crt1.o" \in FrontWords
    BY DEF FrontWords
  <2>2. CASE pie
    BY <2>1, <2>2, FewWords, WordsOfFew
  <2>3. CASE ~pie
    BY <2>1, <2>3, FewWords, WordsOfFew
  <2> QED BY <2>2, <2>3
<1>2. /\ b \in Seq(FrontWords)
      /\ WordsOf(b) = {"-L sysroot"} \cup (IF HasCxx THEN {"-L cxx"} ELSE {})
  BY PiecesAre
<1>3. /\ c \in Seq(FrontWords)
      /\ WordsOf(c) = {"--start-group", "-lclang_rt.builtins", "--end-group", "-lc"}
                        \cup (IF HasCxx THEN CxxWords ELSE {})
  <2>1. "-lc" \in FrontWords /\ HasCxx \in BOOLEAN
    BY DEF FrontWords, HasCxx
  <2> QED BY <2>1, PiecesAre
<1>4. a \o b \in Seq(FrontWords) /\ WordsOf(a \o b) = WordsOf(a) \cup WordsOf(b)
  BY <1>1, <1>2, JoinedWords
<1>5. /\ (a \o b) \o c \in Seq(FrontWords)
      /\ WordsOf((a \o b) \o c) = WordsOf(a \o b) \cup WordsOf(c)
  BY <1>3, <1>4, JoinedWords
<1>6. /\ ((a \o b) \o c) \o Lld \in Seq(FrontWords)
      /\ WordsOf(((a \o b) \o c) \o Lld) = WordsOf((a \o b) \o c) \cup LldWords
  BY <1>5, JoinedWords, PiecesAre
<1>7. MuslLink(given) = ((a \o b) \o c) \o Lld
  BY DEF MuslLink
<1>. PICK W : W = WordsOf(MuslLink(given))
  OBVIOUS
<1>8. W = ((WordsOf(a) \cup WordsOf(b)) \cup WordsOf(c)) \cup LldWords
  BY <1>4, <1>5, <1>6, <1>7
<1>9. Shows(W, {IF pie THEN "rcrt1.o" ELSE "crt1.o"}, pie, TRUE, HasCxx, TRUE)
  <2>1. CASE pie /\ HasCxx
    BY <1>1, <1>2, <1>3, <1>8, <2>1
       DEF Shows, StartupObjects, CxxLibs, PrintFlags, CxxWords, LldWords
  <2>2. CASE pie /\ ~HasCxx
    BY <1>1, <1>2, <1>3, <1>8, <2>2
       DEF Shows, StartupObjects, CxxLibs, PrintFlags, CxxWords, LldWords
  <2>3. CASE ~pie /\ HasCxx
    BY <1>1, <1>2, <1>3, <1>8, <2>3
       DEF Shows, StartupObjects, CxxLibs, PrintFlags, CxxWords, LldWords
  <2>4. CASE ~pie /\ ~HasCxx
    BY <1>1, <1>2, <1>3, <1>8, <2>4
       DEF Shows, StartupObjects, CxxLibs, PrintFlags, CxxWords, LldWords
  <2> QED BY <2>1, <2>2, <2>3, <2>4
<1> QED BY <1>6, <1>7, <1>9

LEMMA MingwShows ==
  LET start == ~userNoStartFiles(given)
      libs  == ~userNoDefaultLibs(given)
      W     == WordsOf(MingwLink(given))
  IN  /\ MingwLink(given) \in Seq(FrontWords)
      /\ Shows(W, IF start THEN {mingwStartupObj(given)} ELSE {}, FALSE, libs,
               libs /\ CxxLine /\ HasCxx, TRUE)
<1>p1. PICK start \in BOOLEAN : start = ~userNoStartFiles(given)
  OBVIOUS
<1>p2. PICK libs \in BOOLEAN : libs = ~userNoDefaultLibs(given)
  OBVIOUS
<1>p3. PICK cxx \in BOOLEAN : cxx = (CxxLine /\ HasCxx)
  OBVIOUS
<1>p4. PICK obj : obj = mingwStartupObj(given)
  OBVIOUS
<1>p5. PICK a : a = <<"-nostdlib">>
  OBVIOUS
<1>p6. PICK b : b = Startup(given)
  OBVIOUS
<1>p7. PICK c : c = <<"-L implib">>
  OBVIOUS
<1>p8. PICK d : d = MingwLibs(given)
  OBVIOUS
<1>p9. PICK e : e = LibDirs
  OBVIOUS
<1>0. /\ "-nostdlib" \in FrontWords /\ "-L implib" \in FrontWords
      /\ "-lmingw32" \in FrontWords /\ "-lucrt" \in FrontWords
      /\ obj \in FrontWords /\ obj \in {"dllcrt2.o", "crt2u.o", "crt2.o"}
  BY <1>p4 DEF FrontWords, mingwStartupObj
<1>1. a \in Seq(FrontWords) /\ WordsOf(a) = {"-nostdlib"}
  BY <1>0, <1>p5, FewWords, WordsOfFew
<1>2. b \in Seq(FrontWords) /\ WordsOf(b) = IF start THEN {obj} ELSE {}
  <2>1. <<obj>> \in Seq(FrontWords) /\ WordsOf(<<obj>>) = {obj}
    BY <1>0, FewWords, WordsOfFew
  <2>2. b = When(start, <<obj>>)
    BY <1>p1, <1>p4, <1>p6 DEF Startup
  <2>3. CASE start
    BY <2>1, <2>2, <2>3 DEF When
  <2>4. CASE ~start
    BY <2>2, <2>4, FewWords, WordsOfFew DEF When
  <2> QED BY <2>3, <2>4
<1>3. c \in Seq(FrontWords) /\ WordsOf(c) = {"-L implib"}
  BY <1>0, <1>p7, FewWords, WordsOfFew
<1>4. /\ d \in Seq(FrontWords)
      /\ WordsOf(d) = IF libs THEN {"--start-group", "-lclang_rt.builtins",
                                    "--end-group", "-lmingw32", "-lucrt"}
                                     \cup (IF cxx THEN CxxWords ELSE {})
                      ELSE {}
  <2>. PICK g : g = Group(cxx, <<"-lmingw32">>)
    OBVIOUS
  <2>. PICK u : u = <<"-lucrt">>
    OBVIOUS
  <2>1. /\ g \in Seq(FrontWords)
        /\ WordsOf(g) = {"--start-group", "-lclang_rt.builtins", "--end-group",
                         "-lmingw32"} \cup (IF cxx THEN CxxWords ELSE {})
    BY <1>0, PiecesAre
  <2>2. u \in Seq(FrontWords) /\ WordsOf(u) = {"-lucrt"}
    BY <1>0, FewWords, WordsOfFew
  <2>3. g \o u \in Seq(FrontWords) /\ WordsOf(g \o u) = WordsOf(g) \cup WordsOf(u)
    BY <2>1, <2>2, JoinedWords
  <2>4. d = When(libs, g \o u)
    BY <1>p2, <1>p3, <1>p8 DEF MingwLibs
  <2>5. /\ d \in Seq(FrontWords)
        /\ WordsOf(d) = IF libs THEN WordsOf(g \o u) ELSE {}
    <3>1. CASE libs
      BY <2>3, <2>4, <3>1 DEF When
    <3>2. CASE ~libs
      BY <2>4, <3>2, FewWords, WordsOfFew DEF When
    <3> QED BY <3>1, <3>2
  <2>6. WordsOf(g \o u) = {"--start-group", "-lclang_rt.builtins",
                           "--end-group", "-lmingw32", "-lucrt"}
                            \cup (IF cxx THEN CxxWords ELSE {})
    BY <2>1, <2>2, <2>3
  <2> QED BY <2>5, <2>6, Zenon
<1>5. /\ e \in Seq(FrontWords)
      /\ WordsOf(e) = {"-L sysroot"} \cup (IF HasCxx THEN {"-L cxx"} ELSE {})
  BY <1>p9, PiecesAre
<1>6. a \o b \in Seq(FrontWords) /\ WordsOf(a \o b) = WordsOf(a) \cup WordsOf(b)
  BY <1>1, <1>2, JoinedWords
<1>7. /\ (a \o b) \o e \in Seq(FrontWords)
      /\ WordsOf((a \o b) \o e) = WordsOf(a \o b) \cup WordsOf(e)
  BY <1>5, <1>6, JoinedWords
<1>8. /\ ((a \o b) \o e) \o c \in Seq(FrontWords)
      /\ WordsOf(((a \o b) \o e) \o c) = WordsOf((a \o b) \o e) \cup WordsOf(c)
  BY <1>3, <1>7, JoinedWords
<1>p10. PICK f : f = ((a \o b) \o e) \o c
  OBVIOUS
<1>9. f \o d \in Seq(FrontWords) /\ WordsOf(f \o d) = WordsOf(f) \cup WordsOf(d)
  BY <1>4, <1>8, <1>p10, JoinedWords
<1>10. /\ (f \o d) \o Lld \in Seq(FrontWords)
       /\ WordsOf((f \o d) \o Lld) = WordsOf(f \o d) \cup LldWords
  BY <1>9, JoinedWords, PiecesAre
<1>11. MingwLink(given) = (f \o d) \o Lld
  BY <1>p5, <1>p6, <1>p7, <1>p8, <1>p9, <1>p10 DEF MingwLink
<1>p11. PICK W : W = WordsOf(MingwLink(given))
  OBVIOUS
<1>12. W = ((((WordsOf(a) \cup WordsOf(b)) \cup WordsOf(e)) \cup WordsOf(c))
             \cup WordsOf(d)) \cup LldWords
  BY <1>6, <1>7, <1>8, <1>9, <1>10, <1>11, <1>p10, <1>p11
<1>13. Shows(W, IF start THEN {obj} ELSE {}, FALSE, libs, libs /\ cxx, TRUE)
  <2>1. StartupObjects \cap W = IF start THEN {obj} ELSE {}
    <3>1. StartupObjects \cap W = StartupObjects \cap WordsOf(b)
      BY <1>1, <1>3, <1>4, <1>5, <1>12 DEF StartupObjects, CxxWords, LldWords
    <3>2. {obj} \subseteq StartupObjects
      BY <1>0 DEF StartupObjects
    <3> QED BY <1>2, <3>1, <3>2
  <2>2. "-static-pie" \notin W /\ "-fuse-ld=lld" \in W /\ PrintFlags \cap W = {}
    <3>1. /\ WordsOf(b) \subseteq {"dllcrt2.o", "crt2u.o", "crt2.o"}
          /\ WordsOf(e) \subseteq {"-L sysroot", "-L cxx"}
          /\ WordsOf(d) \subseteq {"--start-group", "-lclang_rt.builtins",
               "--end-group", "-lmingw32", "-lucrt", "-lc++", "-lc++abi", "-lunwind"}
      BY <1>0, <1>2, <1>4, <1>5 DEF CxxWords
    <3> QED BY <1>1, <1>3, <1>12, <3>1 DEF PrintFlags, LldWords
  <2>3. "-lclang_rt.builtins" \in W <=> libs
    <3>1. /\ "-lclang_rt.builtins" \notin WordsOf(b)
          /\ "-lclang_rt.builtins" \notin WordsOf(e)
      <4>1. WordsOf(b) \subseteq {obj} /\ WordsOf(e) \subseteq {"-L sysroot", "-L cxx"}
        BY <1>2, <1>5
      <4> QED BY <1>0, <4>1
    <3>2. "-lclang_rt.builtins" \in WordsOf(d) <=> libs
      <4>1. CASE libs
        BY <1>4, <4>1
      <4>2. CASE ~libs
        BY <1>4, <4>2
      <4> QED BY <4>1, <4>2
    <3> QED BY <1>1, <1>3, <1>12, <3>1, <3>2 DEF LldWords
  <2>4. CxxLibs \cap W = IF libs /\ cxx THEN CxxLibs ELSE {}
    <3>1. CxxLibs \cap W = CxxLibs \cap WordsOf(d)
      BY <1>0, <1>1, <1>2, <1>3, <1>5, <1>12 DEF CxxLibs, LldWords
    <3>2. CxxLibs \subseteq CxxWords
      BY DEF CxxLibs, CxxWords
    <3> QED BY <1>4, <3>1, <3>2 DEF CxxLibs
  <2> QED BY <2>1, <2>2, <2>3, <2>4 DEF Shows
<1>14. (libs /\ cxx) = (libs /\ CxxLine /\ HasCxx)
  BY <1>p3
<1> QED BY <1>10, <1>11, <1>13, <1>14, <1>p1, <1>p2, <1>p4, <1>p11

FiveAre(a, b, c, d, e) ==
  /\ (((a \o b) \o c) \o d) \o e \in Seq(FrontWords)
  /\ WordsOf((((a \o b) \o c) \o d) \o e)
       = (((WordsOf(a) \cup WordsOf(b)) \cup WordsOf(c)) \cup WordsOf(d))
         \cup WordsOf(e)

LEMMA FiveJoined == \A a, b, c, d, e \in Seq(FrontWords) : FiveAre(a, b, c, d, e)
<1> TAKE a, b, c, d, e \in Seq(FrontWords)
<1>1. a \o b \in Seq(FrontWords) /\ WordsOf(a \o b) = WordsOf(a) \cup WordsOf(b)
  BY JoinedWords
<1>2. /\ (a \o b) \o c \in Seq(FrontWords)
      /\ WordsOf((a \o b) \o c) = WordsOf(a \o b) \cup WordsOf(c)
  BY <1>1, JoinedWords
<1>3. /\ ((a \o b) \o c) \o d \in Seq(FrontWords)
      /\ WordsOf(((a \o b) \o c) \o d) = WordsOf((a \o b) \o c) \cup WordsOf(d)
  BY <1>2, JoinedWords
<1>4. /\ (((a \o b) \o c) \o d) \o e \in Seq(FrontWords)
      /\ WordsOf((((a \o b) \o c) \o d) \o e)
           = WordsOf(((a \o b) \o c) \o d) \cup WordsOf(e)
  BY <1>3, JoinedWords
<1> QED BY <1>1, <1>2, <1>3, <1>4 DEF FiveAre

LEMMA DarwinShows ==
  LET W == WordsOf(DarwinLink)
  IN  /\ DarwinLink \in Seq(FrontWords)
      /\ Shows(W, {}, FALSE, TRUE, HasCxx, TRUE)
<1>p1. PICK a : a = When(sdk = "detected", <<"-isysroot detected">>)
  OBVIOUS
<1>p2. PICK b : b = When(sdk = "none", <<"-isysroot sysroot">>)
  OBVIOUS
<1>p3. PICK c : c = When(HasCxx, <<"-L cxx">>)
  OBVIOUS
<1>p4. PICK d : d = IF sdk = "none" THEN <<"-L sysroot/usr">>
                                    ELSE <<"-L sdk/usr", "-F sdk">>
  OBVIOUS
<1>p5. PICK e : e = When(HasCxx, <<"-lc++", "-lc++abi">>)
  OBVIOUS
<1>p6. PICK no : no = <<"-nostdlib">>
  OBVIOUS
<1>p7. PICK sy : sy = <<"-L sysroot">>
  OBVIOUS
<1>p8. PICK se : se = <<"-search_paths_first", "-lSystem">>
  OBVIOUS
<1>p9. PICK rt : rt = <<"-lclang_rt.builtins">>
  OBVIOUS
<1>0. /\ <<"-isysroot detected">> \in Seq(FrontWords)
      /\ <<"-isysroot sysroot">> \in Seq(FrontWords)
      /\ <<"-L cxx">> \in Seq(FrontWords)
      /\ <<"-lc++", "-lc++abi">> \in Seq(FrontWords)
      /\ <<"-L sysroot/usr">> \in Seq(FrontWords)
      /\ <<"-L sdk/usr", "-F sdk">> \in Seq(FrontWords)
      /\ <<"-nostdlib">> \in Seq(FrontWords) /\ <<"-L sysroot">> \in Seq(FrontWords)
      /\ <<"-search_paths_first", "-lSystem">> \in Seq(FrontWords)
      /\ <<"-lclang_rt.builtins">> \in Seq(FrontWords)
  <2>1. /\ "-isysroot detected" \in FrontWords /\ "-isysroot sysroot" \in FrontWords
        /\ "-L cxx" \in FrontWords /\ "-lc++" \in FrontWords
        /\ "-lc++abi" \in FrontWords /\ "-L sysroot/usr" \in FrontWords
        /\ "-L sdk/usr" \in FrontWords /\ "-F sdk" \in FrontWords
        /\ "-nostdlib" \in FrontWords /\ "-L sysroot" \in FrontWords
        /\ "-search_paths_first" \in FrontWords /\ "-lSystem" \in FrontWords
        /\ "-lclang_rt.builtins" \in FrontWords
    BY DEF FrontWords
  <2> QED BY <2>1, FewWords
<1>1. /\ a \in Seq(FrontWords) /\ WordsOf(a) \subseteq {"-isysroot detected"}
      /\ b \in Seq(FrontWords) /\ WordsOf(b) \subseteq {"-isysroot sysroot"}
      /\ c \in Seq(FrontWords) /\ WordsOf(c) \subseteq {"-L cxx"}
  <2>1. a \in Seq(FrontWords) /\ WordsOf(a) \subseteq {"-isysroot detected"}
    BY <1>0, <1>p1, FewWords, WordsOfFew DEF When
  <2>2. b \in Seq(FrontWords) /\ WordsOf(b) \subseteq {"-isysroot sysroot"}
    BY <1>0, <1>p2, FewWords, WordsOfFew DEF When
  <2>3. c \in Seq(FrontWords) /\ WordsOf(c) \subseteq {"-L cxx"}
    BY <1>0, <1>p3, FewWords, WordsOfFew DEF When
  <2> QED BY <2>1, <2>2, <2>3
<1>2. /\ d \in Seq(FrontWords)
      /\ WordsOf(d) \subseteq {"-L sysroot/usr", "-L sdk/usr", "-F sdk"}
  <2>1. CASE sdk = "none"
    <3>1. d = <<"-L sysroot/usr">>
      BY <1>p4, <2>1
    <3> QED BY <1>0, <3>1, WordsOfFew
  <2>2. CASE sdk # "none"
    <3>1. d = <<"-L sdk/usr", "-F sdk">>
      BY <1>p4, <2>2
    <3>2. WordsOf(<<"-L sdk/usr", "-F sdk">>) = {"-L sdk/usr", "-F sdk"}
      BY WordsOfFew
    <3>3. WordsOf(d) \subseteq {"-L sysroot/usr", "-L sdk/usr", "-F sdk"}
      BY <3>1, <3>2
    <3> QED BY <1>0, <3>1, <3>3
  <2> QED BY <2>1, <2>2
<1>3. e \in Seq(FrontWords) /\ WordsOf(e) = IF HasCxx THEN CxxLibs ELSE {}
  <2>1. CASE HasCxx
    BY <1>0, <1>p5, <2>1, WordsOfFew DEF When, CxxLibs
  <2>2. CASE ~HasCxx
    BY <1>p5, <2>2, FewWords, WordsOfFew DEF When
  <2> QED BY <2>1, <2>2
<1>4. /\ no \in Seq(FrontWords) /\ WordsOf(no) = {"-nostdlib"}
      /\ sy \in Seq(FrontWords) /\ WordsOf(sy) = {"-L sysroot"}
      /\ se \in Seq(FrontWords) /\ WordsOf(se) = {"-search_paths_first", "-lSystem"}
      /\ rt \in Seq(FrontWords) /\ WordsOf(rt) = {"-lclang_rt.builtins"}
  BY <1>0, <1>p6, <1>p7, <1>p8, <1>p9, WordsOfFew
<1>5. PICK f : f = (((a \o b) \o no) \o c) \o sy
  OBVIOUS
<1>6. /\ f \in Seq(FrontWords)
      /\ WordsOf(f) = (((WordsOf(a) \cup WordsOf(b)) \cup WordsOf(no))
                       \cup WordsOf(c)) \cup WordsOf(sy)
  <2>1. FiveAre(a, b, no, c, sy)
    BY <1>1, <1>4, FiveJoined
  <2> QED BY <1>5, <2>1 DEF FiveAre
<1>7. PICK g : g = (((f \o d) \o se) \o e) \o rt
  OBVIOUS
<1>8. /\ g \in Seq(FrontWords)
      /\ WordsOf(g) = (((WordsOf(f) \cup WordsOf(d)) \cup WordsOf(se))
                       \cup WordsOf(e)) \cup WordsOf(rt)
  <2>1. FiveAre(f, d, se, e, rt)
    BY <1>2, <1>3, <1>4, <1>6, FiveJoined
  <2> QED BY <1>7, <2>1 DEF FiveAre
<1>9. g \o Lld \in Seq(FrontWords) /\ WordsOf(g \o Lld) = WordsOf(g) \cup LldWords
  BY <1>8, JoinedWords, PiecesAre
<1>10. DarwinLink = g \o Lld
  BY <1>5, <1>7, <1>p1, <1>p2, <1>p3, <1>p4, <1>p5, <1>p6, <1>p7, <1>p8, <1>p9
     DEF DarwinLink
<1>11. PICK W : W = WordsOf(DarwinLink)
  OBVIOUS
<1>12. PICK A, B, C, D : /\ A = WordsOf(a) /\ B = WordsOf(b)
                         /\ C = WordsOf(c) /\ D = WordsOf(d)
  OBVIOUS
<1>13. W = ((((((((((A \cup B) \cup {"-nostdlib"}) \cup C) \cup {"-L sysroot"})
              \cup D) \cup {"-search_paths_first", "-lSystem"}) \cup WordsOf(e))
              \cup {"-lclang_rt.builtins"}) \cup LldWords))
  BY <1>4, <1>6, <1>8, <1>9, <1>10, <1>11, <1>12
<1>14. /\ A \subseteq {"-isysroot detected"} /\ B \subseteq {"-isysroot sysroot"}
       /\ C \subseteq {"-L cxx"} /\ D \subseteq {"-L sysroot/usr", "-L sdk/usr", "-F sdk"}
  BY <1>1, <1>2, <1>12
<1>15. WordsOf(e) \subseteq CxxLibs
  BY <1>3
<1>16. /\ StartupObjects \cap W = {} /\ "-static-pie" \notin W
       /\ PrintFlags \cap W = {}
  BY <1>13, <1>14, <1>15 DEF StartupObjects, PrintFlags, CxxLibs, LldWords
<1>17. "-lclang_rt.builtins" \in W /\ "-fuse-ld=lld" \in W
  BY <1>13 DEF LldWords
<1>18. CxxLibs \cap W = WordsOf(e)
  BY <1>13, <1>14, <1>15 DEF CxxLibs, LldWords
<1> QED BY <1>3, <1>9, <1>10, <1>11, <1>16, <1>17, <1>18 DEF Shows

\* The other endings.
LEMMA LittleShows ==
  /\ Shows(WordsOf(<<>>), {}, FALSE, FALSE, FALSE, FALSE)
  /\ LET query == <<"-B sysroot/lib", "-B sysroot/implib">>
     IN  /\ query \in Seq(FrontWords)
         /\ Shows(WordsOf(query), {}, FALSE, FALSE, FALSE, FALSE)
  /\ LET again == <<"-nostdlib">> \o Lld
     IN  /\ again \in Seq(FrontWords)
         /\ Shows(WordsOf(again), {}, FALSE, FALSE, FALSE, TRUE)
<1>1. Shows(WordsOf(<<>>), {}, FALSE, FALSE, FALSE, FALSE)
  BY WordsOfFew DEF Shows
<1>2. /\ <<"-B sysroot/lib", "-B sysroot/implib">> \in Seq(FrontWords)
      /\ <<"-nostdlib">> \in Seq(FrontWords)
  <2>1. /\ "-B sysroot/lib" \in FrontWords /\ "-B sysroot/implib" \in FrontWords
        /\ "-nostdlib" \in FrontWords
    BY DEF FrontWords
  <2> QED BY <2>1, FewWords
<1>3. Shows({"-B sysroot/lib", "-B sysroot/implib"}, {}, FALSE, FALSE, FALSE, FALSE)
  BY DEF Shows, StartupObjects, CxxLibs, PrintFlags
<1>4. Shows({"-nostdlib"} \cup LldWords, {}, FALSE, FALSE, FALSE, TRUE)
  BY DEF Shows, StartupObjects, CxxLibs, PrintFlags, LldWords
<1>5. WordsOf(<<"-B sysroot/lib", "-B sysroot/implib">>)
        = {"-B sysroot/lib", "-B sysroot/implib"}
  BY WordsOfFew
<1>6. /\ <<"-nostdlib">> \o Lld \in Seq(FrontWords)
      /\ WordsOf(<<"-nostdlib">> \o Lld) = {"-nostdlib"} \cup LldWords
  <2>1. PICK u : u = <<"-nostdlib">>
    OBVIOUS
  <2>2. u \in Seq(FrontWords) /\ WordsOf(u) = {"-nostdlib"}
    BY <1>2, <2>1, WordsOfFew
  <2>3. u \o Lld \in Seq(FrontWords) /\ WordsOf(u \o Lld) = {"-nostdlib"} \cup LldWords
    BY <2>2, JoinedWords, PiecesAre
  <2> QED BY <2>1, <2>3
<1> QED BY <1>1, <1>2, <1>3, <1>4, <1>5, <1>6

\* Whether a line has a flag the added words have not is the user's doing.
LEMMA StillQuery ==
  ASSUME given \in Seq(STRING) \ {<<>>}, NEW headers \in Seq(HeaderWords),
         NEW words \in Seq(FrontWords), Args = (given \o headers) \o words,
         PrintFlags \cap WordsOf(words) = {}
  PROVE  IsQuery <=> Query
<1> DEFINE S == STRING \cup HeaderWords \cup FrontWords
<1>1. /\ given \in Seq(S) /\ given # <<>> /\ headers \in Seq(S) /\ words \in Seq(S)
  OBVIOUS
<1>2. given \o headers \in Seq(S) \ {<<>>}
  <2> HIDE DEF S
  <2> QED BY <1>1
<1>3. NoFlag \notin PrintFlags /\ PrintFlags \in SUBSET Flags
  BY NoFlagIsNone DEF Flags, PrintFlags, QueryFlags
<1>4. \A i \in DOMAIN words : words[i] \notin PrintFlags
  BY DEF WordsOf
<1>5. Has((given \o headers) \o words, PrintFlags) <=> Has(given \o headers, PrintFlags)
  <2> HIDE DEF S
  <2> QED BY <1>1, <1>2, <1>3, <1>4, Behind
<1>6. Has(given \o headers, PrintFlags) <=> Has(given, PrintFlags)
  BY <1>3, LineRead
<1> QED BY <1>5, <1>6 DEF IsQuery, Query, isPrintPathQuery, PrintFlags

\* What the front added, put together.
LEMMA AllAdded ==
  ASSUME given \in Seq(STRING) \ {<<>>}, NEW headers \in Seq(HeaderWords),
         NEW words \in Seq(FrontWords), Args = (given \o headers) \o words
  PROVE  /\ AddedWords = WordsOf(headers) \cup WordsOf(words)
         /\ WordsOf(headers) \subseteq HeaderWords
         /\ IsPrefix(given, Args)
<1> DEFINE S == STRING \cup HeaderWords \cup FrontWords
<1>1. given \in Seq(S) /\ headers \in Seq(S) /\ words \in Seq(S)
  OBVIOUS
<1>2. WordsOf(headers) \subseteq HeaderWords
  BY DEF WordsOf
<1> HIDE DEF S
<1>3. /\ headers \o words \in Seq(S)
      /\ WordsOf(headers \o words) = WordsOf(headers) \cup WordsOf(words)
  BY <1>1, Joined
<1>4. Args = given \o (headers \o words)
  BY <1>1
<1> QED BY <1>1, <1>2, <1>3, <1>4, Added

\* The parts of what a finished link has to be.
Linked == sysroot # NoDir /\ ~Query
WholeLink == Linked /\ ~Has(given, {"-r"})
Own(flags) == target # "mingw" \/ Wants(given, flags)
Static == Decides("-pie", PieFlags)

Fits(objects, pie, builtins, cxx, lld) ==
  /\ Cardinality(objects)
       = IF WholeLink /\ target # "darwin" /\ Own({"-nostartfiles"}) THEN 1 ELSE 0
  /\ "rcrt1.o" \in objects <=> WholeLink /\ target = "musl" /\ Static
  /\ pie <=> "rcrt1.o" \in objects
  /\ builtins <=> WholeLink /\ Own({"-nodefaultlibs"})
  /\ cxx <=> WholeLink /\ Own({"-nodefaultlibs"}) /\ CxxLine /\ HasCxx
  /\ lld <=> Linked

LEMMA Matching ==
  \A objects, pie, builtins, cxx, lld :
    /\ stage = "done" /\ IsPrefix(given, Args) /\ (IsQuery <=> Query)
    /\ Linked => isLinkStep(given)
    /\ Shows(AddedWords, objects, pie, builtins, cxx, lld)
    /\ Fits(objects, pie, builtins, cxx, lld)
    => LinkMatches
<1> TAKE objects, pie, builtins, cxx, lld
<1>00. HAVE /\ stage = "done" /\ IsPrefix(given, Args) /\ (IsQuery <=> Query)
            /\ Linked => isLinkStep(given)
            /\ Shows(AddedWords, objects, pie, builtins, cxx, lld)
            /\ Fits(objects, pie, builtins, cxx, lld)
<1>1. (sysroot # NoDir /\ ~IsQuery) <=> Linked
  BY <1>00 DEF Linked
<1>2. "rcrt1.o" \in AddedWords <=> "rcrt1.o" \in objects
  BY <1>00 DEF Shows, StartupObjects
<1>3. ("rcrt1.o" \in AddedWords) = (WholeLink /\ target = "musl" /\ Static)
  BY <1>00, <1>2 DEF Fits
<1>4. ("-static-pie" \in AddedWords) = ("rcrt1.o" \in AddedWords)
  BY <1>00, <1>2 DEF Shows, Fits
<1>5. ("-lclang_rt.builtins" \in AddedWords) = (WholeLink /\ Own({"-nodefaultlibs"}))
  BY <1>00 DEF Shows, Fits
<1>6. CxxLibs \cap AddedWords
        = IF WholeLink /\ Own({"-nodefaultlibs"}) /\ CxxLine /\ HasCxx
          THEN CxxLibs ELSE {}
  BY <1>00 DEF Shows, Fits
<1>7. ("-fuse-ld=lld" \in AddedWords) = Linked
  BY <1>00 DEF Shows, Fits, Linked
<1>8. Cardinality(StartupObjects \cap AddedWords)
        = IF WholeLink /\ target # "darwin" /\ Own({"-nostartfiles"}) THEN 1 ELSE 0
  BY <1>00 DEF Shows, Fits
<1>9. Linked => ~Has(given, CompileFlags \cup QueryFlags)
  BY <1>00 DEF isLinkStep
<1>10. (sysroot # NoDir /\ ~IsQuery) = Linked
  BY <1>1 DEF Linked
<1> QED BY <1>00, <1>3, <1>4, <1>5, <1>6, <1>7, <1>8, <1>9, <1>10, Zenon
        DEF LinkMatches, WholeLink, Own, Static

LEMMA LinkMatched == FrontInv /\ PlaceInv => LinkMatches
<1> SUFFICES ASSUME FrontInv, PlaceInv, stage = "done" PROVE LinkMatches
  BY DEF LinkMatches
<1>1. given \in Seq(STRING) \ {<<>>}
  BY GivenLine DEF FrontInv
<1>0. PICK headers \in Seq(HeaderWords) :
        \E words : Args = (given \o headers) \o words /\ Ending(words)
  BY DEF PlaceInv
<1>2. PICK words : Args = (given \o headers) \o words /\ Ending(words)
  BY <1>0
\* What the ending shows is what the line shows.
<1>3. ASSUME words \in Seq(FrontWords), NEW objects, NEW pie, NEW builtins,
             NEW cxx, NEW lld,
             Shows(WordsOf(words), objects, pie, builtins, cxx, lld)
      PROVE  /\ Shows(AddedWords, objects, pie, builtins, cxx, lld)
             /\ IsPrefix(given, Args) /\ (IsQuery <=> Query)
  <2>1. /\ AddedWords = WordsOf(headers) \cup WordsOf(words)
        /\ WordsOf(headers) \subseteq HeaderWords /\ IsPrefix(given, Args)
    BY <1>1, <1>2, <1>3, AllAdded
  <2>2. IsQuery <=> Query
    BY <1>1, <1>2, <1>3, StillQuery DEF Shows
  <2>3. Shows(AddedWords, objects, pie, builtins, cxx, lld)
    BY <1>3, <2>1, HeadersShow
  <2> QED BY <2>1, <2>2, <2>3
<1>4. Cardinality({}) = 0 /\ \A x : Cardinality({x}) = 1
  BY FS_EmptySet, FS_Singleton
<1>5. parseVariant(given).pie <=> Static
  <2>1. "-pie" \in PieFlags /\ PieFlags \subseteq Flags
    BY DEF PieFlags, Flags
  <2>2. NoFlag \notin PieFlags
    BY <2>1, NoFlagIsNone
  <2>3. LastOf(given, PieFlags) = "-pie" <=> Decides("-pie", PieFlags)
    BY <1>1, <2>1, <2>2, Decided
  <2> QED BY <2>3 DEF parseVariant, Static
<1>6. /\ Own({"-nostartfiles"}) <=> target # "mingw" \/ ~userNoStartFiles(given)
      /\ Own({"-nodefaultlibs"}) <=> target # "mingw" \/ ~userNoDefaultLibs(given)
  <2>1. /\ {"-nostartfiles"} \cup {"-nostdlib"} = {"-nostdlib", "-nostartfiles"}
        /\ {"-nodefaultlibs"} \cup {"-nostdlib"} = {"-nostdlib", "-nodefaultlibs"}
    OBVIOUS
  <2> QED BY <2>1 DEF Own, Wants, userNoStartFiles, userNoDefaultLibs
<1>7. CASE sysroot = NoDir /\ words = <<>>
  <2>1. words \in Seq(FrontWords)
    BY <1>7, FewWords
  <2>2. /\ Shows(AddedWords, {}, FALSE, FALSE, FALSE, FALSE)
        /\ IsPrefix(given, Args) /\ (IsQuery <=> Query)
    BY <1>3, <1>7, <2>1, LittleShows
  <2>3. ~Linked /\ ~WholeLink
    BY <1>7 DEF Linked, WholeLink
  <2>20. Fits({}, FALSE, FALSE, FALSE, FALSE)
    BY <1>4, <2>3 DEF Fits
  <2> QED BY <2>20, <1>4, <2>2, <2>3, Matching, Zenon
<1>8. CASE /\ sysroot # NoDir
           /\ Query /\ words = <<"-B sysroot/lib", "-B sysroot/implib">>
  <2>1. words \in Seq(FrontWords)
    BY <1>8, LittleShows
  <2>2. /\ Shows(AddedWords, {}, FALSE, FALSE, FALSE, FALSE)
        /\ IsPrefix(given, Args) /\ (IsQuery <=> Query)
    BY <1>3, <1>8, <2>1, LittleShows
  <2>3. ~Linked /\ ~WholeLink
    BY <1>8 DEF Linked, WholeLink
  <2>20. Fits({}, FALSE, FALSE, FALSE, FALSE)
    BY <1>4, <2>3 DEF Fits
  <2> QED BY <2>20, <1>4, <2>2, <2>3, Matching, Zenon
<1>9. CASE /\ sysroot # NoDir /\ ~Query /\ isLinkStep(given)
           /\ Has(given, {"-r"}) /\ words = <<"-nostdlib">> \o Lld
  <2>1. words \in Seq(FrontWords)
    BY <1>9, LittleShows
  <2>2. /\ Shows(AddedWords, {}, FALSE, FALSE, FALSE, TRUE)
        /\ IsPrefix(given, Args) /\ (IsQuery <=> Query)
    BY <1>3, <1>9, <2>1, LittleShows
  <2>3. Linked /\ ~WholeLink
    BY <1>9 DEF Linked, WholeLink
  <2>20. Fits({}, FALSE, FALSE, FALSE, TRUE)
    BY <1>4, <2>3 DEF Fits
  <2> QED BY <2>20, <1>4, <1>9, <2>2, <2>3, Matching, Zenon
<1>10. CASE /\ sysroot # NoDir /\ ~Query /\ isLinkStep(given)
            /\ ~Has(given, {"-r"}) /\ target = "musl" /\ words = MuslLink(given)
  <2>1. PICK pie \in BOOLEAN : pie = parseVariant(given).pie
    BY DEF parseVariant
  <2>2. PICK objects : objects = {IF pie THEN "rcrt1.o" ELSE "crt1.o"}
    OBVIOUS
  <2>3. /\ words \in Seq(FrontWords)
        /\ Shows(WordsOf(words), objects, pie, TRUE, HasCxx, TRUE)
    BY <1>10, <2>1, <2>2, MuslShows
  <2>4. /\ Shows(AddedWords, objects, pie, TRUE, HasCxx, TRUE)
        /\ IsPrefix(given, Args) /\ (IsQuery <=> Query)
    BY <1>3, <2>3
  <2>5. Linked /\ WholeLink
    BY <1>10 DEF Linked, WholeLink
  <2>6. /\ Own({"-nostartfiles"}) /\ Own({"-nodefaultlibs"})
    BY <1>6, <1>10
  <2>7. HasCxx => CxxLine
    BY <1>10 DEF PlaceInv, HasCxx
  <2>8. Cardinality(objects) = 1
    BY <1>4, <2>2
  <2>9. /\ "rcrt1.o" \in objects <=> pie
        /\ pie <=> Static
    BY <1>5, <2>1, <2>2
  <2>10. HasCxx \in BOOLEAN
    BY DEF HasCxx
  <2>20. Fits(objects, pie, TRUE, HasCxx, TRUE)
    BY <1>10, <2>5, <2>6, <2>7, <2>8, <2>9 DEF Fits
  <2> QED BY <2>20, <1>10, <2>4, <2>5, <2>6, <2>7, <2>8, <2>9, <2>10, Matching, Zenon
<1>11. CASE /\ sysroot # NoDir /\ ~Query /\ isLinkStep(given)
            /\ ~Has(given, {"-r"}) /\ target = "mingw" /\ words = MingwLink(given)
  <2>1. PICK start \in BOOLEAN : start = ~userNoStartFiles(given)
    OBVIOUS
  <2>2. PICK libs \in BOOLEAN : libs = ~userNoDefaultLibs(given)
    OBVIOUS
  <2>3. PICK objects : objects = IF start THEN {mingwStartupObj(given)} ELSE {}
    OBVIOUS
  <2>4. PICK cxx \in BOOLEAN : cxx = (libs /\ CxxLine /\ HasCxx)
    BY <2>2
  <2>5. /\ words \in Seq(FrontWords)
        /\ Shows(WordsOf(words), objects, FALSE, libs, cxx, TRUE)
    BY <1>11, <2>1, <2>2, <2>3, <2>4, MingwShows
  <2>6. /\ Shows(AddedWords, objects, FALSE, libs, cxx, TRUE)
        /\ IsPrefix(given, Args) /\ (IsQuery <=> Query)
    BY <1>3, <2>5
  <2>7. Linked /\ WholeLink
    BY <1>11 DEF Linked, WholeLink
  <2>8. /\ Own({"-nostartfiles"}) <=> start
        /\ Own({"-nodefaultlibs"}) <=> libs
    BY <1>6, <1>11, <2>1, <2>2
  <2>9. /\ Cardinality(objects) = IF start THEN 1 ELSE 0
        /\ "rcrt1.o" \notin objects
    BY <1>4, <2>3 DEF mingwStartupObj
  <2>20. Fits(objects, FALSE, libs, cxx, TRUE)
    BY <1>11, <2>4, <2>7, <2>8, <2>9 DEF Fits
  <2> QED BY <2>20, <1>11, <2>4, <2>6, <2>7, <2>8, <2>9, Matching, Zenon
<1>12. CASE /\ sysroot # NoDir /\ ~Query /\ isLinkStep(given)
            /\ ~Has(given, {"-r"}) /\ target = "darwin" /\ words = DarwinLink
  <2>1. /\ words \in Seq(FrontWords)
        /\ Shows(WordsOf(words), {}, FALSE, TRUE, HasCxx, TRUE)
    BY <1>12, DarwinShows
  <2>2. /\ Shows(AddedWords, {}, FALSE, TRUE, HasCxx, TRUE)
        /\ IsPrefix(given, Args) /\ (IsQuery <=> Query)
    BY <1>3, <2>1
  <2>3. Linked /\ WholeLink
    BY <1>12 DEF Linked, WholeLink
  <2>4. Own({"-nodefaultlibs"}) /\ (HasCxx => CxxLine) /\ HasCxx \in BOOLEAN
    BY <1>6, <1>12 DEF PlaceInv, HasCxx
  <2>20. Fits({}, FALSE, TRUE, HasCxx, TRUE)
    BY <1>4, <1>12, <2>3, <2>4 DEF Fits
  <2> QED BY <2>20, <1>4, <1>12, <2>2, <2>3, <2>4, Matching, Zenon
<1> QED BY <1>2, <1>7, <1>8, <1>9, <1>10, <1>11, <1>12 DEF Ending

\* Every link of every command line is put together as its flags say.
THEOREM LinksAlways == FrontSpec => []LinkMatches
<1>1. FrontInit => FrontInv /\ PlaceInv
  BY InitFront, PlaceInit
<1>2. FrontInv /\ PlaceInv /\ [FrontNext]_frontVars => (FrontInv /\ PlaceInv)'
  BY FrontNextInv, PlaceNext
<1> QED BY <1>1, <1>2, LinkMatched, PTL DEF FrontSpec
===============================================================================
