--------------------------- MODULE CompilePool_proofs --------------------------
(***************************************************************************)
(* Safety of the compile pools, for any number of worker threads and any   *)
(* list of stages, and the proof that a builder's run through them is a    *)
(* run of a recipe as SysrootCache takes it (RecipeRun).                   *)
(***************************************************************************)
EXTENDS CompilePool, FiniteSetTheorems, SequenceTheorems, TLAPS

InPool == main \in {"launch", "join"}

\* A thread that has claimed a job and not yet recorded what became of it.
Busy(w) == wpc[w] \in {"test", "spawn", "compile"}

\* No thread outlives its stage; the stages are entered as they are described.
Phase ==
  /\ ~InPool => \A w \in Worker : wpc[w] \in {"none", "exited"}
  /\ main = "join" => \A w \in Worker : wpc[w] # "none"
  /\ main = "probe" => next = 0 /\ \A w \in Worker : wpc[w] = "none"
  /\ InPool => Stages[at].pool
  /\ main \in {"alone", "wait"} => ~Stages[at].pool
  /\ main \in {"enter", "probe", "alone", "wait"} => ok
  /\ ~ok => bad # {}

ClaimOf(w) ==
  /\ wpc[w] \in {"test", "spawn", "compile", "fail"} =>
       job[w][1] = at /\ job[w][2] < next
  /\ Busy(w) => job[w] \notin obj \cup bad
  /\ wpc[w] \in {"spawn", "compile"} => job[w] \in Pieces
  /\ wpc[w] = "fail" => job[w] \in bad

\* fetch_add gives a job to one thread.
Claims ==
  /\ \A w \in Worker : ClaimOf(w)
  /\ \A v, w \in Worker : v # w /\ Busy(v) /\ Busy(w) => job[v] # job[w]

\* What is recorded belongs to an earlier stage or to a job already claimed.
Record ==
  \A x \in obj \cup bad :
    /\ x[1] <= at
    /\ x[1] = at => main \notin {"enter", "probe", "alone", "wait"}
    /\ x[1] = at /\ InPool => x[2] < next

\* While nothing failed, every job handed out is built or in some thread's
\* hands, and a thread that returned found no job left.
Held(i) ==
  \E w \in Worker : (Busy(w) \/ wpc[w] = "fail") /\ job[w] = <<at, i>>

Account ==
  ok /\ InPool =>
    /\ \A w \in Worker : wpc[w] = "exited" => next >= Stages[at].jobs
    /\ \A i \in 0..(Stages[at].jobs - 1) :
         i < next => <<at, i>> \in obj \/ Held(i)

\* The stages behind the builder are built.
Built ==
  /\ \A x \in Pieces : x[1] < at => x \in obj
  /\ main \in {"leave", "whole", "failed"} /\ ok =>
       \A x \in Pieces : x[1] = at => x \in obj

IInv == TypeOK /\ Phase /\ Claims /\ Record /\ Account /\ Built

\* A piece is a stage and the number of one of its jobs.
LEMMA PieceFacts ==
  /\ \A k \in Stage : k \in Nat \ {0} /\ Stages[k].jobs \in Nat \ {0}
  /\ 1 \in Stage /\ \A k \in Stage : k < Len(Stages) => k + 1 \in Stage
  /\ Len(Stages) \in Stage /\ \A k \in Stage : k <= Len(Stages)
  /\ \A k \in Stage : <<k, 0>> \in Pieces
  /\ \A k, i : <<k, i>> \in Pieces <=>
                 k \in Stage /\ i \in 0..(Stages[k].jobs - 1)
  /\ \A x \in Pieces : x = <<x[1], x[2]>> /\ x[1] \in Stage /\ x[2] \in Nat
<1>1. Len(Stages) \in Nat \ {0} /\ Stage = 1..Len(Stages)
  BY StagesAssumption DEF Stage
<1>2. \A k \in Stage : Stages[k].jobs \in Nat \ {0}
  <2>1. \A k \in Stage : Stages[k] \in
          [jobs : Nat \ {0}, pool : BOOLEAN, front : {"on", "off", "any"},
           opens : BOOLEAN, closes : BOOLEAN, probe : BOOLEAN]
    BY StagesAssumption, ElementOfSeq DEF Stage
  <2> QED BY <2>1
<1>3. \A k, i : <<k, i>> \in Pieces <=>
                  k \in Stage /\ i \in 0..(Stages[k].jobs - 1)
  BY DEF Pieces
<1>4. \A x \in Pieces : x = <<x[1], x[2]>> /\ x[1] \in Stage /\ x[2] \in Nat
  BY <1>2 DEF Pieces
<1> QED BY <1>1, <1>2, <1>3, <1>4

LEMMA InitIInv == Init => IInv
<1> SUFFICES ASSUME Init PROVE IInv
  OBVIOUS
<1> USE StagesAssumption, PieceFacts DEF Init, InPool, Busy
<1>1. 1 \in Stage
  BY DEF Stage
<1>2. TypeOK
  BY <1>1 DEF TypeOK
<1>3. Phase /\ Claims /\ Record /\ Account
  BY <1>1 DEF Phase, Claims, ClaimOf, Record, Account
<1>4. Built
  BY DEF Built, Stage
<1> QED BY <1>2, <1>3, <1>4 DEF IInv

-------------------------------------------------------------------------------
\* A step keeps the types.
LEMMA StepType == IInv /\ [Next]_vars => TypeOK'
<1> SUFFICES ASSUME IInv, [Next]_vars PROVE TypeOK'
  OBVIOUS
<1> USE StagesAssumption, PieceFacts
    DEF IInv, Phase, Claims, ClaimOf, TypeOK, pool, InPool, Busy
<1>1. CASE Enter
  BY <1>1 DEF Enter
<1>2. CASE MkdirFails
  BY <1>2 DEF MkdirFails
<1>3. CASE Probe
  BY <1>3 DEF Probe
<1>4. CASE Join
  BY <1>4 DEF Join
<1>5. CASE Alone
  BY <1>5 DEF Alone
<1>6. CASE AloneExits
  BY <1>6 DEF AloneExits
<1>7. CASE Leave
  BY <1>7 DEF Leave
<1>8. ASSUME NEW w \in Worker, Launch(w) PROVE TypeOK'
  BY <1>8 DEF Launch
<1>9. ASSUME NEW w \in Worker, Claim(w) PROVE TypeOK'
  BY <1>9, SMTT(30) DEF Claim
<1>10. ASSUME NEW w \in Worker, Test(w) PROVE TypeOK'
  BY <1>10 DEF Test
<1>11. ASSUME NEW w \in Worker, Spawn(w) PROVE TypeOK'
  BY <1>11 DEF Spawn
<1>12. ASSUME NEW w \in Worker, Compiled(w) PROVE TypeOK'
  BY <1>12 DEF Compiled
<1>13. ASSUME NEW w \in Worker, CompileFails(w) PROVE TypeOK'
  BY <1>13 DEF CompileFails
<1>14. ASSUME NEW w \in Worker, Fail(w) PROVE TypeOK'
  BY <1>14 DEF Fail
<1>15. CASE UNCHANGED vars
  BY <1>15 DEF vars
<1> QED
  BY <1>1, <1>2, <1>3, <1>4, <1>5, <1>6, <1>7, <1>8, <1>9, <1>10, <1>11,
     <1>12, <1>13, <1>14, <1>15 DEF Next, Builder, Thread

\* The builder and its threads stay in step.
LEMMA PhaseStep == IInv /\ [Next]_vars => Phase'
<1> SUFFICES ASSUME IInv, [Next]_vars PROVE Phase'
  OBVIOUS
<1> USE StagesAssumption, PieceFacts
    DEF IInv, Phase, Claims, ClaimOf, TypeOK, pool, InPool, Busy
<1>1. CASE Enter
  BY <1>1 DEF Enter
<1>2. CASE MkdirFails
  BY <1>2 DEF MkdirFails
<1>3. CASE Probe
  BY <1>3 DEF Probe
<1>4. CASE Join
  BY <1>4 DEF Join
<1>5. CASE Alone
  BY <1>5 DEF Alone
<1>6. CASE AloneExits
  BY <1>6 DEF AloneExits
<1>7. CASE Leave
  BY <1>7 DEF Leave
<1>8. ASSUME NEW w \in Worker, Launch(w) PROVE Phase'
  BY <1>8 DEF Launch
<1>9. ASSUME NEW w \in Worker, Claim(w) PROVE Phase'
  BY <1>9 DEF Claim
<1>10. ASSUME NEW w \in Worker, Test(w) PROVE Phase'
  BY <1>10 DEF Test
<1>11. ASSUME NEW w \in Worker, Spawn(w) PROVE Phase'
  BY <1>11 DEF Spawn
<1>12. ASSUME NEW w \in Worker, Compiled(w) PROVE Phase'
  BY <1>12 DEF Compiled
<1>13. ASSUME NEW w \in Worker, CompileFails(w) PROVE Phase'
  BY <1>13 DEF CompileFails
<1>14. ASSUME NEW w \in Worker, Fail(w) PROVE Phase'
  BY <1>14 DEF Fail
<1>15. CASE UNCHANGED vars
  BY <1>15 DEF vars
<1> QED
  BY <1>1, <1>2, <1>3, <1>4, <1>5, <1>6, <1>7, <1>8, <1>9, <1>10, <1>11,
     <1>12, <1>13, <1>14, <1>15 DEF Next, Builder, Thread

\* Claims stay apart.
LEMMA ClaimsStep == IInv /\ [Next]_vars => Claims'
<1> SUFFICES ASSUME IInv, [Next]_vars PROVE Claims'
  OBVIOUS
<1> USE StagesAssumption, PieceFacts
    DEF IInv, Phase, Claims, ClaimOf, Record, TypeOK, pool, InPool, Busy
<1>1. CASE Enter
  BY <1>1 DEF Enter
<1>2. CASE MkdirFails
  BY <1>2 DEF MkdirFails
<1>3. CASE Probe
  BY <1>3 DEF Probe
<1>4. CASE Join
  BY <1>4 DEF Join
<1>5. CASE Alone
  BY <1>5 DEF Alone
<1>6. CASE AloneExits
  BY <1>6 DEF AloneExits
<1>7. CASE Leave
  BY <1>7 DEF Leave
<1>8. ASSUME NEW w \in Worker, Launch(w) PROVE Claims'
  BY <1>8 DEF Launch
<1>9. ASSUME NEW w \in Worker, Claim(w) PROVE Claims'
  <2>1. InPool
    BY <1>9 DEF Claim
  <2>2. <<at, next>> \notin obj \cup bad
    BY <2>1
  <2>3. \A v \in Worker : v # w /\ Busy(v) => job[v] # <<at, next>>
    OBVIOUS
  <2>4. \A v \in Worker : ClaimOf(v)'
    BY <2>2, <1>9, SMTT(30) DEF Claim
  <2> QED BY <2>3, <2>4, <1>9 DEF Claim
<1>10. ASSUME NEW w \in Worker, Test(w) PROVE Claims'
  BY <1>10, SMTT(30) DEF Test
<1>11. ASSUME NEW w \in Worker, Spawn(w) PROVE Claims'
  BY <1>11 DEF Spawn
<1>12. ASSUME NEW w \in Worker, Compiled(w) PROVE Claims'
  BY <1>12 DEF Compiled
<1>13. ASSUME NEW w \in Worker, CompileFails(w) PROVE Claims'
  BY <1>13 DEF CompileFails
<1>14. ASSUME NEW w \in Worker, Fail(w) PROVE Claims'
  BY <1>14 DEF Fail
<1>15. CASE UNCHANGED vars
  BY <1>15 DEF vars
<1> QED
  BY <1>1, <1>2, <1>3, <1>4, <1>5, <1>6, <1>7, <1>8, <1>9, <1>10, <1>11,
     <1>12, <1>13, <1>14, <1>15 DEF Next, Builder, Thread

\* Only what was claimed is recorded.
LEMMA RecordStep == IInv /\ [Next]_vars => Record'
<1> SUFFICES ASSUME IInv, [Next]_vars PROVE Record'
  OBVIOUS
<1> USE StagesAssumption, PieceFacts
    DEF IInv, Phase, Claims, ClaimOf, Record, TypeOK, pool, InPool, Busy
<1>1. CASE Enter
  BY <1>1 DEF Enter
<1>2. CASE MkdirFails
  BY <1>2 DEF MkdirFails
<1>3. CASE Probe
  BY <1>3 DEF Probe
<1>4. CASE Join
  BY <1>4 DEF Join
<1>5. CASE Alone
  BY <1>5 DEF Alone
<1>6. CASE AloneExits
  <2>1. \/ obj' = obj \cup {<<at, 0>>} /\ bad' = bad
        \/ bad' = bad \cup {<<at, 0>>} /\ obj' = obj
    BY <1>6 DEF AloneExits
  <2>2. main' = "leave" /\ at' = at
    BY <1>6 DEF AloneExits
  <2> QED BY <2>1, <2>2
<1>7. CASE Leave
  BY <1>7, SMTT(30) DEF Leave
<1>8. ASSUME NEW w \in Worker, Launch(w) PROVE Record'
  BY <1>8 DEF Launch
<1>9. ASSUME NEW w \in Worker, Claim(w) PROVE Record'
  BY <1>9 DEF Claim
<1>10. ASSUME NEW w \in Worker, Test(w) PROVE Record'
  BY <1>10 DEF Test
<1>11. ASSUME NEW w \in Worker, Spawn(w) PROVE Record'
  BY <1>11 DEF Spawn
<1>12. ASSUME NEW w \in Worker, Compiled(w) PROVE Record'
  <2>1. InPool /\ job[w][1] = at /\ job[w][2] < next
    BY <1>12 DEF Compiled
  <2>2. \A x \in (obj \cup bad)' : x \in obj \cup bad \/ x = job[w]
    BY <1>12 DEF Compiled
  <2>3. UNCHANGED <<main, at, next>>
    BY <1>12 DEF Compiled
  <2> QED BY <2>1, <2>2, <2>3
<1>13. ASSUME NEW w \in Worker, CompileFails(w) PROVE Record'
  <2>1. InPool /\ job[w][1] = at /\ job[w][2] < next
    BY <1>13 DEF CompileFails
  <2>2. \A x \in (obj \cup bad)' : x \in obj \cup bad \/ x = job[w]
    BY <1>13 DEF CompileFails
  <2>3. UNCHANGED <<main, at, next>>
    BY <1>13 DEF CompileFails
  <2> QED BY <2>1, <2>2, <2>3
<1>14. ASSUME NEW w \in Worker, Fail(w) PROVE Record'
  BY <1>14 DEF Fail
<1>15. CASE UNCHANGED vars
  BY <1>15 DEF vars
<1> QED
  BY <1>1, <1>2, <1>3, <1>4, <1>5, <1>6, <1>7, <1>8, <1>9, <1>10, <1>11,
     <1>12, <1>13, <1>14, <1>15 DEF Next, Builder, Thread

LEMMA ClaimAccounts ==
  ASSUME IInv, NEW w \in Worker, Claim(w)
  PROVE  Account'
<1> SUFFICES ASSUME ok, InPool PROVE Account'
  BY DEF Claim, Account, InPool
<1>1. /\ wpc[w] = "claim" /\ UNCHANGED <<main, at, ok, obj>>
      /\ wpc'[w] = "test" /\ job'[w] = <<at, next>> /\ next' = next + 1
      /\ \A v \in Worker : v # w => wpc'[v] = wpc[v] /\ job'[v] = job[v]
  BY DEF Claim, IInv, TypeOK
<1>2. /\ next \in Nat /\ Stages[at].jobs \in Nat
  BY PieceFacts DEF IInv, TypeOK
<1>3. ASSUME NEW v \in Worker, wpc'[v] = "exited"
      PROVE  next' >= Stages[at].jobs
  <2>1. v # w /\ wpc[v] = "exited"
    BY <1>1, <1>2, <1>3
  <2> QED BY <2>1, <1>1, <1>2 DEF IInv, Account
<1>4. ASSUME NEW i \in 0..(Stages[at].jobs - 1), i < next'
      PROVE  <<at, i>> \in obj \/ Held(i)'
  <2>1. CASE i = next
    BY <2>1, <1>1, <1>2 DEF Held, Busy
  <2>2. CASE i < next
    BY <2>2, <1>1, <1>2 DEF IInv, Account, Held, Busy
  <2> QED BY <2>1, <2>2, <1>1, <1>2, <1>4
<1> QED BY <1>1, <1>3, <1>4 DEF Account

LEMMA TestAccounts ==
  ASSUME IInv, NEW w \in Worker, Test(w)
  PROVE  Account'
<1> SUFFICES ASSUME ok, InPool PROVE Account'
  BY DEF Test, Account, InPool
<1>1. /\ wpc[w] = "test" /\ UNCHANGED <<main, at, ok, obj, job, next>>
      /\ wpc'[w] = IF job[w][2] >= Stages[at].jobs THEN "exited" ELSE "spawn"
      /\ \A v \in Worker : v # w => wpc'[v] = wpc[v]
  BY DEF Test, IInv, TypeOK
<1>2. /\ job[w][2] \in Nat
      /\ next \in Nat /\ Stages[at].jobs \in Nat /\ job[w][2] < next
  BY <1>1, PieceFacts DEF IInv, TypeOK, Claims, ClaimOf
<1>3. ASSUME NEW v \in Worker, wpc'[v] = "exited"
      PROVE  next >= Stages[at].jobs
  <2>1. CASE v = w
    BY <2>1, <1>1, <1>2, <1>3
  <2>2. CASE v # w
    BY <2>2, <1>1, <1>2, <1>3 DEF IInv, Account
  <2> QED BY <2>1, <2>2
<1>4. ASSUME NEW i \in 0..(Stages[at].jobs - 1), i < next
      PROVE  <<at, i>> \in obj \/ Held(i)'
  <2>1. CASE job[w] = <<at, i>>
    BY <2>1, <1>1, <1>2 DEF Held, Busy
  <2>2. CASE job[w] # <<at, i>>
    BY <2>2, <1>1, <1>2, <1>4 DEF IInv, Account, Held, Busy
  <2> QED BY <2>1, <2>2
<1> QED BY <1>1, <1>3, <1>4 DEF Account

LEMMA JoinBuilt ==
  ASSUME IInv, Join
  PROVE  Built'
<1>1. /\ UNCHANGED <<at, ok, obj>> /\ main = "join" /\ main' = "leave"
      /\ \A w \in Worker : wpc[w] = "exited"
  BY DEF Join, pool
<1>2. ASSUME ok, NEW x \in Pieces, x[1] = at PROVE x \in obj
  <2>1. PICK w \in Worker : wpc[w] = "exited"
    BY <1>1, StagesAssumption
  <2>2. next >= Stages[at].jobs
    BY <1>1, <1>2, <2>1 DEF IInv, Account, InPool
  <2>3. x = <<at, x[2]>> /\ x[2] \in 0..(Stages[at].jobs - 1)
    BY <1>2, PieceFacts
  <2>4. x[2] < next
    BY <2>2, <2>3, PieceFacts DEF IInv, TypeOK
  <2>5. ~Held(x[2])
    BY <1>1 DEF Held, Busy
  <2> QED BY <1>1, <1>2, <2>3, <2>4, <2>5 DEF IInv, Account, InPool
<1> QED BY <1>1, <1>2 DEF Built, IInv

\* No job is lost.
LEMMA AccountStep == IInv /\ [Next]_vars => Account'
<1> SUFFICES ASSUME IInv, [Next]_vars PROVE Account'
  OBVIOUS
<1> USE StagesAssumption, PieceFacts
    DEF IInv, Phase, Claims, ClaimOf, Account, Held,
        TypeOK, pool, InPool, Busy
<1>1. CASE Enter
  BY <1>1 DEF Enter
<1>2. CASE MkdirFails
  BY <1>2 DEF MkdirFails
<1>3. CASE Probe
  BY <1>3 DEF Probe
<1>4. CASE Join
  BY <1>4 DEF Join
<1>5. CASE Alone
  BY <1>5 DEF Alone
<1>6. CASE AloneExits
  BY <1>6 DEF AloneExits
<1>7. CASE Leave
  BY <1>7 DEF Leave
<1>8. ASSUME NEW w \in Worker, Launch(w) PROVE Account'
  BY <1>8, ZenonT(40) DEF Launch
<1>9. ASSUME NEW w \in Worker, Claim(w) PROVE Account'
  BY <1>9, ClaimAccounts
<1>10. ASSUME NEW w \in Worker, Test(w) PROVE Account'
  BY <1>10, TestAccounts
<1>11. ASSUME NEW w \in Worker, Spawn(w) PROVE Account'
  BY <1>11 DEF Spawn
<1>12. ASSUME NEW w \in Worker, Compiled(w) PROVE Account'
  BY <1>12 DEF Compiled
<1>13. ASSUME NEW w \in Worker, CompileFails(w) PROVE Account'
  BY <1>13 DEF CompileFails
<1>14. ASSUME NEW w \in Worker, Fail(w) PROVE Account'
  BY <1>14 DEF Fail
<1>15. CASE UNCHANGED vars
  BY <1>15 DEF vars
<1> QED
  BY <1>1, <1>2, <1>3, <1>4, <1>5, <1>6, <1>7, <1>8, <1>9, <1>10, <1>11,
     <1>12, <1>13, <1>14, <1>15 DEF Next, Builder, Thread

\* A stage is left for the next one only once it is built.
LEMMA BuiltStep == IInv /\ [Next]_vars => Built'
<1> SUFFICES ASSUME IInv, [Next]_vars PROVE Built'
  OBVIOUS
<1> USE StagesAssumption, PieceFacts
    DEF IInv, Phase, Claims, ClaimOf, Account, Held, Built,
        TypeOK, pool, InPool, Busy
<1>1. CASE Enter
  BY <1>1 DEF Enter
<1>2. CASE MkdirFails
  BY <1>2 DEF MkdirFails
<1>3. CASE Probe
  BY <1>3 DEF Probe
<1>4. CASE Join
  BY <1>4, JoinBuilt
<1>5. CASE Alone
  BY <1>5 DEF Alone
<1>6. CASE AloneExits
  <2>1. \A x \in Pieces : x[1] = at => x = <<at, 0>>
    <3>1. Stages[at].jobs = 1
      BY <1>6 DEF AloneExits
    <3> QED BY <3>1
  <2>2. main' = "leave" /\ at' = at
    BY <1>6 DEF AloneExits
  <2>3. \/ obj' = obj \cup {<<at, 0>>}
        \/ obj' = obj /\ ~ok'
    BY <1>6 DEF AloneExits
  <2> QED BY <2>1, <2>2, <2>3
<1>7. CASE Leave
  BY <1>7, SMTT(30) DEF Leave
<1>8. ASSUME NEW w \in Worker, Launch(w) PROVE Built'
  BY <1>8 DEF Launch
<1>9. ASSUME NEW w \in Worker, Claim(w) PROVE Built'
  BY <1>9 DEF Claim
<1>10. ASSUME NEW w \in Worker, Test(w) PROVE Built'
  BY <1>10 DEF Test
<1>11. ASSUME NEW w \in Worker, Spawn(w) PROVE Built'
  BY <1>11 DEF Spawn
<1>12. ASSUME NEW w \in Worker, Compiled(w) PROVE Built'
  BY <1>12 DEF Compiled
<1>13. ASSUME NEW w \in Worker, CompileFails(w) PROVE Built'
  BY <1>13 DEF CompileFails
<1>14. ASSUME NEW w \in Worker, Fail(w) PROVE Built'
  BY <1>14 DEF Fail
<1>15. CASE UNCHANGED vars
  BY <1>15 DEF vars
<1> QED
  BY <1>1, <1>2, <1>3, <1>4, <1>5, <1>6, <1>7, <1>8, <1>9, <1>10, <1>11,
     <1>12, <1>13, <1>14, <1>15 DEF Next, Builder, Thread

-------------------------------------------------------------------------------
LEMMA Inductive == Spec => []IInv
<1>1. IInv /\ [Next]_vars => IInv'
  BY StepType, PhaseStep, ClaimsStep, RecordStep, AccountStep, BuiltStep
     DEF IInv
<1> QED BY <1>1, InitIInv, PTL DEF Spec

\* Every variable keeps its type.
THEOREM TypeCorrect == Spec => []TypeOK
<1>1. IInv => TypeOK
  BY DEF IInv
<1> QED BY <1>1, Inductive, PTL

\* No object is written by two compiles, however many threads race for jobs.
THEOREM Once == Spec => []WrittenOnce
<1>1. IInv => WrittenOnce
  BY DEF IInv, Claims, ClaimOf, Busy, WrittenOnce
<1> QED BY <1>1, Inductive, PTL

-------------------------------------------------------------------------------
(* The environment of a compile.                                           *)

\* The brackets still open when the builder enters stage k.
OpenBefore(k) ==
  \E j \in 1..(k - 1) :
    Stages[j].opens /\ \A i \in j..(k - 1) : ~Stages[i].closes

\* UNPIN_NO_FRONT is what the stages so far make it, as long as none failed.
EnvSoFar ==
  /\ main = "enter" => (noFront <=> OpenBefore(at))
  /\ main \in {"probe", "launch", "join", "alone", "wait"} \/
     (main = "leave" /\ ok) => (noFront <=> SilencedAt(at))

EnvInv == IInv /\ EnvSoFar

LEMMA StageEnv ==
  ASSUME NEW k \in Stage
  PROVE  /\ SilencedAt(k) <=> OpenBefore(k) \/ Stages[k].opens
         /\ OpenBefore(k + 1) <=> SilencedAt(k) /\ ~Stages[k].closes
<1>1. k \in Nat \ {0} /\ k + 1 \in Nat /\ (k + 1) - 1 = k
  BY PieceFacts
<1>2. ASSUME NEW j \in 1..k
      PROVE  /\ j \in 1..(k - 1) \/ j = k
             /\ k \in j..k
             /\ \A i \in j..k : i \in j..(k - 1) \/ i = k
             /\ j..(k - 1) \subseteq j..k
  BY <1>1
<1>3. k \in 1..k /\ 1..(k - 1) \subseteq 1..k /\ k..(k - 1) = {}
  BY <1>1
<1>4. SilencedAt(k) => OpenBefore(k) \/ Stages[k].opens
  BY <1>2 DEF SilencedAt, OpenBefore
<1>5. OpenBefore(k) \/ Stages[k].opens => SilencedAt(k)
  BY <1>3 DEF SilencedAt, OpenBefore
<1>6. OpenBefore(k + 1) => SilencedAt(k) /\ ~Stages[k].closes
  BY <1>1, <1>2 DEF SilencedAt, OpenBefore
<1>7. SilencedAt(k) /\ ~Stages[k].closes => OpenBefore(k + 1)
  BY <1>1, <1>2 DEF SilencedAt, OpenBefore
<1> QED BY <1>4, <1>5, <1>6, <1>7

LEMMA EnvStep == EnvInv /\ [Next]_vars => EnvSoFar'
<1> SUFFICES ASSUME EnvInv, [Next]_vars PROVE EnvSoFar'
  OBVIOUS
<1>1. at \in Stage /\ ok \in BOOLEAN /\ noFront \in BOOLEAN
  BY DEF EnvInv, IInv, TypeOK
<1>2. /\ SilencedAt(at) <=> OpenBefore(at) \/ Stages[at].opens
      /\ OpenBefore(at + 1) <=> SilencedAt(at) /\ ~Stages[at].closes
  BY <1>1, StageEnv
<1> USE <1>1 DEF EnvInv, EnvSoFar
<1>3. CASE Enter
  <2>1. at' = at /\ main' \in {"probe", "launch", "alone"}
    BY <1>3 DEF Enter
  <2>2. noFront' <=> SilencedAt(at)
    BY <1>2, <1>3 DEF Enter
  <2>3. SilencedAt(at)' <=> SilencedAt(at)
    BY <2>1 DEF SilencedAt
  <2> QED BY <2>1, <2>2, <2>3
<1>4. CASE Leave
  <2>1. CASE ok /\ main' = "enter"
    <3>1. at' = at + 1 /\ (noFront' <=> noFront /\ ~Stages[at].closes)
      BY <1>4, <2>1 DEF Leave
    <3>2. noFront <=> SilencedAt(at)
      BY <1>4, <2>1 DEF Leave
    <3>3. OpenBefore(at)' <=> OpenBefore(at + 1)
      BY <3>1 DEF OpenBefore
    <3> QED BY <1>2, <2>1, <3>1, <3>2, <3>3
  <2>2. CASE main' \in {"whole", "failed"}
    BY <2>2
  <2> QED BY <1>4, <2>1, <2>2 DEF Leave
<1>5. ASSUME UNCHANGED <<at, noFront>>, main # "enter", main' # "enter",
             main \in {"probe", "launch", "join", "alone", "wait"}
      PROVE  EnvSoFar'
  <2>1. SilencedAt(at)' <=> SilencedAt(at)
    BY <1>5 DEF SilencedAt
  <2> QED BY <1>5, <2>1
<1>6. CASE MkdirFails
  BY <1>6 DEF MkdirFails
<1>7. CASE Probe \/ Join \/ Alone \/ AloneExits
  BY <1>5, <1>7 DEF Probe, Join, Alone, AloneExits
<1>8. ASSUME NEW w \in Worker, Launch(w) PROVE EnvSoFar'
  BY <1>5, <1>8 DEF Launch
<1>9. ASSUME NEW w \in Worker, Thread(w) PROVE EnvSoFar'
  <2>1. InPool /\ main' = main /\ UNCHANGED <<at, noFront>>
    BY <1>9 DEF Thread, Claim, Test, Spawn, Compiled, CompileFails, Fail,
       IInv, Phase
  <2> QED BY <1>5, <2>1 DEF InPool
<1>10. CASE UNCHANGED vars
  <2>1. /\ UNCHANGED <<main, at, ok, noFront>>
        /\ SilencedAt(at)' <=> SilencedAt(at)
        /\ OpenBefore(at)' <=> OpenBefore(at)
    BY <1>10 DEF vars, SilencedAt, OpenBefore
  <2> QED BY <2>1
<1> QED
  BY <1>3, <1>4, <1>6, <1>7, <1>8, <1>9, <1>10 DEF Next, Builder

\* Of recipes whose stages set and unset UNPIN_NO_FRONT as they need it when
\* read one after the other, every compile starts in the environment it needs,
\* whatever the threads' order: none sees what the builder sets or unsets for
\* another stage (buildLibc, buildCrt). Whichever step fails, what comes after
\* the builder does not see it either.
THEOREM FrontKept ==
  ASSUME StagesBracketed
  PROVE  Spec => FrontAsAsked
<1>1. Init => EnvInv
  <2>1. Init => EnvSoFar
    BY DEF Init, EnvSoFar, OpenBefore
  <2> QED BY <2>1, InitIInv DEF EnvInv
<1>2. EnvInv /\ [Next]_vars => EnvInv'
  <2>1. IInv /\ [Next]_vars => IInv'
    BY StepType, PhaseStep, ClaimsStep, RecordStep, AccountStep, BuiltStep
       DEF IInv
  <2> QED BY <2>1, EnvStep DEF EnvInv
<1>3. EnvInv /\ [Next]_vars =>
        [/\ \A w \in Worker : wpc[w] = "spawn" /\ wpc'[w] = "compile" =>
              RunsAsked(job[w][1])
         /\ main = "alone" /\ main' = "wait" => RunsAsked(at)
         /\ main = "leave" /\ main' # "enter" => ~noFront']_vars
  <2> SUFFICES ASSUME EnvInv, [Next]_vars
               PROVE  \/ UNCHANGED vars
                      \/ /\ \A w \in Worker : wpc[w] = "spawn" =>
                              RunsAsked(job[w][1])
                         /\ main = "alone" => RunsAsked(at)
                         /\ main = "leave" /\ main' # "enter" => ~noFront'
    OBVIOUS
  <2>1. InPool \/ main = "alone" => RunsAsked(at)
    BY DEF EnvInv, EnvSoFar, IInv, TypeOK, InPool, RunsAsked, StagesBracketed
  <2>2. ASSUME NEW w \in Worker, wpc[w] = "spawn"
        PROVE  InPool /\ job[w][1] = at
    BY <2>2 DEF EnvInv, IInv, Phase, Claims, ClaimOf
  <2>3. ASSUME main = "leave", main' # "enter", Next
        PROVE  ~noFront'
    <3>1. Leave
      BY <2>3 DEF Next, Builder, Enter, MkdirFails, Probe, Launch, Join, Alone,
         AloneExits, Thread, Claim, Test, Spawn, Compiled, CompileFails, Fail,
         EnvInv, IInv, Phase, InPool
    <3>2. CASE ok
      <4>1. at = Len(Stages)
        BY <2>3, <3>1, <3>2, PieceFacts DEF Leave, EnvInv, IInv, TypeOK
      <4> QED
        BY <2>3, <3>1, <3>2, <4>1 DEF Leave, EnvInv, EnvSoFar, StagesBracketed
    <3>3. CASE ~ok
      BY <3>1, <3>3 DEF Leave
    <3> QED BY <3>2, <3>3
  <2> QED BY <2>1, <2>2, <2>3
<1> QED BY <1>1, <1>2, <1>3, PTL DEF Spec, FrontAsAsked

-------------------------------------------------------------------------------
(* The builder's run is the run of a recipe.                               *)

\* A builder that is not in a pool runs nothing but the re-exec it waits for.
LEMMA KidsAlone ==
  ASSUME IInv, ~InPool
  PROVE  Kids = IF main = "wait" THEN {<<at, 0>>} ELSE {}
BY DEF IInv, Phase, Kids, Running

\* In a pool, they are the jobs of the threads at a compile.
LEMMA KidsInPool ==
  ASSUME InPool
  PROVE  Kids = {job[w] : w \in Running}
BY DEF InPool, Kids

\* A thread that is about to spawn a compile leaves room for it.
LEMMA RoomForOne ==
  ASSUME IInv, NEW w \in Worker, w \notin Running
  PROVE  /\ Cardinality({job[v] : v \in Running}) \in Nat
         /\ Cardinality({job[v] : v \in Running}) < Cardinality(Worker)
<1> DEFINE Jobs == {job[v] : v \in Running}
           f == [x \in Jobs |-> CHOOSE v \in Running : job[v] = x]
           Others == Worker \ {w}
<1>1. \A x \in Jobs : f[x] \in Running /\ job[f[x]] = x
  OBVIOUS
<1>2. Running \subseteq Others
  BY DEF Running
<1>3. f \in [Jobs -> Others]
  BY <1>1, <1>2
<1>4. f \in Injection(Jobs, Others)
  <2> HIDE DEF f, Jobs, Others
  <2> QED BY <1>1, <1>3 DEF Injection, IsInjective
<1>5. /\ IsFiniteSet(Others) /\ Cardinality(Others) = Cardinality(Worker) - 1
      /\ Cardinality(Worker) \in Nat
  BY StagesAssumption, FS_RemoveElement, FS_CardinalityType
<1>6. IsFiniteSet(Jobs) /\ Cardinality(Jobs) <= Cardinality(Others)
  BY <1>4, <1>5, FS_Injection
<1>7. Cardinality(Jobs) \in Nat
  BY <1>6, FS_CardinalityType
<1> QED BY <1>5, <1>6, <1>7

\* Nothing of a stage is built, failed or running before the builder runs it.
LEMMA ReadyAlone ==
  ASSUME IInv, main \in {"enter", "alone"}
  PROVE  Recipe!Ready(<<at, 0>>) /\ Outcome = "running" /\ Kids = {}
<1>1. ~InPool /\ Kids = {}
  BY KidsAlone DEF InPool
<1>2. <<at, 0>> \in Pieces /\ <<at, 0>> \notin obj \cup bad
  BY PieceFacts DEF IInv, TypeOK, Record
<1>3. \A y \in Pieces : y[1] < at => y \in obj
  BY DEF IInv, Built
<1> QED BY <1>1, <1>2, <1>3 DEF Recipe!Ready, Outcome

LEMMA AloneSpawns ==
  ASSUME IInv, Alone
  PROVE  Recipe!Next
<1>1. Recipe!Ready(<<at, 0>>) /\ Outcome = "running" /\ Kids = {}
  BY ReadyAlone DEF Alone
<1>3. Kids' = {<<at, 0>>} /\ Outcome' = Outcome /\ UNCHANGED <<obj, bad>>
  BY <1>1 DEF Alone, Kids, Running, Outcome, pool
<1>4. Cardinality(Kids) < Cardinality(Worker)
  <2>1. PICK w \in Worker : TRUE
    BY StagesAssumption
  <2>2. Running = {}
    BY DEF Running, IInv, Phase, Alone, InPool
  <2>3. {job[v] : v \in Running} = {}
    BY <2>2
  <2> QED BY <1>1, <2>1, <2>2, <2>3, RoomForOne
<1>5. Recipe!Spawn(<<at, 0>>)
  BY <1>1, <1>3, <1>4 DEF Recipe!Spawn, Recipe!Cardinality,
     Cardinality
<1> QED BY <1>1, <1>5 DEF Recipe!Next, Recipe!Ready

LEMMA SpawnSpawns ==
  ASSUME IInv, NEW w \in Worker, Spawn(w)
  PROVE  Recipe!Next
<1>1. /\ InPool /\ wpc[w] = "spawn" /\ wpc'[w] = "compile"
      /\ \A v \in Worker : v # w => wpc'[v] = wpc[v]
      /\ UNCHANGED <<main, at, job, obj, bad>>
  BY DEF Spawn, IInv, TypeOK, Phase
<1>2. /\ job[w] \in Pieces \ (obj \cup bad) /\ job[w][1] = at
      /\ \A v \in Running : job[v] # job[w]
  BY <1>1 DEF IInv, Claims, ClaimOf, Busy, Running
<1>3. Kids = {job[v] : v \in Running} /\ Kids' = {job[v] : v \in Running}'
  BY <1>1, KidsInPool DEF Kids, InPool
<1>4. Running' = Running \cup {w}
  BY <1>1 DEF Running
<1>5. Kids' = Kids \cup {job[w]}
  BY <1>1, <1>3, <1>4
<1>6. Cardinality(Kids) < Cardinality(Worker)
  BY <1>1, <1>3, RoomForOne DEF Running
<1>7. Outcome = "running" /\ Outcome' = "running"
  BY <1>1 DEF Outcome, InPool
<1>8. Recipe!Ready(job[w])
  BY <1>2, <1>3 DEF Recipe!Ready, IInv, Built
<1>9. Recipe!Spawn(job[w])
  BY <1>1, <1>5, <1>6, <1>7, <1>8 DEF Recipe!Spawn, Recipe!Cardinality,
     Cardinality
<1> QED BY <1>2, <1>9 DEF Recipe!Next

LEMMA CompileExits ==
  ASSUME IInv, NEW w \in Worker, Compiled(w) \/ CompileFails(w)
  PROVE  Recipe!Next
<1>1. /\ InPool /\ wpc[w] = "compile" /\ wpc'[w] # "compile"
      /\ \A v \in Worker : v # w => wpc'[v] = wpc[v]
      /\ UNCHANGED <<main, at, job>>
      /\ \/ obj' = obj \cup {job[w]} /\ bad' = bad
         \/ bad' = bad \cup {job[w]} /\ obj' = obj
  BY DEF Compiled, CompileFails, IInv, TypeOK, Phase
<1>2. job[w] \in Pieces /\ \A v \in Running : v # w => job[v] # job[w]
  BY <1>1 DEF IInv, Claims, ClaimOf, Busy, Running
<1>3. Kids = {job[v] : v \in Running} /\ Kids' = {job[v] : v \in Running}'
  BY <1>1, KidsInPool DEF Kids, InPool
<1>4. Running' = Running \ {w} /\ w \in Running
  BY <1>1 DEF Running
<1>5. Kids' = Kids \ {job[w]} /\ job[w] \in Kids
  BY <1>1, <1>2, <1>3, <1>4
<1>6. Outcome' = Outcome
  BY <1>1 DEF Outcome
<1>7. Recipe!Exit(job[w])
  BY <1>1, <1>5, <1>6 DEF Recipe!Exit
<1> QED BY <1>2, <1>7 DEF Recipe!Next

LEMMA AloneExitsExits ==
  ASSUME IInv, AloneExits
  PROVE  Recipe!Next
<1>1. /\ main = "wait" /\ main' = "leave" /\ UNCHANGED <<at, wpc>>
      /\ \/ obj' = obj \cup {<<at, 0>>} /\ bad' = bad
         \/ bad' = bad \cup {<<at, 0>>} /\ obj' = obj
  BY DEF AloneExits
<1>2. Running = {} /\ Running' = {}
  BY <1>1 DEF Running, IInv, Phase, InPool
<1>3. Kids = {<<at, 0>>} /\ Kids' = {}
  BY <1>1, <1>2 DEF Kids
<1>4. Recipe!Exit(<<at, 0>>)
  BY <1>1, <1>3 DEF Recipe!Exit, Outcome
<1> QED BY <1>4, PieceFacts DEF Recipe!Next, IInv, TypeOK

LEMMA MkdirRefuses ==
  ASSUME IInv, MkdirFails
  PROVE  Recipe!Next
<1>1. Recipe!Ready(<<at, 0>>) /\ Outcome = "running" /\ Kids = {}
  BY ReadyAlone DEF MkdirFails
<1>2. Kids' = {} /\ Outcome' = Outcome
  BY <1>1 DEF MkdirFails, Kids, Running, Outcome
<1>3. Recipe!Refuse(<<at, 0>>)
  BY <1>1, <1>2 DEF Recipe!Refuse, MkdirFails
<1> QED BY <1>1, <1>3 DEF Recipe!Next, Recipe!Ready

LEMMA LeaveFinishes ==
  ASSUME IInv, Leave
  PROVE  Recipe!Next \/ UNCHANGED Recipe!vars
<1>1. Kids = {} /\ Kids' = {} /\ UNCHANGED <<obj, bad>>
  BY DEF Leave, Kids, Running, IInv, Phase, InPool, pool
<1>2. CASE ok /\ at < Len(Stages)
  BY <1>1, <1>2 DEF Leave, Outcome, Recipe!vars
<1>3. CASE ~ok
  <2>1. Outcome = "running" /\ Outcome' = "failed" /\ bad # {}
    BY <1>3 DEF Leave, Outcome, IInv, Phase
  <2> QED BY <1>1, <2>1 DEF Recipe!Next, Recipe!Finish
<1>4. CASE ok /\ ~(at < Len(Stages))
  <2>1. Outcome = "running" /\ Outcome' = "whole"
    BY <1>4 DEF Leave, Outcome
  <2>2. obj = Pieces
    <3>1. ASSUME NEW x \in Pieces PROVE x[1] < at \/ x[1] = at
      BY <1>4, PieceFacts DEF IInv, TypeOK
    <3> QED BY <1>4, <3>1 DEF IInv, TypeOK, Built, Leave
  <2> QED BY <1>1, <2>1, <2>2 DEF Recipe!Next, Recipe!Finish
<1>5. ok \in BOOLEAN
  BY DEF IInv, TypeOK
<1> QED BY <1>2, <1>3, <1>4, <1>5

\* The steps in between are invisible.
LEMMA QuietSteps ==
  ASSUME IInv,
         \/ Enter \/ Probe \/ Join
         \/ \E w \in Worker : Launch(w) \/ Claim(w) \/ Test(w) \/ Fail(w)
  PROVE  UNCHANGED Recipe!vars
<1>1. UNCHANGED <<obj, bad>>
  BY DEF Enter, Probe, Join, Launch, Claim, Test, Fail, pool
<1>2. Outcome = "running" /\ Outcome' = "running"
  BY DEF Enter, Probe, Join, Launch, Claim, Test, Fail, pool, Outcome,
         IInv, Phase, InPool
<1>3. Kids' = Kids
  <2>1. CASE Enter \/ Probe \/ Join
    BY <2>1 DEF Enter, Probe, Join, Kids, Running, IInv, Phase, InPool, pool
  <2>2. ASSUME NEW w \in Worker, Launch(w) \/ Claim(w) \/ Test(w) \/ Fail(w)
        PROVE  Kids' = Kids
    <3>1. InPool /\ InPool'
      BY <2>2 DEF Launch, Claim, Test, Fail, IInv, Phase, InPool
    <3>2. Running' = Running /\ w \notin Running
      BY <2>2 DEF Launch, Claim, Test, Fail, Running, IInv, TypeOK
    <3>3. \A v \in Running : job'[v] = job[v]
      BY <2>2, <3>2 DEF Launch, Claim, Test, Fail, IInv, TypeOK, Running
    <3> QED BY <3>1, <3>2, <3>3 DEF Kids, InPool
  <2> QED BY <2>1, <2>2
<1> QED BY <1>1, <1>2, <1>3 DEF Recipe!vars

\* The pools build a recipe as SysrootCache takes it: a stage after the stages
\* before it, every piece at most once, at most poolSize() compiles at a time,
\* and an outcome only when none is running any more.
THEOREM Implements == Spec => ImplementsRecipe
<1>1. Init => Recipe!Init
  BY DEF Init, Recipe!Init, Kids, Running, Outcome
<1>2. IInv /\ [Next]_vars => [Recipe!Next]_(Recipe!vars)
  <2> SUFFICES ASSUME IInv, [Next]_vars PROVE [Recipe!Next]_(Recipe!vars)
    OBVIOUS
  <2>1. CASE UNCHANGED vars
    BY <2>1 DEF vars, Recipe!vars, Kids, Running, Outcome
  <2>2. CASE Next
    BY <2>2, AloneSpawns, SpawnSpawns, CompileExits, AloneExitsExits,
       MkdirRefuses, LeaveFinishes, QuietSteps DEF Next, Builder, Thread
  <2> QED BY <2>1, <2>2
<1> QED BY <1>1, <1>2, Inductive, PTL DEF Spec, ImplementsRecipe, Recipe!Spec

===============================================================================
