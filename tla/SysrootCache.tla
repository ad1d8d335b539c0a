----------------------------- MODULE SysrootCache -----------------------------
(***************************************************************************)
(* The on-disk cache of on-demand sysroots (toolchain/unpin_musl.cpp): one *)
(* variant directory <cache>/<triple>/<hash>, the C++ runtime nested in it *)
(* as <hash>/cxx, and the compiler invocations that build, publish and use *)
(* them concurrently, from ensureSysroot and ensureCxxRuntime as the front *)
(* calls them on a link step.                                              *)
(*                                                                         *)
(* A builder takes the store's lock file, rechecks the `.complete` marker, *)
(* recreates the `.tmp` tree, re-execs itself to compile every piece, puts *)
(* the marker into the tree and renames the tree into place.               *)
(*                                                                         *)
(* The lock file is opened without O_CLOEXEC, so the compiles a builder    *)
(* has spawned share its open file description: when the builder is killed *)
(* the lock stays taken until the last of them has exited.                 *)
(***************************************************************************)
EXTENDS Naturals, FiniteSets

CONSTANTS
  Proc,         \* compiler invocations that reach a link step
  NoProc,       \* the holder of a free lock
  Piece,        \* files the builders compile, intermediate objects included
  Pieces,       \* Pieces[s]: the files the recipe of store s compiles
  Scratch,      \* the intermediate ones, removed before publication
  Inputs,       \* Inputs[x]: the files an archive step needs in the tree
  StageOf,      \* StageOf[x]: the position of x in the recipe
  Stubs,        \* files the builder writes itself, unchecked: libm.a, ...
  FrontActive,  \* pieces compiled with the front active (no UNPIN_NO_FRONT)
  PoolSize,     \* compiles a builder runs at once
  LockMayFail   \* may open() or flock() of the lock file fail?

Store == {"sysroot", "cxx"}

ASSUME ProcAssumption == NoProc \notin Proc
ASSUME PieceAssumption ==
  /\ Pieces \in [Store -> SUBSET Piece]
  /\ Scratch \subseteq Piece
  /\ Inputs \in [Piece -> SUBSET Piece]
  /\ StageOf \in [Piece -> Nat]
ASSUME FlagAssumption == LockMayFail \in BOOLEAN /\ PoolSize \in Nat \ {0}

VARIABLES
  pc,      \* pc[p]: the control point of invocation p
  store,   \* store[p]: the store p is in ensure...() for
  req,     \* req[p]: what p links, "c" or "c++"
  lib,     \* lib[p][s]: what ensure...() returned to p for store s
  lock,    \* lock[s]: whose open file description has the flock
  kids,    \* kids[p]: the compiles p has running, also after p was killed
  got,     \* got[p]: the pieces whose compile exited with 0
  bad,     \* bad[p]: those whose compile failed
  tmp,     \* tmp[s]: the tree under construction
  dir      \* dir[s]: the published tree

vars == <<pc, store, req, lib, lock, kids, got, bad, tmp, dir>>
disk == <<tmp, dir>>

\* A directory tree: is there one, does it have `.complete`, and which files.
Tree == [exists : BOOLEAN, done : BOOLEAN, has : SUBSET (Piece \cup Stubs)]
NoTree == [exists |-> FALSE, done |-> FALSE, has |-> {}]

\* The files of store s that a link needs in a published tree.
Kept(s) == Pieces[s] \ Scratch

Control == {"idle", "check", "open", "flock", "recheck", "clean", "mktmp",
            "build", "stamp", "mark", "publish", "close", "verify", "link",
            "done", "dead"}

\* Control points between taking the lock (or failing to) and closing it.
Critical == {"recheck", "clean", "mktmp", "build", "stamp", "mark",
             "publish", "close"}
\* Those at which the builder changes the `.tmp` tree.
Building == {"clean", "mktmp", "build", "stamp", "mark", "publish"}

Init ==
  /\ pc = [p \in Proc |-> "idle"]
  /\ store = [p \in Proc |-> "sysroot"]
  /\ req \in [Proc -> {"c", "c++"}]
  /\ lib = [p \in Proc |-> [s \in Store |-> "unset"]]
  /\ lock = [s \in Store |-> NoProc]
  /\ kids = [p \in Proc |-> {}]
  /\ got = [p \in Proc |-> {}]
  /\ bad = [p \in Proc |-> {}]
  /\ tmp = [s \in Store |-> NoTree]
  /\ dir = [s \in Store |-> NoTree]

-------------------------------------------------------------------------------
(* The front, and the parts of ensure...() outside the lock.               *)

Goto(p, from, to) == pc[p] = from /\ pc' = [pc EXCEPT ![p] = to]

\* Mutant of Return: the front goes on to the C++ runtime whatever ensureSysroot
\* returned.
ReturnUnchecked(p, r) ==
  LET s == store[p]
      wantsCxx == s = "sysroot" /\ req[p] = "c++"
  IN  /\ lib' = [lib EXCEPT ![p][s] = r]
      /\ pc' = [pc EXCEPT ![p] = IF wantsCxx THEN "check" ELSE "link"]
      /\ store' = [store EXCEPT ![p] = IF wantsCxx THEN "cxx" ELSE s]

\* ensure...() returns r to the front for the store p is at: without a sysroot
\* the front gives up, and a C++ link asks for the runtime after the sysroot.
Return(p, r) ==
  LET s == store[p]
      wantsCxx == s = "sysroot" /\ r = "dir" /\ req[p] = "c++"
  IN  /\ lib' = [lib EXCEPT ![p][s] = r]
      /\ pc' = [pc EXCEPT ![p] = IF wantsCxx THEN "check"
                                 ELSE IF s = "sysroot" /\ r = "none" THEN "done"
                                 ELSE "link"]
      /\ store' = [store EXCEPT ![p] = IF wantsCxx THEN "cxx" ELSE s]

\* The lock after p's descriptors are closed.
Released(p) == [s \in Store |-> IF lock[s] = p THEN NoProc ELSE lock[s]]

Start(p) ==
  /\ Goto(p, "idle", "check")
  /\ UNCHANGED <<store, req, lib, lock, kids, got, bad, disk>>

\* The fast path: an unlocked look at `.complete`.
Check(p) ==
  /\ pc[p] = "check"
  /\ IF dir[store[p]].done
     THEN Return(p, "dir")
     ELSE pc' = [pc EXCEPT ![p] = "open"] /\ UNCHANGED <<store, lib>>
  /\ UNCHANGED <<req, lock, kids, got, bad, disk>>

\* open() of the lock file, then flock(LOCK_EX); the result of neither is an
\* error, the builder goes on without the lock.
OpenLock(p) ==
  /\ Goto(p, "open", "flock")
  /\ UNCHANGED <<store, req, lib, lock, kids, got, bad, disk>>

LockFails(p) ==
  /\ LockMayFail
  /\ \/ Goto(p, "open", "recheck")
     \/ Goto(p, "flock", "recheck")
  /\ UNCHANGED <<store, req, lib, lock, kids, got, bad, disk>>

Acquire(p) ==
  /\ Goto(p, "flock", "recheck")
  /\ lock[store[p]] = NoProc
  /\ lock' = [lock EXCEPT ![store[p]] = p]
  /\ UNCHANGED <<store, req, lib, kids, got, bad, disk>>

Verify(p) ==
  /\ pc[p] = "verify"
  /\ Return(p, IF dir[store[p]].done THEN "dir" ELSE "none")
  /\ UNCHANGED <<req, lock, kids, got, bad, disk>>

\* The linker run that uses what the front injected.
Link(p) ==
  /\ Goto(p, "link", "done")
  /\ UNCHANGED <<store, req, lib, lock, kids, got, bad, disk>>

-------------------------------------------------------------------------------
(* The builder.                                                            *)

\* Mutant of Recheck: whoever gets the lock builds.
RecheckDropped(p) ==
  /\ Goto(p, "recheck", "clean")
  /\ UNCHANGED <<store, req, lib, lock, kids, got, bad, disk>>

Recheck(p) ==
  /\ pc[p] = "recheck"
  /\ IF dir[store[p]].done
     THEN Return(p, "dir") /\ lock' = Released(p)
     ELSE /\ pc' = [pc EXCEPT ![p] = "clean"]
          /\ UNCHANGED <<store, lib, lock>>
  /\ UNCHANGED <<req, kids, got, bad, disk>>

Clean(p) ==
  /\ Goto(p, "clean", "mktmp")
  /\ tmp' = [tmp EXCEPT ![store[p]] = NoTree]
  /\ UNCHANGED <<store, req, lib, lock, kids, got, bad, dir>>

\* create_directories: for the C++ runtime this also creates the sysroot's own
\* directory, which then is in the way of a later rename of a sysroot.
MakeTmp(p) ==
  /\ Goto(p, "mktmp", "build")
  /\ tmp' = [tmp EXCEPT ![store[p]].exists = TRUE]
  /\ dir' = IF store[p] = "cxx" THEN [dir EXCEPT !["sysroot"].exists = TRUE]
            ELSE dir
  /\ got' = [got EXCEPT ![p] = {}]
  /\ bad' = [bad EXCEPT ![p] = {}]
  /\ UNCHANGED <<store, req, lib, lock, kids>>

\* Every job of every recipe is a compile: its argv carries -c.
ArgvOf(x) == {"-c"}
\* Mutant of IsLinkStep: -c is not looked for.
IsLinkStepUnlessPrint(argv) ==
  argv \cap {"-S", "-E", "-fsyntax-only", "-print"} = {}

IsLinkStep(argv) == argv \cap {"-c", "-S", "-E", "-fsyntax-only", "-print"} = {}
\* Would the re-exec'd compiler call ensureSysroot itself, and so wait for the
\* lock its own parent holds?
EntersEnsure(x) == x \in FrontActive /\ IsLinkStep(ArgvOf(x))

\* The recipe's `ok = ok && ...` chain: a piece is started, once, when every
\* piece of an earlier stage was built.  A compile that failed stops its pool,
\* but a worker that had looked at `ok` before may still start another.
Ready(p, x) ==
  /\ x \in Pieces[store[p]] \ (got[p] \cup bad[p] \cup kids[p])
  /\ \A y \in Pieces[store[p]] : StageOf[y] < StageOf[x] => y \in got[p]

Spawn(p, x) ==
  /\ pc[p] = "build"
  /\ Ready(p, x)
  /\ Cardinality(kids[p]) < PoolSize
  /\ kids' = [kids EXCEPT ![p] = @ \cup {x}]
  /\ UNCHANGED <<pc, store, req, lib, lock, got, bad, disk>>

\* A compile exits; if its parent was killed it may have been the last one to
\* keep the parent's lock.
ChildExit(p, x) ==
  /\ x \in kids[p]
  /\ ~EntersEnsure(x)
  /\ kids' = [kids EXCEPT ![p] = @ \ {x}]
  /\ lock' = IF pc[p] = "dead" /\ kids[p] = {x} THEN Released(p) ELSE lock

ChildOk(p, x) ==
  LET s == store[p] IN
  /\ ChildExit(p, x)
  /\ tmp[s].exists /\ Inputs[x] \subseteq tmp[s].has
  /\ tmp' = [tmp EXCEPT ![s].has = @ \cup {x}]
  /\ got' = [got EXCEPT ![p] = @ \cup {x}]
  /\ UNCHANGED <<pc, store, req, lib, bad, dir>>

\* Mutant of ChildFail: the exit code of a compile is dropped.
ChildFailIgnored(p, x) ==
  /\ ChildExit(p, x)
  /\ UNCHANGED <<pc, store, req, lib, got, bad, disk>>

ChildFail(p, x) ==
  /\ ChildExit(p, x)
  /\ bad' = [bad EXCEPT ![p] = @ \cup {x}]
  /\ UNCHANGED <<pc, store, req, lib, got, disk>>

\* Mutants: ensure...() returns the directory whether it was built or not; what
\* failed is not looked at before the tree is published.
BuildFailedIgnored(p) ==
  /\ pc[p] = "build" /\ bad[p] # {} /\ kids[p] = {}
  /\ lock' = Released(p)
  /\ Return(p, "dir")
  /\ UNCHANGED <<req, kids, got, bad, disk>>

BuildDoneAnyway(p) ==
  /\ Goto(p, "build", "stamp")
  /\ kids[p] = {}
  /\ UNCHANGED <<store, req, lib, lock, kids, got, bad, disk>>

\* The pool is joined before the result is looked at.
BuildFailed(p) ==
  /\ pc[p] = "build" /\ bad[p] # {} /\ kids[p] = {}
  /\ lock' = Released(p)
  /\ Return(p, "none")
  /\ UNCHANGED <<req, kids, got, bad, disk>>

BuildDone(p) ==
  /\ Goto(p, "build", "stamp")
  /\ kids[p] = {} /\ got[p] = Pieces[store[p]]
  /\ UNCHANGED <<store, req, lib, lock, kids, got, bad, disk>>

\* Only the sysroot recipes write stubs, whose open errors are ignored, and
\* remove a marker that may already be in the published tree.
Stamp(p) ==
  /\ Goto(p, "stamp", "mark")
  /\ IF store[p] = "sysroot"
     THEN /\ \E S \in SUBSET Stubs :
               tmp' = IF tmp["sysroot"].exists
                      THEN [tmp EXCEPT !["sysroot"].has = @ \cup S] ELSE tmp
          /\ dir' = [dir EXCEPT !["sysroot"].done = FALSE]
     ELSE UNCHANGED disk
  /\ UNCHANGED <<store, req, lib, lock, kids, got, bad>>

\* `.complete` goes into the tree, then the object directories are removed.
Mark(p) ==
  /\ Goto(p, "mark", "publish")
  /\ tmp[store[p]].exists
  /\ tmp' = [tmp EXCEPT ![store[p]].done = TRUE,
                        ![store[p]].has = @ \ Scratch]
  /\ UNCHANGED <<store, req, lib, lock, kids, got, bad, dir>>

\* Without a tree the marker cannot be opened, and the stream it is written to
\* ends the process over the unhandled error.
MarkFails(p) ==
  /\ Goto(p, "mark", "dead")
  /\ ~tmp[store[p]].exists
  /\ lock' = Released(p)
  /\ UNCHANGED <<store, req, lib, kids, got, bad, disk>>

\* rename(2): it fails, unnoticed, without a source or onto a non-empty target.
Publish(p) ==
  LET s == store[p] IN
  /\ Goto(p, "publish", "close")
  /\ IF tmp[s].exists /\ ~dir[s].exists
     THEN /\ dir' = [dir EXCEPT ![s] = tmp[s]]
          /\ tmp' = [tmp EXCEPT ![s] = NoTree]
     ELSE UNCHANGED disk
  /\ UNCHANGED <<store, req, lib, lock, kids, got, bad>>

Close(p) ==
  /\ Goto(p, "close", "verify")
  /\ lock' = Released(p)
  /\ UNCHANGED <<store, req, lib, kids, got, bad, disk>>

\* Mutant of Crash: a lock file opened with O_CLOEXEC, or a lock of the process.
CrashUnlocks(p) ==
  /\ pc[p] \notin {"idle", "done", "dead"}
  /\ pc' = [pc EXCEPT ![p] = "dead"]
  /\ lock' = Released(p)
  /\ UNCHANGED <<store, req, lib, kids, got, bad, disk>>

\* The invocation is killed at any point: its compiles run on.
Crash(p) ==
  /\ pc[p] \notin {"idle", "done", "dead"}
  /\ pc' = [pc EXCEPT ![p] = "dead"]
  /\ lock' = IF kids[p] = {} THEN Released(p) ELSE lock
  /\ UNCHANGED <<store, req, lib, kids, got, bad, disk>>

-------------------------------------------------------------------------------
Child(p) == \E x \in Piece : ChildOk(p, x) \/ ChildFail(p, x)

Step(p) ==
  \/ Check(p) \/ OpenLock(p) \/ Acquire(p) \/ Verify(p)
  \/ Link(p) \/ Recheck(p) \/ Clean(p) \/ MakeTmp(p)
  \/ \E x \in Piece : Spawn(p, x)
  \/ BuildFailed(p) \/ BuildDone(p) \/ Stamp(p) \/ Mark(p) \/ MarkFails(p)
  \/ Publish(p) \/ Close(p)

Next ==
  \E p \in Proc : Start(p) \/ Step(p) \/ LockFails(p) \/ Child(p) \/ Crash(p)

Spec == Init /\ [][Next]_vars

\* A running invocation keeps running and a compile ends; nothing forces an
\* invocation to start or to be killed, or a call on the lock file to fail: who
\* waits for the lock is served by its release alone.
Fairness == \A p \in Proc : WF_vars(Step(p)) /\ WF_vars(Child(p))

FairSpec == Spec /\ Fairness
-------------------------------------------------------------------------------
(* What the cache promises.                                                *)

TypeOK ==
  /\ pc \in [Proc -> Control]
  /\ store \in [Proc -> Store]
  /\ req \in [Proc -> {"c", "c++"}]
  /\ lib \in [Proc -> [Store -> {"unset", "dir", "none"}]]
  /\ lock \in [Store -> Proc \cup {NoProc}]
  /\ kids \in [Proc -> SUBSET Piece]
  /\ got \in [Proc -> SUBSET Piece]
  /\ bad \in [Proc -> SUBSET Piece]
  /\ tmp \in [Store -> Tree]
  /\ dir \in [Store -> Tree]

\* Does p, or a compile that outlived it, write to the `.tmp` tree of s?
UsesTmp(p, s) ==
  /\ store[p] = s
  /\ pc[p] \in Building \/ kids[p] # {}

\* "Serialize concurrent builders": the `.tmp` tree of a store has one user at
\* a time, where the compiles a killed builder left behind count as its use.
BuildersSerialized ==
  \A s \in Store : \A p, q \in Proc :
    UsesTmp(p, s) /\ UsesTmp(q, s) => p = q

\* A directory with a `.complete` marker has every file its recipe builds: the
\* fast path may trust the marker alone, whoever crashed or failed before.
CompleteIsWhole ==
  \A s \in Store : dir[s].done => dir[s].exists /\ Kept(s) \subseteq dir[s].has

\* A variant directory without the marker makes every later rename(2) onto it
\* fail, so that no invocation can ever use the variant: none is left behind.
NeverWedged == \A s \in Store : dir[s].exists => dir[s].done

\* What is published is neither withdrawn nor changed under the links that
\* read it, although every builder removes the marker before it renames.
PublishedStays ==
  [][\A s \in Store : dir[s].done => dir'[s] = dir[s]]_vars

\* An invocation is left without a store only when one of its own compiles
\* failed, not because of what the other invocations do.
RefusedOnlyOnFailure ==
  \A p \in Proc : (\E s \in Store : lib[p][s] = "none") => bad[p] # {}

\* An invocation that asked for its libraries links or is killed: no wait for
\* the lock is forever, not for one its own parent or a dead builder's compile
\* holds.
Termination ==
  \A p \in Proc : pc[p] = "check" ~> pc[p] \in {"done", "dead"}

\* ensure...() implements the abstract service, a store being published when
\* its marker is in place.
Service == INSTANCE SysrootService WITH
             published <- [s \in Store |-> dir[s].done]

ImplementsService == Service!Spec

===============================================================================
