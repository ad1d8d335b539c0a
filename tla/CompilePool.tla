------------------------------ MODULE CompilePool ------------------------------
(***************************************************************************)
(* The compile pools of toolchain/unpin_musl.cpp (buildLibc, buildBuiltins,*)
(* buildArchive, buildMingwArchive) and the single re-execs between them   *)
(* (buildCrt, llvm-ar, dlltool), as one builder runs them in a row: worker *)
(* threads that claim jobs with next.fetch_add, stop once `ok` is FALSE,   *)
(* and are joined before the builder looks at `ok`.                        *)
(*                                                                         *)
(* A compile inherits the builder's environment when it is spawned, and    *)
(* with it UNPIN_NO_FRONT, which the builder sets and unsets around the    *)
(* recipes that must not be compiled with the front active.                *)
(***************************************************************************)
EXTENDS Naturals, Sequences, FiniteSets

CONSTANTS
  Worker,    \* threads of a pool; poolSize() of them
  Stages     \* Stages[k]: jobs, the number of re-execs of a stage; pool, does
             \* it run them in a pool; front, how they must run ("on", "off" or
             \* "any"); opens and closes, is UNPIN_NO_FRONT set before and unset
             \* after it; probe, does it ask the compiler for a feature first

Stage == 1..Len(Stages)
Pieces == UNION {{k} \X (0..Stages[k].jobs - 1) : k \in Stage}

ASSUME StagesAssumption ==
  /\ Worker # {} /\ IsFiniteSet(Worker)
  /\ Stages \in Seq([jobs : Nat \ {0}, pool : BOOLEAN,
                    front : {"on", "off", "any"}, opens : BOOLEAN,
                    closes : BOOLEAN, probe : BOOLEAN])
  /\ Len(Stages) > 0
  /\ \A k \in Stage : Stages[k].pool \/ Stages[k].jobs = 1

VARIABLES
  main,      \* the builder's control point
  at,        \* the stage it is at
  next,      \* the pool's atomic counter
  ok,        \* the pool's atomic flag
  wpc,       \* wpc[w]: the control point of worker w
  job,       \* job[w]: the job w has claimed
  obj,       \* pieces whose compile exited with 0
  bad,       \* pieces that failed
  noFront    \* is UNPIN_NO_FRONT set in the builder's environment?

vars == <<main, at, next, ok, wpc, job, obj, bad, noFront>>
pool == <<next, ok, wpc, job>>

Init ==
  /\ main = "enter" /\ at = 1
  /\ next = 0 /\ ok = TRUE
  /\ wpc = [w \in Worker |-> "none"]
  /\ job = [w \in Worker |-> <<1, 0>>]
  /\ obj = {} /\ bad = {}
  /\ noFront = FALSE

-------------------------------------------------------------------------------
(* The builder's thread.                                                   *)

Enter ==
  /\ main = "enter"
  /\ noFront' = (noFront \/ Stages[at].opens)
  /\ main' = IF Stages[at].probe THEN "probe"
             ELSE IF Stages[at].pool THEN "launch" ELSE "alone"
  /\ next' = 0 /\ ok' = TRUE
  /\ wpc' = [w \in Worker |-> "none"]
  /\ UNCHANGED <<at, job, obj, bad>>

\* create_directories(objDir) comes before everything else.
MkdirFails ==
  /\ main = "enter" /\ Stages[at].pool
  /\ bad' = bad \cup {<<at, 0>>}
  /\ ok' = FALSE
  /\ main' = "leave"
  /\ UNCHANGED <<at, next, wpc, job, obj, noFront>>

\* probeCompiles: its answer adds a flag to the compiles and decides on no more.
Probe ==
  /\ main = "probe"
  /\ main' = IF Stages[at].pool THEN "launch" ELSE "alone"
  /\ UNCHANGED <<at, pool, obj, bad, noFront>>

\* The threads are created one after the other, the first ones already run.
Launch(w) ==
  /\ main = "launch" /\ wpc[w] = "none"
  /\ wpc' = [wpc EXCEPT ![w] = "claim"]
  /\ main' = IF \A v \in Worker \ {w} : wpc[v] # "none" THEN "join" ELSE main
  /\ UNCHANGED <<at, next, ok, job, obj, bad, noFront>>

\* Mutant of Join: the threads are left to themselves.
JoinDetached ==
  /\ main = "join"
  /\ main' = "leave"
  /\ UNCHANGED <<at, pool, obj, bad, noFront>>

Join ==
  /\ main = "join"
  /\ \A w \in Worker : wpc[w] = "exited"
  /\ main' = "leave"
  /\ UNCHANGED <<at, pool, obj, bad, noFront>>

\* A stage of one re-exec, which the builder's thread waits for.
Alone ==
  /\ main = "alone"
  /\ main' = "wait"
  /\ UNCHANGED <<at, pool, obj, bad, noFront>>

AloneExits ==
  /\ main = "wait"
  /\ \/ obj' = obj \cup {<<at, 0>>} /\ UNCHANGED <<bad, ok>>
     \/ bad' = bad \cup {<<at, 0>>} /\ ok' = FALSE /\ UNCHANGED obj
  /\ main' = "leave"
  /\ UNCHANGED <<at, next, wpc, job, noFront>>

\* Mutant of Leave: only a failure unsets UNPIN_NO_FRONT.
LeaveQuiet ==
  /\ main = "leave"
  /\ noFront' = (noFront /\ ok)
  /\ IF ok /\ at < Len(Stages)
     THEN main' = "enter" /\ at' = at + 1
     ELSE main' = (IF ok THEN "whole" ELSE "failed") /\ at' = at
  /\ UNCHANGED <<pool, obj, bad>>

\* Every builder function unsets UNPIN_NO_FRONT before it returns a failure.
Leave ==
  /\ main = "leave"
  /\ noFront' = (noFront /\ ok /\ ~Stages[at].closes)
  /\ IF ok /\ at < Len(Stages)
     THEN main' = "enter" /\ at' = at + 1
     ELSE main' = (IF ok THEN "whole" ELSE "failed") /\ at' = at
  /\ UNCHANGED <<pool, obj, bad>>

-------------------------------------------------------------------------------
(* A worker thread.                                                        *)

\* Mutant of Claim: the counter is read and not yet advanced.
ClaimStale(w) ==
  /\ wpc[w] = "claim"
  /\ job' = [job EXCEPT ![w] = <<at, next>>]
  /\ next' \in {next, next + 1}
  /\ wpc' = [wpc EXCEPT ![w] = "test"]
  /\ UNCHANGED <<main, at, ok, obj, bad, noFront>>

Claim(w) ==
  /\ wpc[w] = "claim"
  /\ job' = [job EXCEPT ![w] = <<at, next>>]
  /\ next' = next + 1
  /\ wpc' = [wpc EXCEPT ![w] = "test"]
  /\ UNCHANGED <<main, at, ok, obj, bad, noFront>>

Test(w) ==
  /\ wpc[w] = "test"
  /\ wpc' = [wpc EXCEPT ![w] = IF job[w][2] >= Stages[at].jobs \/ ~ok
                               THEN "exited" ELSE "spawn"]
  /\ UNCHANGED <<main, at, next, ok, job, obj, bad, noFront>>

Spawn(w) ==
  /\ wpc[w] = "spawn"
  /\ wpc' = [wpc EXCEPT ![w] = "compile"]
  /\ UNCHANGED <<main, at, next, ok, job, obj, bad, noFront>>

Compiled(w) ==
  /\ wpc[w] = "compile"
  /\ obj' = obj \cup {job[w]}
  /\ wpc' = [wpc EXCEPT ![w] = "claim"]
  /\ UNCHANGED <<main, at, next, ok, job, bad, noFront>>

\* Mutant of CompileFails: what failed is tried again.
CompileRetried(w) ==
  /\ wpc[w] = "compile"
  /\ wpc' = [wpc EXCEPT ![w] = "spawn"]
  /\ UNCHANGED <<main, at, next, ok, job, obj, bad, noFront>>

CompileFails(w) ==
  /\ wpc[w] = "compile"
  /\ bad' = bad \cup {job[w]}
  /\ wpc' = [wpc EXCEPT ![w] = "fail"]
  /\ UNCHANGED <<main, at, next, ok, job, obj, noFront>>

\* ok.store(false), after the message.
Fail(w) ==
  /\ wpc[w] = "fail"
  /\ ok' = FALSE
  /\ wpc' = [wpc EXCEPT ![w] = "exited"]
  /\ UNCHANGED <<main, at, next, job, obj, bad, noFront>>

-------------------------------------------------------------------------------
Builder ==
  \/ Enter \/ MkdirFails \/ Probe \/ Join \/ Alone \/ AloneExits \/ Leave
  \/ \E w \in Worker : Launch(w)

Thread(w) ==
  Claim(w) \/ Test(w) \/ Spawn(w) \/ Compiled(w) \/ CompileFails(w) \/ Fail(w)

Next == Builder \/ \E w \in Worker : Thread(w)

Spec == Init /\ [][Next]_vars

\* Threads are scheduled, and a compile ends.
Fairness == WF_vars(Builder) /\ \A w \in Worker : WF_vars(Thread(w))

FairSpec == Spec /\ Fairness

-------------------------------------------------------------------------------
(* What a builder may rely on.                                             *)

TypeOK ==
  /\ main \in {"enter", "probe", "launch", "join", "alone", "wait", "leave",
               "whole", "failed"}
  /\ at \in Stage
  /\ next \in Nat
  /\ ok \in BOOLEAN
  /\ wpc \in [Worker -> {"none", "claim", "test", "spawn", "compile", "fail",
                         "exited"}]
  /\ job \in [Worker -> Stage \X Nat]
  /\ obj \subseteq Pieces /\ bad \subseteq Pieces
  /\ noFront \in BOOLEAN

\* The object of a job, obj/<i>.o, is written by one compile only: no two
\* threads are at the same job, none is at a job that is built.
WrittenOnce ==
  \A w \in Worker : wpc[w] \in {"spawn", "compile"} =>
    /\ job[w] \notin obj \cup bad
    /\ \A v \in Worker \ {w} :
         wpc[v] \in {"spawn", "compile"} => job[v] # job[w]

RunsAsked(k) == Stages[k].front \in {"any", IF noFront THEN "off" ELSE "on"}

\* Every compile is spawned in the environment its recipe needs: the front is
\* silenced for libc, the CRT objects and the C++ runtime, and active for the
\* builtins, whichever recipe the builder ran before. And the builder returns to
\* the front with the environment it was called in, failed or not: what comes
\* next, the recipe of another store or the link, is not silenced.
FrontAsAsked ==
  [][/\ \A w \in Worker : wpc[w] = "spawn" /\ wpc'[w] = "compile" =>
          RunsAsked(job[w][1])
     /\ main = "alone" /\ main' = "wait" => RunsAsked(at)
     /\ main = "leave" /\ main' # "enter" => ~noFront']_vars

\* Stage k runs silenced: a stage up to k sets UNPIN_NO_FRONT, and none from
\* there to the one before k unsets it.
SilencedAt(k) ==
  \E j \in 1..k : Stages[j].opens /\ \A i \in j..(k - 1) : ~Stages[i].closes

\* Written down one after the other, the recipes set and unset it as their
\* stages need it, and unset it in the end.
StagesBracketed ==
  /\ \A k \in Stage :
       Stages[k].front \in {"any", IF SilencedAt(k) THEN "off" ELSE "on"}
  /\ SilencedAt(Len(Stages)) => Stages[Len(Stages)].closes

\* The pool ends: every worker returns and is joined.
PoolEnds == <>(main \in {"whole", "failed"})

\* The builder does what SysrootCache takes it to do.
Running == {w \in Worker : wpc[w] = "compile"}
Kids == {job[w] : w \in Running} \cup
        (IF main = "wait" THEN {<<at, 0>>} ELSE {})
Outcome == IF main \in {"whole", "failed"} THEN main ELSE "running"

Recipe == INSTANCE RecipeRun WITH
            Piece <- Pieces,
            StageOf <- [x \in Pieces |-> x[1]],
            PoolSize <- Cardinality(Worker),
            kids <- Kids, got <- obj, outcome <- Outcome

ImplementsRecipe == Recipe!Spec
===============================================================================
