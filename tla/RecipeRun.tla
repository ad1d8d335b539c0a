------------------------------- MODULE RecipeRun -------------------------------
(***************************************************************************)
(* What SysrootCache takes a builder to do inside the lock: run a recipe.  *)
(* Pieces are compiled at most once each, at most PoolSize at a time, a    *)
(* stage after the stages before it were built, and the recipe is whole    *)
(* only when every piece is, with no compile left running.                 *)
(***************************************************************************)
EXTENDS Naturals, FiniteSets

CONSTANTS
  Piece,                      \* the files of one recipe
  StageOf,                    \* StageOf[x]: the position of x in it
  PoolSize                    \* compiles that run at once

VARIABLES
  kids,                       \* compiles running
  got,                        \* pieces that were built
  bad,                        \* pieces that failed
  outcome                     \* "running", "whole" or "failed"

vars == <<kids, got, bad, outcome>>

Init == kids = {} /\ got = {} /\ bad = {} /\ outcome = "running"

Ready(x) ==
  /\ x \in Piece \ (kids \cup got \cup bad)
  /\ \A y \in Piece : StageOf[y] < StageOf[x] => y \in got

Spawn(x) ==
  /\ outcome = "running"
  /\ Ready(x)
  /\ Cardinality(kids) < PoolSize
  /\ kids' = kids \cup {x}
  /\ UNCHANGED <<got, bad, outcome>>

\* A stage that cannot even create its directory fails before any compile.
Refuse(x) ==
  /\ outcome = "running"
  /\ Ready(x)
  /\ bad' = bad \cup {x}
  /\ UNCHANGED <<kids, got, outcome>>

Exit(x) ==
  /\ x \in kids
  /\ kids' = kids \ {x}
  /\ \/ got' = got \cup {x} /\ bad' = bad
     \/ bad' = bad \cup {x} /\ got' = got
  /\ UNCHANGED outcome

Finish ==
  /\ outcome = "running"
  /\ kids = {}
  /\ \/ got = Piece /\ outcome' = "whole"
     \/ bad # {} /\ outcome' = "failed"
  /\ UNCHANGED <<kids, got, bad>>

Next == Finish \/ \E x \in Piece : Spawn(x) \/ Refuse(x) \/ Exit(x)

Spec == Init /\ [][Next]_vars
===============================================================================
