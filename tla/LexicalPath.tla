------------------------------ MODULE LexicalPath ------------------------------
(***************************************************************************)
(* What a path means, as a reference for the functions that normalise one. *)
(***************************************************************************)
EXTENDS Naturals, Sequences, FiniteSets

\* A path below a root, read from right to left: a segment stays if what
\* follows it never goes up further than it came down.
Lexical(p, here, up) ==
  LET Ups(j, k) == Cardinality({l \in j .. k : p[l] = up})
      Downs(j, k) == Cardinality({l \in j .. k : p[l] \notin {here, up}})
      Stays(j) == /\ p[j] \notin {here, up}
                  /\ \A k \in j + 1 .. Len(p) : Ups(j + 1, k) <= Downs(j + 1, k)
  IN  [j \in 1 .. Cardinality({k \in DOMAIN p : Stays(k)}) |->
         p[CHOOSE k \in DOMAIN p :
             Stays(k) /\ Cardinality({l \in 1 .. k : Stays(l)}) = j]]
===============================================================================
