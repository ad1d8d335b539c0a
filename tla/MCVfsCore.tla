------------------------------- MODULE MCVfsCore -------------------------------
(* VfsCore for TLC: threads and addresses are interchangeable.             *)
EXTENDS VfsCore, TLC

Symmetry == Permutations(Thread) \cup Permutations(Buf)
===============================================================================
