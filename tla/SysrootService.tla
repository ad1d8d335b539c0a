---------------------------- MODULE SysrootService ----------------------------
(***************************************************************************)
(* What a link step may rely on when it asks the toolchain front for the   *)
(* libraries of one variant: the abstract specification that               *)
(* SysrootCache implements.                                                *)
(*                                                                         *)
(* A variant has two stores, the sysroot and, inside its directory, the    *)
(* C++ runtime.  A store is published at most once and is never taken      *)
(* back; an invocation is granted a store only after it was published and  *)
(* refused one only while it is not.                                       *)
(***************************************************************************)
CONSTANT Proc                 \* the compiler invocations

Store == {"sysroot", "cxx"}

VARIABLES
  published,                  \* published[s]: store s can be used
  lib                         \* lib[p][s]: the answer invocation p had for s

vars == <<published, lib>>

Answer == {"unset", "dir", "none"}

Init ==
  /\ published \in [Store -> BOOLEAN]
  /\ published["cxx"] => published["sysroot"]
  /\ lib = [p \in Proc |-> [s \in Store |-> "unset"]]

Publish(s) ==
  /\ ~published[s]
  /\ s = "cxx" => published["sysroot"]
  /\ published' = [published EXCEPT ![s] = TRUE]
  /\ UNCHANGED lib

\* The C++ runtime is asked for only by an invocation that has the sysroot.
MayAsk(p, s) ==
  /\ lib[p][s] = "unset"
  /\ s = "cxx" => lib[p]["sysroot"] = "dir"

Grant(p, s) ==
  /\ MayAsk(p, s)
  /\ published[s]
  /\ lib' = [lib EXCEPT ![p][s] = "dir"]
  /\ UNCHANGED published

Refuse(p, s) ==
  /\ MayAsk(p, s)
  /\ ~published[s]
  /\ lib' = [lib EXCEPT ![p][s] = "none"]
  /\ UNCHANGED published

Next ==
  \E s \in Store :
    \/ Publish(s)
    \/ \E p \in Proc : Grant(p, s) \/ Refuse(p, s)

Spec == Init /\ [][Next]_vars
===============================================================================
