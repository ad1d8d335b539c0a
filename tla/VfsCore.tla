-------------------------------- MODULE VfsCore --------------------------------
(***************************************************************************)
(* unpin_vfs_data, the lazy half of the embedded-file reader that clang's  *)
(* overlay and the zig half share (toolchain/unpin_vfs_core.cpp): the      *)
(* archive is mapped and parsed once, under pthread_once; the first thread *)
(* to ask for a file decompresses it under one lock, after checking again  *)
(* that nobody else has, and publishes the buffer in an atomic pointer     *)
(* that every later call returns without a lock.                           *)
(*                                                                         *)
(* Callers keep the pointers they were given for the life of the process.  *)
(***************************************************************************)
EXTENDS Naturals, FiniteSets

CONSTANTS
  Thread,
  NoThread,    \* the owner of a free lock
  File, Dir,   \* the nodes of the archive
  Broken,      \* files whose frame does not decompress to its stated size
  Buf,         \* addresses malloc can return
  Null,
  MaxCalls     \* calls a thread makes, a bound of the model

Node == File \cup Dir

ASSUME VfsAssumption ==
  /\ NoThread \notin Thread
  /\ Null \notin Buf
  /\ File \cap Dir = {}
  /\ Broken \subseteq File
  /\ MaxCalls \in Nat

VARIABLES
  once,        \* the state of g_once
  available,   \* g_available
  data,        \* data[e]: the atomic pointer of node e
  heap,        \* heap[b]: "free", "filling" or "whole"
  of,          \* of[b]: the file whose bytes b holds, once it is whole
  lock,        \* the owner of g_lock
  pc,          \* the control point of a thread
  node,        \* node[t]: the node t asks for
  mine,        \* mine[t]: the local `d` (or `buf`) of t
  given,       \* the pairs <<node, answer>> that were returned
  calls        \* calls[t]: the calls t has made

vars == <<once, available, data, heap, of, lock, pc, node, mine, given, calls>>
memory == <<data, heap, of>>

Init ==
  /\ once = "new" /\ available = FALSE
  /\ data = [e \in Node |-> Null]
  /\ heap = [b \in Buf |-> "free"]
  /\ lock = NoThread
  /\ pc = [t \in Thread |-> "idle"]
  /\ \E e \in Node : of = [b \in Buf |-> e] /\ node = [t \in Thread |-> e]
  /\ mine = [t \in Thread |-> Null]
  /\ given = {}
  /\ calls = [t \in Thread |-> 0]

Goto(t, from, to) == pc[t] = from /\ pc' = [pc EXCEPT ![t] = to]

\* unpin_vfs_data returns b to t.
Return(t, from, b) ==
  /\ Goto(t, from, "idle")
  /\ given' = given \cup {<<node[t], b>>}

-------------------------------------------------------------------------------
Call(t, e) ==
  /\ calls[t] < MaxCalls
  /\ Goto(t, "idle", "once")
  /\ node' = [node EXCEPT ![t] = e]
  /\ mine' = [mine EXCEPT ![t] = Null]
  /\ calls' = [calls EXCEPT ![t] = @ + 1]
  /\ UNCHANGED <<once, available, memory, lock, given>>

\* pthread_once: one thread runs do_init, the others wait for it.
StartInit(t) ==
  /\ once = "new" /\ once' = "running"
  /\ Goto(t, "once", "init")
  /\ UNCHANGED <<available, memory, lock, node, mine, given, calls>>

\* do_init: opening, mapping or parsing the image may fail, for good.
Initialize(t) ==
  /\ Goto(t, "init", "check")
  /\ available' \in BOOLEAN
  /\ once' = "done"
  /\ UNCHANGED <<memory, lock, node, mine, given, calls>>

PassOnce(t) ==
  /\ once = "done"
  /\ Goto(t, "once", "check")
  /\ UNCHANGED <<once, available, memory, lock, node, mine, given, calls>>

Refuse(t) ==
  /\ ~available \/ node[t] \in Dir
  /\ Return(t, "check", Null)
  /\ UNCHANGED <<once, available, memory, lock, node, mine, calls>>

\* The first load, without the lock.
LoadHit(t) ==
  /\ available /\ node[t] \in File
  /\ data[node[t]] # Null
  /\ Return(t, "check", data[node[t]])
  /\ UNCHANGED <<once, available, memory, lock, node, mine, calls>>

LoadMiss(t) ==
  /\ available /\ node[t] \in File
  /\ data[node[t]] = Null
  /\ Goto(t, "check", "lock")
  /\ UNCHANGED <<once, available, memory, lock, node, mine, given, calls>>

Lock(t) ==
  /\ lock = NoThread /\ lock' = t
  /\ Goto(t, "lock", "reload")
  /\ UNCHANGED <<once, available, memory, node, mine, given, calls>>

\* Mutant of Reload: the lock alone is taken for enough.
ReloadDropped(t) ==
  /\ Goto(t, "reload", "malloc")
  /\ UNCHANGED <<once, available, memory, lock, node, mine, given, calls>>

\* The second load: somebody may have decoded the file while t waited.
Reload(t) ==
  /\ mine' = [mine EXCEPT ![t] = data[node[t]]]
  /\ Goto(t, "reload", IF data[node[t]] = Null THEN "malloc" ELSE "unlock")
  /\ UNCHANGED <<once, available, memory, lock, node, given, calls>>

\* Mutant of Malloc: the pointer is published before the bytes are there.
MallocPublishes(t) ==
  \E b \in Buf :
    /\ heap[b] = "free"
    /\ heap' = [heap EXCEPT ![b] = "filling"]
    /\ mine' = [mine EXCEPT ![t] = b]
    /\ data' = [data EXCEPT ![node[t]] = b]
    /\ Goto(t, "malloc", "decode")
    /\ UNCHANGED <<once, available, of, lock, node, given, calls>>

Malloc(t) ==
  \/ \E b \in Buf :
       /\ heap[b] = "free"
       /\ heap' = [heap EXCEPT ![b] = "filling"]
       /\ mine' = [mine EXCEPT ![t] = b]
       /\ Goto(t, "malloc", "decode")
       /\ UNCHANGED <<once, available, data, of, lock, node, given, calls>>
  \/ /\ Goto(t, "malloc", "unlock")
     /\ UNCHANGED <<once, available, memory, lock, node, mine, given, calls>>

Decode(t) ==
  /\ node[t] \notin Broken
  /\ heap' = [heap EXCEPT ![mine[t]] = "whole"]
  /\ of' = [of EXCEPT ![mine[t]] = node[t]]
  /\ Goto(t, "decode", "store")
  /\ UNCHANGED <<once, available, data, lock, node, mine, given, calls>>

\* Mutants of DecodeFails: the buffer is dropped; the lock is kept.
DecodeFailsLeaks(t) ==
  /\ node[t] \in Broken
  /\ mine' = [mine EXCEPT ![t] = Null]
  /\ Goto(t, "decode", "unlock")
  /\ UNCHANGED <<once, available, memory, lock, node, given, calls>>

DecodeFailsLocked(t) ==
  /\ node[t] \in Broken
  /\ heap' = [heap EXCEPT ![mine[t]] = "free"]
  /\ Return(t, "decode", Null)
  /\ UNCHANGED <<once, available, data, of, lock, node, mine, calls>>

DecodeFails(t) ==
  /\ node[t] \in Broken
  /\ heap' = [heap EXCEPT ![mine[t]] = "free"]
  /\ mine' = [mine EXCEPT ![t] = Null]
  /\ Goto(t, "decode", "unlock")
  /\ UNCHANGED <<once, available, data, of, lock, node, given, calls>>

StoreData(t) ==
  /\ data' = [data EXCEPT ![node[t]] = mine[t]]
  /\ Goto(t, "store", "unlock")
  /\ UNCHANGED <<once, available, heap, of, lock, node, mine, given, calls>>

Unlock(t) ==
  /\ lock' = NoThread
  /\ Return(t, "unlock", mine[t])
  /\ UNCHANGED <<once, available, memory, node, mine, calls>>

-------------------------------------------------------------------------------
Step(t) ==
  \/ StartInit(t) \/ Initialize(t) \/ PassOnce(t) \/ Refuse(t) \/ LoadHit(t)
  \/ LoadMiss(t) \/ Lock(t) \/ Reload(t) \/ Malloc(t) \/ Decode(t)
  \/ DecodeFails(t) \/ StoreData(t) \/ Unlock(t)

Next == \E t \in Thread : Step(t) \/ \E e \in Node : Call(t, e)

Spec == Init /\ [][Next]_vars

\* A thread inside a call keeps running; nothing makes it call again.
FairSpec == Spec /\ \A t \in Thread : WF_vars(Step(t))

-------------------------------------------------------------------------------
TypeOK ==
  /\ once \in {"new", "running", "done"} /\ available \in BOOLEAN
  /\ data \in [Node -> Buf \cup {Null}]
  /\ heap \in [Buf -> {"free", "filling", "whole"}]
  /\ of \in [Buf -> Node]
  /\ lock \in Thread \cup {NoThread}
  /\ pc \in [Thread -> {"idle", "once", "init", "check", "lock", "reload",
                        "malloc", "decode", "store", "unlock"}]
  /\ node \in [Thread -> Node]
  /\ mine \in [Thread -> Buf \cup {Null}]
  /\ given \subseteq Node \X (Buf \cup {Null})
  /\ calls \in [Thread -> 0..MaxCalls]

\* Whoever has an answer can read it for ever: it is the whole of the file that
\* was asked for, never a buffer that is being filled, was freed, or was
\* reused for another file.
GivenIsWhole ==
  \A g \in given : g[2] # Null => heap[g[2]] = "whole" /\ of[g[2]] = g[1]

\* All answers for one file are one pointer: a file is decoded once however
\* many threads ask for it at the same time.
OneAnswer ==
  \A g, h \in given : g[1] = h[1] /\ g[2] # Null /\ h[2] # Null => g = h

\* No buffer is lost: one that is not free is some file's data or the lock
\* owner's.
NoLeak ==
  \A b \in Buf : heap[b] # "free" =>
    \/ \E e \in File : data[e] = b
    \/ lock # NoThread /\ mine[lock] = b

\* A file once decoded stays available: no call that starts later is refused.
NeverTakenBack == [][\A e \in Node : data[e] # Null => data'[e] = data[e]]_vars

\* Every call returns: neither a failed initialization, nor a failed malloc or
\* decode keeps pthread_once or the lock.
EveryCallReturns == \A t \in Thread : pc[t] = "once" ~> pc[t] = "idle"
===============================================================================
