------------------------------ MODULE ApelinkHook ------------------------------
(***************************************************************************)
(* The fixup hook of Cosmopolitan builds (cosmo-apelink-hook.sh): every    *)
(* program of bin/ is converted and renamed <name>.exe, and the links that *)
(* are left dangling are made again.                                       *)
(*                                                                         *)
(* bin/ is a function from names to what they are: a program (ELF), one    *)
(* that cannot be converted (stripped), a converted one (PE), another file *)
(* or a link. Absent names are NoEntry.                                    *)
(***************************************************************************)
EXTENDS SequencesExt

CONSTANTS
  BinOrder,   \* the names bin/ can have, in the order a glob expands to
  ExeOf       \* ExeOf[n]: n.exe, for the names without that suffix

ASSUME HookAssumption ==
  /\ BinOrder \in Seq(STRING) /\ IsInjective(BinOrder)
  /\ IsInjective(ExeOf)
  /\ \A n \in DOMAIN ExeOf :
       {n, ExeOf[n]} \subseteq ToSet(BinOrder) /\ ExeOf[n] \notin DOMAIN ExeOf

Bin == ToSet(BinOrder)
NoEntry == [kind |-> "none", of |-> ""]
File(kind, of) == [kind |-> kind, of |-> of]

\* Where a name leads, through at most as many links as there are names.
End(dir, n) ==
  LET at[k \in 0 .. Len(BinOrder)] ==
        IF k = 0 THEN n
        ELSE IF dir[at[k - 1]].kind = "link" THEN dir[at[k - 1]].of
        ELSE at[k - 1]
  IN  at[Len(BinOrder)]

\* [ -e ]
Exists(dir, n) == dir[End(dir, n)].kind \notin {"none", "link"}

\* The programs the first loop converts, and those it cannot.
Programs(dir) == {n \in DOMAIN ExeOf : dir[n].kind = "elf"}
Unconverted(dir) == {n \in DOMAIN ExeOf : dir[n].kind = "stripped"}

\* The first loop, where apelink succeeds on every program.
Converted(dir) ==
  [n \in Bin |->
     IF n \in Programs(dir) THEN NoEntry
     ELSE IF \E m \in Programs(dir) : ExeOf[m] = n
     THEN File("pe", dir[CHOOSE m \in Programs(dir) : ExeOf[m] = n].of)
     ELSE dir[n]]

\* A link the second loop makes again.
Dangling(dir, n) ==
  /\ dir[n].kind = "link" /\ ~Exists(dir, n)
  /\ dir[n].of \in DOMAIN ExeOf /\ Exists(dir, ExeOf[dir[n].of])

\* One turn of the second loop. The new name may be the old one.
Rewire(dir, n) ==
  IF ~Dangling(dir, n) THEN dir
  ELSE LET new == IF n \in DOMAIN ExeOf THEN ExeOf[n] ELSE n
       IN  [dir EXCEPT ![n] = NoEntry, ![new] = File("link", ExeOf[dir[n].of])]

\* The loop goes through the names there were when it began: after[k] is bin/
\* behind the first k of them.
Rewired(dir) ==
  LET after[k \in 0 .. Len(BinOrder)] ==
        IF k = 0 THEN dir
        ELSE IF dir[BinOrder[k]] = NoEntry THEN after[k - 1]
        ELSE Rewire(after[k - 1], BinOrder[k])
  IN  after[Len(BinOrder)]

\* Mutant of Hooked: the links are looked at before the programs are renamed.
HookedEarly(dir) == Converted(Rewired(dir))

\* cosmoApelinkBins, where it does not fail.
Hooked(dir) == Rewired(Converted(dir))
===============================================================================
