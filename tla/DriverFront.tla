----------------------------- MODULE DriverFront -----------------------------
(***************************************************************************)
(* What the driver does to a command line before clang sees it             *)
(* (toolchain/unpin_musl.cpp, frontRewriteMusl): it reads the target and   *)
(* the codegen axes, adds headers, and for a link finds or builds the      *)
(* libraries of that variant and adds a self-contained link.               *)
(*                                                                         *)
(* Calls come one after the other and share the cache; how two calls race  *)
(* for it is SysrootCache's subject.  A flag with its value is one word    *)
(* here, spellings that the code treats alike are one word, and a word the *)
(* front adds names a directory by what is in it ("-L sysroot").           *)
(***************************************************************************)
EXTENDS Naturals, Sequences, SequencesExt

CONSTANTS
  Lines,        \* command lines: argv[0] first
  MaxPayload    \* payloads the compiler is given, one after the other

ASSUME DriverFrontAssumption ==
  MaxPayload \in Nat /\ Lines \subseteq Seq(STRING) \ {<<>>}

VARIABLES
  payload,   \* cacheTag(): the payload in use
  cache,     \* library directories: <<store, key>> -> what it was built as
  given,     \* the command line as the user wrote it
  Args,      \* ... and as the front has rewritten it so far
  sdk,       \* macOS: where the SDK comes from
  sysroot,   \* what ensure*Sysroot returned, or NoDir
  cxxLib,    \* what ensureCxxRuntime returned, or NoDir
  stage

frontVars == <<payload, cache, given, Args, sdk, sysroot, cxxLib, stage>>

NoDir == [none |-> TRUE]

-------------------------------------------------------------------------------
(* Reading the arguments.  argv[0] is no flag. *)

Has(args, flags) == \E i \in 2 .. Len(args) : args[i] \in flags

\* The last of some flags that exclude each other, or NoFlag.
NoFlag == ""
LastOf(args, flags) ==
  LET kept[n \in 0 .. Len(args)] ==
        IF n <= 1 THEN NoFlag
        ELSE IF args[n] \in flags THEN args[n] ELSE kept[n - 1]
  IN  kept[Len(args)]

\* "other": no target, or one whose libraries are not ours (msvc, gnu).
Targets == {"musl", "mingw", "darwin"}
targetOf == [musl   |-> "--target=x86_64-linux-musl",
             mingw  |-> "--target=x86_64-w64-mingw32",
             darwin |-> "--target=aarch64-apple-macos",
             other  |-> "--target=x86_64-pc-windows-msvc"]
TargetFlags == {targetOf[t] : t \in DOMAIN targetOf}
parseTarget(args) ==
  IF Has(args, TargetFlags)
  THEN CHOOSE t \in DOMAIN targetOf : targetOf[t] = LastOf(args, TargetFlags)
  ELSE "other"

CpuFlags == {"-march=a", "-march=b"}
FastFlags == {"-O2", "-O3", "-Ofast"}
OptFlags == FastFlags \cup {"-O0", "-Os"}
PicFlags == {"-fPIC", "-fno-pic"}
PieFlags == {"-pie", "-no-pie"}
LtoFlags == {"-flto", "-fno-lto"}

parseVariant(args) ==
  LET pie == LastOf(args, PieFlags) = "-pie"
  IN  [triple |-> parseTarget(args),
       cpu    |-> LastOf(args, CpuFlags),
       fast   |-> LastOf(args, OptFlags) \in FastFlags,
       pie    |-> pie,
       pic    |-> \/ LastOf(args, PicFlags) = "-fPIC"
                  \/ pie /\ LastOf(args, PicFlags) # "-fno-pic",
       lto    |-> LastOf(args, LtoFlags) = "-flto"]

CompileFlags == {"-c", "-E"}
QueryFlags == {"-v", "--version", "-print-file-name"}
isLinkStep(args) == ~Has(args, CompileFlags \cup QueryFlags)
isRelocatableLink(args) == Has(args, {"-r"})
isPrintPathQuery(args) == Has(args, {"-print-file-name", "--print-file-name"})

userNoStartFiles(args) == Has(args, {"-nostdlib", "-nostartfiles"})
userNoDefaultLibs(args) == Has(args, {"-nostdlib", "-nodefaultlibs"})
mingwStartupObj(args) ==
  IF Has(args, {"-shared"}) THEN "dllcrt2.o"
  ELSE IF Has(args, {"-municode"}) THEN "crt2u.o" ELSE "crt2.o"

\* The first --driver-mode= ends the search.
DriverModes == {"--driver-mode=g++", "--driver-mode=gcc"}
CxxSigns == {"--driver-mode=g++", "-stdlib=libc++", "a.cpp"}
wantsCxx(args) ==
  \/ args[1] = "clang++"
  \/ \E i \in 2 .. Len(args) :
       args[i] \in CxxSigns /\ ~\E j \in 2 .. i - 1 : args[j] \in DriverModes

-------------------------------------------------------------------------------
(* The cache. *)

\* Mutant of variantHash: an axis is left out.
variantHashNoLto(V) == <<payload, V.triple, V.cpu, V.fast, V.pic>>
variantHash(V) == <<payload, V.triple, V.cpu, V.fast, V.pic, V.lto>>

\* What a store's recipe makes of a variant: builtins and the mingw CRT are
\* never bitcode.
Built(store, V) ==
  [payload |-> payload, triple |-> V.triple, cpu |-> V.cpu, fast |-> V.fast,
   pic |-> V.pic, lto |-> V.lto /\ (store = "cxx" \/ V.triple = "musl")]

\* ensure*Sysroot and ensureCxxRuntime: a directory that is there is taken as
\* it is.  The model keeps directories of one key at a time.
Ensure(store, V, result) ==
  LET key == variantHash(V)
      dir == <<store, key>>
  IN  \/ /\ dir \in DOMAIN cache
         /\ result = cache[dir]
         /\ UNCHANGED cache
      \/ /\ dir \notin DOMAIN cache
         /\ \A d \in DOMAIN cache : d[2] = key
         /\ result = Built(store, V)
         /\ cache' = [d \in DOMAIN cache \cup {dir} |->
                        IF d = dir THEN result ELSE cache[d]]
      \/ /\ dir \notin DOMAIN cache
         /\ result = NoDir
         /\ UNCHANGED cache

-------------------------------------------------------------------------------
FrontInit ==
  /\ payload = 0 /\ cache = <<>> /\ stage = "idle"
  /\ given = <<>> /\ Args = <<>>
  /\ sdk = "none" /\ sysroot = NoDir /\ cxxLib = NoDir

Turn(from, to) == stage = from /\ stage' = to
target == parseTarget(given)
CxxLine == wantsCxx(given)
IsQuery == target = "mingw" /\ isPrintPathQuery(Args)
When(condition, words) == IF condition THEN words ELSE <<>>

\* From one step to another, with some words added to the line.
Rewrite(from, to, words) ==
  /\ Turn(from, to)
  /\ Args' = Args \o words
  /\ UNCHANGED <<payload, cache, given, sdk, sysroot, cxxLib>>

Call(line) ==
  /\ Turn("idle", "front")
  /\ given' = line /\ Args' = line
  /\ UNCHANGED <<payload, cache, sdk, sysroot, cxxLib>>

\* UNPIN_NO_FRONT is set, or the line is one the driver made itself (-cc1);
\* or the target is none of ours.
NoFront == Rewrite("front", "done", <<>>)
NotOurs == Rewrite("front", "done", <<>>) /\ target = "other"

CxxHeaders == When(CxxLine, <<"-nostdinc++", "-isystem c++">>)

AddHeaders ==
  /\ Rewrite("front", "headers",
             <<"-resource-dir", "-nostdlibinc">> \o CxxHeaders
             \o <<"-isystem libc">>)
  /\ target \in {"musl", "mingw"}

DarwinHeaders(from) ==
  <<"-resource-dir">> \o When(from = "none", <<"-nostdlibinc">>)
  \o When(from = "detected", <<"-isysroot detected">>)
  \o CxxHeaders \o When(from = "none", <<"-isystem libc">>)

\* An SDK of the user's (in argv or SDKROOT) wins; else xcrun is asked.
AddDarwinHeaders ==
  /\ Turn("front", "headers")
  /\ target = "darwin"
  /\ sdk' \in IF Has(given, {"-isysroot user"}) THEN {"user"}
              ELSE {"none", "user", "detected"}
  /\ Args' = Args \o DarwinHeaders(sdk')
  /\ UNCHANGED <<payload, cache, given, sysroot, cxxLib>>

CompileOnly ==
  Rewrite("headers", "done", <<>>) /\ ~IsQuery /\ ~isLinkStep(Args)

EnsureSysroot ==
  /\ Turn("headers", "sysroot")
  /\ IsQuery \/ isLinkStep(Args)
  /\ Ensure("sysroot", parseVariant(Args), sysroot')
  /\ UNCHANGED <<payload, given, Args, sdk, cxxLib>>

GiveUp == Rewrite("sysroot", "done", <<>>) /\ sysroot = NoDir

AnswerQuery ==
  /\ Rewrite("sysroot", "done", <<"-B sysroot/lib", "-B sysroot/implib">>)
  /\ sysroot # NoDir /\ IsQuery

Lld == <<"-fuse-ld=lld", "-B sysroot/bin">>

LinkRelocatable ==
  /\ Rewrite("sysroot", "done", <<"-nostdlib">> \o Lld)
  /\ sysroot # NoDir /\ ~IsQuery /\ isRelocatableLink(Args)

EnsureCxx ==
  /\ Turn("sysroot", "link")
  /\ sysroot # NoDir /\ ~IsQuery /\ ~isRelocatableLink(Args)
  /\ IF CxxLine \/ (target = "mingw" /\ Has(Args, {"-lunwind"}))
     THEN Ensure("cxx", parseVariant(Args), cxxLib')
     ELSE UNCHANGED <<cache, cxxLib>>
  /\ UNCHANGED <<payload, given, Args, sdk, sysroot>>

HasCxx == cxxLib # NoDir
LibDirs == <<"-L sysroot">> \o When(HasCxx, <<"-L cxx">>)
Group(cxx, libs) ==
  <<"--start-group">> \o When(cxx, <<"-lc++", "-lc++abi", "-lunwind">>)
  \o libs \o <<"-lclang_rt.builtins", "--end-group">>

MuslLink(args) ==
  (IF parseVariant(args).pie THEN <<"-static-pie", "-nostdlib", "rcrt1.o">>
                             ELSE <<"-static", "-nostdlib", "crt1.o">>)
  \o LibDirs \o Group(HasCxx, <<"-lc">>) \o Lld

LinkMusl == Rewrite("link", "done", MuslLink(Args)) /\ target = "musl"

\* Of a line: the startup object and the libraries its flags leave.
Startup(args) == When(~userNoStartFiles(args), <<mingwStartupObj(args)>>)
MingwLibs(args) ==
  When(~userNoDefaultLibs(args),
       Group(CxxLine /\ HasCxx, <<"-lmingw32">>) \o <<"-lucrt">>)

MingwLink(args) ==
  <<"-nostdlib">> \o Startup(args) \o LibDirs \o <<"-L implib">>
  \o MingwLibs(args) \o Lld

\* Mutant of LinkMingw: the front's own -nostdlib is read as the user's.
LinkMingwReadLate ==
  /\ Rewrite("link", "done", MingwLink(Append(Args, "-nostdlib")))
  /\ target = "mingw"

\* The user's flags are read before the front adds its own -nostdlib.
LinkMingw == Rewrite("link", "done", MingwLink(Args)) /\ target = "mingw"

\* Our libraries come before the SDK's on the search path.
DarwinLink ==
  When(sdk = "detected", <<"-isysroot detected">>)
  \o When(sdk = "none", <<"-isysroot sysroot">>)
  \o <<"-nostdlib">> \o When(HasCxx, <<"-L cxx">>) \o <<"-L sysroot">>
  \o (IF sdk = "none" THEN <<"-L sysroot/usr">>
                      ELSE <<"-L sdk/usr", "-F sdk">>)
  \o <<"-search_paths_first", "-lSystem">>
  \o When(HasCxx, <<"-lc++", "-lc++abi">>)
  \o <<"-lclang_rt.builtins">> \o Lld

LinkDarwin == Rewrite("link", "done", DarwinLink) /\ target = "darwin"

Finish ==
  /\ Turn("done", "idle")
  /\ given' = <<>> /\ Args' = <<>>
  /\ sdk' = "none" /\ sysroot' = NoDir /\ cxxLib' = NoDir
  /\ UNCHANGED <<payload, cache>>

\* Between calls: a compiler with another payload is installed, and somebody
\* clears a directory out of the cache.
Upgrade ==
  /\ stage = "idle" /\ payload < MaxPayload
  /\ payload' = payload + 1
  /\ UNCHANGED <<cache, given, Args, sdk, sysroot, cxxLib, stage>>

Forget(dir) ==
  /\ stage = "idle"
  /\ cache' = [d \in DOMAIN cache \ {dir} |-> cache[d]]
  /\ UNCHANGED <<payload, given, Args, sdk, sysroot, cxxLib, stage>>

FrontNext ==
  \/ \E line \in Lines : Call(line)
  \/ NoFront \/ NotOurs \/ AddHeaders \/ AddDarwinHeaders
  \/ CompileOnly \/ EnsureSysroot \/ GiveUp \/ AnswerQuery
  \/ LinkRelocatable \/ EnsureCxx \/ LinkMusl \/ LinkMingw \/ LinkDarwin
  \/ Finish \/ Upgrade
  \/ \E dir \in DOMAIN cache : Forget(dir)

FrontSpec == FrontInit /\ [][FrontNext]_frontVars

-------------------------------------------------------------------------------
(* What a line asks for, by the place of its flags: the last one of those  *)
(* that exclude each other decides.                                        *)

Decides(flag, others) ==
  \E i \in 2 .. Len(given) :
    given[i] = flag /\ ~\E j \in i + 1 .. Len(given) : given[j] \in others

Asked ==
  [payload |-> payload, triple |-> target,
   cpu  |-> IF \E f \in CpuFlags : Decides(f, CpuFlags)
            THEN CHOOSE f \in CpuFlags : Decides(f, CpuFlags) ELSE NoFlag,
   fast |-> \E f \in FastFlags : Decides(f, OptFlags),
   pic  |-> \/ Decides("-fPIC", PicFlags)
            \/ Decides("-pie", PieFlags) /\ ~Decides("-fno-pic", PicFlags),
   lto  |-> Decides("-flto", LtoFlags)]

\* The libraries a link is given were built by the payload in use and for
\* the axes this very line asks for, whatever other lines left in the cache
\* before it: the key of a directory names everything the recipes look at
\* (variantHash, parseVariant).  Only the mingw and macOS system libraries
\* are never bitcode.
ServedAsAsked ==
  /\ sysroot # NoDir =>
       sysroot = [Asked EXCEPT !.lto = @ /\ target = "musl"]
  /\ cxxLib # NoDir => cxxLib = Asked

StartupObjects == {"crt1.o", "rcrt1.o", "crt2.o", "crt2u.o", "dllcrt2.o"}
CxxLibs == {"-lc++", "-lc++abi"}
AddedWords == {Args[i] : i \in Len(given) + 1 .. Len(Args)}
Wants(line, flags) == ~Has(line, flags \cup {"-nostdlib"})

\* What the user wrote stays in front.  A finished link has the one startup
\* object of its mode, or none where the user, or -r, or the platform wants
\* none; the libraries go with it unless they are refused (on Windows, where
\* the front honours that); and the C++ libraries are named only when they
\* were asked for and are there (frontRewriteWin, frontRewriteMusl).
LinkMatches ==
  stage = "done" =>
    LET linked == sysroot # NoDir /\ ~IsQuery
        whole  == linked /\ ~Has(given, {"-r"})
        own(flags) == target # "mingw" \/ Wants(given, flags)
        static == Decides("-pie", PieFlags)
    IN  /\ IsPrefix(given, Args)
        /\ linked => ~Has(given, CompileFlags \cup QueryFlags)
        /\ Cardinality(StartupObjects \cap AddedWords)
             = IF whole /\ target # "darwin" /\ own({"-nostartfiles"})
               THEN 1 ELSE 0
        /\ ("rcrt1.o" \in AddedWords) = (whole /\ target = "musl" /\ static)
        /\ ("-static-pie" \in AddedWords) = ("rcrt1.o" \in AddedWords)
        /\ ("-lclang_rt.builtins" \in AddedWords)
             = (whole /\ own({"-nodefaultlibs"}))
        /\ CxxLibs \cap AddedWords =
             IF whole /\ own({"-nodefaultlibs"}) /\ CxxLine /\ HasCxx
             THEN CxxLibs ELSE {}
        /\ ("-fuse-ld=lld" \in AddedWords) = linked
===============================================================================
