# A specification of nix-lib's concurrent and stateful parts

The repository is the library behind the `unpins` packages: it builds fully
static single-file programs with a relocatable clang/zig toolchain and Nix
expressions around it. Most of it is declarative (Nix expressions, package
overlays, patches) and has no behaviour over time. What has behaviour is the C
and C++ that ships inside the toolchain and inside the programs, and the shell
that edits finished binaries. This directory models that part in TLA+, checks
it with TLC and proves part of it with TLAPS.

Contents: [parts of the system](#the-parts-of-the-system),
[modules](#modules-and-how-they-map-to-the-code), [runs](#what-the-runs-check),
[fairness](#fairness), [proofs](#proofs), [disagreements found](#where-code-and-comments-disagree),
[limits](#what-is-not-modelled), [plan](#plan).

## The parts of the system

### Toolchain, at run time

**On-demand sysroots** (`toolchain/unpin_musl.cpp`). The compiler carries the
*sources* of libc, compiler-rt, the mingw and darwin import libraries and the
C++ runtime. The first link for a variant (triple, CPU, optimisation class, ...)
compiles them into `<cache>/<triple>/<hash>`; later links of any process use
that directory.

- State: the variant directory, with its `.complete` marker; the `.tmp` tree
  under construction; a lock file; and, inside each invocation, how far it is.
- Operations: `ensureSysroot`, `ensureWinSysroot`, `ensureDarwinSysroot` and
  `ensureCxxRuntime`: look at the marker, lock, look again, clear `.tmp`, build,
  write the marker, rename, unlock, look once more.
- Interactions: any number of compiler processes share the cache and no other
  channel. A builder re-execs *itself* for every compile, so its children run
  the same front and could ask for the same lock. The C++ runtime is nested in
  the sysroot's directory: one store's `create_directories` touches the other.
- Hard: concurrent builders, builders killed at any point while their compiles
  run on, failed compiles, a lock whose failure is ignored.
- Correct if: a marker is only ever seen over a whole directory; nobody else
  works in a `.tmp` tree that is in use; a crash leaves nothing that blocks the
  variant for good; a published directory does not change under its readers;
  every link ends; an invocation is refused only for a failure of its own.

**Compile pools** (`buildLibc`, `buildBuiltins`, `buildArchive`,
`buildMingwArchive`). A stage of a recipe is a pool of threads that take jobs
off an atomic counter until they are used up or one has failed.

- State: the counter `next`, the flag `ok`, the objects, and the process
  environment, in which `UNPIN_NO_FRONT` decides how children behave.
- Interactions: the pool is what a builder does inside the lock; `setenv` and
  `unsetenv` of the builder's thread are seen by the children its workers spawn.
- Correct if: an object is written once, a stage starts only over finished
  stages, a failure is seen by the join, and each child runs with the front
  silenced or active as its recipe needs.

**Embedded-file reader** (`toolchain/unpin_vfs_core.cpp`). The toolchain's own
headers and sources are a zip behind the executable. Files are decompressed
when first asked for and cached for the life of the process.

- State: the once-flag, the node table, one atomic pointer per file, one lock.
- Interactions: clang's overlay file system and zig's file lookups call it from
  many threads; they keep the pointers.
- Correct if: what is handed out is the whole of the right file and stays so;
  all callers share one buffer; failures neither leak nor block.

**clang overlay** (`unpin_clang_vfs.cpp`): the archive's tree as an
`llvm::vfs::FileSystem` under a mount. Paths are normalised, looked up in the
node table by halves; a directory is listed by walking the whole table.

- State: the table, which is made once; the iterators clang keeps open.
- Hard: dots that lead out of the mount and back, an order of bytes in which `-`
  and `.` sort before `/`, archives in any order, calls between two steps of an
  iterator.
- Correct if: every spelling gets the answer of what it means, a listing is
  complete, nothing of unpin's own directory shows, every search ends.

**Driver front** (`unpin_musl.cpp`, `frontRewriteMusl`): reads a command line
before clang does, decides the target and the variant, has its libraries made
and adds a self-contained link.

- State: the command line as rewritten so far; the cache of variants.
- Hard: flags that exclude each other, in any order and number; the key of a
  variant against everything its build depends on; a payload that is replaced
  by a newer one while the cache stays; the user's own `-nostdlib`, `-r`, `-c`.
- Correct if: a line is served what it asks for and no other line's libraries;
  what is added makes one link, neither twice nor with parts that are missing.

### Programs, at run time

**DNS fallback** (`dns-fallback/dns-fallback.c`). Static programs interpose
`getaddrinfo`, `gethostbyname` and `freeaddrinfo`: where the system resolver
cannot be reached at all, and only if the user named resolvers in `$UNPIN_DNS`
or the configuration file, the name is asked of those, over UDP, then over
DNS-over-HTTPS.

- State: per lookup, the resolvers, the question, what was heard; across
  lookups, the chains the caller holds and the static `hostent`.
- Hard: silent, failing, malformed and truncated replies, in every order, over
  two transports; chains of two allocators; fixed-size buffers.
- Correct if: nobody is asked without the user's consent; an answer, "no such
  name" included, is final; a dead transport is waited for once; whatever
  arrived is returned; every chain is freed once by its own allocator; every
  lookup ends.

**CA fallback** (`openssl-ca/ca_fallback.h`, spliced into OpenSSL's `by_file.c`
and `by_dir.c`). A program that asks for "the system's" roots gets what the
environment names, else the host's bundles or hashed directories, else the
embedded Mozilla roots; on Windows the embedded roots and the ROOT store.

- State: nothing but the store being filled; the host and the environment are
  read as the load goes.
- Interactions: OpenSSL asks for a default file and a default directory in two
  independent calls, of which a program may make one.
- Hard: twelve rows of a table (platform, mode, two variables), with a failure
  possible at every step of each; the rows are taken in code by fall-through.
- Correct if: a store trusts what its row grants and nothing else, whatever
  fails; success is never reported for a bundle that was not read.

**Runtime VFS** (`vfs/vfs.c`) serves a program's runtime tree out of its own
archive, through the libc calls the program makes anyway.

- State: the archive's central directory, the reader's state, one record per
  open directory stream; under Windows a table of open searches and the paths of
  temporary files; descriptors.
- Interactions: the archive is the one the embedding pipeline writes, and holds
  unpin's metadata as well; the callers are `open`, `stat`, `access`, `opendir`.
- Hard: directories without records, entries in any order, paths spelled with
  `.`, `..` and in another case, memory running out in the middle of a listing;
  handles whose address is used again by somebody else; a temporary directory
  shared by processes that fail, exit or are killed between any two calls.
- Correct if: all calls agree about a path, a listing or a search is complete
  and repeats nothing, the metadata cannot be reached, a descriptor holds the
  whole of the right file, and no temporary file is left that the code could
  have removed.

**Multicall dispatchers** (generated by `flake.nix`) select one of several
merged programs, by the name they are called by or by a selector.

- State: none; argv and, under Windows, the command line it was made from.
- Correct if: a name runs its program however it is decorated, the program is
  handed the name it knows, and both copies of the arguments agree.

### Build time

**Embedding pipeline** (`flake.nix`: `withUnpinEmbed`, `withAliases`, `withMan`,
`withRuntimeData`, `unpinEmbedWrap`; `vfs-pack/unpin-vfs-pack.c`). Several
wrappers, each unaware of the others, put aliases, man pages and runtime files
into one zip behind a binary, which is then stripped, trimmed, copied or
wrapped again.

- State: the archives behind the binary; what the current build has staged; the
  size recorded at its first embedding; the copy kept of a Cosmopolitan binary.
- Hard: the order and number of calls is the package author's; each must undo
  and redo what an earlier one did; a Cosmopolitan binary reads the same archive
  itself; stripping discards it.
- Correct if: readers find the latest of everything staged, one archive per
  build, a Cosmopolitan binary keeps its own members, each member's dictionary
  is there, and declared aliases survive the wrap.

**Fixup hook** (`cosmo-apelink-hook.sh`) converts the programs in `bin/` of a
Cosmopolitan build, renames them, and makes the links to them again. **Man page
staging** (`mkmeta.py`) turns a package's pages into the tree that is packed,
redirects into links. Both are loops over a directory that they change, or that
the host has changed before them (a file system that folds case).

- Correct if: what ran by a name before runs after; and the pages shipped do not
  depend on whether the host folds case.

**Everything else at build time** (recipes, overlays, generators, patches,
vendored code) is listed with its reason in `PROJECT.json`.

## Modules and how they map to the code

`PROJECT.json` maps each definition to its lines; this is the outline.

| module | models | proofs |
|---|---|---|
| `SysrootService` | what a link may rely on: the abstract specification | |
| `SysrootCache` | the cache, builders, compiles, crashes | `Toolchain_proofs` |
| `SysrootRecipes` | what each builder compiles, in order | |
| `RecipeRun` | what the cache takes a builder to do inside the lock | |
| `CompilePool` | the threads that do it | `CompilePool_proofs` |
| `VfsCore` | initialization and the cache of decoded files | `EmbeddedFiles_proofs` |
| `VfsIndex` | the node table: parse, sort, search | `EmbeddedFiles_proofs` |
| `ClangOverlay` | clang's view of it | `EmbeddedFiles_proofs` |
| `DriverFront` | from the command line to the link | `Toolchain_proofs` |
| `DnsFallback` | a lookup, from the caller to the chains | `DnsFallback_proofs` |
| `DnsConfig` | how the configuration file is read | `DnsFallback_proofs` |
| `DnsLookup` | the two together | `DnsFallback_proofs` |
| `CaFallback` | the default lookups of trust anchors | `CaFallback_proofs` |
| `VfsDirs` | lookups and directory streams of a runtime tree | `VfsRuntime_proofs` |
| `VfsFind` | the same tree searched under Windows | `VfsRuntime_proofs` |
| `VfsFiles` | how a file becomes a descriptor | `VfsRuntime_proofs` |
| `VfsRuntime` | the three together | `VfsRuntime_proofs` |
| `LexicalPath` | what a path means: a reference for two of the above | `LexicalPath_proofs` |
| `PackTool` | the archive that is written and the one taken over | `PackageBuild_proofs` |
| `EmbedZip` | the archive behind a shipped binary | `PackageBuild_proofs` |
| `ApelinkHook` | `bin/` before and after the fixup hook | `PackageBuild_proofs` |
| `MulticallDispatch` | which program a call runs | `PackageBuild_proofs` |
| `ManStage` | the man pages that are staged | `PackageBuild_proofs` |
| `PackageBuild` | the four together: a build from its programs to its binary | `PackageBuild_proofs` |
| `MC...` | values of the constants for TLC | |

The toolchain's modules are stacked: `SysrootCache` implements `SysrootService`
(`published[s]` is the presence of the marker), and it takes the inside of a
build as "stages in order, pieces once, so many at a time", which is what
`RecipeRun` says and `CompilePool` implements (`Kids`, `Outcome`); `RecipeRun` is
the part of `SysrootCache` between `mktmp` and `BuildDone` or `BuildFailed`, with
the same `Ready` and `Spawn`, and the correspondence of those two is by reading.
The front is in `SysrootCache` itself, as the order of its questions (`Return`).

Loops over a sequence that theorems are about (`Tokenize`, `RemoveDots`,
`PathOf`, `Canon`, `Listing`, `LastOf`, `Rewired`,
`Installed`, `Mkmeta`) are written as recursive functions over its
length: what the provers know nothing of, a `RECURSIVE` operator or a fold of
the library, can only be evaluated.

**SysrootCache.** A process is a control point `pc` between any two operations
on the disk or the lock: `check` (marker), `open`, `flock`, `recheck`, `clean`
(`remove_all` of `.tmp`), `mktmp`, `build`, `stamp` (stubs, removal of an old
marker), `mark`, `publish` (`rename`), `close`, `verify`, `link`. Points of the
code that are modelled with care because properties rest on them:

- *The lock belongs to an open file description.* The code opens the lock file
  without `O_CLOEXEC`, so the compiles inherit it; `Crash` frees the lock only
  if no compile runs, and `ChildExit` frees it with the last one. The mutant
  `CrashUnlocks` (close-on-exec) breaks `BuildersSerialized`: what looks like an
  oversight is what keeps the orphans' tree private.
- *The result of `flock` is ignored*: `LockFails`, under the constant
  `LockMayFail`. It is the kernel's doing and no step of the process's own, so it
  is in `Next` and not in `Step`, of which fairness speaks.
- *`rename` onto a non-empty directory fails unnoticed*, and building the C++
  runtime creates the sysroot's directory (`MakeTmp`): hence `NeverWedged`.
- *A child that is itself a link step would wait for its parent's lock*:
  `EntersEnsure`, computed from the child's argv and whether its front is active.

Abstracted: the contents of files, the hash of the variant (one variant; others
are disjoint directories), messages. A compile needs its inputs in the tree
(`Inputs`) and may fail for any reason.

**CompilePool.** One action per atomic access: `Claim` (`fetch_add`), `Test`
(bound and `ok`), `Spawn`, `Compiled` or `CompileFails`, `Fail`
(`ok.store(false)`). A stage is a record: its jobs, whether it is a pool,
whether `UNPIN_NO_FRONT` is set before or unset after it, and how its compiles
*must* run. The last is the requirement, the others are the code;
`FrontAsAsked` compares them. Every builder function ends with `Leave`, whether
its stage failed or not.

**VfsCore.** One action per load, store and lock operation of `unpin_vfs_data`,
with `malloc`, and reuse of freed addresses, explicit. Pointers are handed out
into the history variable `given`, since callers keep them.

**DnsFallback.** `Lookup`, `OsFinds`/`OsFails`, `Resolvers`, `Alloc`, then per
address type `StartType`, exchanges (`AskUdp`, `AskDoh`), `EndUdp`, `EndDoh`,
and `FindNothing` or `Find`; `FreeAddrInfo` at any time between lookups. A reply
is what `parse_resp` makes of it: silence, a transport error or unusable code,
"no such name", an answer, or garbage after some usable records.

**DnsConfig, DnsLookup.** `fgets` with its buffer, cut at `#`, split at `=`,
trim, keep the last. It is checked against a definition of the grammar by
positions in the file, written independently of the code's string operations.
`DnsLookup` hands the value that was found to `DnsFallback` as its words. The
code reads the file at each lookup; here it is read once, since it does not
change. An empty file stands for none as well. `config_path` only says where it
is: `$XDG_CONFIG_HOME` if set, whether or not there is a file, else `$HOME`.

**PackTool, EmbedZip.** A binary is a sequence of units: the program, members,
and central directories, each of which lists members by name and offset. A
reader goes by the directory that ends the file. `Carry`, `CarryBase` and
`AdjustOffsets` are the pack tool's `carry_from` and `adjust_offsets`; `Pack` is
its `main`. `Embed` is one call of `__unpin_embed_subtree`: merge, cut, carry,
pack and verify; the other actions are the wrappers that call it. Member contents
are the number of the embedding that staged them, so that "latest" can be said.
The tool ignores what miniz returns for the dictionary and for directories; a
full disk there is not modelled.

**ApelinkHook, MulticallDispatch, ManStage, PackageBuild.** The first three are
functions: over `bin/` (name to program, file or link), over argv, over the
pages in the order they were written. Loops over a directory go through its
names in the order of a glob, on the directory as the turns before have left
it. In `argv[0]` only the decorations are told apart, other arguments are words
or the selector; names of 256 characters and more, which the dispatcher cuts,
are left out. `ManStage` models the host as well: where case is folded, a write
goes to the file that is there, which keeps its name. `PackageBuild` is the
order of a build: programs are installed, the hook runs (`Fixup`), every call is
compared with what it ran before, pages are installed and staged, then
`EmbedZip`. `InstallProgram` does not install a name both with `.exe` and
without: there the hook would take the other file for its tool's output.

**CaFallback.** A step machine: one action per branch of `unpin_ca_load_default`
and per certificate, bundle or directory it comes to, with a failing alternative
wherever something is opened, parsed or allocated. `FileGrant` and `DirGrant`
are the table in the header's comment, written as a table; the code's order of
tests appears in the actions only. `trust` is kept by origin (a bundle, a
directory, a certificate). What Windows cannot be asked about (`known`) counts
as not distrusted, in the code and in the table.

**VfsDirs, VfsFind, VfsFiles, VfsRuntime.** Names are sequences of segments,
`Lower` their lower case, which miniz's search uses and the listings do not.
`OpenDir`, `ReadDir`, `ReadEnd` and `CloseDir` are the calls on a stream; `open`,
`stat` and `access` change nothing but the reader's state and are operators on a
path. The history fields `out` and `lost` of a stream let the properties speak
of a whole listing. `VfsFind` is the search under Windows, whose handles are
addresses: `held` is what the program believes of each address, `g_finds` what
the code does. In `VfsFiles` a call is a control point between any two system
calls of `materialize` (Windows: a temporary file, kept) or `anon_fd` (`memfd`,
or a file unlinked while open), for any number of processes in one temporary
directory; `Fail` is the failure of the call that is next (that of `fdopen`
behind `fopen` closes the descriptor, and leaves what a failed write leaves). The
three share the archive alone and no other state; `VfsRuntime` follows one of
them per behaviour, which loses no interleaving.

**VfsIndex, ClangOverlay.** One action per record that is read and per half that
is searched. Names are sequences of bytes, since the order of bytes is what the
search relies on. A request is its components; `RemoveDots` is LLVM's lexical
normalisation, compared with `Lexical`, which reads a path from the right.
The working directory the overlay stores is not part of it: no lookup uses it.

**DriverFront.** Stages of `frontRewriteMusl` in their order: `Call`, headers,
`CompileOnly`, `EnsureSysroot`, the relocatable link, `EnsureCxx`, the link of
the platform (`MuslLink`, `MingwLink`, `DarwinLink` are its words), `Finish`.
`parseVariant` and `variantHash` are operators on the
line; a directory of the cache remembers what it was built as (`Built`), its
place is its key, so that a key that says too little shows. `Upgrade` replaces
the payload and leaves the cache; `Forget` deletes a directory.

## What the runs check

Twelve runs; each question once. Seconds are for two workers.

| run | question | states |
|---|---|---|
| `sysroot_musl` | is the cache safe, and does it implement the service | 168 k, 30 s |
| `sysroot_live` | does every link end, though the lock may fail and need not | 41 k, 16 s |
| `pool_musl` | is a pool race-free, does it run a recipe and give the environment back, does it end | 18 k, 6 s |
| `vfscore_two` | is the file cache safe for readers, does every call return | 31 k, 7 s |
| `dns_safe` | is the fallback opt-in, final, frugal and faithful | 1.8 M, 60 s |
| `dns_calls` | over several lookups, with what a file configures: does the reader follow the grammar, are chains accounted for, does it end | 611 k, 50 s |
| `embed_ship` | does what a package installs arrive in what it ships | 54 k, 6 s |
| `ca_table` | does a store trust what the table grants, and only that | 79 k, 4 s |
| `vfs_runtime` | are listings and searches whole, calls in agreement, metadata hidden, descriptors whole, the disk clean | 121 k, 35 s |
| `overlay_tree` | is every path answered as the archive says, does every call return | 148 k, 36 s |
| `driver_lines` | is a line served what it asks for, is the link it makes whole | 487 k, 44 s |
| `hook_links` | a defect of the fixup hook, see below | |

**Bounds, and why they are enough.**

- `sysroot_musl`: two invocations, with the full musl recipe and both stores. A
  pool stands as two objects, which is the least with a parallel compile; two
  compiles run at once. Two processes give the builder and the waiter, the
  crashed builder with orphans and its successor, a C link racing a C++ link
  into the nested store. The proofs cover any number of processes, pieces and
  stages. `Target` in the cfg may be changed to `"mingw"` or `"darwin"` for the
  other recipes. Processes are interchangeable, hence the symmetry set; all
  properties of that run are safety properties, for which it is sound.
- `sysroot_live`: a recipe of two files and one, since liveness is about the
  lock, not the recipe; with `LockMayFail = TRUE` `flock` may fail
  at any moment, and no fairness makes it: the behaviours in which it never does
  are fair, and in those a waiter is served by the release of the lock or not at
  all. (If a lock is never released, by `ChildExit` for one, `Termination`
  fails.) No symmetry.
- `pool_musl`: three workers over all the stages of a musl sysroot and C++
  runtime, with as many jobs in a pool as workers and with fewer; a quick worker
  takes several. Any numbers by proof.
- `vfscore_two`: two threads with two calls each, one good file, one that does
  not decode, one directory, two addresses: enough for two threads in the slow
  path, reuse of a freed address, and a second call that hits. Any number by
  proof.
- `dns_safe`: one lookup in full breadth, two resolvers, both address types,
  a block of two addresses, up to two records per reply (one more than fits
  after the first), lists that are empty, contain a host name or are too long.
- `dns_calls`: every file of up to two lines from eight forms of key and five of
  value (1641 files), then three lookups in a row with what it names, frees
  between them. The file is read ahead of the first lookup, because it does not
  change. `LineCap` is longer than any line: on longer ones the property does not
  hold (see [below](#where-code-and-comments-disagree)). Any file whose lines fit
  by proof.
- `embed_ship`: three embeddings in the package's build, at which one is cut back
  to a size recorded two calls before, and one in the wrap; three payload names
  of which one collides with a bundled member, on three kinds of binary. Three
  names in `bin/` of six, each with and without the suffix: a program, a link
  that sorts before it and one that sorts after, or a link to a link. A table of
  three rows over two programs, one name that is in none, and five argument
  lists. Three writes of pages over four files: two that differ in case, one that
  is another's name packed, and one apart, each a text or a redirect to any.
- `ca_table`: three bundles, each absent, refused, broken or good, of which one
  is another app's; two directories; two embedded roots and two in the ROOT
  store, one of them the same certificate; every environment and platform.
  Three and two are the least at which "the first that exists" differs from
  "any" and "every" from "the first". On Windows all the Unix paths hold good
  bundles, the case in which reading one would show. Any lists by proof.
- `vfs_runtime`: archives of up to four out of six entries in every order, which
  includes the order the packer writes (a sibling between a directory and its
  children); two streams; every path of up to three segments (`MaxSegs`) from
  eight, in two spellings. Archives hold no two names that differ only in case
  (`IsTree`). Streams are interchangeable, hence the symmetry set. Searches: a
  table of two (`FindMax`) and three addresses, so that the table is full while
  an address is free and one is used again. Descriptors: two processes, two
  files of which one is empty and one takes two writes, three names.
- `overlay_tree`: every order of four records of a directory, a sibling and what
  is below, and a tree of seven in reverse; paths of up to three components
  below the mount, with dots, and others beside it; one iterator, while other
  calls come between its steps. Depth three is the least at which a table is
  halved to both sides and a path leaves the mount and returns.
- `driver_lines`: some 580 lines: every two codegen flags in either order,
  every two of those that decide about the link, some of three, on three
  targets and one that is not ours; one change of the payload. The cache holds
  the directories of one key at a time: a line is wrongly served by one other
  line's directory or by none.

`overlay_tree` and `driver_lines` check for deadlock: clang may always make
another call. The other runs have `CHECK_DEADLOCK FALSE`: those systems stop
when every invocation, call or build is done. `Termination`, `PoolEnds`,
`EveryCallReturns` and `EveryLookupEnds` check that they do not stop earlier.

**Properties:**

- `BuildersSerialized`: a `.tmp` tree has one user, counting the compiles of a
  dead builder. `CompleteIsWhole`: the marker can be trusted alone.
  `NeverWedged`: no directory without a marker is left where a later rename
  must land. `PublishedStays`: although each builder removes a marker on its
  way, no published directory changes. `ImplementsService`, `Termination`.
- `WrittenOnce`, `FrontAsAsked` (each compile in the environment it needs, and the
  builder's own given back), `ImplementsRecipe`, `PoolEnds`.
- `GivenIsWhole`, `OneAnswer`, `NoLeak`, `EveryCallReturns`.
- `OptIn`, `AnswerRespected`, `AskedInTurn` (`SilencePaidOnce`: a dead transport
  is waited for once; `DohIsSecond`: only where UDP was in vain),
  `AnswerFaithful`; `LastWins`, `ChainsAccounted`, `EveryLookupEnds`.
- `StagedLatest`, `StoreKept`, `Readable` (offsets lead to members, nothing is
  in the file that is not listed, dictionaries are there), `AliasesSurvive`;
  `NamesRun` over the hook and the dispatcher, for programs and links straight to
  them (`SurfaceSurvives`, for any link, is what `hook_links` refutes);
  `PagesAlike` over two hosts.
- `NeverWidens`, `FollowsTable`.
- `ListsOnce`, `RuntimeAgrees` (`CallsAgree` and `MetadataStays`),
  `SearchWhole`, `ServedWhole`, `NothingLeft`.
- `FindsExactly`, `OverlayAnswers`, `ListsWhole`, `EveryCallAnswered`.
- `ServedAsAsked`: the key of a directory names all its build depended on.
  `LinkMatches`: startup object, libraries and flags make one link.

Type invariants are proved where there are proofs (`TypeCorrect`).

Each has a mutant: a plausible bug written beside the definition it replaces
(comments "Mutant of ..."), under which TLC refutes the property.

## Fairness

Only weak fairness, only of what is already running:

- `SysrootCache`: of `Step(p)`, because the kernel schedules a process and no
  operation of it waits for anything but the lock; of `Child(p)`, because a
  compiler run ends. Not of `Start` (nobody has to compile anything), of `Crash`, or
  of `LockFails`, which would get a waiter out of `flock` by an error nobody
  promises. A waiter could be overtaken for ever only by infinitely many
  builders, of which there are finitely many; so weak fairness of `Acquire`
  suffices, although `flock` promises no order.
- `CompilePool`: of the builder's thread and of each worker: threads are
  scheduled, and a compile ends.
- `VfsCore`: of `Step(t)`, a thread inside a call; not of `Call`.
- `DnsLookup`: of `LookupStep`, the lookup: an exchange that gets no reply ends
  by its timeout, which is the reply "silence". Not of the caller.
- `ClangOverlay`: of what a call that was made does next; not of making one.

`PackageBuild`, `CaFallback`, `VfsRuntime` and `DriverFront` have no liveness
property: each is sequential code over finite lists, or may be killed anywhere.

## Proofs

Eight modules of proofs, checked by TLAPS for every value of the constants that
satisfies the named assumptions of the modules they are about, all of which TLC
also evaluates in the runs. The assumptions say no more than what the constants
are: that lists are sequences, sizes numbers, sets of names disjoint from the
values that stand for "none". Those that say more say what the code relies on:
the toolchain's archive has each path once, without a slash
at either end, and no record of the reserved directory itself (`VfsIndexAssumption`); a runtime tree has no empty segments and no two names
that differ only in case (`VfsDirsAssumption`, `IsTree`); a command line has at
least the program's name (`DriverFrontAssumption`); two names differ with `.exe`
behind them if they do without (`HookAssumption`); the files of man pages that differ
only in case are of pages that do, and the files of a page sort by what follows its
name, which is the same in either case (`ManAssumption`: a file is called after its
name and section, with or without ".gz").

**LexicalPath_proofs** comes first, since the others rest on it. The library's
induction theorems take an operator, which the provers cannot instantiate.
`Least` and `Induct` state induction for a *set* of numbers, which they can, and
`FoldExists` derives from it that a function defined by `f[n] = step(n, f[n-1])`
exists; so the model's loops over sequences, which are recursive functions,
are known to satisfy their equations, and what each has after `n` turns is
proved by `Induct`. `StackIsLexical` is the first use: a stack on which `..` pops
and a name pushes, read from left to right, holds exactly the segments that a
definition reading from the right says survive. `path_canon` and LLVM's
`remove_dots` are two such stacks.

**Toolchain_proofs**, the cache and the front.

- `SysrootCache`, any number of invocations and any recipe: `TypeCorrect`
  (`[]TypeOK`), and, *assuming that the lock does not fail*
  (`LockMayFail = FALSE`; see [below](#where-code-and-comments-disagree)),
  `Serialized`, `Whole`, `NotWedged`, `Stays`, `Refused` and `Implements`
  (`Spec => ImplementsService`). The invariant `IInv` is needed because no
  property is inductive alone. It says who holds a lock (`HoldsLock`: whoever is
  between taking and closing it, or is dead with compiles running, is its
  owner); what the owner's control point says of its tree (`TreeOf`: during
  `build` it exists and holds all the pieces in `got`; after `mark` it has the
  marker and every kept file); that the marker is absent while somebody builds
  (`MarkerOf`, what the recheck under the lock establishes); and what each
  answer implies (`AnswersOf`). Then: `Stamp` cannot remove a marker, since there
  is none while a builder is there (`Stays`); `Publish` moves a whole tree onto
  nothing (`Whole`, `NotWedged`); `Verify` finds the marker it or somebody put
  there (`Refused`). `Implements` maps `Publish`, `Check`, `Recheck`, `Verify` and
  `BuildFailed` to the service's `Publish`, `Grant` and `Refuse` and everything
  else to a stutter.
- `DriverFront`, any set of command lines: `ServedAlways`, `LinksAlways`. A
  directory holds what its key says (`CacheAsKeyed`); what the call was given in
  the stages before is for the axes of the line as the user wrote it, not as
  rewritten since (`CallInv`): both `parseVariant` of the two must agree, which
  holds because the words added so far (`HeaderWords`) set no axis. `PlaceInv`
  says what each stage implies of the line and how a finished line `Ending`s:
  one lemma per platform reads off the words of its link (`MuslShows`,
  `MingwShows`, `DarwinShows`) that they fit the flags.

**CompilePool_proofs**, any stages, any number of threads: `TypeCorrect`,
`Once`, and `Implements` (`Spec => ImplementsRecipe`). Here `IInv` is `Phase` (where
workers are when the builder is where), `Claims` (jobs claimed are below `next`
and pairwise different), `Record` (what is built or failed was claimed, and
belongs to this stage or an earlier one), `Account` (each job below `next` is at
a worker, built, failed, or was dropped because `ok` is false), `Built`
(earlier stages are complete). `Account` is the part that no property states
and that the end of a stage rests on: if all workers have exited and `ok` is
true, every job was built.
`FrontKept` (`FrontAsAsked`) has a hypothesis on the list of stages: read one
after the other, as text, they set and unset `UNPIN_NO_FRONT` as their compiles
need it (`StagesBracketed`). TLC evaluates it for the stages of the runs. What is
proved is that the running builder keeps to that reading: the variable is the
process's, read at each spawn by any of the threads, and no thread is left over
from a stage with other needs (`EnvSoFar`); and that a builder which returns, from
whichever stage, returns with the variable unset.

**EmbeddedFiles_proofs**, the reader shared by clang and zig, and the overlay.

- `VfsCore`, any number of threads, files and addresses: `TypeCorrect`, `Whole`,
  `One`, `NoneLost`, `Kept`. `IInv` is the mutual exclusion of the slow path
  (`Mutex`), what its owner holds at each point (`Owners`), that published data is
  whole and of the right file (`DataWhole`), and that what was given is what is
  published (`GivenIsData`): pointers are published once, under the lock, after
  a second look. `Kept` (a file decoded once is never refused again) is proved
  only; in the run it would repeat `OneAnswer`.
- `VfsIndex` and `ClangOverlay`, any archive, any requests, any number of
  iterators: `Exact` (`FindsExactly`), `AnswersMeant` (`OverlayAnswers`),
  `ListingsWhole` (`ListsWhole`). `Less` is shown to be a total order on names
  first. `TableInv`: the table has the records read so far, and is in order once
  sorted; `SearchInv`: a record of the name, if there is one, is between the
  search's bounds, which is where the order is needed. `AnswerInv`: an answer on
  its way to clang is the archive's verdict on what the path means, by
  `StackIsLexical`. `OnceInv` and the invariant on iterators: no name is in the
  table twice, and what an iterator has returned are the children up to where
  it is.

**DnsFallback_proofs**, any lists, resolvers, block sizes and number of lookups:
`TypeCorrect`, `AskedByConsent`, `Respected`, `InTurn`, `Faithful`, `Accounted`.
The five properties are about the history of what was asked; what connects it
to the place in the code is `IInv`: `Progress` (why the lookup has come this
far), `Consented` (the resolvers are the environment's, or else the
configuration's), `TypesAsked` (which types are done), `Round` (what was asked in
this round: the resolvers before the one at hand, over this transport, and what
they answered), `Vain` (a round over DoH follows one over UDP in which nobody
answered), `SilentIsDead` and `SilentIsLast` (a transport on which all were
silent for the first type is dead, and not used for the second), `KeepsAll` (the
block is empty only if no reply carried a record). `TakesDefined` and its lemmas
are the loop of `tokenize_resolvers`.

The other half is the file: `LastLineWins` (`[]LastWins`), for any number of
lines and whatever stands in them, as long as each fits into the buffer with what
ends it (`LinesFit`, a hypothesis of the theorem: the code does not follow the
grammar on longer ones). The code cuts strings, the grammar speaks of positions
in the file, so each string operation is first said by positions: `Copies(r, s,
i, j)` says that `r` is `s` from `i` to `j`; `BeforeAt` is `strchr`, `TrimAt` and
`TrimWord` are `trim`, `LineAt` is `fgets`. With these, `SettingMeans` says that
what the code takes from one line, its end included, is what the grammar says that
line sets, both ways: the "=" and the "#" the code finds are the only ones that can
be meant. `Reading` (the next character begins a line) and `ValueSoFar` (the value is
that of the last line before it that sets one) are then inductive, because between
two positions of `fgets` lies one line at the most (`LineRead`). `FileAccounted` says
of the lookups that follow that they account for every chain, whatever the file
names.

**VfsRuntime_proofs**, the runtime VFS of the programs: any tree, any order of
its entries, any number of processes, streams, handles and addresses.

- `FilesTypeCorrect`, `WholeServed`, `NoneLeft` (`VfsFiles`). `FilesInv` has who
  owns a name in the temporary directory (`Owned`: the call that took it, the
  cache of decoded files, or a descriptor), that no two own one (`OwnedOnce`),
  and that a name on the disk has an owner or is `astray` (`Owners`).
- `StreamsListOnce` (`VfsDirs`): up to where a stream is, what it returned is what
  it had to, no name twice unless the table of names could not grow.
- `SearchesWhole` (`VfsFind`). `SearchesInv`: each slot in use has an address the
  program holds, no two have the same, and each handle the program holds is
  served by its slot, at the place where the program is.
- `CallsAgreeAlways` (`RuntimeAgrees`), a statement about every path in every
  reachable state: `open`, `stat`, `access` and `opendir` compare paths in ways of
  their own, and find the same record.

**CaFallback_proofs**, any lists of bundles, directories and roots:
`TypeCorrect`, `TrustGranted` (`[]NeverWidens`) and `TableFollowed`
(`[]FollowsTable`). `NeverWidens` is not inductive: that the next embedded root
may be added depends on which row of the table the code is in. `Row` says what
each place in the code implies about the environment (`pc = "root"`: native
Windows, neither variable set, not forced), and, in the two loops over the host,
about the part of the list already passed: none of those bundles exists, none
of those directories has certificates unless one was added (`some`). `AllSeen`
turns the end of a loop into the table's "a host with neither"; `Rows` reads the
table by place; `GrantsGrow` says that no step takes a grant back. For
`FollowsTable`, which also says that nothing granted is missing, `FullInv` adds
what the loops have put into the store so far, whatever else failed (`Gathered`);
that if nothing failed, everything asked for is there (`Filled`); and that on Unix
a file lookup that said it succeeded did, whatever became of the directory
(`Vouched`).

**PackageBuild_proofs**, what a package ships.

- `PackTool` and `EmbedZip`, any names, folders and archive of the linker, any
  number of embeddings, on the three kinds of binary: `LatestShown`
  (`[]StagedLatest`), `StoreStays` (`[]StoreKept`), `OneArchive` (`[]Readable`) and
  `AliasesKept` (`[]AliasesSurvive`). First, what reading and writing do:
  `ArchiveRead` (a reader of `p \o Archive(u, Len(p))` finds the members `u`, and
  the archive begins where `p` ends), `CarryFacts` (what is carried is what was
  there, less the symbol table and what the tree replaces) and `PackFacts` (what is
  packed: that, the dictionary, the tree, and no name twice). No property is
  inductive, since each is about the file and the file depends on what the calls
  remember. `IInv` says what the file is made of (`FileInv`: what the build
  found, `Kept`, and one archive that `Holds` the staged tree), what it remembers
  for the next call (`CallsInv`: `size` is where `Kept` ends, `src` the binary it
  started from), what a build may start from (`BaseInv`: at most one archive, and
  no dictionary in it, which is what makes it safe to carry), that `acc` is the
  latest of all that was staged (`LogInv`), and where the list of aliases is from
  the first build to the last (`AliasInv`). `EmbedMakes` is the step all three
  kinds of binary share: cut, carry and pack give `Kept` and a new archive again.
- `PackageEmbeds` (`PackageSpec => Spec`): a package's whole build takes no step of
  the embedding that `EmbedZip` does not take; by it the four hold of
  `PackageBuild`, where the run checks them.
- `MulticallDispatch`, any table and any argv: `LineAgrees` (the argument list the
  dispatcher hands over and the command line it rewrites for programs that read
  that again hold the same arguments, whether or not the program's name fits), by
  the cases of `Dispatch`. The directory a program is called by is left out: the
  dispatcher does not look at it, and leaves it in the `argv[0]` it hands on.
- `NamesRunOn` (`[]NamesRun`), any `bin/` a package can install and any order in
  which a glob lists it. `Installable` is the invariant until the hook: a file's
  name has no suffix yet, and no name is there with and without. The rest is about
  the second loop, which tests and changes the directory it goes through:
  `TurnKeeps` says which turns leave a name alone, hence `ProgramsStay` (a program
  keeps its new name), `OthersStay` and `LinkStays` (what is no program, and the
  links to it, are as they were), and `LinkFollows` (a link to a program is as it
  was until its own turn, is dangling then, whatever turns came before, and leads
  to the new name ever after). `InvokeAlike` ends with the lemma
  `NameDecides`, that the dispatcher goes by the name less its decorations.
- `PagesAlikeAlways` (`[]PagesAlike`), any pages in any order of writes. `Merged`
  says how the trees of the two hosts are related behind each write: one is the
  other with the files that differ in case made one, each with the content of one
  of them. `StagedUpTo` is the invariant of `mkmeta.py`'s loop: what is staged is
  what the first file of each page has, and pages that differ in case have one body
  (`TwinFacts`: the guard looks at the first of them only, and that is enough). The
  point is `StagedAlike`: which file is the first of its page may differ between
  the hosts, since merging changes the names, but not for the first by what follows
  the name. `ReadsAlike` follows the redirects on both, which have different
  numbers of pages to go through.

**Only model-checked:** everything about liveness (out of the prover's reach, as
is ENABLED). Every safety property of a run that passes is stated by a theorem.

## Where code and comments disagree

`hook_links` expects TLC to refute what a comment says: "Same-directory symlinks
whose target was just renamed get rewired so the package's own multi-name surface
[...] survives" (`cosmo-apelink-hook.sh:2`). The loop goes over `bin/` once, in the
order of the glob, and passes over a dangling link whose target has no `.exe` yet
(line 86). TLC's package has `clear -> tset -> reset`, of which `reset` is a
program: `tset` becomes `tset.exe`, but `clear` was looked at before, and ships
leading nowhere. A link whose target sorts before it is rewired.

Met while reading, without a run:

- "Serialize concurrent builders via a per-variant lock file"
  (`unpin_musl.cpp:1165`) holds only where the lock can be taken; neither `open`
  nor `flock` is checked, and two builders can then share a `.tmp` tree. Setting
  `LockMayFail = TRUE` in `SysrootCache_musl.cfg` shows it (`BuildersSerialized`
  fails); the theorems assume it does not happen.
- `config_dns` "[m]irrors the flat grammar of unpin/src/config.rs: strip an inline
  `#` comment, trim, split on the first `=`, last-wins" (`dns-fallback.c:268`).
  `fgets` hands a line of 512 bytes or more over in pieces, each of which is parsed
  as a line: the tail of a long comment can be a setting. `File <- MCLongFile` in
  `DnsLookup_calls.cfg`, comments that fill the buffer with any of forty lines
  behind, shows it (`LastWins` fails).
- `unpin_vfs_core.cpp:166` says that unpin's own directory never shows, and skips
  what begins with `.unpin/` and is longer; a record of the directory itself
  would show. The packer writes none for its own members at the root.
- A mingw binary whose own build embedded aliases has two archives after the
  wrap, where `flake.nix:2142` says one; readers find the second.
- The overlay stores a working directory and resolves nothing by it.
- `dir_begin` of a regular file gives an empty listing, no error.
- `-static-pie`, `-Wl,-pie` and a default of PIE are not read as a PIE link
  (`unpin_musl.cpp:1632`); such a link on musl gets an ordinary startup object.
- `mkmeta.py` drops a ".gz" in lower case only (`mkmeta.py:34`): to its guard
  against pages that differ only in case, `foo.1.GZ` and `foo.1.gz` are two pages
  that do not (`foo.1.1` and `foo.1`), and one file where case is folded.
  `ManAssumption` leaves such names out.
- Under Windows `access` and `stat` do not know directories of the mount, and the
  attribute call does (`vfs.c:564`, `vfs.c:391`).

## What is not modelled

Per component, with its reason, in `PROJECT.json`. Most of the repository's lines
are vendored: `zstddeclib.c` and two copies of `miniz` are 41 of its 47 thousand
lines of code. They are third-party code, and stand in the modules as what their
callers see: a member decodes to its content or not, a name is found or not.
Within the modelled parts:

- Only one variant of the cache at a time in `SysrootCache`; that the key tells
  variants apart is `DriverFront`'s `ServedAsAsked`. The seed of a cache that is
  unpacked from outside (`flake.nix:103`) runs before any invocation.
- The stubs a sysroot ships are written unchecked; `CompleteIsWhole` speaks of
  what recipes compile and not of those (a hazard of its own, without property).
- What the probes of the builtins recipe answer: it adds a flag to that stage's
  compiles. (A probe that could not run answers no, as one of compiler-rt's CMake
  does.) `probeArmHardFloat` has the same shape as `probeFloat16`, and the two are
  one step.
- The magic word by which `freeaddrinfo` tells the chains of its two allocators
  apart: the allocator of a chain is known in `DnsFallback`, which is about who
  frees what and when. A resolver that would be looked up through the interposer
  again: `OptIn` shows that none is ever asked.
- A wrap of a binary whose archive has a dictionary already (`PackTool` has it
  when a build embeds twice).
- Temporary files of a process that is killed, or still open at its exit under
  Windows, do stay; `NothingLeft` exempts them.
- Concurrent callers of `gethostbyname`, which is documented to be no safer than
  the libc function it replaces; threads in the runtime VFS, likewise.
- What OpenSSL makes of a certificate, and when a directory counts as having
  certificates (`unpin_ca_is_hash_name`): facts of the host in `CaFallback`.
- On the runtime VFS: the Windows bindings' choice between mount prefixes, and
  trees with names that differ only in case.
- How a wrapped build that carries a runtime tree and no man pages is told from
  others: the wrap is modelled for builds that embedded nothing or aliases.
- The bytes of DNS packets and of zip containers; the folding of modules into a
  multicall binary; the values of paths on a command line.

## Plan

Written, in this order: `SysrootService`, `SysrootCache`, `SysrootRecipes`,
`RecipeRun`, `CompilePool`, `VfsCore`, `CaFallback` with their proofs;
`DnsFallback`, `DnsConfig`, `DnsLookup`; `VfsDirs`, `VfsFind`, `VfsFiles`,
`VfsRuntime`; `VfsIndex`, `ClangOverlay`; `DriverFront`; `PackTool`, `EmbedZip`,
`ApelinkHook`, `ManStage`, `MulticallDispatch`, `PackageBuild`.

Proved since: `DnsFallback`, `CaFallback`'s table, `VfsFiles`, `VfsDirs`, `VfsFind`,
`VfsRuntime`, `LexicalPath`, `VfsIndex`, `ClangOverlay`, `DriverFront`, `EmbedZip`,
`DnsConfig`, `ApelinkHook`, `ManStage`.

Every safety property of the passing runs is proved; liveness stays with TLC. What
is left is to model more and prove that too, by what a defect would cost:

1. `argv[0]` of a dispatched tool, overwritten in place (`flake.nix:3022`).
2. A build that embeds a tree and no man pages (`flake.nix:2573`).
3. The stubs of a sysroot, written unchecked (`unpin_musl.cpp:1208`).
