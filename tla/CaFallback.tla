------------------------------ MODULE CaFallback ------------------------------
(***************************************************************************)
(* What an OpenSSL program trusts when it asks for "the system's" roots    *)
(* without naming them (openssl-ca/ca_fallback.h, spliced into the default *)
(* lookups of by_file.c and by_dir.c): the environment decides, else the   *)
(* host's bundles or hashed directories, else the embedded Mozilla roots;  *)
(* on Windows the embedded roots and the ROOT store, less what Windows     *)
(* distrusts.                                                              *)
(*                                                                         *)
(* A store is asked for its default file and for its default directory, in *)
(* either order, or for one of the two. What it trusts is kept by origin.  *)
(* Any step that allocates or opens something may fail.                    *)
(***************************************************************************)
EXTENDS Naturals, Sequences, FiniteSets

CONSTANTS
  Search,      \* the bundles in order, the compiled one first
  Private,     \* those under /data/data, another app's on Android
  Dirs,        \* the hashed directories likewise
  Embedded,    \* the embedded roots
  Root,        \* certificates in the ROOT store of a Windows host
  EnvFile,     \* what $SSL_CERT_FILE
  EnvDir       \* and $SSL_CERT_DIR name

Elements(s) == {s[i] : i \in DOMAIN s}
Bundle == Elements(Search)
Dir == Elements(Dirs)
Cert == Elements(Embedded) \cup Root
Origin == Bundle \cup Dir \cup Cert \cup {EnvFile, EnvDir}

ASSUME CaAssumption ==
  /\ Search \in Seq(Bundle) /\ Len(Search) > 0
  /\ Dirs \in Seq(Dir) /\ Len(Dirs) > 0
  /\ Embedded \in Seq(Elements(Embedded)) /\ Len(Embedded) > 0
  /\ EnvFile # EnvDir /\ {EnvFile, EnvDir} \cap (Bundle \cup Dir \cup Cert) = {}
  /\ Bundle \cap Dir = {} /\ (Bundle \cup Dir) \cap Cert = {}

VARIABLES
  platform,    \* "unix", "windows", or "ape": a Cosmopolitan binary on Windows
  mode,        \* $UNPIN_CA_FALLBACK
  certFile, certDir,     \* are $SSL_CERT_FILE and $SSL_CERT_DIR set?
  bundle,      \* bundle[f]: absent, denied (stat is refused), broken or good
  hashed,      \* the directories with certificates
  serverAuth,  \* certificates of the ROOT store that are good for servers
  distrusted,  \* certificates in the Disallowed store
  known,       \* those that could be looked up there; none if it does not open
  pc,          \* where unpin_ca_load_default is; "idle" outside of it
  i,           \* the position in the list it goes through
  todo,        \* certificates of the ROOT store still to come
  some,        \* has a directory, or a root of the ROOT store, been added?
  asked,       \* the default lookups the store was asked for
  answer,      \* what the file lookup answered
  partial,     \* has a step failed that need not fail?
  trust        \* what the store trusts

host == <<platform, mode, certFile, certDir, bundle, hashed, serverAuth,
          distrusted, known>>
vars == <<host, pc, i, todo, some, asked, answer, partial, trust>>

States == {"absent", "denied", "broken", "good"}
\* unpin_ca_windows.
Windows == platform \in {"windows", "ape"}

\* On Windows any user can have put files at the paths of Unix.
Init ==
  /\ platform \in {"unix", "windows", "ape"}
  /\ mode \in {"auto", "off", "force"}
  /\ certFile \in BOOLEAN /\ certDir \in BOOLEAN
  /\ bundle \in IF platform = "unix" THEN [Bundle -> States]
               ELSE {[f \in Bundle |-> "good"]}
  /\ hashed \in IF platform = "unix" THEN SUBSET Dir ELSE {Dir}
  /\ serverAuth \in SUBSET (IF platform = "windows" THEN Root ELSE {})
  /\ distrusted \in SUBSET (IF platform = "windows" THEN Cert ELSE {})
  /\ known \in SUBSET (IF platform = "windows" THEN Cert ELSE {})
  /\ pc = "idle" /\ i = 1 /\ todo = {} /\ some = FALSE
  /\ asked = {} /\ answer = "none" /\ partial = FALSE /\ trust = {}

-------------------------------------------------------------------------------
(* The two lookups as they are called.                                     *)

Goto(to) == pc' = to /\ i' = 1
Finish(ok) == Goto("idle") /\ answer' = IF ok THEN "ok" ELSE "failed"
Add(x) == trust' = trust \cup {x}

Good == {EnvFile} \cup {f \in Bundle : bundle[f] = "good"}

\* A file that must be there is loaded, or that fails, perhaps with some of its
\* certificates added.
Load(f, ok) ==
  /\ Finish(ok)
  /\ ok => f \in Good
  /\ partial' = (partial \/ (f \in Good /\ ~ok))
  /\ \/ f \in Good /\ Add(f)
     \/ ~ok /\ UNCHANGED trust

\* by_file_ctrl.
AskFile ==
  /\ pc = "idle" /\ "file" \notin asked
  /\ asked' = asked \cup {"file"}
  /\ IF certFile THEN \E ok \in BOOLEAN : Load(EnvFile, ok)
     ELSE Goto("default") /\ UNCHANGED <<answer, partial, trust>>
  /\ UNCHANGED <<host, todo, some>>

\* unpin_ca_default_dir: the directory, or none.
DefaultDir ==
  IF certDir THEN {EnvDir}
  ELSE IF Windows \/ mode = "force" THEN {} ELSE {Dirs[1]}

\* The directory lookup of by_dir.c.
AskDir ==
  /\ pc = "idle" /\ "dir" \notin asked
  /\ asked' = asked \cup {"dir"}
  /\ \/ trust' = trust \cup DefaultDir /\ UNCHANGED partial
     \/ DefaultDir # {} /\ partial' = TRUE /\ UNCHANGED trust
  /\ UNCHANGED <<host, pc, i, todo, some, answer>>

-------------------------------------------------------------------------------
(* unpin_ca_load_default: SSL_CERT_FILE is not set.                        *)

WindowsDefault ==
  /\ pc = "default" /\ Windows
  /\ some' = FALSE
  /\ IF certDir THEN Finish(FALSE) /\ UNCHANGED todo
     ELSE IF platform = "windows" /\ mode # "force"
     THEN Goto("root") /\ todo' = Root /\ UNCHANGED answer
     ELSE IF mode # "off" THEN Goto("embedded") /\ UNCHANGED <<todo, answer>>
     ELSE Finish(FALSE) /\ UNCHANGED todo
  /\ UNCHANGED <<host, asked, partial, trust>>

UnixDefault ==
  /\ pc = "default" /\ ~Windows
  /\ some' = FALSE
  /\ IF certDir \/ mode = "off"
     THEN \E ok \in BOOLEAN : Load(Search[1], ok)
     ELSE Goto(IF mode = "force" THEN "embedded" ELSE "bundles")
          /\ UNCHANGED <<answer, partial, trust>>
  /\ UNCHANGED <<host, todo, asked>>

\* unpin_ca_load_windows_root, certificate by certificate. One that cannot be
\* added is left out.
Skipped(c) == c \in known /\ c \in distrusted

RootCert(c) ==
  /\ pc = "root" /\ c \in todo /\ todo' = todo \ {c}
  /\ \/ /\ c \in serverAuth /\ ~Skipped(c)
        /\ Add(c) /\ some' = TRUE /\ UNCHANGED partial
     \/ /\ partial' = (partial \/ (c \in serverAuth /\ ~Skipped(c)))
        /\ UNCHANGED <<trust, some>>
  /\ UNCHANGED <<host, pc, i, asked, answer>>

\* All certificates were seen, or the store does not open, or breaks off.
RootEnd ==
  /\ pc = "root" /\ todo' = {}
  /\ partial' = (partial \/ todo # {})
  /\ IF mode # "off" THEN Goto("embedded") /\ UNCHANGED answer
     ELSE Finish(some)
  /\ UNCHANGED <<host, some, asked, trust>>

\* unpin_ca_load_embedded, root by root.
EmbeddedCert ==
  /\ pc = "embedded" /\ i <= Len(Embedded) /\ i' = i + 1
  /\ trust' = trust \cup ({Embedded[i]} \ {c \in Cert : Skipped(c)})
  /\ UNCHANGED <<host, pc, todo, some, asked, answer, partial>>

EmbeddedFails ==
  /\ pc = "embedded" /\ i <= Len(Embedded)
  /\ partial' = TRUE
  /\ Finish(Windows /\ some)
  /\ UNCHANGED <<host, todo, some, asked, trust>>

EmbeddedEnd ==
  /\ pc = "embedded" /\ i > Len(Embedded)
  /\ Finish(TRUE)
  /\ UNCHANGED <<host, todo, some, asked, partial, trust>>

-------------------------------------------------------------------------------
(* unpin_ca_load_host.                                                     *)

\* unpin_ca_exists: what stat refuses is there, but for another app's files.
Exists(f) == bundle[f] # "absent" /\ ~(bundle[f] = "denied" /\ f \in Private)

BundleAbsent ==
  /\ pc = "bundles" /\ i <= Len(Search) /\ ~Exists(Search[i])
  /\ i' = i + 1
  /\ UNCHANGED <<host, pc, todo, some, asked, answer, partial, trust>>

\* Mutant of BundleThere: the next one is tried if one does not load.
BundleThereOrNext ==
  /\ pc = "bundles" /\ i <= Len(Search) /\ Exists(Search[i])
  /\ IF bundle[Search[i]] = "good" THEN Load(Search[i], TRUE)
     ELSE i' = i + 1 /\ UNCHANGED <<pc, answer, partial, trust>>
  /\ UNCHANGED <<host, todo, some, asked>>

BundleThere ==
  /\ pc = "bundles" /\ i <= Len(Search) /\ Exists(Search[i])
  /\ \E ok \in BOOLEAN : Load(Search[i], ok)
  /\ UNCHANGED <<host, todo, some, asked>>

BundlesEnd ==
  /\ pc = "bundles" /\ i > Len(Search)
  /\ Goto("dirs")
  /\ UNCHANGED <<host, todo, some, asked, answer, partial, trust>>

DirEmpty ==
  /\ pc = "dirs" /\ i <= Len(Dirs) /\ Dirs[i] \notin hashed
  /\ i' = i + 1
  /\ UNCHANGED <<host, pc, todo, some, asked, answer, partial, trust>>

\* Mutant of DirAdded: the first directory decides, like the first bundle.
DirAddedFirst ==
  /\ pc = "dirs" /\ i <= Len(Dirs) /\ Dirs[i] \in hashed
  /\ Add(Dirs[i]) /\ some' = TRUE /\ i' = Len(Dirs) + 1
  /\ UNCHANGED <<host, pc, todo, asked, answer, partial>>

DirAdded ==
  /\ pc = "dirs" /\ i <= Len(Dirs) /\ Dirs[i] \in hashed
  /\ Add(Dirs[i]) /\ some' = TRUE /\ i' = i + 1
  /\ UNCHANGED <<host, pc, todo, asked, answer, partial>>

DirFails ==
  /\ pc = "dirs" /\ i <= Len(Dirs) /\ Dirs[i] \in hashed
  /\ partial' = TRUE
  /\ Finish(FALSE)
  /\ UNCHANGED <<host, todo, some, asked, trust>>

DirsEnd ==
  /\ pc = "dirs" /\ i > Len(Dirs)
  /\ IF some THEN Finish(TRUE) ELSE Goto("embedded") /\ UNCHANGED answer
  /\ UNCHANGED <<host, todo, some, asked, partial, trust>>

Next ==
  \/ AskFile \/ AskDir \/ WindowsDefault \/ UnixDefault
  \/ \E c \in Root : RootCert(c)
  \/ RootEnd \/ EmbeddedCert \/ EmbeddedFails \/ EmbeddedEnd
  \/ BundleAbsent \/ BundleThere \/ BundlesEnd
  \/ DirEmpty \/ DirAdded \/ DirFails \/ DirsEnd

Spec == Init /\ [][Next]_vars

-------------------------------------------------------------------------------
TypeOK ==
  /\ platform \in {"unix", "windows", "ape"}
  /\ mode \in {"auto", "off", "force"}
  /\ certFile \in BOOLEAN /\ certDir \in BOOLEAN
  /\ bundle \in [Bundle -> States] /\ hashed \subseteq Dir
  /\ serverAuth \subseteq Root /\ distrusted \subseteq Cert
  /\ known \subseteq Cert
  /\ pc \in {"idle", "default", "root", "embedded", "bundles", "dirs"}
  /\ i \in Nat \ {0}
  /\ pc = "embedded" => i <= Len(Embedded) + 1
  /\ pc = "bundles" => i <= Len(Search) + 1
  /\ pc = "dirs" => i <= Len(Dirs) + 1
  /\ pc \in {"idle", "default", "root"} => i = 1
  /\ todo \subseteq Root /\ some \in BOOLEAN
  /\ asked \subseteq {"file", "dir"}
  /\ answer \in {"none", "ok", "failed"} /\ partial \in BOOLEAN
  /\ trust \subseteq Origin

-------------------------------------------------------------------------------
(* The table of the header's comment: "the first row that matches          *)
(* decides". A row grants a store so much for its default file, and so     *)
(* much for its default directory.                                         *)

Content(f) == {f} \cap Good

\* A bundle is there unless it is absent; another app's, only if it is ours to
\* read.
There == {k \in DOMAIN Search :
            \/ bundle[Search[k]] \in {"broken", "good"}
            \/ bundle[Search[k]] = "denied" /\ Search[k] \notin Private}

\* "the first host bundle that EXISTS decides; else every host hashed directory
\* with certificates; only a host with neither gets the embedded roots."
UnixHost ==
  {f \in Bundle : \E k \in There : /\ \A l \in There : k <= l
                                   /\ f \in Content(Search[k])}
  \cup {d \in hashed : There = {}}
  \cup {c \in Elements(Embedded) : There = {} /\ hashed = {}}

\* "minus what Windows distrusts", as far as it can be found out.
Less(C) == C \ (known \cap distrusted)
RootStore == IF platform = "windows" THEN Less(serverAuth) ELSE {}
Mozilla == Less(Elements(Embedded))

FileGrant ==
  CASE certFile -> {EnvFile}
    [] ~certFile /\ certDir -> IF Windows THEN {} ELSE Content(Search[1])
    [] ~certFile /\ ~certDir /\ mode = "force" -> Mozilla
    [] ~certFile /\ ~certDir /\ mode = "off" ->
         IF Windows THEN RootStore ELSE Content(Search[1])
    [] ~certFile /\ ~certDir /\ mode = "auto" ->
         IF Windows THEN Mozilla \cup RootStore ELSE UnixHost

\* "On Windows OPENSSLDIR is never read for certificates."
DirGrant ==
  {EnvDir : x \in {y \in {1} : certDir}}
  \cup {Dirs[1] : x \in {y \in {1} : ~certDir /\ ~Windows /\ mode # "force"}}

Granted == {x \in FileGrant : "file" \in asked}
           \cup {x \in DirGrant : "dir" \in asked}

\* Nothing is trusted that the table does not grant, whatever is asked for and
\* whatever fails on the way: no failure falls through to the next row, to
\* another bundle or to the embedded roots.
NeverWidens == trust \subseteq Granted

\* What the table grants is trusted: on Unix as soon as the lookup says that it
\* succeeded, which it never says of a bundle it could not read; elsewhere,
\* where one of two sources is enough, if nothing failed.
FollowsTable ==
  /\ pc = "idle" /\ ~partial => trust = Granted
  /\ pc = "idle" /\ answer = "ok" /\ ~Windows =>
       FileGrant # {} /\ FileGrant \subseteq trust
===============================================================================
