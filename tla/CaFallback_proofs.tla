-------------------------- MODULE CaFallback_proofs --------------------------
(***************************************************************************)
(* CaFallback for every list of bundles, directories and roots: the types, *)
(* that nothing is trusted which the header's table does not grant, and    *)
(* that nothing which it grants is missing.                                *)
(***************************************************************************)
EXTENDS CaFallback, TLAPS

\* The row of the table unpin_ca_load_default has come to by where it is, and
\* what it knows of the host by how far it got in its list.
Row ==
  /\ pc # "idle" => ~certFile /\ "file" \in asked
  /\ pc \notin {"idle", "default"} => ~certDir
  /\ pc = "root" => platform = "windows" /\ mode # "force"
  /\ pc \in {"bundles", "dirs"} => ~Windows /\ mode = "auto"
  /\ pc = "bundles" => \A j \in 1 .. i - 1 : ~Exists(Search[j])
  /\ pc = "dirs" => /\ There = {}
                    /\ \A j \in 1 .. i - 1 : Dirs[j] \in hashed => some
  /\ pc = "embedded" => \/ mode = "force"
                        \/ mode = "auto" /\ Windows
                        \/ /\ mode = "auto" /\ ~Windows
                           /\ There = {} /\ hashed = {}

\* The parts of TypeOK: the host, the place in the code, what came of it.
HostOK ==
  /\ platform \in {"unix", "windows", "ape"}
  /\ mode \in {"auto", "off", "force"}
  /\ certFile \in BOOLEAN /\ certDir \in BOOLEAN
  /\ bundle \in [Bundle -> States] /\ hashed \subseteq Dir
  /\ serverAuth \subseteq Root /\ distrusted \subseteq Cert
  /\ known \subseteq Cert

PlaceOK ==
  /\ pc \in {"idle", "default", "root", "embedded", "bundles", "dirs"}
  /\ i \in Nat \ {0}
  /\ pc = "embedded" => i <= Len(Embedded) + 1
  /\ pc = "bundles" => i <= Len(Search) + 1
  /\ pc = "dirs" => i <= Len(Dirs) + 1
  /\ pc \in {"idle", "default", "root"} => i = 1

OutcomeOK ==
  /\ todo \subseteq Root /\ some \in BOOLEAN
  /\ asked \subseteq {"file", "dir"}
  /\ answer \in {"none", "ok", "failed"} /\ partial \in BOOLEAN
  /\ trust \subseteq Origin

IInv == TypeOK /\ Row /\ NeverWidens

-------------------------------------------------------------------------------
LEMMA Lists ==
  /\ Len(Search) \in Nat \ {0} /\ DOMAIN Search = 1 .. Len(Search)
  /\ Len(Dirs) \in Nat \ {0} /\ DOMAIN Dirs = 1 .. Len(Dirs)
  /\ Len(Embedded) \in Nat \ {0} /\ DOMAIN Embedded = 1 .. Len(Embedded)
  /\ \A j \in 1 .. Len(Search) : Search[j] \in Bundle
  /\ \A j \in 1 .. Len(Dirs) : Dirs[j] \in Dir
  /\ \A j \in 1 .. Len(Embedded) : Embedded[j] \in Cert
BY CaAssumption DEF CaAssumption, Bundle, Dir, Cert, Elements

\* The rows of the table, read the way the code comes to them.
LEMMA Rows ==
  ASSUME TypeOK
  PROVE  /\ certFile => FileGrant = {EnvFile}
         /\ ~certFile /\ ~Windows /\ (certDir \/ mode = "off") =>
              FileGrant = Content(Search[1])
         /\ ~certFile /\ ~certDir /\ mode = "force" => FileGrant = Mozilla
         /\ ~certFile /\ ~certDir /\ Windows /\ mode # "force" =>
              RootStore \subseteq FileGrant
         /\ ~certFile /\ ~certDir /\ Windows /\ mode = "auto" =>
              Mozilla \subseteq FileGrant
         /\ ~certFile /\ ~certDir /\ ~Windows /\ mode = "auto" =>
              FileGrant = UnixHost
BY DEF TypeOK, FileGrant

\* The host does not change under the lookups, and what was asked for stays so.
LEMMA GrantsGrow ==
  ASSUME UNCHANGED host, asked \subseteq asked'
  PROVE  /\ FileGrant' = FileGrant /\ DirGrant' = DirGrant
         /\ Granted \subseteq Granted'
<1>1. FileGrant' = FileGrant /\ DirGrant' = DirGrant
  BY DEF host, FileGrant, DirGrant, UnixHost, RootStore, Mozilla, Less, There,
         Content, Good, Windows
<1> QED BY <1>1 DEF Granted

LEMMA InitIInv == Init => IInv
<1> SUFFICES ASSUME Init PROVE IInv
  OBVIOUS
<1>1. TypeOK
  <2>1. bundle \in [Bundle -> States]
    <3>1. [f \in Bundle |-> "good"] \in [Bundle -> States]
      BY DEF States
    <3> QED BY <3>1 DEF Init
  <2>2. hashed \subseteq Dir
    BY DEF Init
  <2>3. /\ serverAuth \subseteq Root
        /\ distrusted \subseteq Cert /\ known \subseteq Cert
    BY DEF Init
  <2>4. /\ some \in BOOLEAN /\ partial \in BOOLEAN
        /\ certFile \in BOOLEAN /\ certDir \in BOOLEAN
    BY DEF Init
  <2>5. /\ pc = "idle" /\ i = 1 /\ todo = {} /\ asked = {} /\ trust = {}
        /\ answer = "none"
        /\ platform \in {"unix", "windows", "ape"}
        /\ mode \in {"auto", "off", "force"}
    BY DEF Init
  <2> HIDE DEF Init
  <2> QED BY <2>1, <2>2, <2>3, <2>4, <2>5 DEF TypeOK
<1>2. Row /\ NeverWidens
  BY DEF Init, Row, NeverWidens
<1> QED BY <1>1, <1>2 DEF IInv

\* An origin may be added if the store was asked for what grants it.
LEMMA Trusted ==
  ASSUME IInv, UNCHANGED host, asked \subseteq asked',
         trust' \subseteq trust \cup Granted'
  PROVE  NeverWidens'
BY GrantsGrow DEF IInv, NeverWidens

LEMMA Origins ==
  /\ \A j \in 1 .. Len(Search) : Search[j] \in Origin
  /\ \A j \in 1 .. Len(Dirs) : Dirs[j] \in Origin
  /\ \A j \in 1 .. Len(Embedded) : Embedded[j] \in Origin
  /\ Root \subseteq Origin /\ EnvFile \in Origin /\ EnvDir \in Origin
BY Lists DEF Origin, Cert

LEMMA LoadTypes ==
  ASSUME HostOK, OutcomeOK, NEW f \in Bundle \cup {EnvFile}, NEW ok \in BOOLEAN,
         Load(f, ok)
  PROVE  /\ pc' = "idle" /\ i' = 1 /\ answer' \in {"ok", "failed"}
         /\ partial' \in BOOLEAN /\ trust' \subseteq Origin
BY DEF Load, Finish, Goto, Add, Origin, OutcomeOK

\* The types are inductive by themselves.
LEMMA TypeNext == TypeOK /\ [Next]_vars => TypeOK'
<1> SUFFICES ASSUME TypeOK, [Next]_vars PROVE TypeOK'
  OBVIOUS
<1> HostOK /\ PlaceOK /\ OutcomeOK
  BY DEF TypeOK, HostOK, PlaceOK, OutcomeOK
<1> SUFFICES HostOK' /\ PlaceOK' /\ OutcomeOK'
  BY DEF TypeOK, HostOK, PlaceOK, OutcomeOK
<1>1. CASE AskFile
  <2>1. HostOK' BY <1>1 DEF AskFile, HostOK, host
  <2>2. PlaceOK' BY <1>1, Lists, LoadTypes DEF AskFile, PlaceOK, Goto, Finish
  <2>3. OutcomeOK'
    BY <1>1, Lists, LoadTypes DEF AskFile, OutcomeOK, Finish, Add, Origin
  <2> QED BY <2>1, <2>2, <2>3
<1>2. CASE AskDir
  <2>1. HostOK' BY <1>2 DEF AskDir, HostOK, host
  <2>2. PlaceOK' BY <1>2, Lists DEF AskDir, PlaceOK, Goto, Finish
  <2>3. OutcomeOK'
    <3>1. DefaultDir \subseteq Origin
      BY Lists, Origins DEF DefaultDir
    <3>2. trust' \subseteq Origin /\ partial' \in BOOLEAN
      BY <1>2, <3>1 DEF AskDir, OutcomeOK
    <3> QED BY <1>2, <3>2 DEF AskDir, OutcomeOK
  <2> QED BY <2>1, <2>2, <2>3
<1>3. CASE WindowsDefault
  <2>1. HostOK' BY <1>3 DEF WindowsDefault, HostOK, host
  <2>2. PlaceOK' BY <1>3, Lists DEF WindowsDefault, PlaceOK, Goto, Finish
  <2>3. OutcomeOK'
    BY <1>3, Lists DEF WindowsDefault, OutcomeOK, Finish, Add, Origin
  <2> QED BY <2>1, <2>2, <2>3
<1>4. CASE UnixDefault
  <2>1. HostOK' BY <1>4 DEF UnixDefault, HostOK, host
  <2>2. PlaceOK'
    BY <1>4, Lists, LoadTypes DEF UnixDefault, PlaceOK, Goto, Finish
  <2>3. OutcomeOK'
    <3>1. Search[1] \in Bundle
      BY <1>4, Lists DEF UnixDefault, PlaceOK
    <3> QED BY <1>4, <3>1, LoadTypes DEF UnixDefault, OutcomeOK
  <2> QED BY <2>1, <2>2, <2>3
<1>5. ASSUME NEW c \in Root, RootCert(c)
      PROVE  HostOK' /\ PlaceOK' /\ OutcomeOK'
  <2>1. HostOK' BY <1>5 DEF RootCert, HostOK, host
  <2>2. PlaceOK' BY <1>5, Lists DEF RootCert, PlaceOK, Goto, Finish
  <2>3. OutcomeOK'
    <3>1. c \in Origin
      BY <1>5, Origins DEF RootCert
    <3>2. trust' \subseteq Origin /\ partial' \in BOOLEAN /\ some' \in BOOLEAN
      BY <1>5, <3>1 DEF RootCert, OutcomeOK, Add
    <3> QED BY <1>5, <3>2 DEF RootCert, OutcomeOK
  <2> QED BY <2>1, <2>2, <2>3
<1>6. CASE RootEnd
  <2>1. HostOK' BY <1>6 DEF RootEnd, HostOK, host
  <2>2. PlaceOK' BY <1>6, Lists DEF RootEnd, PlaceOK, Goto, Finish
  <2>3. OutcomeOK'
    BY <1>6, Lists DEF RootEnd, OutcomeOK, Finish, Add, Origin
  <2> QED BY <2>1, <2>2, <2>3
<1>7. CASE EmbeddedCert
  <2>1. HostOK' BY <1>7 DEF EmbeddedCert, HostOK, host
  <2>2. PlaceOK' BY <1>7, Lists DEF EmbeddedCert, PlaceOK, Goto, Finish
  <2>3. OutcomeOK'
    <3>1. {Embedded[i]} \subseteq Origin
      BY <1>7, Origins DEF EmbeddedCert, PlaceOK
    <3>2. trust' \subseteq Origin /\ partial' \in BOOLEAN /\ some' \in BOOLEAN
      BY <1>7, <3>1 DEF EmbeddedCert, OutcomeOK, Add
    <3> QED BY <1>7, <3>2 DEF EmbeddedCert, OutcomeOK
  <2> QED BY <2>1, <2>2, <2>3
<1>8. CASE EmbeddedFails
  <2>1. HostOK' BY <1>8 DEF EmbeddedFails, HostOK, host
  <2>2. PlaceOK' BY <1>8, Lists DEF EmbeddedFails, PlaceOK, Goto, Finish
  <2>3. OutcomeOK'
    BY <1>8, Lists DEF EmbeddedFails, OutcomeOK, Finish, Add, Origin
  <2> QED BY <2>1, <2>2, <2>3
<1>9. CASE EmbeddedEnd
  <2>1. HostOK' BY <1>9 DEF EmbeddedEnd, HostOK, host
  <2>2. PlaceOK' BY <1>9, Lists DEF EmbeddedEnd, PlaceOK, Goto, Finish
  <2>3. OutcomeOK'
    BY <1>9, Lists DEF EmbeddedEnd, OutcomeOK, Finish, Add, Origin
  <2> QED BY <2>1, <2>2, <2>3
<1>10. CASE BundleAbsent
  <2>1. HostOK' BY <1>10 DEF BundleAbsent, HostOK, host
  <2>2. PlaceOK' BY <1>10, Lists DEF BundleAbsent, PlaceOK, Goto, Finish
  <2>3. OutcomeOK'
    BY <1>10, Lists DEF BundleAbsent, OutcomeOK, Finish, Add, Origin
  <2> QED BY <2>1, <2>2, <2>3
<1>11. CASE BundleThere
  <2>1. HostOK' BY <1>11 DEF BundleThere, HostOK, host
  <2>2. PlaceOK'
    BY <1>11, Lists, LoadTypes DEF BundleThere, PlaceOK, Goto, Finish
  <2>3. OutcomeOK'
    <3>1. Search[i] \in Bundle
      BY <1>11, Lists DEF BundleThere, PlaceOK
    <3> QED BY <1>11, <3>1, LoadTypes DEF BundleThere, OutcomeOK
  <2> QED BY <2>1, <2>2, <2>3
<1>12. CASE BundlesEnd
  <2>1. HostOK' BY <1>12 DEF BundlesEnd, HostOK, host
  <2>2. PlaceOK' BY <1>12, Lists DEF BundlesEnd, PlaceOK, Goto, Finish
  <2>3. OutcomeOK'
    BY <1>12, Lists DEF BundlesEnd, OutcomeOK, Finish, Add, Origin
  <2> QED BY <2>1, <2>2, <2>3
<1>13. CASE DirEmpty
  <2>1. HostOK' BY <1>13 DEF DirEmpty, HostOK, host
  <2>2. PlaceOK' BY <1>13, Lists DEF DirEmpty, PlaceOK, Goto, Finish
  <2>3. OutcomeOK'
    BY <1>13, Lists DEF DirEmpty, OutcomeOK, Finish, Add, Origin
  <2> QED BY <2>1, <2>2, <2>3
<1>14. CASE DirAdded
  <2>1. HostOK' BY <1>14 DEF DirAdded, HostOK, host
  <2>2. PlaceOK' BY <1>14, Lists DEF DirAdded, PlaceOK, Goto, Finish
  <2>3. OutcomeOK'
    <3>1. Dirs[i] \in Origin
      BY <1>14, Origins DEF DirAdded, PlaceOK
    <3>2. trust' \subseteq Origin /\ partial' \in BOOLEAN /\ some' \in BOOLEAN
      BY <1>14, <3>1 DEF DirAdded, OutcomeOK, Add
    <3> QED BY <1>14, <3>2 DEF DirAdded, OutcomeOK
  <2> QED BY <2>1, <2>2, <2>3
<1>15. CASE DirFails
  <2>1. HostOK' BY <1>15 DEF DirFails, HostOK, host
  <2>2. PlaceOK' BY <1>15, Lists DEF DirFails, PlaceOK, Goto, Finish
  <2>3. OutcomeOK'
    BY <1>15, Lists DEF DirFails, OutcomeOK, Finish, Add, Origin
  <2> QED BY <2>1, <2>2, <2>3
<1>16. CASE DirsEnd
  <2>1. HostOK' BY <1>16 DEF DirsEnd, HostOK, host
  <2>2. PlaceOK' BY <1>16, Lists DEF DirsEnd, PlaceOK, Goto, Finish
  <2>3. OutcomeOK'
    BY <1>16, Lists DEF DirsEnd, OutcomeOK, Finish, Add, Origin
  <2> QED BY <2>1, <2>2, <2>3
<1>17. CASE UNCHANGED vars
  BY <1>17 DEF vars, host, HostOK, PlaceOK, OutcomeOK
<1> QED
  BY <1>1, <1>2, <1>3, <1>4, <1>5, <1>6, <1>7, <1>8, <1>9, <1>10, <1>11, <1>12,
     <1>13, <1>14, <1>15, <1>16, <1>17 DEF Next

-------------------------------------------------------------------------------
\* What is seen of the host is what the table is about.
LEMMA HostStays ==
  ASSUME UNCHANGED host
  PROVE  /\ Windows' = Windows /\ There' = There
         /\ \A f : Exists(f)' = Exists(f)
BY DEF host, Windows, There, Exists

\* A list that was gone through found nothing.
LEMMA AllSeen ==
  ASSUME TypeOK, Row
  PROVE  /\ pc = "bundles" /\ i > Len(Search) => There = {}
         /\ pc = "dirs" /\ i > Len(Dirs) /\ ~some => hashed = {}
<1>1. ASSUME pc = "bundles", i > Len(Search) PROVE There = {}
  <2>1. \A j \in 1 .. Len(Search) : ~Exists(Search[j])
    BY <1>1 DEF Row, TypeOK
  <2> QED BY <2>1, Lists DEF There, Exists, TypeOK, States
<1>2. ASSUME pc = "dirs", i > Len(Dirs), ~some PROVE hashed = {}
  <2>1. \A j \in 1 .. Len(Dirs) : Dirs[j] \notin hashed
    BY <1>2 DEF Row, TypeOK
  <2>2. \A d \in Dir : \E j \in 1 .. Len(Dirs) : d = Dirs[j]
    BY Lists DEF Dir, Elements
  <2> QED BY <2>1, <2>2 DEF TypeOK
<1> QED BY <1>1, <1>2

\* Every step leads to a row it may lead to.
LEMMA RowNext == TypeOK /\ Row /\ [Next]_vars => Row'
<1> SUFFICES ASSUME TypeOK, Row, [Next]_vars PROVE Row'
  OBVIOUS
<1>1. CASE AskFile
  BY <1>1, HostStays DEF AskFile, Row, host, Goto, Finish, Load, TypeOK
<1>2. CASE AskDir
  BY <1>2, HostStays DEF AskDir, Row, host, Goto, Finish, TypeOK
<1>3. CASE WindowsDefault
  BY <1>3, HostStays DEF WindowsDefault, Row, host, Goto, Finish, TypeOK
<1>4. CASE UnixDefault
  BY <1>4, HostStays DEF UnixDefault, Row, host, Goto, Finish, Load, TypeOK
<1>5. ASSUME NEW c \in Root, RootCert(c) PROVE Row'
  BY <1>5, HostStays DEF RootCert, Row, host, Goto, Finish, TypeOK
<1>6. CASE RootEnd
  <2>1. mode # "off" => Windows /\ mode = "auto"
    BY <1>6 DEF RootEnd, Row, TypeOK, Windows
  <2> QED BY <1>6, <2>1, HostStays DEF RootEnd, Row, host, Goto, Finish
<1>7. CASE EmbeddedCert
  BY <1>7, HostStays DEF EmbeddedCert, Row, host, Goto, Finish, TypeOK
<1>8. CASE EmbeddedFails
  BY <1>8, HostStays DEF EmbeddedFails, Row, host, Goto, Finish, TypeOK
<1>9. CASE EmbeddedEnd
  BY <1>9, HostStays DEF EmbeddedEnd, Row, host, Goto, Finish, TypeOK
<1>10. CASE BundleAbsent
  BY <1>10, HostStays DEF BundleAbsent, Row, host, Goto, Finish, TypeOK
<1>11. CASE BundleThere
  BY <1>11, HostStays DEF BundleThere, Row, host, Goto, Finish, Load, TypeOK
<1>12. CASE BundlesEnd
  BY <1>12, HostStays, AllSeen DEF BundlesEnd, Row, host, Goto, Finish, TypeOK
<1>13. CASE DirEmpty
  BY <1>13, HostStays DEF DirEmpty, Row, host, Goto, Finish, TypeOK
<1>14. CASE DirAdded
  BY <1>14, HostStays DEF DirAdded, Row, host, Goto, Finish, TypeOK
<1>15. CASE DirFails
  BY <1>15, HostStays DEF DirFails, Row, host, Goto, Finish, TypeOK
<1>16. CASE DirsEnd
  BY <1>16, HostStays, AllSeen DEF DirsEnd, Row, host, Goto, Finish, TypeOK
<1>17. CASE UNCHANGED vars
  BY <1>17, HostStays DEF vars, Row, host
<1> QED
  BY <1>1, <1>2, <1>3, <1>4, <1>5, <1>6, <1>7, <1>8, <1>9, <1>10, <1>11, <1>12,
     <1>13, <1>14, <1>15, <1>16, <1>17 DEF Next

\* What a step adds, the table grants.
LEMMA WidenNext == IInv /\ [Next]_vars => NeverWidens'
<1> SUFFICES ASSUME IInv, [Next]_vars PROVE NeverWidens'
  OBVIOUS
<1> USE Trusted
<1> TypeOK /\ Row
  BY DEF IInv
<1>1. CASE AskFile
  <2>1. trust' \subseteq trust \cup {x \in FileGrant : certFile}
    BY <1>1, Rows DEF AskFile, Load, Add
  <2>2. FileGrant \subseteq Granted'
    BY <1>1, GrantsGrow DEF AskFile, host, Granted
  <2> QED BY <1>1, <2>1, <2>2 DEF AskFile, host
<1>2. CASE AskDir
  <2>1. DefaultDir \subseteq DirGrant
    BY DEF DefaultDir, DirGrant
  <2>2. DirGrant \subseteq Granted'
    BY <1>2, GrantsGrow DEF AskDir, host, Granted
  <2> QED BY <1>2, <2>1, <2>2 DEF AskDir, host
<1>3. CASE WindowsDefault
  BY <1>3 DEF WindowsDefault, host
<1>4. CASE UnixDefault
  <2>1. CASE trust' = trust
    BY <1>4, <2>1 DEF UnixDefault, host
  <2>2. CASE trust' # trust
    <3>1. certDir \/ mode = "off"
      BY <1>4, <2>2 DEF UnixDefault
    <3>2. trust' \subseteq trust \cup Content(Search[1])
      BY <1>4, <3>1 DEF UnixDefault, Load, Add, Content
    <3>3. FileGrant = Content(Search[1]) /\ "file" \in asked
      BY <1>4, <3>1, Rows DEF UnixDefault, Row
    <3>4. FileGrant \subseteq Granted'
      BY <1>4, <3>3, GrantsGrow DEF UnixDefault, host, Granted
    <3> QED BY <1>4, <3>2, <3>3, <3>4 DEF UnixDefault, host
  <2> QED BY <2>1, <2>2
<1>5. ASSUME NEW c \in Root, RootCert(c) PROVE NeverWidens'
  <2>1. CASE trust' = trust
    BY <1>5, <2>1 DEF RootCert, host
  <2>2. CASE trust' # trust
    <3>1. trust' = trust \cup {c} /\ c \in serverAuth /\ ~Skipped(c)
      BY <1>5, <2>2 DEF RootCert, Add
    <3>2. c \in RootStore
      BY <1>5, <3>1 DEF RootCert, Row, RootStore, Less, Skipped
    <3>3. c \in FileGrant /\ "file" \in asked
      BY <1>5, <3>2, Rows DEF RootCert, Row, Windows
    <3>4. c \in Granted'
      BY <1>5, <3>3, GrantsGrow DEF RootCert, host, Granted
    <3> QED BY <1>5, <3>1, <3>4 DEF RootCert, host
  <2> QED BY <2>1, <2>2
<1>6. CASE RootEnd
  BY <1>6 DEF RootEnd, host
<1>7. CASE EmbeddedCert
  <2>1. trust' \subseteq trust \cup Mozilla
    BY <1>7, Lists DEF EmbeddedCert, TypeOK, Mozilla, Less, Skipped, Elements
  <2>2. CASE trust' = trust
    BY <1>7, <2>2 DEF EmbeddedCert, host
  <2>3. CASE trust' # trust
    <3>1. ~certFile /\ ~certDir /\ "file" \in asked
      BY <1>7 DEF EmbeddedCert, Row
    <3>2. Mozilla \subseteq FileGrant
      <4>1. CASE mode = "force" \/ Windows
        BY <1>7, <4>1, <3>1, Rows DEF EmbeddedCert, Row
      <4>2. CASE ~Windows /\ mode = "auto"
        <5>1. There = {} /\ hashed = {}
          BY <1>7, <4>2 DEF EmbeddedCert, Row
        <5> QED BY <4>2, <5>1, <3>1, Rows DEF UnixHost, Mozilla, Less
      <4> QED BY <1>7, <4>1, <4>2 DEF EmbeddedCert, Row
    <3>3. Mozilla \subseteq Granted'
      BY <1>7, <3>1, <3>2, GrantsGrow DEF EmbeddedCert, host, Granted
    <3> QED BY <1>7, <2>1, <3>3 DEF EmbeddedCert, host
  <2> QED BY <2>2, <2>3
<1>8. CASE EmbeddedFails
  BY <1>8 DEF EmbeddedFails, host
<1>9. CASE EmbeddedEnd
  BY <1>9 DEF EmbeddedEnd, host
<1>10. CASE BundleAbsent
  BY <1>10 DEF BundleAbsent, host
<1>11. CASE BundleThere
  <2>1. trust' \subseteq trust \cup Content(Search[i])
    BY <1>11 DEF BundleThere, Load, Add, Content
  <2>2. i \in There /\ \A l \in There : i <= l
    BY <1>11, Lists DEF BundleThere, Row, TypeOK, There, Exists, States
  <2>3. Content(Search[i]) \subseteq UnixHost
    BY <1>11, <2>2, Lists DEF BundleThere, TypeOK, UnixHost, Content
  <2>4. FileGrant = UnixHost /\ "file" \in asked
    BY <1>11, Rows DEF BundleThere, Row
  <2>5. UnixHost \subseteq Granted'
    BY <1>11, <2>4, GrantsGrow DEF BundleThere, host, Granted
  <2> QED BY <1>11, <2>1, <2>3, <2>5 DEF BundleThere, host
<1>12. CASE BundlesEnd
  BY <1>12 DEF BundlesEnd, host
<1>13. CASE DirEmpty
  BY <1>13 DEF DirEmpty, host
<1>14. CASE DirAdded
  <2>1. trust' = trust \cup {Dirs[i]}
    BY <1>14 DEF DirAdded, Add
  <2>2. Dirs[i] \in UnixHost
    BY <1>14 DEF DirAdded, Row, UnixHost
  <2>3. FileGrant = UnixHost /\ "file" \in asked
    BY <1>14, Rows DEF DirAdded, Row
  <2>4. UnixHost \subseteq Granted'
    BY <1>14, <2>3, GrantsGrow DEF DirAdded, host, Granted
  <2> QED BY <1>14, <2>1, <2>2, <2>4 DEF DirAdded, host
<1>15. CASE DirFails
  BY <1>15 DEF DirFails, host
<1>16. CASE DirsEnd
  BY <1>16 DEF DirsEnd, host
<1>17. CASE UNCHANGED vars
  BY <1>17 DEF vars, host
<1> QED
  BY <1>1, <1>2, <1>3, <1>4, <1>5, <1>6, <1>7, <1>8, <1>9, <1>10, <1>11, <1>12,
     <1>13, <1>14, <1>15, <1>16, <1>17 DEF Next

-------------------------------------------------------------------------------
LEMMA NextIInv == IInv /\ [Next]_vars => IInv'
BY TypeNext, RowNext, WidenNext DEF IInv

\* The state of a lookup keeps its types; no list is read past its end.
THEOREM TypeCorrect == Spec => []TypeOK
<1>1. Init => TypeOK
  BY InitIInv DEF IInv
<1> QED BY <1>1, TypeNext, PTL DEF Spec

\* Whatever the host and the environment are, and whatever fails on the way, a
\* store trusts nothing that the table of the header does not grant.
THEOREM TrustGranted == Spec => []NeverWidens
<1>1. IInv => NeverWidens
  BY DEF IInv
<1> QED BY InitIInv, NextIInv, <1>1, PTL DEF Spec
-------------------------------------------------------------------------------
(* That nothing the table grants is missing. What has been found so far is  *)
(* in the store at every place of the code, whatever else failed ...        *)
Gathered ==
  /\ platform # "windows" => distrusted = {}
  /\ pc = "bundles" => ~some
  /\ pc = "dirs" /\ some => hashed # {}
  /\ pc = "dirs" => \A j \in 1 .. i - 1 : Dirs[j] \in hashed => Dirs[j] \in trust
  /\ pc = "embedded" => \A j \in 1 .. i - 1 : Less({Embedded[j]}) \subseteq trust

\* ... and if nothing did, everything that was asked for is.
Filled ==
  ~partial =>
    /\ "dir" \in asked => DirGrant \subseteq trust
    /\ pc = "root" => RootStore \ todo \subseteq trust
    /\ pc = "embedded" /\ Windows /\ mode # "force" => RootStore \subseteq trust
    /\ pc = "idle" /\ "file" \in asked => FileGrant \subseteq trust

\* On Unix the file lookup's word is good whatever became of the directory.
Vouched ==
  pc = "idle" /\ answer = "ok" /\ ~Windows =>
    FileGrant # {} /\ FileGrant \subseteq trust

FullInv == Gathered /\ Filled /\ Vouched

LEMMA InitFull == Init => FullInv
BY DEF Init, FullInv, Gathered, Filled, Vouched

\* The table's words for the host stay, as the host does.
LEMMA WordsStay ==
  ASSUME UNCHANGED host
  PROVE  /\ Windows' = Windows /\ RootStore' = RootStore
         /\ FileGrant' = FileGrant /\ DirGrant' = DirGrant
         /\ \A C : Less(C)' = Less(C)
         /\ platform' = platform /\ distrusted' = distrusted
         /\ hashed' = hashed /\ mode' = mode
<1>1. FileGrant' = FileGrant /\ DirGrant' = DirGrant
  BY GrantsGrow DEF host, FileGrant, DirGrant, UnixHost, RootStore, Mozilla,
     Less, There, Content, Good, Windows
<1> QED BY <1>1 DEF host, Windows, RootStore, Less

\* A bundle that is read is trusted, and only one that can be is vouched for.
LEMMA Loaded ==
  ASSUME NEW f, NEW ok \in BOOLEAN, Load(f, ok), partial \in BOOLEAN
  PROVE  /\ trust \subseteq trust' /\ pc' = "idle"
         /\ ~partial' => ~partial /\ Content(f) \subseteq trust'
         /\ answer' = "ok" => f \in Good /\ f \in trust'
BY DEF Load, Finish, Goto, Add, Content

\* What comes of loading the one bundle the table grants.
LEMMA LoadedAll ==
  ASSUME IInv, FullInv, UNCHANGED host, DirGrant' = DirGrant,
         NEW f, NEW ok \in BOOLEAN, Load(f, ok),
         FileGrant = Content(f),
         "dir" \in asked' => "dir" \in asked
  PROVE  FullInv'
<1>1. partial \in BOOLEAN
  BY DEF IInv, TypeOK
<1>2. FileGrant' = Content(f) /\ Windows' = Windows
  BY WordsStay
<1>3. /\ trust \subseteq trust' /\ pc' = "idle"
      /\ ~partial' => ~partial /\ Content(f) \subseteq trust'
      /\ answer' = "ok" => f \in Good /\ f \in trust'
  BY <1>1, Loaded
<1>4. Gathered'
  BY <1>3, WordsStay DEF FullInv, Gathered
<1>5. Filled'
  BY <1>2, <1>3, WordsStay DEF FullInv, Filled
<1>6. Vouched'
  BY <1>2, <1>3 DEF Vouched, Content
<1> QED BY <1>4, <1>5, <1>6 DEF FullInv

\* The embedded roots, once they were gone through.
LEMMA AllGathered ==
  ASSUME TypeOK, Gathered, pc = "embedded", i > Len(Embedded)
  PROVE  Mozilla \subseteq trust
<1> SUFFICES ASSUME NEW c \in Mozilla PROVE c \in trust
  OBVIOUS
<1>1. PICK j \in 1 .. Len(Embedded) : c = Embedded[j]
  BY Lists DEF Mozilla, Less, Elements
<1>2. j \in 1 .. i - 1
  BY <1>1, Lists DEF TypeOK
<1> QED BY <1>1, <1>2 DEF Gathered, Mozilla, Less

\* Every step keeps what it found.
LEMMA FullNext == IInv /\ FullInv /\ [Next]_vars => FullInv'
<1> SUFFICES ASSUME IInv, FullInv, [Next]_vars PROVE FullInv'
  OBVIOUS
<1> TypeOK /\ Row
  BY DEF IInv
<1> USE DEF FullInv
<1>1. CASE AskFile
  <2>1. CASE certFile
    <3>1. PICK ok \in BOOLEAN : Load(EnvFile, ok)
      BY <1>1, <2>1 DEF AskFile
    <3>2. FileGrant = Content(EnvFile)
      BY <2>1, Rows DEF Content, Good
    <3> QED
      BY <1>1, <3>1, <3>2, WordsStay, LoadedAll DEF AskFile
  <2>2. CASE ~certFile
    <3>1. pc' = "default" /\ UNCHANGED <<host, answer, partial, trust>>
          /\ asked' = asked \cup {"file"} /\ pc = "idle"
      BY <1>1, <2>2 DEF AskFile, Goto
    <3> QED BY <3>1, WordsStay DEF Gathered, Filled, Vouched
  <2> QED BY <2>1, <2>2
<1>2. CASE AskDir
  <2>1. trust \subseteq trust' /\ (~partial' => ~partial)
    BY <1>2 DEF AskDir
  <2>2. UNCHANGED <<host, pc, i, todo, some, answer>> /\ pc = "idle"
        /\ asked' = asked \cup {"dir"}
    BY <1>2 DEF AskDir
  <2>3. DirGrant = DefaultDir
    BY DEF DirGrant, DefaultDir, Windows
  <2>4. ~partial' => DirGrant \subseteq trust'
    BY <1>2, <2>3 DEF AskDir
  <2> QED BY <2>1, <2>2, <2>4, WordsStay DEF Gathered, Filled, Vouched
<1>3. CASE WindowsDefault
  <2>1. UNCHANGED <<host, asked, partial, trust>> /\ Windows
        /\ pc = "default" /\ "file" \in asked /\ ~certFile
    BY <1>3 DEF WindowsDefault, Row
  <2>2. CASE certDir
    <3>1. pc' = "idle" /\ answer' = "failed"
      BY <1>3, <2>2 DEF WindowsDefault, Finish, Goto
    <3>2. FileGrant = {}
      BY <2>1, <2>2 DEF FileGrant
    <3> QED BY <2>1, <3>1, <3>2, WordsStay DEF Gathered, Filled, Vouched
  <2>3. CASE ~certDir /\ platform = "windows" /\ mode # "force"
    <3>1. pc' = "root" /\ todo' = Root
      BY <1>3, <2>3 DEF WindowsDefault, Goto
    <3>2. RootStore \subseteq Root
      BY DEF RootStore, Less, TypeOK
    <3> QED BY <2>1, <3>1, <3>2, WordsStay DEF Gathered, Filled, Vouched
  <2>4. CASE ~certDir /\ ~(platform = "windows" /\ mode # "force") /\ mode # "off"
    <3>1. pc' = "embedded" /\ i' = 1
      BY <1>3, <2>4 DEF WindowsDefault, Goto
    <3>2. mode # "force" => RootStore = {}
      BY <2>4 DEF RootStore
    <3> QED BY <2>1, <3>1, <3>2, WordsStay DEF Gathered, Filled, Vouched
  <2>5. CASE ~certDir /\ platform # "windows" /\ mode = "off"
    <3>1. pc' = "idle" /\ answer' = "failed"
      BY <1>3, <2>5 DEF WindowsDefault, Finish, Goto
    <3>2. FileGrant = {}
      BY <2>1, <2>5 DEF FileGrant, RootStore
    <3> QED BY <2>1, <3>1, <3>2, WordsStay DEF Gathered, Filled, Vouched
  <2> QED BY <2>2, <2>3, <2>4, <2>5
<1>4. CASE UnixDefault
  <2>1. UNCHANGED <<host, asked>> /\ ~Windows /\ pc = "default" /\ ~certFile
    BY <1>4 DEF UnixDefault, Row
  <2>2. CASE certDir \/ mode = "off"
    <3>1. PICK ok \in BOOLEAN : Load(Search[1], ok)
      BY <1>4, <2>2 DEF UnixDefault
    <3>2. FileGrant = Content(Search[1])
      BY <2>1, <2>2, Rows
    <3> QED BY <2>1, <3>1, <3>2, WordsStay, LoadedAll
  <2>3. CASE ~(certDir \/ mode = "off")
    <3>1. pc' \in {"embedded", "bundles"} /\ i' = 1
          /\ UNCHANGED <<answer, partial, trust>>
      BY <1>4, <2>3 DEF UnixDefault, Goto
    <3>2. ~some'
      BY <1>4 DEF UnixDefault
    <3> QED BY <2>1, <3>1, <3>2, WordsStay DEF Gathered, Filled, Vouched
  <2> QED BY <2>2, <2>3
<1>5. ASSUME NEW c \in Root, RootCert(c) PROVE FullInv'
  <2>1. UNCHANGED <<host, pc, i, asked, answer>> /\ todo' = todo \ {c}
        /\ pc = "root" /\ trust \subseteq trust' /\ (~partial' => ~partial)
    BY <1>5 DEF RootCert, Add, TypeOK
  <2>2. ~partial' /\ c \in RootStore => c \in trust'
    BY <1>5 DEF RootCert, Add, RootStore, Less, Skipped, TypeOK
  <2> QED BY <2>1, <2>2, WordsStay DEF Gathered, Filled, Vouched
<1>6. CASE RootEnd
  <2>1. UNCHANGED <<host, asked, trust>> /\ pc = "root" /\ Windows
        /\ platform = "windows" /\ mode # "force" /\ ~certFile /\ ~certDir
        /\ "file" \in asked
    BY <1>6 DEF RootEnd, Row, Windows
  <2>2. ~partial' => ~partial /\ todo = {}
    BY <1>6 DEF RootEnd, TypeOK
  <2>3. ~partial' => RootStore \subseteq trust
    BY <2>1, <2>2 DEF Filled
  <2>4. CASE mode # "off"
    <3>1. pc' = "embedded" /\ i' = 1
      BY <1>6, <2>4 DEF RootEnd, Goto
    <3> QED BY <2>1, <2>2, <2>3, <3>1, WordsStay DEF Gathered, Filled, Vouched
  <2>5. CASE mode = "off"
    <3>1. pc' = "idle"
      BY <1>6, <2>5 DEF RootEnd, Finish, Goto
    <3>2. FileGrant = RootStore
      BY <2>1, <2>5 DEF FileGrant
    <3> QED
      BY <2>1, <2>2, <2>3, <3>1, <3>2, WordsStay DEF Gathered, Filled, Vouched
  <2> QED BY <2>4, <2>5
<1>7. CASE EmbeddedCert
  <2>1. UNCHANGED <<host, pc, todo, some, asked, answer, partial>>
        /\ pc = "embedded" /\ i' = i + 1 /\ trust \subseteq trust'
    BY <1>7 DEF EmbeddedCert
  <2>2. Less({Embedded[i]}) \subseteq trust'
    BY <1>7, Lists DEF EmbeddedCert, Less, Skipped, TypeOK
  <2>3. \A j \in 1 .. i' - 1 : j = i \/ j \in 1 .. i - 1
    BY <2>1 DEF TypeOK
  <2>4. \A j \in 1 .. i' - 1 : Less({Embedded[j]}) \subseteq trust'
    BY <2>1, <2>2, <2>3 DEF Gathered
  <2>5. Gathered'
    BY <2>1, <2>4, WordsStay DEF Gathered
  <2> QED BY <2>1, <2>5, WordsStay DEF Filled, Vouched
<1>8. CASE EmbeddedFails
  <2>1. UNCHANGED <<host, asked, trust>> /\ pc' = "idle" /\ partial'
        /\ (answer' = "ok" => Windows)
    BY <1>8 DEF EmbeddedFails, Finish, Goto
  <2> QED BY <2>1, WordsStay DEF Gathered, Filled, Vouched
<1>9. CASE EmbeddedEnd
  <2>1. UNCHANGED <<host, asked, partial, trust>> /\ pc' = "idle"
        /\ pc = "embedded" /\ ~certFile /\ ~certDir
    BY <1>9 DEF EmbeddedEnd, Finish, Goto, Row
  <2>2. Mozilla \subseteq trust
    BY <1>9, AllGathered DEF EmbeddedEnd
  <2>3. ~Windows => FileGrant = Mozilla /\ Mozilla # {}
    <3>1. ASSUME ~Windows PROVE Mozilla # {}
      <4>1. distrusted = {}
        BY <3>1 DEF Windows, Gathered
      <4>2. Embedded[1] \in Mozilla
        BY <4>1, Lists DEF Mozilla, Less, Elements
      <4> QED BY <4>2
    <3>2. ASSUME ~Windows, mode = "auto" PROVE UnixHost = Mozilla
      <4>1. distrusted = {}
        BY <3>2 DEF Windows, Gathered
      <4>2. There = {} /\ hashed = {}
        BY <2>1, <3>2 DEF Row
      <4> QED BY <4>1, <4>2 DEF UnixHost, Mozilla, Less
    <3> QED BY <2>1, <3>1, <3>2, Rows DEF Row
  <2>4. ASSUME Windows, ~partial PROVE FileGrant \subseteq trust
    <3>1. mode = "force" \/ mode = "auto"
      BY <2>1 DEF Row
    <3>2. CASE mode = "force"
      BY <2>1, <2>2, <3>2, Rows
    <3>3. CASE mode = "auto"
      <4>1. FileGrant = Mozilla \cup RootStore
        BY <2>1, <2>4, <3>3 DEF FileGrant
      <4> QED BY <2>1, <2>2, <2>4, <3>3, <4>1 DEF Filled
    <3> QED BY <3>1, <3>2, <3>3
  <2> QED
    BY <2>1, <2>2, <2>3, <2>4, WordsStay DEF Gathered, Filled, Vouched
<1>10. CASE BundleAbsent
  <2>1. pc = "bundles"
        /\ UNCHANGED <<host, pc, todo, some, asked, answer, partial, trust>>
    BY <1>10 DEF BundleAbsent
  <2> QED BY <2>1, WordsStay DEF Gathered, Filled, Vouched
<1>11. CASE BundleThere
  <2>1. PICK ok \in BOOLEAN : Load(Search[i], ok)
    BY <1>11 DEF BundleThere
  <2>2. i \in There /\ \A l \in There : i <= l
    BY <1>11, Lists DEF BundleThere, Row, TypeOK, There, Exists, States
  <2>3. UnixHost = Content(Search[i])
    <3>1. \A k \in There : (\A l \in There : k <= l) => k = i
      BY <2>2, Lists DEF There, TypeOK
    <3>2. Content(Search[i]) \subseteq Bundle
      BY <1>11, Lists DEF BundleThere, Content, TypeOK
    <3> QED BY <2>2, <3>1, <3>2 DEF UnixHost
  <2>4. FileGrant = Content(Search[i])
    BY <1>11, <2>3, Rows DEF BundleThere, Row
  <2> QED BY <1>11, <2>1, <2>4, WordsStay, LoadedAll DEF BundleThere
<1>12. CASE BundlesEnd
  <2>1. pc' = "dirs" /\ i' = 1 /\ pc = "bundles"
        /\ UNCHANGED <<host, todo, some, asked, answer, partial, trust>>
    BY <1>12 DEF BundlesEnd, Goto
  <2> QED BY <2>1, WordsStay DEF Gathered, Filled, Vouched
<1>13. CASE DirEmpty
  <2>1. pc = "dirs" /\ i' = i + 1 /\ Dirs[i] \notin hashed
        /\ UNCHANGED <<host, pc, todo, some, asked, answer, partial, trust>>
    BY <1>13 DEF DirEmpty
  <2>2. \A j \in 1 .. i' - 1 : j = i \/ j \in 1 .. i - 1
    BY <2>1 DEF TypeOK
  <2>3. Gathered'
    BY <2>1, <2>2, WordsStay DEF Gathered
  <2> QED BY <2>1, <2>3, WordsStay DEF Filled, Vouched
<1>14. CASE DirAdded
  <2>1. pc = "dirs" /\ i' = i + 1 /\ Dirs[i] \in hashed
        /\ trust' = trust \cup {Dirs[i]}
        /\ UNCHANGED <<host, pc, todo, asked, answer, partial>>
    BY <1>14 DEF DirAdded, Add
  <2>2. \A j \in 1 .. i' - 1 : j = i \/ j \in 1 .. i - 1
    BY <2>1 DEF TypeOK
  <2>3. Gathered'
    BY <2>1, <2>2, WordsStay DEF Gathered
  <2> QED BY <2>1, <2>3, WordsStay DEF Filled, Vouched
<1>15. CASE DirFails
  <2>1. UNCHANGED <<host, asked, trust>> /\ pc' = "idle" /\ partial'
        /\ answer' = "failed"
    BY <1>15 DEF DirFails, Finish, Goto
  <2> QED BY <2>1, WordsStay DEF Gathered, Filled, Vouched
<1>16. CASE DirsEnd
  <2>1. UNCHANGED <<host, asked, partial, trust>> /\ pc = "dirs"
        /\ i > Len(Dirs) /\ ~Windows
    BY <1>16 DEF DirsEnd, Row
  <2>2. CASE some
    <3>1. pc' = "idle"
      BY <1>16, <2>2 DEF DirsEnd, Finish, Goto
    <3>2. hashed # {} /\ There = {}
      BY <2>1, <2>2 DEF Gathered, Row
    <3>3. FileGrant = hashed
      BY <2>1, <3>2, Rows DEF Row, UnixHost
    <3>4. hashed \subseteq trust
      <4>1. \A d \in hashed : \E j \in 1 .. Len(Dirs) : d = Dirs[j]
        BY Lists DEF Dir, Elements, TypeOK
      <4>2. 1 .. Len(Dirs) \subseteq 1 .. i - 1
        BY <2>1, Lists DEF TypeOK
      <4> QED BY <2>1, <4>1, <4>2 DEF Gathered
    <3> QED
      BY <2>1, <3>1, <3>2, <3>3, <3>4, WordsStay DEF Gathered, Filled, Vouched
  <2>3. CASE ~some
    <3>1. pc' = "embedded" /\ i' = 1
      BY <1>16, <2>3 DEF DirsEnd, Goto
    <3> QED BY <2>1, <3>1, WordsStay DEF Gathered, Filled, Vouched
  <2> QED BY <2>2, <2>3
<1>17. CASE UNCHANGED vars
  <2>1. UNCHANGED <<host, pc, i, todo, some, asked, answer, partial, trust>>
    BY <1>17 DEF vars
  <2> QED BY <2>1, WordsStay DEF Gathered, Filled, Vouched
<1> QED
  BY <1>1, <1>2, <1>3, <1>4, <1>5, <1>6, <1>7, <1>8, <1>9, <1>10, <1>11, <1>12,
     <1>13, <1>14, <1>15, <1>16, <1>17 DEF Next

\* What is trusted is what the table grants: exactly that if nothing failed, and
\* no less than the file's row where the file lookup of a Unix host said yes.
THEOREM TableFollowed == Spec => []FollowsTable
<1> DEFINE Inv == IInv /\ FullInv
<1>1. Init => Inv
  BY InitIInv, InitFull
<1>2. Inv /\ [Next]_vars => Inv'
  BY NextIInv, FullNext
<1>3. Inv => FollowsTable
  BY DEF IInv, FullInv, Filled, Vouched, FollowsTable, NeverWidens, Granted
<1> QED BY <1>1, <1>2, <1>3, PTL DEF Spec
===============================================================================
