------------------------------- MODULE DnsConfig -------------------------------
(***************************************************************************)
(* config_dns of dns-fallback/dns-fallback.c: the `dns` value of unpin's   *)
(* configuration file, read with fgets into a buffer of LineCap - 1        *)
(* characters: a longer line comes in pieces, each taken for a line.       *)
(*                                                                         *)
(* A character is one of the marks the grammar knows, a word that stands   *)
(* for a run of others, or the key "dns".                                  *)
(***************************************************************************)
EXTENDS Naturals, Sequences, SequencesExt

CONSTANTS
  File,        \* the files to read, sequences of characters
  LineCap,     \* sizeof line
  ValueCap     \* the capacity of the caller's buffer

ASSUME ConfigAssumption ==
  /\ \A f \in File : f \in Seq(STRING)
  /\ LineCap \in Nat /\ LineCap > 1 /\ ValueCap \in Nat /\ ValueCap > 0

Eol == "eol"
Blanks == {" ", Eol}

VARIABLES
  file,        \* the file that is read
  pos,         \* the next character
  value        \* the value found so far, empty if none

configVars == <<file, pos, value>>

ConfigInit == file \in File /\ pos = 1 /\ value = <<>>

-------------------------------------------------------------------------------
\* strchr: the part of s before the first c (s, if there is none), and after.
Before(s, c) ==
  LET i == SelectInSeq(s, LAMBDA x : x = c)
  IN IF i = 0 THEN s ELSE SubSeq(s, 1, i - 1)
After(s, c) == SubSeq(s, Len(Before(s, c)) + 2, Len(s))
Has(s, c) == \E i \in DOMAIN s : s[i] = c

\* trim: without the blanks at both ends.
Trim(s) ==
  LET ink == {i \in DOMAIN s : s[i] \notin Blanks}
      first == CHOOSE i \in ink : \A j \in ink : i <= j
      last == CHOOSE i \in ink : \A j \in ink : j <= i
  IN IF ink = {} THEN <<>> ELSE SubSeq(s, first, last)

\* What a line of the file sets `dns` to; empty if it sets nothing.
Setting(line) ==
  LET code == Before(line, "#")
      v == Trim(After(code, "="))
  IN IF Has(code, "=") /\ Trim(Before(code, "=")) = <<"dns">>
        /\ Len(v) < ValueCap
     THEN v ELSE <<>>

\* fgets: up to and with the end of the line, or as much as fits.
Line ==
  LET rest == SubSeq(file, pos, Len(file))
      whole == IF Has(rest, Eol) THEN Append(Before(rest, Eol), Eol)
               ELSE rest
  IN IF Len(whole) < LineCap THEN whole ELSE SubSeq(whole, 1, LineCap - 1)

\* Mutant of ReadLine: the first value is kept.
ReadLineFirst ==
  /\ pos <= Len(file)
  /\ value' = IF value = <<>> THEN Setting(Line) ELSE value
  /\ pos' = pos + Len(Line)
  /\ UNCHANGED file

ReadLine ==
  /\ pos <= Len(file)
  /\ value' = IF Setting(Line) = <<>> THEN value ELSE Setting(Line)
  /\ pos' = pos + Len(Line)
  /\ UNCHANGED file

Eof == pos > Len(file)

-------------------------------------------------------------------------------
(* The flat grammar the comment names, for a file as a whole: a line ends  *)
(* at Eol, a comment starts at "#" and ends with its line, the first "="   *)
(* of what is left splits key and value, and the last value wins.          *)

\* The positions <<a, b>> of the lines of the file, without their ends.
Lines ==
  {l \in (1..Len(file)) \X (1..Len(file)) :
     /\ l[1] <= l[2] /\ \A i \in l[1]..l[2] : file[i] # Eol
     /\ l[1] = 1 \/ file[l[1] - 1] = Eol
     /\ l[2] = Len(file) \/ file[l[2] + 1] = Eol}

\* A line sets v: v is what is written between its first "=" and its comment.
Sets(l, v) ==
  \E e \in l[1]..l[2], b \in l[1]..(l[2] + 1) :
    /\ file[e] = "=" /\ e < b /\ (b > l[2] \/ file[b] = "#")
    /\ \A i \in l[1]..(b - 1) : file[i] # "#" /\ (i < e => file[i] # "=")
    /\ \E k \in l[1]..(e - 1) :
         /\ file[k] = "dns"
         /\ \A i \in l[1]..(e - 1) \ {k} : file[i] \in Blanks
    /\ v = Trim(SubSeq(file, e + 1, b - 1))
    /\ v # <<>> /\ Len(v) < ValueCap

SetsAny(l) ==
  \E i \in l[1]..l[2] : \E j \in i..l[2] : Sets(l, Trim(SubSeq(file, i, j)))

\* What config_dns finds is what the grammar says: the value of the last line
\* that sets one, whatever lines, comments and lookalikes stand around it.
LastWins ==
  Eof =>
    IF \E l \in Lines : SetsAny(l)
    THEN \E l \in Lines :
           Sets(l, value) /\ \A m \in Lines : SetsAny(m) => m[1] <= l[1]
    ELSE value = <<>>
===============================================================================
