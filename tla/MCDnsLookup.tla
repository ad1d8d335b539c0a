------------------------------ MODULE MCDnsLookup ------------------------------
(***************************************************************************)
(* DnsLookup on every configuration file of up to MaxLines lines, each a   *)
(* key and a value with blanks, comments and second equal signs around     *)
(* them. A word is a sequence of characters; one that is not <<"a">> is no *)
(* IPv4 literal.                                                           *)
(***************************************************************************)
EXTENDS DnsLookup

CONSTANTS MaxLines

a == <<"a">>
h == <<"h">>
ha == <<"h", "=", "a">>
MCWord == {a, h, ha}
MCLiteral == {a}
MCList == {<<>>, <<h, a>>, <<a>>, <<ha>>}

Keys == {<<"dns", "=">>, <<" ", "dns", " ", "=">>, <<"dns", "x", "=">>,
         <<"#", "dns", "=">>, <<"#", "x", "x", "dns", "=">>,
         <<"dns">>, <<"=">>, <<>>}
Values == {<<>>, <<"a">>, <<" ", "h", " ", "a">>, <<"a", "#", "=", "h">>,
           <<"h", "=", "a">>}
FileLine == {k \o v \o <<Eol>> : k \in Keys, v \in Values}

\* A comment that fills the buffer, with what would be a line behind it: "x"
\* stands for the words of the comment.
MCLongFile ==
  {<<"#">> \o [i \in 1..(LineCap - 2) |-> "x"] \o l : l \in FileLine}

MCFile == {FlattenSeq(ls) : ls \in SeqOf(FileLine, MaxLines)}
===============================================================================
