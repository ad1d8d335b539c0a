---------------------------- MODULE MCClangOverlay ----------------------------
(***************************************************************************)
(* ClangOverlay with names over six bytes ('-' and '.' sort before '/',   *)
(* letters after it): every order of small trees, and a tree of seven that *)
(* is upside down. ".b/" stands for ".unpin/".                             *)
(***************************************************************************)
EXTENDS ClangOverlay

a == 97
b == 98
MCByte == {45, 46, 47, 95, 97, 98}
MCReserved == <<46, b, 47>>

Tree == <<<<a, 47>>, <<a, 45>>, <<a, 47, a>>, <<a, 47, b, 47>>,
          <<a, 47, b, 47, a>>, <<b>>, <<46, b, 47, a>>>>
Orders(S) == {SetToSeq(S)} \cup
  {[j \in 1 .. Cardinality(S) |-> Tree[f[j]]] :
     f \in {g \in [1 .. Cardinality(S) -> DOMAIN Tree] :
             {Tree[g[j]] : j \in DOMAIN g} = S}}
MCImages ==
  {Reverse(Tree), <<>>}
  \cup Orders({Tree[j] : j \in {1, 2, 4, 5}}) \cup Orders({Tree[6], Tree[7]})

v == <<95>>
Parts == {<<a>>, <<b>>, <<a, 45>>, <<46>>, <<46, 46>>}
Below == UNION {[1 .. n -> Parts] : n \in 0 .. 2}
           \cup [1 .. 3 -> {<<a>>, <<b>>, <<46, 46>>}]
Elsewhere == {<<>>, <<<<a>>>>, <<<<46, 46>>, v, <<a>>>>,
              <<<<a>>, <<46, 46>>, v, <<a>>>>}
MCRequests ==
  {[root |-> TRUE, names |-> <<v>> \o p] : p \in Below}
    \cup {[root |-> r, names |-> p] : r \in BOOLEAN, p \in Elsewhere}
===============================================================================
