----------------------------- MODULE MCDnsFallback -----------------------------
(***************************************************************************)
(* DnsFallback with two resolvers. The lists of the environment and the    *)
(* configuration: none, two literals, one behind a host name, and one too  *)
(* long for the buffer.                                                    *)
(***************************************************************************)
EXTENDS DnsFallback

CONSTANTS One, Two, Host, Single         \* Single: is there one resolver only?

MCWord == {One, Two, Host}
MCLiteral == {One, Two}
MCList == IF Single THEN {<<>>, <<Host, One>>}
          ELSE {<<>>, <<One, Two>>, <<Host, Two>>, <<Two, One, Host>>}
===============================================================================
