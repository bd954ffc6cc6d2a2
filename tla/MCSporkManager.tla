--------------------------- MODULE MCSporkManager ---------------------------
(* A signer s, a node a that relays, which a stray reaches, and a leaf b.  *)
EXTENDS SporkManager

CONSTANTS s, a, b, p14, v1, v2

Nodes == {s, a, b}
Line == {<<a, s>>, <<b, a>>}
Defaults == [i \in Id |-> v1]
Strays == [n \in Nodes |-> IF n = a THEN {[id |-> p14, value |-> v2, time |-> 1]} ELSE {}]

=============================================================================
