------------------------- MODULE MCChainSelection -------------------------
(* Instances of ChainSelection for TLC. *)
EXTENDS ChainSelection, TLC
CONSTANTS a1, a2, b1, b2, b3, t1, t2

(* Every block adds one unit of work. *)
ChainOf == LET f[b \in Index] == IF b = Genesis THEN {b} ELSE {b} \cup f[Parent[b]]
           IN  f
WorkOf == [b \in Index |-> Cardinality(Chain[b])]

(* A block, and a branch of three that starts with a rival of equal work. *)
TwinParent == (a1 :> Genesis) @@ (b1 :> Genesis) @@ (b2 :> b1) @@ (b3 :> b2)
TwinHash == (Genesis :> 0) @@ (a1 :> 1) @@ (b1 :> 2) @@ (b2 :> 4) @@ (b3 :> 5)

(* A branch of two blocks, and two rivals of its first block. *)
SplitParent == (a1 :> Genesis) @@ (a2 :> a1) @@ (b1 :> Genesis) @@ (b2 :> Genesis)
SplitHash == (Genesis :> 0) @@ (a1 :> 2) @@ (a2 :> 3) @@ (b1 :> 1) @@ (b2 :> 5)
============================================================================
