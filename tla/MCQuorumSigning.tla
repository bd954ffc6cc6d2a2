-------------------------- MODULE MCQuorumSigning --------------------------
(* Instances of QuorumSigning for TLC. *)
EXTENDS QuorumSigning, TLC
CONSTANTS n1, n2, n3, m1, m2, a1, b1, c1

Trio == {n1, n2, n3}
Mesh == [n \in Node |-> Node \ {n}]

AllMembers == [p \in Parents |-> Member]

(* A coordinator n1, a quorum member n2, and a relay n3 without keys. *)
LoneBlock == {a1}
LoneCoordinator == a1 :> n1
LoneParent == a1 :> Genesis
LoneHash == a1 :> 1
LoneHeight == (a1 :> 1) @@ (Genesis :> 0)
PairHolder == (m1 :> n1) @@ (m2 :> n2)

(* A fork of two blocks of rival coordinators, one of them extended. *)
ForkBlocks == {a1, b1, c1}
ForkCoordinator == (a1 :> n1) @@ (b1 :> n2) @@ (c1 :> n2)
ForkParent == (a1 :> Genesis) @@ (b1 :> Genesis) @@ (c1 :> a1)
ForkHash == (a1 :> 2) @@ (b1 :> 1) @@ (c1 :> 3)
ForkHeight == (a1 :> 1) @@ (b1 :> 1) @@ (c1 :> 2) @@ (Genesis :> 0)
============================================================================
