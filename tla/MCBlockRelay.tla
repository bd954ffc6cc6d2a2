---------------------------- MODULE MCBlockRelay ----------------------------
(* A branch of two blocks that may be known by their headers only, and a    *)
(* rival block.  Two of the three are too new at first, and the queue holds *)
(* one.                                                                     *)
EXTENDS BlockRelay, TLC

CONSTANTS g, a1, a2, n1, p1, p2

MCBlock == {g, a1, a2, n1}
MCParent == g :> g @@ a1 :> g @@ a2 :> a1 @@ n1 :> g
MCRank == g :> 0 @@ a1 :> 1 @@ a2 :> 2 @@ n1 :> 3
MCTime == g :> 0 @@ a1 :> 0 @@ a2 :> 2 @@ n1 :> 1
=============================================================================
