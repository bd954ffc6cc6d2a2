----------------------------- MODULE MCBurnCache -----------------------------
(* A trunk of one block, a branch of three, a rival of one, and a block    *)
(* that is refused after its burn was counted.  The burn of the trunk runs *)
(* out of weight on the long branch; the two burns of its first block are  *)
(* alike; the rival and the refused block burn alike for another address.  *)
EXTENDS BurnCache, TLC

CONSTANTS g, a1, a2, a3, a4, b2, x2, d1, d2

MCBlock == {g, a1, a2, a3, a4, b2, x2}
MCParent == g :> g @@ a1 :> g @@ a2 :> a1 @@ a3 :> a2 @@ a4 :> a3 @@ b2 :> a1 @@ x2 :> a1

Pays(d, n) == [dest |-> d, amount |-> n]

MCBurns == g :> <<>> @@ a1 :> <<Pays(d1, 1)>> @@ a2 :> <<Pays(d1, 1), Pays(d1, 1)>>
           @@ a3 :> <<>> @@ a4 :> <<>> @@ b2 :> <<Pays(d2, 1)>> @@ x2 :> <<Pays(d2, 1)>>

MCFailsAfter == x2 :> 1
=============================================================================
