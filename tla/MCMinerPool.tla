----------------------------- MODULE MCMinerPool -----------------------------
(* One block, then two branches.  The producers of the first block and of  *)
(* the second block of the first branch are bootstrap miners.  On the      *)
(* first branch a locked coin and a collateral are spent by blocks that    *)
(* also spend from the developer fund, and the threshold rises after its   *)
(* second block; on the second other keys register, one of them for a      *)
(* challenge of the first branch, and a masternode appears.                *)
EXTENDS MinerPool, TLC

CONSTANTS g, a1, a2, a3, b2, k1, k2, k3, k4, c1, c2, m1, m2, m3, m4, p

MCBlock == {g, a1, a2, a3, b2}
MCParent == g :> g @@ a1 :> g @@ a2 :> a1 @@ a3 :> a2 @@ b2 :> a1
MCKey == {k1, k2, k3, k4}
MCOrder == k1 :> 1 @@ k2 :> 2 @@ k3 :> 3 @@ k4 :> 4

Backwards == k1 :> 4 @@ k2 :> 3 @@ k3 :> 2 @@ k4 :> 1
MCRank == [b \in MCBlock |-> IF b \in {a2, b2} THEN Backwards ELSE MCOrder]

MCCollateral == k1 :> m1 @@ k2 :> m2 @@ k3 :> m3 @@ k4 :> m4

Locks(k, c) == [kind |-> "lock", key |-> k, coin |-> c, challenge |-> g]
Works(k, c, b) == [kind |-> "pow", key |-> k, coin |-> c, challenge |-> b]
Mints(k, b) == [kind |-> "zero", key |-> k, coin |-> NoCoin, challenge |-> b]

MCRegistrations ==
    g :> {} @@ a1 :> {Locks(k4, c1)} @@ a2 :> {Mints(k3, a1)} @@ a3 :> {}
    @@ b2 :> {Works(k1, c2, a1), Mints(k2, a2)}
MCBeats == g :> {} @@ a1 :> {k3} @@ a2 :> {} @@ a3 :> {} @@ b2 :> {k1}
MCSpent == [b \in MCBlock |-> CASE b = a2 -> {c1} [] b = a3 -> {m3} [] OTHER -> {}]
MCProducer == [b \in MCBlock |-> CASE b = a1 -> {k1} [] b = a2 -> {k2} [] OTHER -> {}]
=============================================================================
