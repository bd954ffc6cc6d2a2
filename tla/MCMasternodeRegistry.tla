----------------------- MODULE MCMasternodeRegistry -----------------------
(* Instances of MasternodeRegistry for TLC. *)
EXTENDS MasternodeRegistry, TLC
CONSTANTS a1, a2, a3, b2, b3, b4, k1, k2, k3, k4, c1, c2

(* A branch of three blocks, and a longer one that leaves it after the     *)
(* first.                                                                  *)
ForkParent == (a1 :> Genesis) @@ (a2 :> a1) @@ (a3 :> a2)
              @@ (b2 :> a1) @@ (b3 :> b2) @@ (b4 :> b3)
ForkRank == (Genesis :> 0) @@ (a1 :> 1) @@ (b2 :> 2) @@ (a2 :> 3) @@ (b3 :> 4)
            @@ (a3 :> 5) @@ (b4 :> 6)

ChainOf == LET f[b \in Index] == IF b = Genesis THEN <<>> ELSE Append(f[Parent[b]], b)
           IN  [b \in Index |-> f[b]]

FourKeys == <<k1, k2, k3, k4>>

(* The first collateral pays to k1 and may be delegated; the second pays   *)
(* to nobody's key.                                                        *)
Owners == [c \in Coll |-> IF c = c1 THEN k1 ELSE None]

PingOf(k, c, proof) == [kind |-> "ping", key |-> k, coll |-> c, proof |-> proof]
Beat(k) == [kind |-> "beat", key |-> k]
Body(acts) == [acts |-> acts, spends |-> {}]
Quiet == Body(<<>>)
Spending == [acts |-> <<>>, spends |-> {c1}]
Owned == Body(<<PingOf(k1, c1, FALSE)>>)
Delegated(k) == Body(<<PingOf(k, c1, TRUE)>>)
Apart == Body(<<PingOf(k4, c2, TRUE)>>)

(* What the first blocks of the branches carry; the rest is quiet.  The    *)
(* first collateral changes hands between three keys, the second stays     *)
(* with the fourth: each key stays with one collateral.                    *)
Opening == {Delegated(k2), Body(<<PingOf(k1, c1, FALSE), PingOf(k4, c2, TRUE)>>)}
Rivals == {Delegated(k3), Spending, Apart}
Rotations == {Quiet, Owned, Delegated(k2), Delegated(k3), Body(<<Beat(k1)>>), Spending}
Second == Rotations \cup {Body(<<Beat(k2)>>), Body(<<PingOf(k2, c1, TRUE), Beat(k1)>>)}
Third == Rotations \cup {Apart}

RotationContent ==
  {(a1 :> w) @@ (a2 :> x) @@ (a3 :> y) @@ (b2 :> z) @@ (b3 :> Quiet) @@ (b4 :> Quiet) :
     w \in Opening, x \in Second, y \in Third, z \in Rivals}
============================================================================
