-------------------------- MODULE MinerPoolProofs ---------------------------
(***************************************************************************)
(* Elections follow the chain, for every tree of blocks and every order of *)
(* queries, checks, connections and disconnections.                        *)
(***************************************************************************)
EXTENDS MinerPool, FiniteSetTheorems, TLAPS

(* Most leaves are about sets, which Zenon is best at; where numbers count *)
(* the leaf cites SMT.                                                     *)
USE Zenon

-----------------------------------------------------------------------------
(* Chains *)

LEMMA LeastNat ==
    ASSUME NEW S \in SUBSET Nat, S # {}
    PROVE  \E n \in S : \A m \in S : n <= m
<1> DEFINE R == OpToRel(LAMBDA x, y : x < y, Nat)
<1>1. IsWellFoundedOn(R, Nat)
    BY NatLessThanWellFounded
<1> HIDE DEF R
<1>2. PICK x \in S : \A y \in S : ~ (<<y, x>> \in R)
    BY <1>1, WFMin
<1>3. \A m, n \in Nat : m < n => <<m, n>> \in R
    BY DEF R, OpToRel
<1>4. \A y \in S : ~ (y < x)
    BY <1>2, <1>3
<1> QED
    BY SMT, <1>4

(* A set with the genesis block, and with every block whose parent it has, *)
(* has them all.                                                           *)
LEMMA TreeInduction ==
    ASSUME NEW S, Genesis \in S,
           \A b \in Block \ {Genesis} : Parent[b] \in S => b \in S
    PROVE  Block \subseteq S
<1> SUFFICES ASSUME Block \ S # {} PROVE FALSE
    OBVIOUS
<1> DEFINE H == {Height[b] : b \in Block \ S}
<1>1. H \in SUBSET Nat /\ H # {}
    BY SMT, TreeAssumption
<1>2. PICK n \in H : \A m \in H : n <= m
    BY <1>1, LeastNat
<1>3. PICK b \in Block \ S : n = Height[b]
    BY <1>2
<1>4. b # Genesis /\ Parent[b] \in Block \ S
    BY <1>3, PoolAssumption
<1>5. Height[b] <= Height[Parent[b]]
    BY SMT, <1>2, <1>3, <1>4
<1>6. Height[b] = Height[Parent[b]] + 1 /\ Height[Parent[b]] \in Nat
    BY ZenonT(30), <1>3, <1>4, TreeAssumption
<1> QED
    BY SMT, <1>5, <1>6

(* A chain ends at its highest block.                                      *)
LEMMA ChainEnds ==
    \A x \in Block : /\ x \in Chain[x]
                     /\ \A y \in Chain[x] : y # x => Height[y] < Height[x]
<1> DEFINE S == {x \in Block : /\ x \in Chain[x]
                               /\ \A y \in Chain[x] : y # x => Height[y] < Height[x]}
<1>1. Genesis \in S
    BY PoolAssumption, TreeAssumption
<1>2. ASSUME NEW b \in Block \ {Genesis}, Parent[b] \in S PROVE b \in S
  <2>1. /\ Chain[b] = {b} \cup Chain[Parent[b]] /\ Height[b] = Height[Parent[b]] + 1
        /\ Height[Parent[b]] \in Nat /\ Chain[Parent[b]] \subseteq Block
      BY <1>2, TreeAssumption
  <2>2. ASSUME NEW y \in Chain[Parent[b]] PROVE Height[y] < Height[b]
    <3>1. y = Parent[b] \/ Height[y] < Height[Parent[b]]
        BY <1>2
    <3>2. Height[y] \in Nat
        BY <2>1, TreeAssumption
    <3> QED
        BY SMT, <2>1, <3>1, <3>2
  <2> QED
      BY <1>2, <2>1, <2>2
<1> HIDE DEF S
<1>3. Block \subseteq S
    BY <1>1, <1>2, TreeInduction
<1> QED
    BY <1>3 DEF S

(* A chain has exactly one block of each height up to its own.             *)
LEMMA ChainHeights ==
    \A x \in Block : \A h \in 0 .. Height[x] :
        /\ \E b \in Chain[x] : Height[b] = h
        /\ \A b, c \in Chain[x] : Height[b] = h /\ Height[c] = h => b = c
<1> DEFINE S == {x \in Block : \A h \in 0 .. Height[x] :
                    /\ \E b \in Chain[x] : Height[b] = h
                    /\ \A b, c \in Chain[x] : Height[b] = h /\ Height[c] = h => b = c}
<1>1. Genesis \in S
    BY SMT, PoolAssumption, TreeAssumption
<1>2. ASSUME NEW x \in Block \ {Genesis}, Parent[x] \in S PROVE x \in S
  <2>1. /\ Chain[x] = {x} \cup Chain[Parent[x]] /\ Height[x] = Height[Parent[x]] + 1
        /\ Height[Parent[x]] \in Nat
      BY <1>2, TreeAssumption
  <2>2. ASSUME NEW b \in Chain[Parent[x]] PROVE Height[b] \in 0 .. Height[Parent[x]]
    <3>1. Height[b] \in Nat
        BY <1>2, TreeAssumption
    <3>2. b = Parent[x] \/ Height[b] < Height[Parent[x]]
        BY <1>2, ChainEnds
    <3> QED
        BY SMT, <2>1, <3>1, <3>2
  <2>3. ASSUME NEW h \in 0 .. Height[x]
        PROVE  /\ \E b \in Chain[x] : Height[b] = h
               /\ \A b, c \in Chain[x] : Height[b] = h /\ Height[c] = h => b = c
    <3>1. CASE h = Height[x]
      <4>1. \A b \in Chain[Parent[x]] : Height[b] # h
          BY SMT, <2>1, <2>2, <3>1
      <4> QED
          BY <2>1, <3>1, <4>1
    <3>2. CASE h # Height[x]
      <4>1. h \in 0 .. Height[Parent[x]]
          BY SMT, <2>1, <2>3, <3>2
      <4> QED
          BY <1>2, <2>1, <3>2, <4>1
    <3> QED
        BY <3>1, <3>2
  <2> QED
      BY <2>3
<1> HIDE DEF S
<1>3. Block \subseteq S
    BY <1>1, <1>2, TreeInduction
<1> QED
    BY <1>3 DEF S

(* BlockAt is a block of the chain, at the height of the tip the tip.      *)
LEMMA BlockAtType ==
    ASSUME NEW t \in Block, NEW h
    PROVE  BlockAt(t, h) \in Chain[t] /\ BlockAt(t, Height[t]) = t
<1>1. t \in Chain[t]
    BY ChainEnds
<1>2. Height[t] \in 0 .. Height[t]
    BY SMT, TreeAssumption
<1>3. BlockAt(t, h) \in Chain[t]
    BY <1>1, ChainHeights DEF BlockAt
<1>4. BlockAt(t, Height[t]) = t
    BY <1>1, <1>2, ChainHeights DEF BlockAt
<1> QED
    BY <1>3, <1>4

-----------------------------------------------------------------------------
(* Rankings *)

LEMMA FiniteKeys ==
    ASSUME NEW S \in SUBSET Key
    PROVE  IsFiniteSet(S) /\ Cardinality(S) \in Nat
<1>1. IsFiniteSet(S)
    BY PoolAssumption, FS_Subset
<1> QED
    BY <1>1, FS_CardinalityType

(* The best of a set of keys is one of them.                               *)
LEMMA BestExists ==
    ASSUME NEW ks \in SUBSET Key, ks # {}, NEW b \in Block
    PROVE  \E k \in ks : \A l \in ks : Rank[b][k] <= Rank[b][l]
<1> DEFINE R == {Rank[b][k] : k \in ks}
<1>1. R \in SUBSET Nat /\ R # {}
    BY SMT, PoolAssumption
<1>2. PICK n \in R : \A m \in R : n <= m
    BY <1>1, LeastNat
<1> QED
    BY <1>2

LEMMA BestOfType ==
    ASSUME NEW ks \in SUBSET Key, ks # {}, NEW b \in Block
    PROVE  BestOf(ks, b) \in ks
BY BestExists DEF BestOf

(* Keys that rank differently have differently many keys before them.      *)
LEMMA BeforeGrows ==
    ASSUME NEW ks \in SUBSET Key, NEW b \in Block, NEW k \in ks, NEW l \in ks,
           Rank[b][k] < Rank[b][l]
    PROVE  Cardinality({m \in ks : Rank[b][m] < Rank[b][k]})
              < Cardinality({m \in ks : Rank[b][m] < Rank[b][l]})
<1> DEFINE K == {m \in ks : Rank[b][m] < Rank[b][k]}
           L == {m \in ks : Rank[b][m] < Rank[b][l]}
<1>1. \A m \in ks : Rank[b][m] \in Nat
    BY SMT, PoolAssumption
<1>2. K \in SUBSET Key /\ L \in SUBSET Key
    OBVIOUS
<1>3. K \subseteq L
    BY SMT, <1>1
<1>4. k \in L /\ k \notin K
    BY SMT, <1>1
<1> HIDE DEF K, L
<1>5. Cardinality(K) <= Cardinality(L) /\ (Cardinality(L) = Cardinality(K) => L = K)
    BY <1>2, <1>3, FiniteKeys, FS_Subset
<1>6. Cardinality(K) \in Nat /\ Cardinality(L) \in Nat
    BY <1>2, FiniteKeys
<1>7. Cardinality(K) < Cardinality(L)
  <2>1. Cardinality(L) # Cardinality(K)
      BY <1>4, <1>5
  <2> QED
      BY SMT, <1>5, <1>6, <2>1
<1> QED
    BY <1>7 DEF K, L

(* At most n keys are taken, and n unless there are fewer.                 *)
LEMMA RankedSize ==
    ASSUME NEW ks \in SUBSET Key, NEW n \in Nat, NEW b \in Block
    PROVE  /\ Ranked(ks, n, b) \subseteq ks
           /\ Cardinality(Ranked(ks, n, b)) <= n
           /\ Ranked(ks, n, b) = ks \/ Cardinality(Ranked(ks, n, b)) >= n
<1> DEFINE Before(k) == {m \in ks : Rank[b][m] < Rank[b][k]}
           N(k) == Cardinality(Before(k))
           R == Ranked(ks, n, b)
<1>t. \A m \in ks : Rank[b][m] \in Nat
    BY SMT, PoolAssumption
<1>1. \A k : Before(k) \in SUBSET Key
    OBVIOUS
<1>2. \A k : N(k) \in Nat
    BY <1>1, FiniteKeys
<1>3. R = {k \in ks : N(k) < n}
    BY DEF Ranked
<1>4. R \subseteq ks /\ R \in SUBSET Key
    BY <1>3
<1>5. \A k, l \in ks : k # l => N(k) # N(l)
  <2> SUFFICES ASSUME NEW k \in ks, NEW l \in ks, k # l PROVE N(k) # N(l)
      OBVIOUS
  <2>1. Rank[b][k] # Rank[b][l]
      BY PoolAssumption
  <2>2. Rank[b][k] < Rank[b][l] \/ Rank[b][l] < Rank[b][k]
      BY SMT, <1>t, <2>1
  <2>3. N(k) < N(l) \/ N(l) < N(k)
      BY <2>2, BeforeGrows
  <2> HIDE DEF N
  <2> QED
      BY SMT, <1>2, <2>3
<1>6. Cardinality(R) <= n
  <2> DEFINE T == 0 .. n - 1
             f == [k \in R |-> N(k)]
  <2>1. IsFiniteSet(T) /\ Cardinality(T) = n
    <3>1. 0 \in Int /\ n - 1 \in Int /\ (IF 0 > n - 1 THEN 0 ELSE n - 1 - 0 + 1) = n
        BY SMT
    <3> QED
        BY <3>1, FS_Interval
  <2>2. \A k \in R : N(k) \in T
    <3> HIDE DEF N, R
    <3> QED
        BY SMT, <1>2, <1>3
  <2> HIDE DEF T, N, R
  <2>3. f \in Injection(R, T)
      BY <1>4, <1>5, <2>2 DEF Injection, IsInjective
  <2> HIDE DEF f
  <2>4. Cardinality(R) <= Cardinality(T)
      BY <2>1, <2>3, FS_Injection
  <2> QED
      BY <2>1, <2>4
<1>7. ASSUME R # ks PROVE Cardinality(R) >= n
  <2>1. ks \ R \in SUBSET Key /\ ks \ R # {}
      BY <1>4, <1>7
  <2>2. PICK k \in ks \ R : \A l \in ks \ R : Rank[b][k] <= Rank[b][l]
      BY <2>1, BestExists
  <2>3. Before(k) \subseteq R
      BY SMT, <1>t, <2>2
  <2>4. ~ (N(k) < n)
      BY <1>3, <2>2
  <2>5. N(k) <= Cardinality(R)
      BY <1>4, <2>3, FiniteKeys, FS_Subset
  <2>6. Cardinality(R) \in Nat
      BY <1>4, FiniteKeys
  <2> HIDE DEF N, R
  <2> QED
      BY SMT, <1>2, <2>4, <2>5, <2>6
<1> QED
    BY <1>4, <1>6, <1>7

LEMMA ThresholdType ==
    ASSUME NEW h
    PROVE  GetAdamThreshold(h) \in 1 .. MinersCount
BY PoolAssumption DEF GetAdamThreshold

(* The threshold changes at one height.                                    *)
LEMMA ThresholdStep ==
    ASSUME NEW h \in Nat, h + 1 # ThresholdLimit
    PROVE  GetAdamThreshold(h + 1) = GetAdamThreshold(h)
<1>1. ThresholdLimit \in Nat
    BY PoolAssumption
<1>2. h + 1 < ThresholdLimit <=> h < ThresholdLimit
    BY SMT, <1>1
<1> QED
    BY <1>2 DEF GetAdamThreshold

LEMMA BigEnough ==
    ASSUME NEW b \in Block, NEW pool \in SUBSET Key
    PROVE  /\ GetAdamThreshold(Height[b]) \in Nat /\ Cardinality(pool) \in Nat
           /\ TooSmall(b, pool) <=> ~ (Cardinality(pool) >= GetAdamThreshold(Height[b]))
<1> DEFINE n == GetAdamThreshold(Height[b])
<1>1. n \in Nat
  <2>1. n \in 1 .. MinersCount
      BY ThresholdType
  <2> HIDE DEF n
  <2> QED
      BY SMT, <2>1
<1>2. Cardinality(pool) \in Nat
    BY FiniteKeys
<1>3. TooSmall(b, pool) <=> Cardinality(pool) < n
    BY DEF TooSmall
<1> HIDE DEF n
<1>4. Cardinality(pool) < n <=> ~ (Cardinality(pool) >= n)
    BY SMT, <1>1, <1>2
<1> QED
    BY <1>1, <1>2, <1>3, <1>4 DEF n

(* An election in a pool that has all masternodes and is large enough      *)
(* names enough miners and a coordinator of the pool.                      *)
LEMMA ElectEnough ==
    ASSUME NEW b \in Block, NEW pool \in SUBSET Key, NEW mns, mns \subseteq pool,
           ~ TooSmall(b, pool)
    PROVE  Enough(b, pool, Elect(KeyFor(b, pool, mns)))
<1> DEFINE thr == GetAdamThreshold(Height[b])
           key == KeyFor(b, pool, mns)
           r   == Elect(key)
<1>t. thr \in 1 .. MinersCount
    BY ThresholdType
<1>k. key.seed = b /\ key.threshold = thr /\ key.pool = pool /\ key.mns = mns
    BY DEF KeyFor
<1>b. Cardinality(pool) >= thr
    BY BigEnough
<1>n. Height[b] + 1 # ThresholdLimit => GetAdamThreshold(Height[b] + 1) = thr
    BY ThresholdStep, TreeAssumption
<1>d. thr = GetAdamThreshold(Height[b]) /\ r = Elect(key)
    OBVIOUS
<1> HIDE DEF thr, key, r
<1>m. MinersCount \in Nat /\ thr \in Nat /\ thr <= MinersCount /\ 1 <= thr
    BY SMT, <1>t, PoolAssumption
<1>p. IsFiniteSet(pool) /\ Cardinality(pool) \in Nat /\ IsFiniteSet(mns) /\ Cardinality(mns) \in Nat
    BY FiniteKeys
<1>s. ASSUME NEW ks \in SUBSET Key, Cardinality(ks) >= thr
      PROVE  /\ Cardinality(Ranked(ks, MinersCount, b)) \in thr .. MinersCount
             /\ Ranked(ks, MinersCount, b) \subseteq ks
  <2> DEFINE R == Ranked(ks, MinersCount, b)
  <2>1. /\ R \subseteq ks /\ Cardinality(R) <= MinersCount
        /\ R = ks \/ Cardinality(R) >= MinersCount
      BY <1>m, RankedSize
  <2>2. Cardinality(R) \in Nat
      BY <2>1, FiniteKeys
  <2> HIDE DEF R
  <2>3. Cardinality(R) >= thr
      BY SMT, <1>m, <1>s, <2>1, <2>2
  <2>4. Cardinality(R) \in thr .. MinersCount
      BY SMT, <1>m, <2>1, <2>2, <2>3
  <2> QED
      BY <2>1, <2>4 DEF R
<1>1. /\ Cardinality(r.miners) \in thr .. MinersCount
      /\ r.miners \subseteq pool /\ r.coordinator \in pool
      /\ r.coordinator \in r.miners => r.miners = pool
  <2>1. CASE Cardinality(mns) > thr
    <3> DEFINE c == BestOf(mns, b)
               M == Ranked(pool \ {c}, MinersCount, b)
    <3>1. mns # {}
      <4>1. Cardinality(mns) # 0
          BY SMT, <2>1, <1>m, <1>p
      <4> QED
          BY <4>1, FS_EmptySet
    <3>2. c \in mns
        BY <3>1, BestOfType
    <3>3. Cardinality(mns) <= Cardinality(pool)
        BY <1>p, FS_Subset
    <3>4. Cardinality(pool \ {c}) = Cardinality(pool) - 1
        BY <1>p, <3>2, FS_RemoveElement
    <3>5. Cardinality(pool \ {c}) >= thr
      <4> DEFINE P == pool \ {c}
      <4> HIDE DEF P, c
      <4>1. Cardinality(P) = Cardinality(pool) - 1
          BY <3>4 DEF P
      <4>2. Cardinality(P) >= thr
          BY SMT, <2>1, <1>m, <1>p, <3>3, <4>1
      <4> QED
          BY <4>2 DEF P
    <3>6. Cardinality(M) \in thr .. MinersCount /\ M \subseteq pool \ {c}
        BY <1>s, <3>5
    <3>7. r = [coordinator |-> c, miners |-> M]
        BY <1>d, <1>k, <2>1 DEF Elect
    <3> HIDE DEF c, M
    <3> QED
        BY SMT, <3>2, <3>6, <3>7
  <2>2. CASE ~ (Cardinality(mns) > thr)
    <3> DEFINE M == Ranked(pool, MinersCount, b)
               c == BestOf(IF pool = M THEN pool ELSE pool \ M, b)
    <3>1. Cardinality(M) \in thr .. MinersCount /\ M \subseteq pool
        BY <1>s, <1>b
    <3>2. pool # {}
      <4>1. Cardinality(pool) # 0
          BY SMT, <1>b, <1>m, <1>p
      <4> QED
          BY <4>1, FS_EmptySet
    <3>3. c \in pool /\ (c \in M => M = pool)
      <4>1. CASE pool = M
          BY <3>2, <4>1, BestOfType
      <4>2. CASE pool # M
        <5>1. pool \ M \in SUBSET Key /\ pool \ M # {}
            BY <3>1, <4>2
        <5>2. c \in pool \ M
            BY <4>2, <5>1, BestOfType
        <5> QED
            BY <5>2
      <4> QED
          BY <4>1, <4>2
    <3>4. r = [coordinator |-> c, miners |-> M]
        BY <1>d, <1>k, <2>2 DEF Elect
    <3> HIDE DEF c, M
    <3> QED
        BY SMT, <3>1, <3>3, <3>4
  <2> QED
      BY <2>1, <2>2
<1>2. Cardinality(r.miners) >= thr
    BY SMT, <1>1, <1>m
<1>3. Enough(b, pool, r)
    BY <1>d, <1>n, <1>1, <1>2 DEF Enough
<1> QED
    BY <1>3 DEF r, key

-----------------------------------------------------------------------------
(***************************************************************************)
(* The inductive invariant.  A pool in the cache is only asked for again   *)
(* by an election when it is the pool of the tip: it is then made of what  *)
(* the chain of the tip entitles (Sound), unless it was cached in the      *)
(* middle of a block.  The other pools may be of other coins, but are      *)
(* dropped before their block is the tip again, because moved is set by a  *)
(* disconnection.                                                          *)
(***************************************************************************)
(* The producers of the blocks up to height n of the chain of t. *)
Producers(t, n) == UNION {Producer[b] : b \in {c \in Chain[t] : Height[c] \in 1 .. n}}

Caches == UNION {[D -> SUBSET Key] : D \in SUBSET Block}

PoolState ==
    [cache : Caches, moved : BOOLEAN, boot : SUBSET Key, upTo : 0 .. LastBootstrap,
     mid : SUBSET Block, stale : BOOLEAN]

(* Until a scanned block is disconnected, the bootstrap miners are the     *)
(* producers of the chain, as far as it has been scanned.                  *)
BootExact(p, t) == ~ p.stale => p.upTo <= Height[t] /\ p.boot = Producers(t, p.upTo)

Sound(t, pool, stale) ==
    \E boot \in SUBSET Key :
        /\ pool = Bootstrapped(Entitled[t][t], t, boot)
        /\ ~ stale => boot = Producers(t, LastBootstrap)

CacheSound(p, t) ==
    /\ DOMAIN p.cache \subseteq Chain[t]
    /\ t \in DOMAIN p.cache /\ t \notin p.mid => Sound(t, p.cache[t], p.stale)

PoolsSound(p, t) == p \in PoolState /\ BootExact(p, t) /\ (p.moved \/ CacheSound(p, t))

ElectionExact(e) == e.key = NoKey \/ e.result = Elect(e.key)

Masternodes(t) == ActiveMasternodes(Height[t], t, Coins[t])

(* What an asker has read on one tip is what the chain of the tip has.     *)
AskSound(r) ==
    \/ r = NoAsk
    \/ /\ r.at \in {"masternodes", "recall", "store"}
       /\ r.key = KeyFor(r.key.seed, r.key.pool, r.key.mns)
       /\ r.key.seed \in Block /\ r.key.pool \in SUBSET Key
       /\ ~ TooSmall(r.key.seed, r.key.pool)
       /\ r.whole => /\ Masternodes(r.key.seed) \subseteq r.key.pool
                     /\ r.at = "recall" => r.key.mns = Masternodes(r.key.seed)
       /\ r.fresh => r.whole /\ r.key.pool = FreshPool[r.key.seed]

PoolInv ==
    /\ tip \in Block
    /\ PoolsSound(pools, tip)
    /\ ElectionExact(elected)
    /\ asking = [a \in Asker |-> asking[a]]
    /\ \A a \in Asker : AskSound(asking[a])

-----------------------------------------------------------------------------
(* The pool *)

LEMMA FillType ==
    ASSUME NEW pool \in SUBSET Key, NEW ks \in SUBSET Key
    PROVE  Fill(pool, ks) \in SUBSET Key /\ pool \subseteq Fill(pool, ks)
BY DEF Fill, First

LEMMA FilledType ==
    ASSUME NEW t \in Block, NEW q, NEW coins
    PROVE  /\ Filled(q, t, coins) \in SUBSET Key
           /\ ActiveMasternodes(Height[q], t, coins) \subseteq Filled(q, t, coins)
<1>1. ActiveMasternodes(Height[q], t, coins) \in SUBSET Key
    BY DEF ActiveMasternodes
<1>2. \A kinds : Registered(q, t, coins, kinds) \in SUBSET Key
  <2>1. \A b \in Chain[t] : \A r \in Registrations[b] : r.key \in Key
      BY PoolAssumption, TreeAssumption
  <2> QED
      BY <2>1 DEF Registered
<1>3. /\ Funded(q, t, coins) \in SUBSET Key
      /\ ActiveMasternodes(Height[q], t, coins) \subseteq Funded(q, t, coins)
    BY <1>1, <1>2 DEF Funded
<1> DEFINE F == Funded(q, t, coins)
           Z == Registered(q, t, coins, {"zero"})
<1>4. F \in SUBSET Key /\ Z \in SUBSET Key
    BY <1>2, <1>3
<1> HIDE DEF F, Z
<1>5. Fill(F, Z) \in SUBSET Key /\ F \subseteq Fill(F, Z)
    BY <1>4, FillType
<1> QED
    BY <1>3, <1>5 DEF Filled, F, Z

LEMMA EntitledType ==
    ASSUME NEW t \in Block
    PROVE  /\ \A q \in Chain[t] : Entitled[t][q] \in SUBSET Key
           /\ Masternodes(t) \subseteq Entitled[t][t]
<1>1. \A q \in Chain[t] : Entitled[t][q] = Filled(q, t, Coins[t])
    BY DEF Entitled
<1>2. t \in Chain[t]
    BY ChainEnds
<1>3. \A q : /\ Filled(q, t, Coins[t]) \in SUBSET Key
             /\ ActiveMasternodes(Height[q], t, Coins[t]) \subseteq Filled(q, t, Coins[t])
    BY FilledType
<1> QED
    BY <1>1, <1>2, <1>3 DEF Masternodes

LEMMA BootstrappedType ==
    ASSUME NEW filled \in SUBSET Key, NEW q, NEW boot \in SUBSET Key
    PROVE  Bootstrapped(filled, q, boot) \in SUBSET Key /\ filled \subseteq Bootstrapped(filled, q, boot)
BY FillType DEF Bootstrapped

LEMMA ProducersType ==
    ASSUME NEW t \in Block, NEW n
    PROVE  Producers(t, n) \in SUBSET Key
<1>1. \A b \in Chain[t] : Producer[b] \in SUBSET Key
    BY PoolAssumption, TreeAssumption
<1> QED
    BY <1>1 DEF Producers

(* A pool of the tip's chain has the masternodes that are active there.    *)
LEMMA SoundHasMasternodes ==
    ASSUME NEW t \in Block, NEW pool, NEW stale, Sound(t, pool, stale)
    PROVE  pool \in SUBSET Key /\ Masternodes(t) \subseteq pool
<1> DEFINE filled == Entitled[t][t]
<1>1. PICK boot \in SUBSET Key : pool = Bootstrapped(filled, t, boot)
    BY DEF Sound
<1>2. filled \in SUBSET Key /\ Masternodes(t) \subseteq filled
    BY EntitledType, ChainEnds
<1> HIDE DEF filled
<1>3. Bootstrapped(filled, t, boot) \in SUBSET Key /\ filled \subseteq Bootstrapped(filled, t, boot)
    BY <1>2, BootstrappedType
<1> QED
    BY <1>1, <1>2, <1>3

(* Without leftovers it is the pool of a node that has just started.       *)
LEMMA SoundIsFresh ==
    ASSUME NEW t \in Block, NEW p, NEW pool, Sound(t, pool, p.stale), ~ Leftovers(p, t)
    PROVE  pool = FreshPool[t]
<1>1. PICK boot \in SUBSET Key : /\ pool = Bootstrapped(Entitled[t][t], t, boot)
                                 /\ ~ p.stale => boot = Producers(t, LastBootstrap)
    BY DEF Sound
<1>2. FreshPool[t] = Bootstrapped(Entitled[t][t], t, Producers(t, LastBootstrap))
    BY DEF FreshPool, Producers
<1>3. CASE ~ p.stale
    BY <1>1, <1>2, <1>3
<1>4. CASE ~ NeedsBootstrap(Entitled[t][t], t)
    BY <1>1, <1>2, <1>4 DEF Bootstrapped
<1> QED
    BY <1>3, <1>4 DEF Leftovers

LEMMA MinMaxPair ==
    ASSUME NEW m \in Nat, NEW n \in Nat
    PROVE  /\ Min({m, n}) \in {m, n} /\ Min({m, n}) <= m /\ Min({m, n}) <= n
           /\ Max({m, n}) \in {m, n} /\ Max({m, n}) >= m /\ Max({m, n}) >= n
<1>1. \E x \in {m, n} : \A y \in {m, n} : x =< y
    BY SMT
<1>2. \E x \in {m, n} : \A y \in {m, n} : x >= y
    BY SMT
<1>3. Min({m, n}) \in {m, n} /\ \A y \in {m, n} : Min({m, n}) =< y
    BY <1>1 DEF Min
<1>4. Max({m, n}) \in {m, n} /\ \A y \in {m, n} : Max({m, n}) >= y
    BY <1>2 DEF Max
<1> QED
    BY <1>3, <1>4

LEMMA ProducersMember ==
    ASSUME NEW t, NEW n, NEW x
    PROVE  x \in Producers(t, n) <=> \E b \in Chain[t] : Height[b] \in 1 .. n /\ x \in Producer[b]
BY DEF Producers

(* A scan up to a block of the chain keeps the bootstrap miners exact; a   *)
(* scan up to the tip finds all that a node finds that has just started.   *)
LEMMA ScanExact ==
    ASSUME NEW t \in Block, NEW q \in Chain[t], NEW p \in PoolState, BootExact(p, t)
    PROVE  LET s == ScanBootstrap(p, q, t) IN
           /\ s \in PoolState /\ BootExact(s, t)
           /\ s.cache = p.cache /\ s.moved = p.moved /\ s.mid = p.mid /\ s.stale = p.stale
           /\ q = t /\ ~ p.stale => s.boot = Producers(t, LastBootstrap)
<1> DEFINE upTo == Min({LastBootstrap, Height[q]})
           new  == UNION {Producer[b] : b \in {c \in Chain[t] : Height[c] \in p.upTo + 1 .. upTo}}
           m    == Max({p.upTo, upTo})
           s    == [p EXCEPT !.boot = p.boot \cup new, !.upTo = m]
<1>p. p.boot \in SUBSET Key /\ p.upTo \in 0 .. LastBootstrap
    BY DEF PoolState
<1>d. ScanBootstrap(p, q, t) = s
    BY DEF ScanBootstrap
<1>h. /\ Chain[t] \subseteq Block /\ Height[t] \in Nat /\ Height[q] \in Nat
      /\ \A c \in Chain[t] : Height[c] \in Nat
    BY TreeAssumption
<1>b. \A c \in Chain[t] : Height[c] <= Height[t]
  <2>1. \A c \in Chain[t] : c # t => Height[c] < Height[t]
      BY ChainEnds
  <2> QED
      BY SMT, <1>h, <2>1
<1>l. LastBootstrap \in Nat
    BY PoolAssumption
<1>n. p.upTo \in Nat /\ p.upTo <= LastBootstrap
    BY SMT, <1>p, <1>l
<1>u. upTo \in {LastBootstrap, Height[q]} /\ upTo <= LastBootstrap /\ upTo <= Height[q]
    BY <1>h, <1>l, MinMaxPair
<1>v. upTo \in Nat
    BY <1>u, <1>h, <1>l
<1>w. m \in {p.upTo, upTo} /\ m >= p.upTo /\ m >= upTo
    BY <1>n, <1>v, MinMaxPair
<1>t. new \in SUBSET Key
  <2>1. \A c \in Chain[t] : Producer[c] \in SUBSET Key
      BY PoolAssumption, <1>h
  <2> HIDE DEF upTo
  <2> QED
      BY <2>1
<1>e. p.boot = Producers(t, p.upTo) => p.boot \cup new = Producers(t, m)
  <2> SUFFICES ASSUME p.boot = Producers(t, p.upTo) PROVE p.boot \cup new = Producers(t, m)
      OBVIOUS
  <2> HIDE DEF upTo, m
  <2>1. \A c \in Chain[t] : Height[c] \in 1 .. m <=> Height[c] \in 1 .. p.upTo \/ Height[c] \in p.upTo + 1 .. upTo
      BY SMT, <1>h, <1>n, <1>v, <1>w
  <2>2. \A x : x \in new <=> \E b \in Chain[t] : Height[b] \in p.upTo + 1 .. upTo /\ x \in Producer[b]
      OBVIOUS
  <2> HIDE DEF new
  <2>3. \A x : x \in Producers(t, m) <=> x \in Producers(t, p.upTo) \/ x \in new
      BY <2>1, <2>2, ProducersMember
  <2> QED
      BY <2>3
<1>f. q = t => Producers(t, m) = Producers(t, LastBootstrap)
  <2> HAVE q = t
  <2> HIDE DEF upTo, m
  <2>1. m <= LastBootstrap
      BY SMT, <1>n, <1>u, <1>v, <1>w
  <2>2. \A c \in Chain[t] : Height[c] \in 1 .. m <=> Height[c] \in 1 .. LastBootstrap
      BY SMT, <1>h, <1>b, <1>u, <1>v, <1>w, <1>n, <1>l, <2>1
  <2>3. {c \in Chain[t] : Height[c] \in 1 .. m} = {c \in Chain[t] : Height[c] \in 1 .. LastBootstrap}
      BY <2>2
  <2> QED
      BY <2>3 DEF Producers
<1>g. p.upTo <= Height[t] => m <= Height[t]
  <2> HIDE DEF upTo, m
  <2>1. Height[q] <= Height[t]
      BY <1>b
  <2> QED
      BY SMT, <1>h, <1>n, <1>u, <1>v, <1>w, <2>1
<1>i. m \in 0 .. LastBootstrap
  <2> HIDE DEF upTo, m
  <2> QED
      BY SMT, <1>n, <1>u, <1>v, <1>w, <1>l
<1> HIDE DEF upTo, new, m
<1>2. p.boot \cup new \in SUBSET Key
    BY <1>p, <1>t
<1>1. /\ s.cache = p.cache /\ s.moved = p.moved /\ s.mid = p.mid /\ s.stale = p.stale
      /\ s.boot = p.boot \cup new /\ s.upTo = m
      /\ s \in PoolState
    BY <1>2, <1>i DEF PoolState
<1> HIDE DEF s
<1>4. BootExact(s, t)
    BY <1>1, <1>e, <1>g DEF BootExact
<1>5. q = t /\ ~ p.stale => s.boot = Producers(t, LastBootstrap)
    BY <1>1, <1>e, <1>f DEF BootExact
<1> QED
    BY <1>d, <1>1, <1>4, <1>5

LEMMA CachesType ==
    /\ <<>> \in Caches /\ DOMAIN <<>> = {}
    /\ \A c \in Caches : DOMAIN c \subseteq Block /\ \A q \in DOMAIN c : c[q] \in SUBSET Key
<1>1. DOMAIN <<>> = {} /\ <<>> \in [{} -> SUBSET Key]
    BY SMT
<1>2. <<>> \in Caches
    BY <1>1 DEF Caches
<1>3. ASSUME NEW c \in Caches
      PROVE  DOMAIN c \subseteq Block /\ \A q \in DOMAIN c : c[q] \in SUBSET Key
  <2>1. PICK D \in SUBSET Block : c \in [D -> SUBSET Key]
      BY DEF Caches
  <2> QED
      BY <2>1
<1> QED
    BY <1>1, <1>2, <1>3

LEMMA CacheGrows ==
    ASSUME NEW c \in Caches, NEW q \in Block, NEW pool \in SUBSET Key
    PROVE  [x \in DOMAIN c \cup {q} |-> IF x = q THEN pool ELSE c[x]] \in Caches
<1> DEFINE d == [x \in DOMAIN c \cup {q} |-> IF x = q THEN pool ELSE c[x]]
           D == DOMAIN c \cup {q}
<1>1. D \in SUBSET Block
    BY CachesType
<1>2. d \in [D -> SUBSET Key]
    BY CachesType
<1> QED
    BY <1>1, <1>2 DEF Caches

(* Looking at the cache drops it or leaves a sound one.                    *)
LEMMA RefreshedSound ==
    ASSUME NEW p, NEW t \in Block, PoolsSound(p, t)
    PROVE  LET s == Refreshed(p) IN
           /\ s \in PoolState /\ BootExact(s, t) /\ ~ s.moved /\ CacheSound(s, t)
           /\ s.stale = p.stale
<1> DEFINE drop == p.moved \/ Cardinality(DOMAIN p.cache) > PoolCacheCap
           c    == IF drop THEN <<>> ELSE p.cache
           m    == IF drop THEN {} ELSE p.mid
           s    == [p EXCEPT !.cache = c, !.mid = m, !.moved = FALSE]
<1>1. Refreshed(p) = s
    BY DEF Refreshed
<1>2. p \in PoolState /\ p.cache \in Caches /\ p.mid \in SUBSET Block
    BY DEF PoolsSound, PoolState
<1>3. c \in Caches /\ m \in SUBSET Block
    BY <1>2, CachesType
<1>4. drop => c = <<>>
    OBVIOUS
<1>5. ~ drop => c = p.cache /\ m = p.mid /\ ~ p.moved
    OBVIOUS
<1> HIDE DEF c, m, drop
<1>6. /\ s.cache = c /\ s.mid = m /\ s.moved = FALSE /\ s.boot = p.boot /\ s.upTo = p.upTo /\ s.stale = p.stale
      /\ s \in PoolState
    BY <1>2, <1>3 DEF PoolState
<1> HIDE DEF s
<1>8. BootExact(s, t)
    BY <1>6 DEF PoolsSound, BootExact
<1>9. CacheSound(s, t)
  <2>1. CASE drop
    <3>1. DOMAIN s.cache = {}
        BY <1>4, <1>6, <2>1, CachesType
    <3> QED
        BY <3>1 DEF CacheSound
  <2>2. CASE ~ drop
      BY <1>5, <1>6, <2>2 DEF PoolsSound, CacheSound
  <2> QED
      BY <2>1, <2>2
<1> QED
    BY <1>1, <1>6, <1>8, <1>9

(* Keeping a pool leaves a sound cache when the pool is sound or marked.   *)
LEMMA KeptSound ==
    ASSUME NEW p \in PoolState, NEW t \in Block, NEW q \in Chain[t], NEW pool \in SUBSET Key,
           NEW mid \in BOOLEAN, BootExact(p, t), ~ p.moved, CacheSound(p, t),
           q = t /\ ~ mid => Sound(t, pool, p.stale)
    PROVE  LET k == Kept(p, q, pool, mid) IN
           /\ k.pool = pool
           /\ k.pools \in PoolState /\ BootExact(k.pools, t) /\ ~ k.pools.moved /\ CacheSound(k.pools, t)
           /\ k.pools.stale = p.stale /\ (~ mid => k.pools.mid = p.mid)
<1> DEFINE c == [x \in DOMAIN p.cache \cup {q} |-> IF x = q THEN pool ELSE p.cache[x]]
           m == IF mid THEN p.mid \cup {q} ELSE p.mid
           s == [p EXCEPT !.cache = c, !.mid = m]
           big == Cardinality(pool) >= GetAdamThreshold(Height[q])
<1>1. Kept(p, q, pool, mid) = [pools |-> IF big THEN s ELSE p, pool |-> pool]
    BY DEF Kept
<1>2. p.cache \in Caches /\ p.mid \in SUBSET Block
    BY DEF PoolState
<1>3. q \in Block
    BY TreeAssumption
<1>4. c \in Caches
    BY <1>2, <1>3, CacheGrows
<1>5. DOMAIN c = DOMAIN p.cache \cup {q} /\ c[q] = pool /\ \A x \in DOMAIN p.cache : x # q => c[x] = p.cache[x]
    OBVIOUS
<1>6. m \in SUBSET Block /\ p.mid \subseteq m /\ (mid => q \in m) /\ (~ mid => m = p.mid)
    BY <1>2, <1>3
<1> HIDE DEF c, m, big
<1>7. /\ s.cache = c /\ s.mid = m /\ s.moved = p.moved /\ s.boot = p.boot /\ s.upTo = p.upTo /\ s.stale = p.stale
      /\ s \in PoolState
    BY <1>4, <1>6 DEF PoolState
<1>9. BootExact(s, t)
    BY <1>7 DEF BootExact
<1>10. CacheSound(s, t)
  <2>1. DOMAIN s.cache \subseteq Chain[t]
      BY <1>5, <1>7 DEF CacheSound
  <2>2. ASSUME t \in DOMAIN s.cache, t \notin s.mid PROVE Sound(t, s.cache[t], s.stale)
    <3>1. CASE q = t
        BY <1>5, <1>6, <1>7, <2>2, <3>1
    <3>2. CASE q # t
        BY <1>5, <1>6, <1>7, <2>2, <3>2 DEF CacheSound
    <3> QED
        BY <3>1, <3>2
  <2> QED
      BY <2>1, <2>2 DEF CacheSound
<1> DEFINE k == Kept(p, q, pool, mid)
           n == IF big THEN s ELSE p
<1> HIDE DEF s, k
<1>11. k = [pools |-> n, pool |-> pool]
    BY <1>1 DEF k, s, big, c, m
<1> HIDE DEF n
<1>14. k.pool = pool /\ k.pools = n
    BY <1>11
<1> USE DEF n
<1>12. CASE big
    BY <1>6, <1>7, <1>9, <1>10, <1>14, <1>12 DEF k
<1>13. CASE ~ big
    BY <1>14, <1>13 DEF k
<1> QED
    BY <1>12, <1>13

(* A pool query keeps the static variables sound; for the tip it answers a *)
(* sound pool, unless the one that is cached is marked.                    *)
LEMMA PoolQuery ==
    ASSUME NEW p, NEW t \in Block, NEW q \in Chain[t], NEW filled \in SUBSET Key,
           PoolsSound(p, t)
    PROVE  LET got == GetAdamMinerPool(p, q, t, filled) IN
           /\ PoolsSound(got.pools, t) /\ got.pool \in SUBSET Key
           /\ got.pools.stale = p.stale
           /\ filled = Entitled[t][q] =>
                 /\ got.pools.mid = Refreshed(p).mid
                 /\ q = t /\ t \notin got.pools.mid => Sound(t, got.pool, p.stale)
<1> DEFINE r   == Refreshed(p)
           mid == filled # Entitled[t][q]
           s   == IF NeedsBootstrap(filled, q) THEN ScanBootstrap(r, q, t) ELSE r
           new == Bootstrapped(filled, q, s.boot)
           got == GetAdamMinerPool(p, q, t, filled)
<1>1. got = IF q \in DOMAIN r.cache THEN [pools |-> r, pool |-> r.cache[q]] ELSE Kept(s, q, new, mid)
    BY DEF GetAdamMinerPool, Answered, Completed
<1>2. r \in PoolState /\ BootExact(r, t) /\ ~ r.moved /\ CacheSound(r, t) /\ r.stale = p.stale
    BY RefreshedSound
<1>3. mid \in BOOLEAN /\ (mid <=> filled # Entitled[t][q])
    OBVIOUS
<1> HIDE DEF r, got, mid
<1>4. ScanBootstrap(r, q, t).stale = r.stale
    BY <1>2, ScanExact
<1>5. /\ s \in PoolState /\ BootExact(s, t)
      /\ s.cache = r.cache /\ s.moved = r.moved /\ s.mid = r.mid /\ s.stale = r.stale
      /\ q = t /\ ~ r.stale /\ NeedsBootstrap(filled, q) => s.boot = Producers(t, LastBootstrap)
    BY <1>2, ScanExact
<1> HIDE DEF s
<1>6. CacheSound(s, t) /\ ~ s.moved
    BY <1>2, <1>5 DEF CacheSound
<1>7. s.boot \in SUBSET Key
    BY SMT, <1>5 DEF PoolState
<1>8. new \in SUBSET Key
    BY SMT, <1>7, BootstrappedType DEF new
<1>9. q = t /\ ~ mid => Sound(t, new, s.stale)
  <2> SUFFICES ASSUME q = t, ~ mid PROVE Sound(t, new, s.stale)
      OBVIOUS
  <2>1. filled = Entitled[t][t]
      BY <1>3
  <2>2. CASE NeedsBootstrap(filled, q)
      BY <1>5, <1>7, <2>1, <2>2 DEF Sound
  <2>3. CASE ~ NeedsBootstrap(filled, q)
    <3>1. new = Bootstrapped(Entitled[t][t], t, Producers(t, LastBootstrap))
        BY <2>1, <2>3 DEF Bootstrapped
    <3> QED
        BY <3>1, ProducersType DEF Sound
  <2> QED
      BY <2>2, <2>3
<1> HIDE DEF new
<1>10. CASE q \in DOMAIN r.cache
  <2>1. got.pools = r /\ got.pool = r.cache[q]
      BY <1>1, <1>10
  <2>2. r.cache \in Caches
      BY SMT, <1>2 DEF PoolState
  <2>3. got.pool \in SUBSET Key
      BY <1>10, <2>1, <2>2, CachesType
  <2>4. PoolsSound(got.pools, t)
      BY <1>2, <2>1 DEF PoolsSound
  <2>5. q = t /\ t \notin r.mid => Sound(t, got.pool, r.stale)
      BY <1>2, <1>10, <2>1 DEF CacheSound
  <2> QED
      BY <1>2, <2>1, <2>3, <2>4, <2>5 DEF got, r
<1>11. CASE q \notin DOMAIN r.cache
  <2> DEFINE k == Kept(s, q, new, mid)
  <2>1. /\ k.pool = new
        /\ k.pools \in PoolState /\ BootExact(k.pools, t) /\ ~ k.pools.moved /\ CacheSound(k.pools, t)
        /\ k.pools.stale = s.stale /\ (~ mid => k.pools.mid = s.mid)
      BY SMT, <1>3, <1>5, <1>6, <1>8, <1>9, KeptSound
  <2>2. got = k
      BY <1>1, <1>11
  <2> HIDE DEF k
  <2>3. PoolsSound(got.pools, t)
      BY <2>1, <2>2 DEF PoolsSound
  <2> QED
      BY <1>2, <1>3, <1>5, <1>8, <1>9, <2>1, <2>2, <2>3 DEF got, r
<1> QED
    BY <1>10, <1>11

-----------------------------------------------------------------------------
(* The election *)

LEMMA KeyForFields ==
    ASSUME NEW b, NEW pool, NEW mns
    PROVE  LET k == KeyFor(b, pool, mns) IN
           k.seed = b /\ k.pool = pool /\ k.mns = mns /\ k.threshold = GetAdamThreshold(Height[b])
BY DEF KeyFor

(* A result that is recalled is the one that would be computed.            *)
LEMMA RecalledExact ==
    ASSUME NEW e, ElectionExact(e), NEW key, key.seed \in Block
    PROVE  /\ Recalled(e, key).result = Elect(key)
           /\ ElectionExact(Recalled(e, key))
<1>1. NoKey.seed \notin Block
    BY PoolAssumption DEF NoKey
<1>2. CASE e.key = key
  <2>1. e.key # NoKey
      BY <1>1, <1>2
  <2> QED
      BY <1>2, <2>1 DEF ElectionExact, Recalled
<1>3. CASE e.key # key
    BY <1>3 DEF ElectionExact, Recalled
<1> QED
    BY <1>2, <1>3

(* The query that AskPool, TakePool and an election make.                  *)
LEMMA PoolAtQuery ==
    ASSUME NEW p, NEW t \in Block, NEW h, PoolsSound(p, t)
    PROVE  LET got == PoolAt(p, h, t) IN
           /\ PoolsSound(got.pools, t) /\ got.pool \in SUBSET Key
           /\ got.pools.stale = p.stale /\ got.pools.mid = Refreshed(p).mid
           /\ h = Height[t] /\ t \notin got.pools.mid => Sound(t, got.pool, p.stale)
<1> DEFINE q == BlockAt(t, h)
           filled == Entitled[t][q]
<1>1. q \in Chain[t] /\ (h = Height[t] => q = t)
    BY BlockAtType
<1>2. filled \in SUBSET Key
    BY <1>1, EntitledType
<1>3. PoolAt(p, h, t) = GetAdamMinerPool(p, q, t, filled) /\ filled = Entitled[t][q]
    BY DEF PoolAt
<1> HIDE DEF q, filled
<1>4. LET got == GetAdamMinerPool(p, q, t, filled) IN
           /\ PoolsSound(got.pools, t) /\ got.pool \in SUBSET Key
           /\ got.pools.stale = p.stale
           /\ filled = Entitled[t][q] =>
                 /\ got.pools.mid = Refreshed(p).mid
                 /\ q = t /\ t \notin got.pools.mid => Sound(t, got.pool, p.stale)
    BY <1>1, <1>2, PoolQuery
<1> QED
    BY <1>1, <1>3, <1>4

(* An election under cs_main on the tip.                                   *)
LEMMA SelectSound ==
    ASSUME NEW p, NEW e, NEW t \in Block, PoolsSound(p, t), ElectionExact(e)
    PROVE  LET got == SelectAdamNodes(p, e, t, t) IN
           /\ PoolsSound(got.pools, t) /\ ElectionExact(got.elected)
           /\ t \notin Refreshed(p).mid =>
                 /\ Sound(t, got.pool, p.stale)
                 /\ got.result = IF TooSmall(t, got.pool) THEN NoElection
                                 ELSE Elect(KeyFor(t, got.pool, Masternodes(t)))
<1> DEFINE P == PoolAt(p, Height[t], t)
           key == KeyFor(t, P.pool, Masternodes(t))
           got == SelectAdamNodes(p, e, t, t)
<1>1. /\ PoolsSound(P.pools, t) /\ P.pool \in SUBSET Key
      /\ t \notin Refreshed(p).mid => Sound(t, P.pool, p.stale)
    BY PoolAtQuery
<1>2. got = ElectFrom(e, t, P, Masternodes(t))
    BY DEF SelectAdamNodes, Masternodes
<1> HIDE DEF P, got
<1>3. key.seed \in Block /\ key = KeyFor(t, P.pool, Masternodes(t))
    BY SMT DEF KeyFor
<1>4. CASE TooSmall(t, P.pool)
  <2>1. got = [Outcome(e, P) EXCEPT !.result = NoElection]
      BY <1>2, <1>4 DEF ElectFrom
  <2>2. got.pools = P.pools /\ got.pool = P.pool /\ got.elected = e /\ got.result = NoElection
      BY SMT, <2>1 DEF Outcome
  <2> QED
      BY <1>1, <1>4, <2>2 DEF got
<1>5. CASE ~ TooSmall(t, P.pool)
  <2> DEFINE f == Recalled(e, key)
  <2>1. got = Outcome(f, P)
      BY <1>2, <1>5 DEF ElectFrom
  <2>2. f.result = Elect(key) /\ ElectionExact(f)
      BY <1>3, RecalledExact
  <2> HIDE DEF f, key
  <2>3. got.pools = P.pools /\ got.pool = P.pool /\ got.elected = f /\ got.result = f.result
      BY SMT, <2>1 DEF Outcome
  <2> QED
      BY <1>1, <1>3, <1>5, <2>2, <2>3 DEF got
<1> QED
    BY <1>4, <1>5

-----------------------------------------------------------------------------
(* The steps *)

LEMMA NoAskIdle == NoAsk.at = "idle" /\ "idle" \notin {"masternodes", "recall", "store"}
BY SMT DEF NoAsk

LEMMA InitInv == Init => PoolInv
<1> SUFFICES ASSUME Init PROVE PoolInv
    OBVIOUS
<1>1. tip \in Block
    BY PoolAssumption DEF Init
<1>2. /\ pools.cache = <<>> /\ pools.upTo = 0 /\ pools.boot = {}
      /\ pools \in PoolState
  <2>1. 0 \in 0 .. LastBootstrap
      BY SMT, PoolAssumption
  <2> QED
      BY <2>1, CachesType DEF Init, PoolState
<1>3. BootExact(pools, tip)
  <2>1. Height[tip] \in Nat
      BY <1>1, TreeAssumption
  <2>2. 0 <= Height[tip]
      BY SMT, <2>1
  <2>3. \A h : h \notin 1 .. 0
      BY SMT
  <2>4. Producers(tip, 0) = {}
      BY <2>3, ProducersMember
  <2> QED
      BY <1>2, <2>2, <2>4 DEF BootExact
<1>4. CacheSound(pools, tip)
    BY <1>2, CachesType DEF CacheSound
<1>5. ElectionExact(elected)
    BY DEF Init, ElectionExact
<1>6. asking = [a \in Asker |-> asking[a]] /\ \A a \in Asker : AskSound(asking[a])
    BY DEF Init, AskSound
<1> QED
    BY <1>1, <1>2, <1>3, <1>4, <1>5, <1>6 DEF PoolInv, PoolsSound

LEMMA AskStep ==
    ASSUME PoolInv, NEW a \in Asker, NEW r, AskSound(r), asking' = [asking EXCEPT ![a] = r]
    PROVE  asking' = [x \in Asker |-> asking'[x]] /\ \A x \in Asker : AskSound(asking'[x])
<1>1. asking = [x \in Asker |-> asking[x]] /\ \A x \in Asker : AskSound(asking[x])
    BY DEF PoolInv
<1>2. asking' = [x \in Asker |-> IF x = a THEN r ELSE asking[x]]
    BY <1>1
<1> QED
    BY <1>1, <1>2

LEMMA AskPoolInv ==
    ASSUME PoolInv, NEW h, AskPool(h)
    PROVE  PoolInv'
<1>1. PoolsSound(PoolAt(pools, h, tip).pools, tip)
    BY PoolAtQuery DEF PoolInv
<1> QED
    BY <1>1 DEF PoolInv, AskPool

(* What TakePool notes of the pool.                                        *)
LEMMA TakePoolInv ==
    ASSUME PoolInv, NEW a \in Asker, NEW b \in Seeds, TakePool(a, b)
    PROVE  PoolInv'
<1> DEFINE got == PoolAt(pools, Height[b], tip)
<1>1. tip \in Block /\ PoolsSound(pools, tip)
    BY DEF PoolInv
<1>2. /\ PoolsSound(got.pools, tip) /\ got.pool \in SUBSET Key
      /\ got.pools.stale = pools.stale
      /\ Height[b] = Height[tip] /\ tip \notin got.pools.mid => Sound(tip, got.pool, pools.stale)
    BY <1>1, PoolAtQuery
<1>3. pools' = got.pools /\ asking' = [asking EXCEPT ![a] = Asked(b, got)] /\ UNCHANGED <<tip, elected>>
    BY DEF TakePool, Take
<1>4. b \in Block
    BY PoolAssumption
<1> HIDE DEF got
<1>5. AskSound(Asked(b, got))
  <2>1. CASE TooSmall(b, got.pool)
      BY <2>1 DEF Asked, AskSound
  <2>2. CASE ~ TooSmall(b, got.pool)
    <3> DEFINE key == KeyFor(b, got.pool, {})
               w == b = tip /\ tip \notin got.pools.mid
               f == b = tip /\ tip \notin got.pools.mid /\ ~ Leftovers(got.pools, tip)
               r == [at |-> "masternodes", key |-> key, whole |-> w, fresh |-> f]
    <3>1. Asked(b, got) = r
        BY <2>2 DEF Asked
    <3>2. key = KeyFor(b, got.pool, {}) /\ key.seed = b /\ key.pool = got.pool /\ key.mns = {}
        BY SMT DEF KeyFor
    <3>3. w => Sound(b, got.pool, pools.stale)
        BY <1>2
    <3>4. w => Masternodes(b) \subseteq got.pool
        BY <1>4, <3>3, SoundHasMasternodes
    <3>5. Leftovers(got.pools, tip) <=> Leftovers(pools, tip)
        BY <1>2 DEF Leftovers
    <3>6. f => w /\ got.pool = FreshPool[b]
        BY <1>4, <3>3, <3>5, SoundIsFresh
    <3> HIDE DEF key, w, f
    <3>7. r.at = "masternodes" /\ r.key = key /\ (r.whole <=> w) /\ (r.fresh <=> f)
        BY DEF w, f
    <3> HIDE DEF r
    <3>8. r.at \in {"masternodes", "recall", "store"} /\ r.at # "recall"
        BY <3>7
    <3>9. r.key = KeyFor(r.key.seed, r.key.pool, r.key.mns)
        BY SMT, <3>2, <3>7
    <3>10. r.key.seed = b /\ r.key.pool = got.pool
        BY SMT, <3>2, <3>7
    <3>11. AskSound(r)
        BY <1>2, <1>4, <2>2, <3>4, <3>6, <3>7, <3>8, <3>9, <3>10 DEF AskSound
    <3> QED
        BY <3>1, <3>11
  <2> QED
      BY <2>1, <2>2
<1>6. asking' = [x \in Asker |-> asking'[x]] /\ \A x \in Asker : AskSound(asking'[x])
    BY <1>3, <1>5, AskStep
<1> QED
    BY <1>1, <1>2, <1>3, <1>6 DEF PoolInv

LEMMA TakeMasternodesInv ==
    ASSUME PoolInv, NEW a \in Asker, TakeMasternodes(a)
    PROVE  PoolInv'
<1> DEFINE r == asking[a]
           mns == ActiveMasternodes(Height[r.key.seed], tip, Coins[tip])
           key == KeyFor(r.key.seed, r.key.pool, mns)
           w == r.whole /\ r.key.seed = tip
           f == r.fresh /\ r.key.seed = tip
           n == [at |-> "recall", key |-> key, whole |-> w, fresh |-> f]
<1>1. /\ r.at = "masternodes" /\ asking' = [asking EXCEPT ![a] = n] /\ UNCHANGED <<tip, pools, elected>>
      /\ AskSound(r)
    BY DEF TakeMasternodes, WithMasternodes, PoolInv
<1>2. r # NoAsk
    BY <1>1, NoAskIdle
<1>3. /\ r.key.seed \in Block /\ r.key.pool \in SUBSET Key
      /\ ~ TooSmall(r.key.seed, r.key.pool)
      /\ r.whole => Masternodes(r.key.seed) \subseteq r.key.pool
      /\ r.fresh => r.whole /\ r.key.pool = FreshPool[r.key.seed]
    BY <1>1, <1>2 DEF AskSound
<1>4. r.key.seed = tip => mns = Masternodes(r.key.seed)
    BY DEF Masternodes
<1> HIDE DEF r, mns
<1>5. key.seed = r.key.seed /\ key.pool = r.key.pool /\ key.mns = mns
    BY SMT DEF KeyFor
<1>6. key = KeyFor(key.seed, key.pool, key.mns)
    BY SMT, <1>5
<1> HIDE DEF key
<1>7. n.at = "recall" /\ n.key = key /\ (n.whole <=> w) /\ (n.fresh <=> f)
    OBVIOUS
<1> HIDE DEF n
<1>8. n.at \in {"masternodes", "recall", "store"}
    BY <1>7
<1>9. /\ n.key = KeyFor(n.key.seed, n.key.pool, n.key.mns)
      /\ n.key.seed = r.key.seed /\ n.key.pool = r.key.pool /\ n.key.mns = mns
    BY SMT, <1>5, <1>6, <1>7
<1>10. AskSound(n)
    BY <1>3, <1>4, <1>7, <1>8, <1>9 DEF AskSound
<1>11. asking' = [x \in Asker |-> asking'[x]] /\ \A x \in Asker : AskSound(asking'[x])
    BY <1>1, <1>10, AskStep
<1> QED
    BY <1>1, <1>11 DEF PoolInv

LEMMA RecallElectionInv ==
    ASSUME PoolInv, NEW a \in Asker, RecallElection(a)
    PROVE  PoolInv'
<1> DEFINE r == asking[a]
           n == [at |-> "store", key |-> r.key, whole |-> FALSE, fresh |-> FALSE]
<1>1. /\ r.at = "recall" /\ asking' = [asking EXCEPT ![a] = ToStore(r)] /\ UNCHANGED <<tip, pools, elected>>
      /\ AskSound(r)
    BY DEF RecallElection, PoolInv
<1>2. r # NoAsk
    BY <1>1, NoAskIdle
<1>3. n.at = "store" /\ n.key = r.key /\ ~ n.whole /\ ~ n.fresh
    OBVIOUS
<1>4. ToStore(r) = NoAsk \/ ToStore(r) = n
    BY DEF ToStore
<1> HIDE DEF r, n
<1>5. AskSound(n)
    BY <1>1, <1>2, <1>3 DEF AskSound
<1>6. AskSound(ToStore(r))
    BY <1>4, <1>5 DEF AskSound
<1>7. asking' = [x \in Asker |-> asking'[x]] /\ \A x \in Asker : AskSound(asking'[x])
    BY <1>1, <1>6, AskStep
<1> QED
    BY <1>1, <1>7 DEF PoolInv

LEMMA StoreElectionInv ==
    ASSUME PoolInv, NEW a \in Asker, StoreElection(a)
    PROVE  PoolInv'
<1>1. ElectionExact(elected')
    BY DEF StoreElection, ElectionExact
<1>2. AskSound(NoAsk)
    BY DEF AskSound
<1>3. asking' = [x \in Asker |-> asking'[x]] /\ \A x \in Asker : AskSound(asking'[x])
    BY <1>2, AskStep DEF StoreElection
<1> QED
    BY <1>1, <1>3 DEF PoolInv, StoreElection

(* What CheckBlock and ConnectBlock leave while they check a block.        *)
LEMMA CheckedSound ==
    ASSUME PoolInv, NEW b, NEW elects
    PROVE  PoolsSound(Checked(b, elects).pools, tip) /\ ElectionExact(Checked(b, elects).elected)
<1> DEFINE s == IF elects THEN SelectAdamNodes(pools, elected, tip, tip)
                ELSE [pools |-> pools, elected |-> elected, pool |-> {}, result |-> NoElection]
           coins == Coins[tip] \ SpentBefore[b]
<1>1. tip \in Block /\ PoolsSound(pools, tip) /\ ElectionExact(elected)
    BY DEF PoolInv
<1>2. PoolsSound(s.pools, tip) /\ ElectionExact(s.elected)
    BY <1>1, SelectSound
<1>3. \E x, y, z, u : s = [pools |-> x, pool |-> y, elected |-> z, result |-> u]
  <2>1. CASE ~ elects
      BY <2>1
  <2>2. CASE elects
    <3> DEFINE P == PoolAt(pools, Height[tip], tip)
               o(e) == [pools |-> P.pools, pool |-> P.pool, elected |-> e, result |-> e.result]
    <3>1. \/ s = [o(elected) EXCEPT !.result = NoElection]
          \/ \E e : s = o(e)
        BY <2>2 DEF SelectAdamNodes, ElectFrom, Outcome
    <3> HIDE DEF P, s
    <3>2. [o(elected) EXCEPT !.result = NoElection]
            = [pools |-> P.pools, pool |-> P.pool, elected |-> elected, result |-> NoElection]
        BY SMT
    <3> QED
        BY <3>1, <3>2
  <2> QED
      BY <2>1, <2>2
<1> HIDE DEF s
<1>4. Checked(b, elects) = [s EXCEPT !.pools = AskQuorum(s.pools, b, coins)]
    BY DEF Checked, s
<1> HIDE DEF coins
<1>5. PoolsSound(AskQuorum(s.pools, b, coins), tip)
  <2> DEFINE filled == Filled(tip, tip, coins)
  <2>1. filled \in SUBSET Key /\ tip \in Chain[tip]
      BY <1>1, FilledType, ChainEnds
  <2> HIDE DEF filled
  <2>2. PoolsSound(GetAdamMinerPool(s.pools, tip, tip, filled).pools, tip)
      BY <1>1, <1>2, <2>1, PoolQuery
  <2> QED
      BY <1>2, <2>2 DEF AskQuorum, filled
<1> DEFINE new == AskQuorum(s.pools, b, coins)
           c == Checked(b, elects)
<1> HIDE DEF new, c
<1>6. c.pools = new /\ c.elected = s.elected
  <2>1. PICK x, y, z, u : s = [pools |-> x, pool |-> y, elected |-> z, result |-> u]
      BY <1>3
  <2>2. c = [s EXCEPT !.pools = new]
      BY <1>4 DEF c, new
  <2> QED
      BY SMT, <2>1, <2>2
<1> QED
    BY <1>2, <1>5, <1>6 DEF c, new

LEMMA CheckOnlyInv ==
    ASSUME PoolInv, NEW b \in Block, CheckOnly(b)
    PROVE  PoolInv'
<1>1. PICK elects : Test(b, elects, Checked(b, elects))
    BY DEF CheckOnly
<1>2. PoolsSound(Checked(b, elects).pools, tip) /\ ElectionExact(Checked(b, elects).elected)
    BY CheckedSound
<1> QED
    BY <1>1, <1>2 DEF PoolInv, Test

(* Nothing is cached for the block that becomes the tip, and none of the   *)
(* heights that were scanned is its own.                                   *)
LEMMA ConnectBlockInv ==
    ASSUME PoolInv, NEW b \in Block, ConnectBlock(b)
    PROVE  PoolInv'
<1>1. PICK elects : Connect(b, elects, Checked(b, elects))
    BY DEF ConnectBlock
<1> DEFINE s == Checked(b, elects).pools
           moved == s.moved \/ Beats[b] # {}
           n == [s EXCEPT !.moved = moved]
<1>2. PoolsSound(s, tip) /\ ElectionExact(elected')
    BY <1>1, CheckedSound DEF Connect
<1>3. tip' = b /\ pools' = n /\ asking' = asking /\ b # Genesis /\ Parent[b] = tip /\ tip \in Block
    BY <1>1 DEF Connect, Connectable, PoolInv
<1>4. Chain[b] = {b} \cup Chain[tip] /\ Height[b] = Height[tip] + 1 /\ Height[tip] \in Nat
    BY <1>3, TreeAssumption
<1> HIDE DEF s
<1>5. s \in PoolState /\ moved \in BOOLEAN
    BY <1>2 DEF PoolsSound, PoolState
<1> HIDE DEF moved
<1>6. /\ n \in PoolState /\ n.cache = s.cache /\ n.boot = s.boot /\ n.upTo = s.upTo
      /\ n.mid = s.mid /\ n.stale = s.stale /\ (n.moved <=> moved)
    BY <1>5 DEF PoolState
<1> HIDE DEF n
<1>7. ASSUME s.upTo <= Height[tip] PROVE s.upTo <= Height[b] /\ Producers(b, s.upTo) = Producers(tip, s.upTo)
  <2>1. s.upTo \in Nat
    <3>1. s.upTo \in 0 .. LastBootstrap
        BY <1>5 DEF PoolState
    <3> QED
        BY SMT, <3>1, PoolAssumption
  <2>2. s.upTo <= Height[b] /\ Height[b] \notin 1 .. s.upTo
      BY SMT, <1>4, <1>7, <2>1
  <2>3. \A x : x \in Producers(b, s.upTo) <=> x \in Producers(tip, s.upTo)
      BY <1>4, <2>2, ProducersMember
  <2> QED
      BY <2>2, <2>3
<1>8. BootExact(n, b)
    BY <1>2, <1>6, <1>7 DEF PoolsSound, BootExact
<1>9. ASSUME ~ n.moved PROVE CacheSound(n, b)
  <2>1. CacheSound(s, tip)
      BY <1>2, <1>6, <1>9 DEF PoolsSound, moved
  <2>2. b \notin Chain[tip]
    <3>1. b \in Chain[tip] => b = tip \/ Height[b] < Height[tip]
        BY <1>3, ChainEnds
    <3>2. ~ (Height[b] < Height[tip]) /\ Height[b] # Height[tip]
        BY SMT, <1>4
    <3> QED
        BY <3>1, <3>2
  <2> QED
      BY <1>4, <1>6, <2>1, <2>2 DEF CacheSound
<1> QED
    BY <1>2, <1>3, <1>6, <1>8, <1>9 DEF PoolInv, PoolsSound

LEMMA DisconnectBlockInv ==
    ASSUME PoolInv, DisconnectBlock
    PROVE  PoolInv'
<1> DEFINE stale == pools.stale \/ Height[tip] <= pools.upTo
           n == [pools EXCEPT !.moved = TRUE, !.stale = stale]
           t == Parent[tip]
<1>1. tip # Genesis /\ tip' = t /\ pools' = n /\ UNCHANGED <<elected, asking>>
    BY DEF DisconnectBlock
<1>2. tip \in Block /\ PoolsSound(pools, tip)
    BY DEF PoolInv
<1>3. t \in Block /\ Chain[tip] = {tip} \cup Chain[t] /\ Height[tip] = Height[t] + 1 /\ Height[t] \in Nat
    BY <1>1, <1>2, PoolAssumption, TreeAssumption
<1>4. pools \in PoolState /\ stale \in BOOLEAN
    BY <1>2 DEF PoolsSound, PoolState
<1>5. ~ stale => ~ pools.stale /\ ~ (Height[tip] <= pools.upTo)
    OBVIOUS
<1> HIDE DEF stale, t
<1>6. /\ n \in PoolState /\ n.boot = pools.boot /\ n.upTo = pools.upTo
      /\ (n.stale <=> stale) /\ n.moved
    BY <1>4 DEF PoolState
<1> HIDE DEF n
<1>7. BootExact(n, t)
  <2> SUFFICES ASSUME ~ stale PROVE pools.upTo <= Height[t] /\ pools.boot = Producers(t, pools.upTo)
      BY <1>6 DEF BootExact
  <2>1. pools.upTo \in Nat
    <3>1. pools.upTo \in 0 .. LastBootstrap
        BY <1>4 DEF PoolState
    <3> QED
        BY SMT, <3>1, PoolAssumption
  <2>2. ~ (Height[tip] <= pools.upTo) /\ pools.boot = Producers(tip, pools.upTo)
      BY <1>2, <1>5 DEF PoolsSound, BootExact
  <2>3. pools.upTo <= Height[t] /\ Height[tip] \notin 1 .. pools.upTo
      BY SMT, <1>3, <2>1, <2>2
  <2>4. \A x : x \in Producers(tip, pools.upTo) <=> x \in Producers(t, pools.upTo)
      BY <1>3, <2>3, ProducersMember
  <2> QED
      BY <2>2, <2>3, <2>4
<1> QED
    BY <1>1, <1>3, <1>6, <1>7 DEF PoolInv, PoolsSound

(* The static variables of GetAdamMinerPool and SelectAdamNodes, and what  *)
(* the askers have read, stay sound: the cached pool of the tip is what    *)
(* its chain entitles unless it was computed in the middle of a block, the *)
(* bootstrap miners are exact until a scanned block is disconnected, the   *)
(* cached election is that of its key, and what an asker has read on one   *)
(* tip is of the chain of that tip.                                        *)
THEOREM PoolAlwaysSound == Spec => []PoolInv
<1>1. Init => PoolInv
    BY InitInv
<1>2. PoolInv /\ [Next]_vars => PoolInv'
  <2> SUFFICES ASSUME PoolInv, [Next]_vars PROVE PoolInv'
      OBVIOUS
  <2>1. CASE \E h \in 0 .. Height[tip] : AskPool(h)
      BY <2>1, AskPoolInv
  <2>2. CASE \E a \in Asker, b \in Seeds : TakePool(a, b)
      BY <2>2, TakePoolInv
  <2>3. CASE \E a \in Asker : TakeMasternodes(a) \/ RecallElection(a) \/ StoreElection(a)
      BY <2>3, TakeMasternodesInv, RecallElectionInv, StoreElectionInv
  <2>4. CASE \E b \in Block : ConnectBlock(b)
      BY <2>4, ConnectBlockInv
  <2>5. CASE \E b \in Block : CheckOnly(b)
      BY <2>5, CheckOnlyInv
  <2>6. CASE DisconnectBlock
      BY <2>6, DisconnectBlockInv
  <2>7. CASE UNCHANGED vars
      BY <2>7 DEF vars, PoolInv
  <2> QED
      BY <2>1, <2>2, <2>3, <2>4, <2>5, <2>6, <2>7 DEF Next
<1> QED
    BY <1>1, <1>2, PTL DEF Spec

(* What an asker that has read everything is about to get.                 *)
LEMMA GotExact ==
    ASSUME PoolInv, NEW a \in Asker, asking[a].at = "recall"
    PROVE  LET r == asking[a] IN
           /\ r.key.seed \in Block /\ r.key.pool \in SUBSET Key
           /\ ~ TooSmall(r.key.seed, r.key.pool)
           /\ Got(r) = Elect(KeyFor(r.key.seed, r.key.pool, r.key.mns))
           /\ r.whole => /\ Masternodes(r.key.seed) \subseteq r.key.pool
                         /\ r.key.mns = Masternodes(r.key.seed)
           /\ r.fresh => r.whole /\ r.key.pool = FreshPool[r.key.seed]
<1> DEFINE r == asking[a]
<1>1. AskSound(r) /\ ElectionExact(elected) /\ r.at = "recall"
    BY DEF PoolInv
<1>2. r # NoAsk
    BY <1>1, NoAskIdle
<1>3. /\ r.key = KeyFor(r.key.seed, r.key.pool, r.key.mns)
      /\ r.key.seed \in Block /\ r.key.pool \in SUBSET Key
      /\ ~ TooSmall(r.key.seed, r.key.pool)
      /\ r.whole => /\ Masternodes(r.key.seed) \subseteq r.key.pool
                    /\ r.key.mns = Masternodes(r.key.seed)
      /\ r.fresh => r.whole /\ r.key.pool = FreshPool[r.key.seed]
    BY <1>1, <1>2 DEF AskSound
<1>4. Got(r) = Elect(r.key)
    BY <1>1, <1>3, RecalledExact DEF Got
<1> QED
    BY <1>3, <1>4

(* Every election that succeeds, with cs_main or on one tip without it,    *)
(* names enough miners for the threshold of its height, all of them and    *)
(* the coordinator from the pool: in every tree, for every number of       *)
(* askers, whatever the caches hold.                                       *)
THEOREM ElectedAlwaysEnough == Spec => []ElectedEnough
<1>1. PoolInv => ElectedEnough
  <2> SUFFICES ASSUME PoolInv PROVE ElectedEnough
      OBVIOUS
  <2>1. ASSUME ~ MidNow PROVE Enough(tip, ElectionNow.pool, ElectionNow.result)
    <3> DEFINE now == ElectionNow
    <3>1. tip \in Block /\ PoolsSound(pools, tip) /\ ElectionExact(elected)
        BY DEF PoolInv
    <3>2. /\ Sound(tip, now.pool, pools.stale)
          /\ now.result = IF TooSmall(tip, now.pool) THEN NoElection
                          ELSE Elect(KeyFor(tip, now.pool, Masternodes(tip)))
        BY <2>1, <3>1, SelectSound DEF ElectionNow, MidNow
    <3>3. now.pool \in SUBSET Key /\ Masternodes(tip) \subseteq now.pool
        BY <3>1, <3>2, SoundHasMasternodes
    <3> HIDE DEF now
    <3>4. CASE TooSmall(tip, now.pool)
        BY <3>2, <3>4 DEF Enough, now
    <3>5. CASE ~ TooSmall(tip, now.pool)
        BY <3>1, <3>2, <3>3, <3>5, ElectEnough DEF now
    <3> QED
        BY <3>4, <3>5
  <2>2. ASSUME NEW a \in Asker, asking[a].at = "recall", asking[a].whole
        PROVE  Enough(asking[a].key.seed, asking[a].key.pool, Got(asking[a]))
    <3> DEFINE r == asking[a]
    <3>1. /\ r.key.seed \in Block /\ r.key.pool \in SUBSET Key
          /\ ~ TooSmall(r.key.seed, r.key.pool)
          /\ Got(r) = Elect(KeyFor(r.key.seed, r.key.pool, r.key.mns))
          /\ r.key.mns \subseteq r.key.pool
        BY <2>2, GotExact
    <3> HIDE DEF r
    <3>2. Enough(r.key.seed, r.key.pool, Elect(KeyFor(r.key.seed, r.key.pool, r.key.mns)))
        BY SMT, <3>1, ElectEnough
    <3> QED
        BY <3>1, <3>2 DEF r
  <2> QED
      BY <2>1, <2>2 DEF ElectedEnough
<1> QED
    BY <1>1, PoolAlwaysSound, PTL

(* What a node elects on its tip is what a node elects that has just       *)
(* started on the same chain, in every tree and after every sequence of    *)
(* queries, checks, connections and disconnections, but for a pool that    *)
(* was cached in the middle of a block and one with leftover bootstrap     *)
(* miners.                                                                 *)
THEOREM AnswersAlwaysFollowChain == Spec => []AnswersFollowChain
<1>f. \A t \in Block : FreshElection[t] = IF TooSmall(t, FreshPool[t]) THEN NoElection
                                          ELSE Elect(KeyFor(t, FreshPool[t], Masternodes(t)))
    BY DEF FreshElection, Masternodes
<1>1. PoolInv => AnswersFollowChain
  <2> SUFFICES ASSUME PoolInv PROVE AnswersFollowChain
      OBVIOUS
  <2>1. ASSUME ~ MidNow, ~ Leftovers(pools, tip) PROVE ElectionNow.result = FreshElection[tip]
    <3> DEFINE now == ElectionNow
    <3>1. tip \in Block /\ PoolsSound(pools, tip) /\ ElectionExact(elected)
        BY DEF PoolInv
    <3>2. /\ Sound(tip, now.pool, pools.stale)
          /\ now.result = IF TooSmall(tip, now.pool) THEN NoElection
                          ELSE Elect(KeyFor(tip, now.pool, Masternodes(tip)))
        BY <2>1, <3>1, SelectSound DEF ElectionNow, MidNow
    <3> HIDE DEF now
    <3>3. now.pool = FreshPool[tip]
        BY <2>1, <3>1, <3>2, SoundIsFresh
    <3> QED
        BY <1>f, <3>1, <3>2, <3>3 DEF now
  <2>2. ASSUME NEW a \in Asker, asking[a].at = "recall", asking[a].fresh
        PROVE  Got(asking[a]) = FreshElection[asking[a].key.seed]
    <3> DEFINE r == asking[a]
    <3>1. /\ r.key.seed \in Block
          /\ ~ TooSmall(r.key.seed, r.key.pool)
          /\ Got(r) = Elect(KeyFor(r.key.seed, r.key.pool, r.key.mns))
          /\ r.key.mns = Masternodes(r.key.seed) /\ r.key.pool = FreshPool[r.key.seed]
        BY <2>2, GotExact
    <3> HIDE DEF r
    <3> QED
        BY <1>f, <3>1 DEF r
  <2> QED
      BY <2>1, <2>2 DEF AnswersFollowChain
<1> QED
    BY <1>1, PoolAlwaysSound, PTL
=============================================================================
