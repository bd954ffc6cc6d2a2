--------------------------- MODULE BurnCacheProofs ---------------------------
(***************************************************************************)
(* Theorems about the burn cache: on every tree of blocks, whatever they   *)
(* burn, the cache in memory and the cache that a crash would reload give  *)
(* every address its weight on the chain, but for the addresses whose own  *)
(* burns a refused block, a stopped verification, a torn flush or an       *)
(* earlier start spoiled.                                                  *)
(***************************************************************************)
EXTENDS BurnCache, FiniteSetTheorems, TLAPS

(* The saved caches.                                                       *)
Saved == [tag : Block, burns : [Entry -> Nat], spoiled : SUBSET Entry]

(* m counts the burns of the chain of t, but for the entries in bad.       *)
Matches(m, t, bad) == \A e \in Entry : e \notin bad => m[e] = Replayed(t)[e]

(* How often e is among the first n burns of b.                            *)
AmongFirst(b, n, e) == Cardinality({p \in {b} \X (1 .. n) : EntryOf(p[1], p[2]) = e})

(* m counts the chain that b extends and the first n burns of b.           *)
Connecting(m, b, n, bad) ==
    \A e \in Entry : e \notin bad =>
        m[e] = IF e.height = Height[b] THEN AmongFirst(b, n, e) ELSE Replayed(Parent[b])[e]

(* m counts the chain of t without the burns of t that are like one after  *)
(* the n-th.                                                               *)
Disconnecting(m, t, n, bad) ==
    \A e \in Entry : e \notin bad =>
        m[e] = IF \E i \in n + 1 .. Len(Burns[t]) : EntryOf(t, i) = e
               THEN 0 ELSE Replayed(t)[e]

(* The cache in memory against the step under way.                         *)
MemorySound ==
    /\ work.op = "idle" => work = Idle /\ Matches(burns, tip, spoiled)
    /\ work.op = "connect" =>
          /\ work.block # Genesis /\ Parent[work.block] = tip
          /\ work.done \in 0 .. Reached(work.block)
          /\ Connecting(burns, work.block, work.done, spoiled)
    /\ work.op = "disconnect" =>
          /\ tip # Genesis /\ work.block = Parent[tip]
          /\ work.done \in 0 .. Len(Burns[tip])
          /\ Disconnecting(burns, tip, work.done, spoiled)
    /\ work.op \in {"flush", "flushed"} => Matches(burns, work.block, spoiled)

(* A saved cache is right up to the block that it was saved with, but for  *)
(* the entries that were spoiled then.                                     *)
SavedExact(saved) ==
    \A e \in Entry : e \notin saved.spoiled /\ e.height <= Height[saved.tag] =>
        saved.burns[e] = Replayed(saved.tag)[e]

(* The coins never run ahead of the chain, and a right cache is saved      *)
(* before they are.                                                        *)
CoinsBehind ==
    /\ dbTip \in Chain[IF work.op = "flushed" THEN work.block ELSE tip]
    /\ work.op = "flush" => SavedExact(disk)

(* So is a saved cache that a start at t would build on.                   *)
SavedRight(saved, t) == saved.tag \in Chain[t] => SavedExact(saved)

DiskSound == SavedRight(disk, dbTip)

(* The inductive invariant.                                                *)
BurnInv == TypeOK /\ MemorySound /\ CoinsBehind /\ DiskSound

USE Zenon
-----------------------------------------------------------------------------
(* Chains *)

LEMMA LeastNat ==
    ASSUME NEW S \in SUBSET Nat, S # {}
    PROVE  \E n \in S : \A m \in S : n <= m
<1> DEFINE R == OpToRel(LAMBDA x, y : x < y, Nat)
<1>1. IsWellFoundedOn(R, Nat)
    BY NatLessThanWellFounded
<1> HIDE DEF R
<1>2. PICK x \in S : \A y \in S : ~ (<<y, x>> \in R)
    BY <1>1, WFMin
<1>3. \A m, n \in Nat : m < n => <<m, n>> \in R
    BY DEF R, OpToRel
<1>4. \A y \in S : ~ (y < x)
    BY <1>2, <1>3
<1> QED
    BY SMT, <1>4

(* A set with the genesis block, and with every block whose parent it has, *)
(* has them all.                                                           *)
LEMMA TreeInduction ==
    ASSUME NEW S, Genesis \in S,
           \A b \in Block \ {Genesis} : Parent[b] \in S => b \in S
    PROVE  Block \subseteq S
<1> SUFFICES ASSUME Block \ S # {} PROVE FALSE
    OBVIOUS
<1> DEFINE H == {Height[b] : b \in Block \ S}
<1>1. H \in SUBSET Nat /\ H # {}
    BY SMT, TreeAssumption
<1>2. PICK n \in H : \A m \in H : n <= m
    BY <1>1, LeastNat
<1>3. PICK b \in Block \ S : n = Height[b]
    BY <1>2
<1>4. b # Genesis /\ Parent[b] \in Block \ S
    BY <1>3, BurnAssumption
<1>5. Height[b] <= Height[Parent[b]]
    BY SMT, <1>2, <1>3, <1>4
<1>6. Height[b] = Height[Parent[b]] + 1 /\ Height[Parent[b]] \in Nat
  <2>1. b \in Block \ {Genesis} /\ Parent[b] \in Block
      BY <1>3, <1>4
  <2>2. Height[b] = Height[Parent[b]] + 1
      BY <2>1, TreeAssumption
  <2>3. Height[Parent[b]] \in Nat
      BY SMT, <2>1, TreeAssumption
  <2> QED
      BY <2>2, <2>3
<1> QED
    BY SMT, <1>5, <1>6

(* A chain ends at its highest block.                                      *)
LEMMA ChainEnds ==
    \A x \in Block : /\ x \in Chain[x]
                     /\ \A y \in Chain[x] : y # x => Height[y] < Height[x]
<1> DEFINE S == {x \in Block : /\ x \in Chain[x]
                               /\ \A y \in Chain[x] : y # x => Height[y] < Height[x]}
<1>1. Genesis \in S
    BY BurnAssumption, TreeAssumption
<1>2. ASSUME NEW b \in Block \ {Genesis}, Parent[b] \in S PROVE b \in S
  <2>1. /\ Chain[b] = {b} \cup Chain[Parent[b]] /\ Height[b] = Height[Parent[b]] + 1
        /\ Height[Parent[b]] \in Nat /\ Chain[Parent[b]] \subseteq Block
      BY <1>2, TreeAssumption
  <2>2. ASSUME NEW y \in Chain[Parent[b]] PROVE Height[y] < Height[b]
    <3>1. y = Parent[b] \/ Height[y] < Height[Parent[b]]
        BY <1>2
    <3>2. Height[y] \in Nat
        BY <2>1, TreeAssumption
    <3> QED
        BY SMT, <2>1, <3>1, <3>2
  <2> QED
      BY <1>2, <2>1, <2>2
<1> HIDE DEF S
<1>3. Block \subseteq S
    BY <1>1, <1>2, TreeInduction
<1> QED
    BY <1>3 DEF S

(* A chain has exactly one block of each height up to its own.             *)
LEMMA ChainHeights ==
    \A x \in Block : \A h \in 0 .. Height[x] :
        /\ \E b \in Chain[x] : Height[b] = h
        /\ \A b, c \in Chain[x] : Height[b] = h /\ Height[c] = h => b = c
<1> DEFINE S == {x \in Block : \A h \in 0 .. Height[x] :
                    /\ \E b \in Chain[x] : Height[b] = h
                    /\ \A b, c \in Chain[x] : Height[b] = h /\ Height[c] = h => b = c}
<1>1. Genesis \in S
    BY SMT, BurnAssumption, TreeAssumption
<1>2. ASSUME NEW x \in Block \ {Genesis}, Parent[x] \in S PROVE x \in S
  <2>1. /\ Chain[x] = {x} \cup Chain[Parent[x]] /\ Height[x] = Height[Parent[x]] + 1
        /\ Height[Parent[x]] \in Nat
      BY <1>2, TreeAssumption
  <2>2. ASSUME NEW b \in Chain[Parent[x]] PROVE Height[b] \in 0 .. Height[Parent[x]]
    <3>1. Height[b] \in Nat
        BY <1>2, TreeAssumption
    <3>2. b = Parent[x] \/ Height[b] < Height[Parent[x]]
        BY <1>2, ChainEnds
    <3> QED
        BY SMT, <2>1, <3>1, <3>2
  <2>3. ASSUME NEW h \in 0 .. Height[x]
        PROVE  /\ \E b \in Chain[x] : Height[b] = h
               /\ \A b, c \in Chain[x] : Height[b] = h /\ Height[c] = h => b = c
    <3>1. CASE h = Height[x]
      <4>1. \A b \in Chain[Parent[x]] : Height[b] # h
          BY SMT, <2>1, <2>2, <3>1
      <4> QED
          BY <2>1, <3>1, <4>1
    <3>2. CASE h # Height[x]
      <4>1. h \in 0 .. Height[Parent[x]]
          BY SMT, <2>1, <2>3, <3>2
      <4> QED
          BY <1>2, <2>1, <3>2, <4>1
    <3> QED
        BY <3>1, <3>2
  <2> QED
      BY <2>3
<1> HIDE DEF S
<1>3. Block \subseteq S
    BY <1>1, <1>2, TreeInduction
<1> QED
    BY <1>3 DEF S

(* A block of a chain has a chain of its own below it, with the same       *)
(* blocks up to its height.                                                *)
LEMMA ChainPrefix ==
    \A t \in Block : \A s \in Chain[t] :
        \A b \in Block : b \in Chain[s] <=> b \in Chain[t] /\ Height[b] <= Height[s]
<1> DEFINE S == {t \in Block : \A s \in Chain[t] :
        \A b \in Block : b \in Chain[s] <=> b \in Chain[t] /\ Height[b] <= Height[s]}
<1>0. ASSUME NEW x \in Block PROVE \A b \in Chain[x] : Height[b] <= Height[x]
  <2>1. \A b \in Chain[x] : Height[b] \in Nat /\ Height[x] \in Nat
      BY TreeAssumption
  <2> QED
      BY SMT, ChainEnds, <2>1
<1>1. Genesis \in S
    BY <1>0, BurnAssumption, TreeAssumption
<1>2. ASSUME NEW t \in Block \ {Genesis}, Parent[t] \in S PROVE t \in S
  <2>1. /\ Chain[t] = {t} \cup Chain[Parent[t]] /\ Height[t] = Height[Parent[t]] + 1
        /\ Parent[t] \in Block
      BY <1>2, BurnAssumption, TreeAssumption
  <2>2. ASSUME NEW s \in Chain[t], NEW b \in Block
        PROVE  b \in Chain[s] <=> b \in Chain[t] /\ Height[b] <= Height[s]
    <3>1. CASE s = t
        BY <1>0, <3>1
    <3>2. CASE s \in Chain[Parent[t]]
      <4>1. b \in Chain[s] <=> b \in Chain[Parent[t]] /\ Height[b] <= Height[s]
          BY <1>2, <3>2
      <4>2. Height[s] <= Height[Parent[t]]
          BY <1>0, <2>1, <3>2
      <4>3. Height[s] \in Nat /\ Height[Parent[t]] \in Nat /\ Height[t] \in Nat
          BY <1>2, <2>1, TreeAssumption
      <4>4. ~ (Height[t] <= Height[s])
          BY SMT, <2>1, <4>2, <4>3
      <4> QED
          BY <2>1, <4>1, <4>4
    <3> QED
        BY <2>1, <3>1, <3>2
  <2> QED
      BY <1>2, <2>2
<1> HIDE DEF S
<1>3. Block \subseteq S
    BY <1>1, <1>2, TreeInduction
<1> QED
    BY <1>3 DEF S

(* The blocks of a chain, and the parent of a block.                       *)
LEMMA ChainFacts ==
    ASSUME NEW t \in Block
    PROVE  /\ Chain[t] \subseteq Block /\ t \in Chain[t] /\ Height[t] \in Nat
           /\ \A b \in Chain[t] : Height[b] \in Nat /\ Height[b] <= Height[t]
           /\ \A b, c \in Chain[t] : Height[b] = Height[c] => b = c
           /\ t # Genesis => /\ Parent[t] \in Block /\ Parent[t] \in Chain[t]
                             /\ Height[t] = Height[Parent[t]] + 1
                             /\ Chain[t] = {t} \cup Chain[Parent[t]]
                             /\ t \notin Chain[Parent[t]]
<1>1. Chain[t] \subseteq Block /\ Height[t] \in Nat
    BY TreeAssumption
<1>2. t \in Chain[t] /\ \A b \in Chain[t] : b # t => Height[b] < Height[t]
    BY ChainEnds
<1>3. ASSUME NEW b \in Chain[t] PROVE Height[b] \in Nat /\ Height[b] <= Height[t]
  <2>1. Height[b] \in Nat
      BY <1>1, TreeAssumption
  <2> QED
      BY SMT, <1>1, <1>2, <2>1
<1>4. \A b, c \in Chain[t] : Height[b] = Height[c] => b = c
  <2>1. \A b \in Chain[t] : Height[b] \in 0 .. Height[t]
      BY SMT, <1>1, <1>3
  <2> QED
      BY <2>1, ChainHeights
<1>5. ASSUME t # Genesis
      PROVE  /\ Parent[t] \in Block /\ Parent[t] \in Chain[t]
             /\ Height[t] = Height[Parent[t]] + 1
             /\ Chain[t] = {t} \cup Chain[Parent[t]]
             /\ t \notin Chain[Parent[t]]
  <2>1. /\ Parent[t] \in Block /\ Height[t] = Height[Parent[t]] + 1
        /\ Chain[t] = {t} \cup Chain[Parent[t]]
      BY <1>5, BurnAssumption, TreeAssumption
  <2>2. Parent[t] \in Chain[Parent[t]]
      BY <2>1, ChainEnds
  <2>3. Height[Parent[t]] \in Nat
      BY <2>1, TreeAssumption
  <2>4. Parent[t] # t /\ ~ (Height[t] < Height[Parent[t]])
      BY SMT, <2>1, <2>3
  <2>5. \A y \in Chain[Parent[t]] : y # Parent[t] => Height[y] < Height[Parent[t]]
      BY <2>1, ChainEnds
  <2>6. t \notin Chain[Parent[t]]
      BY <2>4, <2>5
  <2> QED
      BY <2>1, <2>2, <2>6
<1> QED
    BY <1>1, <1>2, <1>3, <1>4, <1>5

-----------------------------------------------------------------------------
(* Counting burns *)

LEMMA EntryFacts ==
    /\ \A e \in Entry : e.height \in Nat /\ e.amount \in Nat
    /\ \A b \in Block : Len(Burns[b]) \in Nat /\ DOMAIN Burns[b] = 1 .. Len(Burns[b])
    /\ \A b, i : EntryOf(b, i).height = Height[b]
    /\ \A b \in Block : \A i \in 1 .. Len(Burns[b]) : EntryOf(b, i) \in Entry
<1>1. ASSUME NEW e \in Entry PROVE e.height \in Nat /\ e.amount \in Nat
  <2>1. e.height \in Heights /\ e.amount \in Amount
      BY DEF Entry
  <2> QED
      BY <2>1, BurnAssumption, TreeAssumption DEF Heights
<1>2. \A b \in Block : Len(Burns[b]) \in Nat /\ DOMAIN Burns[b] = 1 .. Len(Burns[b])
    BY SMT, BurnAssumption
<1>3. \A b, i : EntryOf(b, i).height = Height[b]
    BY SMT DEF EntryOf
<1>4. ASSUME NEW b \in Block, NEW i \in 1 .. Len(Burns[b]) PROVE EntryOf(b, i) \in Entry
  <2>1. Burns[b][i] \in [dest : Dest, amount : Amount]
    <3> DEFINE R == [dest : Dest, amount : Amount]
    <3>1. Burns[b] \in Seq(R)
        BY BurnAssumption
    <3> HIDE DEF R
    <3>2. Burns[b][i] \in R
        BY SMT, <3>1
    <3> QED
        BY <3>2 DEF R
  <2>2. Burns[b][i].dest \in Dest /\ Burns[b][i].amount \in Amount
      BY <2>1
  <2>3. Height[b] \in Heights
      BY DEF Heights
  <2> QED
      BY SMT, <2>2, <2>3 DEF EntryOf, Entry
<1> QED
    BY <1>1, <1>2, <1>3, <1>4

(* The places in bs whose burn is e.                                       *)
LikeIn(bs, e) == {p \in Places(bs) : EntryOf(p[1], p[2]) = e}

LEMMA LikeInPlaces ==
    ASSUME NEW bs \in SUBSET Block, NEW e, NEW p
    PROVE  p \in LikeIn(bs, e) <=>
              \E b \in bs : /\ Height[b] = e.height
                            /\ p \in {b} \X (1 .. Len(Burns[b]))
                            /\ EntryOf(p[1], p[2]) = e
<1>1. p \in Places(bs) <=> \E b \in bs : p \in {b} \X (1 .. Len(Burns[b]))
    BY EntryFacts DEF Places
<1>2. ASSUME NEW b \in bs, p \in {b} \X (1 .. Len(Burns[b])), EntryOf(p[1], p[2]) = e
      PROVE  Height[b] = e.height
  <2>1. p[1] = b
      BY SMT, <1>2
  <2> QED
      BY <1>2, <2>1, EntryFacts
<1> QED
    BY <1>1, <1>2 DEF LikeIn

(* Only the blocks at the height of an entry burn it.                      *)
LEMMA SameBurns ==
    ASSUME NEW bs \in SUBSET Block, NEW cs \in SUBSET Block, NEW e \in Entry,
           \A b \in Block : Height[b] = e.height => (b \in bs <=> b \in cs)
    PROVE  BurnsOf(bs)[e] = BurnsOf(cs)[e]
<1>1. \A p : p \in LikeIn(bs, e) <=> p \in LikeIn(cs, e)
  <2>1. ASSUME NEW p PROVE p \in LikeIn(bs, e) <=> p \in LikeIn(cs, e)
    <3>1. p \in LikeIn(bs, e) <=>
              \E b \in bs : /\ Height[b] = e.height
                            /\ p \in {b} \X (1 .. Len(Burns[b]))
                            /\ EntryOf(p[1], p[2]) = e
        BY LikeInPlaces
    <3>2. p \in LikeIn(cs, e) <=>
              \E b \in cs : /\ Height[b] = e.height
                            /\ p \in {b} \X (1 .. Len(Burns[b]))
                            /\ EntryOf(p[1], p[2]) = e
        BY LikeInPlaces
    <3> QED
        BY <3>1, <3>2
  <2> QED
      BY <2>1
<1>2. LikeIn(bs, e) = LikeIn(cs, e)
    BY <1>1
<1> QED
    BY <1>2 DEF BurnsOf, LikeIn

LEMMA NoBurns ==
    ASSUME NEW bs \in SUBSET Block, NEW e \in Entry, \A b \in bs : Height[b] # e.height
    PROVE  BurnsOf(bs)[e] = 0
<1>1. \A p : p \notin LikeIn(bs, e)
    BY LikeInPlaces
<1>2. LikeIn(bs, e) = {}
    BY <1>1
<1> QED
    BY <1>2, FS_EmptySet DEF BurnsOf, LikeIn

LEMMA OneBlockBurns ==
    ASSUME NEW bs \in SUBSET Block, NEW e \in Entry, NEW b \in bs, Height[b] = e.height,
           \A c \in bs : Height[c] = Height[b] => c = b
    PROVE  BurnsOf(bs)[e] = AmongFirst(b, Len(Burns[b]), e)
<1> DEFINE T == {p \in {b} \X (1 .. Len(Burns[b])) : EntryOf(p[1], p[2]) = e}
<1>1. ASSUME NEW p PROVE p \in LikeIn(bs, e) <=> p \in T
  <2>1. p \in LikeIn(bs, e) <=>
            \E c \in bs : /\ Height[c] = e.height
                          /\ p \in {c} \X (1 .. Len(Burns[c]))
                          /\ EntryOf(p[1], p[2]) = e
      BY LikeInPlaces
  <2>2. \A c \in bs : Height[c] = e.height => c = b
      OBVIOUS
  <2> QED
      BY <2>1, <2>2
<1>2. LikeIn(bs, e) = T
    BY <1>1
<1> QED
    BY <1>2 DEF BurnsOf, LikeIn, AmongFirst

(* Counting one burn more.                                                 *)
LEMMA AmongFirstSteps ==
    ASSUME NEW b \in Block, NEW n \in Nat, NEW e
    PROVE  /\ AmongFirst(b, n, e) \in Nat /\ AmongFirst(b, 0, e) = 0
           /\ EntryOf(b, n + 1) = e => AmongFirst(b, n + 1, e) = AmongFirst(b, n, e) + 1
           /\ EntryOf(b, n + 1) # e => AmongFirst(b, n + 1, e) = AmongFirst(b, n, e)
<1> DEFINE T(k) == {p \in {b} \X (1 .. k) : EntryOf(p[1], p[2]) = e}
<1>1. IsFiniteSet(T(n))
  <2>0. n \in Int /\ 1 \in Int
      BY SMT
  <2>1. IsFiniteSet({b}) /\ IsFiniteSet(1 .. n)
      BY <2>0, FS_Singleton, FS_Interval
  <2>2. IsFiniteSet({b} \X (1 .. n))
      BY <2>1, FS_Product
  <2>3. T(n) \in SUBSET ({b} \X (1 .. n))
      OBVIOUS
  <2> HIDE DEF T
  <2> QED
      BY <2>2, <2>3, FS_Subset
<1>2. T(0) = {}
    BY SMT
<1>3. CASE EntryOf(b, n + 1) = e
  <2>1. T(n + 1) = T(n) \cup {<<b, n + 1>>}
      BY SMT, <1>3
  <2>2. <<b, n + 1>> \notin T(n)
      BY SMT
  <2>3. Cardinality(T(n) \cup {<<b, n + 1>>}) = Cardinality(T(n)) + 1
    <3> HIDE DEF T
    <3> QED
        BY <1>1, <2>2, FS_AddElement
  <2> QED
      BY <1>1, <1>2, <1>3, <2>1, <2>3, FS_CardinalityType, FS_EmptySet DEF AmongFirst
<1>4. CASE EntryOf(b, n + 1) # e
  <2>1. T(n + 1) = T(n)
      BY SMT, <1>4
  <2>2. Cardinality(T(n)) \in Nat
      BY <1>1, FS_CardinalityType
  <2> QED
      BY <1>2, <1>4, <2>1, <2>2, FS_EmptySet DEF AmongFirst
<1> QED
    BY <1>3, <1>4

LEMMA AmongNone ==
    ASSUME NEW b, NEW n, NEW e, ~ \E i \in 1 .. n : EntryOf(b, i) = e
    PROVE  AmongFirst(b, n, e) = 0
<1>1. {p \in {b} \X (1 .. n) : EntryOf(p[1], p[2]) = e} = {}
    BY SMT
<1> QED
    BY <1>1, FS_EmptySet DEF AmongFirst

LEMMA BurnsType ==
    ASSUME NEW t \in Block, NEW bs \in SUBSET Chain[t]
    PROVE  BurnsOf(bs) \in [Entry -> Nat]
<1>1. bs \in SUBSET Block /\ \A b, c \in bs : Height[b] = Height[c] => b = c
    BY ChainFacts
<1>2. ASSUME NEW e \in Entry PROVE BurnsOf(bs)[e] \in Nat
  <2>1. CASE \A b \in bs : Height[b] # e.height
    <3>1. BurnsOf(bs)[e] = 0
        BY <1>1, <2>1, NoBurns
    <3> QED
        BY SMT, <3>1
  <2>2. CASE \E b \in bs : Height[b] = e.height
    <3>1. PICK b \in bs : Height[b] = e.height
        BY <2>2
    <3>2. BurnsOf(bs)[e] = AmongFirst(b, Len(Burns[b]), e)
      <4>1. \A c \in bs : Height[c] = Height[b] => c = b
          BY <1>1
      <4> QED
          BY <1>1, <3>1, <4>1, OneBlockBurns
    <3>3. b \in Block /\ Len(Burns[b]) \in Nat
        BY <1>1, EntryFacts
    <3>4. AmongFirst(b, Len(Burns[b]), e) \in Nat
        BY <3>3, AmongFirstSteps
    <3> QED
        BY <3>2, <3>4
  <2> QED
      BY <2>1, <2>2
<1>3. BurnsOf(bs) = [e \in Entry |-> BurnsOf(bs)[e]]
    BY DEF BurnsOf
<1> QED
    BY <1>2, <1>3

(* What the chain of t burns, and what parts of it do.                     *)
LEMMA ReplayedType ==
    ASSUME NEW t \in Block
    PROVE  Replayed(t) \in [Entry -> Nat]
BY BurnsType DEF Replayed

LEMMA ReplayedBelow ==
    ASSUME NEW t \in Block, NEW s \in Chain[t], NEW e \in Entry, e.height <= Height[s]
    PROVE  Replayed(t)[e] = Replayed(s)[e]
<1>1. s \in Block /\ Chain[t] \in SUBSET Block /\ Chain[s] \in SUBSET Block
    BY ChainFacts
<1>2. \A b \in Block : Height[b] = e.height => (b \in Chain[t] <=> b \in Chain[s])
    BY <1>1, ChainPrefix
<1> QED
    BY <1>1, <1>2, SameBurns DEF Replayed

LEMMA ReplayedAbove ==
    ASSUME NEW t \in Block, NEW e \in Entry, e.height > Height[t]
    PROVE  Replayed(t)[e] = 0
<1>1. Chain[t] \in SUBSET Block /\ Height[t] \in Nat
      /\ \A b \in Chain[t] : Height[b] \in Nat /\ Height[b] <= Height[t]
    BY ChainFacts
<1>2. \A b \in Chain[t] : Height[b] # e.height
    BY SMT, <1>1, EntryFacts
<1> QED
    BY <1>1, <1>2, NoBurns DEF Replayed

LEMMA ReplayedSuffix ==
    ASSUME NEW t \in Block, NEW s \in Chain[t], NEW e \in Entry
    PROVE  /\ e.height > Height[s] => BurnsOf(Chain[t] \ Chain[s])[e] = Replayed(t)[e]
           /\ e.height <= Height[s] => BurnsOf(Chain[t] \ Chain[s])[e] = 0
<1>1. /\ s \in Block /\ Chain[t] \in SUBSET Block /\ Chain[t] \ Chain[s] \in SUBSET Block
      /\ Height[s] \in Nat /\ e.height \in Nat
    BY ChainFacts, EntryFacts
<1>2. ASSUME e.height > Height[s]
      PROVE  BurnsOf(Chain[t] \ Chain[s])[e] = Replayed(t)[e]
  <2>1. ~ (e.height <= Height[s])
      BY SMT, <1>1, <1>2
  <2>2. \A b \in Block : Height[b] = e.height =>
            (b \in Chain[t] \ Chain[s] <=> b \in Chain[t])
      BY <2>1, ChainPrefix
  <2> HIDE <1>2
  <2> QED
      BY <1>1, <2>2, SameBurns DEF Replayed
<1>3. ASSUME e.height <= Height[s]
      PROVE  BurnsOf(Chain[t] \ Chain[s])[e] = 0
  <2>1. \A b \in Chain[t] \ Chain[s] : Height[b] # e.height
      BY <1>1, <1>3, ChainPrefix
  <2> QED
      BY <1>1, <2>1, NoBurns
<1> QED
    BY <1>2, <1>3

LEMMA ReplayedRecent ==
    ASSUME NEW t \in Block, NEW h, NEW e \in Entry, e.height >= h
    PROVE  BurnsOf({b \in Chain[t] : Height[b] >= h})[e] = Replayed(t)[e]
<1> DEFINE recent == {b \in Chain[t] : Height[b] >= h}
<1>1. Chain[t] \in SUBSET Block /\ recent \in SUBSET Block
    BY ChainFacts
<1>2. \A b \in Block : Height[b] = e.height => (b \in recent <=> b \in Chain[t])
    OBVIOUS
<1> HIDE DEF recent
<1>3. BurnsOf(recent)[e] = BurnsOf(Chain[t])[e]
    BY <1>1, <1>2, SameBurns
<1> QED
    BY <1>3 DEF Replayed, recent

LEMMA ReplayedStep ==
    ASSUME NEW t \in Block \ {Genesis}, NEW e \in Entry
    PROVE  Replayed(t)[e] = IF e.height = Height[t] THEN AmongFirst(t, Len(Burns[t]), e)
                            ELSE Replayed(Parent[t])[e]
<1>1. /\ Chain[t] \in SUBSET Block /\ t \in Chain[t]
      /\ \A b, c \in Chain[t] : Height[b] = Height[c] => b = c
      /\ Chain[t] = {t} \cup Chain[Parent[t]] /\ Chain[Parent[t]] \in SUBSET Block
    BY ChainFacts
<1>2. CASE e.height = Height[t]
    BY <1>1, <1>2, OneBlockBurns DEF Replayed
<1>3. CASE e.height # Height[t]
  <2>1. \A b \in Block : Height[b] = e.height =>
            (b \in Chain[t] <=> b \in Chain[Parent[t]])
      BY <1>1, <1>3
  <2>2. BurnsOf(Chain[t])[e] = BurnsOf(Chain[Parent[t]])[e]
    <3>1. Chain[t] \in SUBSET Block /\ Chain[Parent[t]] \in SUBSET Block
        BY <1>1
    <3> QED
        BY <2>1, <3>1, SameBurns
  <2> QED
      BY <1>3, <2>2 DEF Replayed
<1> QED
    BY <1>2, <1>3

-----------------------------------------------------------------------------
(* Weights, and loading a saved cache *)

(* A cache gives an address its weight on the chain when the entries that  *)
(* it may have wrong have no weight for that address.                      *)
LEMMA MatchesWeight ==
    ASSUME NEW m \in [Entry -> Nat], NEW t \in Block, NEW bad, Matches(m, t, bad)
    PROVE  SameWeight(m, t, bad)
<1> DEFINE h == Height[t] + 1
           R == Replayed(t)
<1>0. R \in [Entry -> Nat]
    BY ReplayedType
<1>1. \A e \in Entry : e \notin bad => m[e] = R[e]
    BY DEF Matches
<1> HIDE DEF R
<1>2. ASSUME NEW d \in Dest, \A e \in bad : e.dest = d => EntryWeight(e, h) = 0
      PROVE  GetActiveBurnWeight(m, d, h) = GetActiveBurnWeight(R, d, h)
  <2>1. ASSUME NEW e \in Entry, e.dest = d
        PROVE  m[e] * EntryWeight(e, h) = R[e] * EntryWeight(e, h)
    <3>1. CASE e \in bad
      <4>1. EntryWeight(e, h) = 0
          BY <1>2, <2>1, <3>1
      <4>2. m[e] \in Nat /\ R[e] \in Nat
          BY <1>0
      <4>3. m[e] * 0 = R[e] * 0
          BY SMT, <4>2
      <4> QED
          BY <4>1, <4>3
    <3>2. CASE e \notin bad
        BY <1>1, <3>2
    <3> QED
        BY <3>1, <3>2
  <2>2. [e \in {x \in Entry : x.dest = d} |-> m[e] * EntryWeight(e, h)]
            = [e \in {x \in Entry : x.dest = d} |-> R[e] * EntryWeight(e, h)]
    <3> HIDE DEF h
    <3> QED
        BY <2>1
  <2> QED
      BY <2>2 DEF GetActiveBurnWeight
<1> QED
    BY <1>2 DEF SameWeight, R

LEMMA MaxOfTwo ==
    ASSUME NEW a \in Int, NEW b \in Int
    PROVE  Max({a, b}) \in {a, b} /\ Max({a, b}) >= a /\ Max({a, b}) >= b
<1>1. \E x \in {a, b} : \A y \in {a, b} : x >= y
  <2>1. CASE a >= b
      BY SMT, <2>1
  <2>2. CASE b >= a
      BY SMT, <2>2
  <2> QED
      BY SMT, <2>1, <2>2
<1>2. Max({a, b}) \in {a, b} /\ \A y \in {a, b} : Max({a, b}) >= y
    BY <1>1 DEF Max
<1> QED
    BY <1>2

LEMMA MinBurnHeightType ==
    ASSUME NEW t \in Block
    PROVE  MinBurnHeight(t) \in Nat
<1> DEFINE low == MinBurnHeight(t)
<1>1. 0 \in Int /\ Height[t] - Decay \in Int
    BY SMT, BurnAssumption, TreeAssumption
<1>2. low \in {0, Height[t] - Decay} /\ low >= 0
    BY <1>1, MaxOfTwo DEF MinBurnHeight
<1> HIDE DEF low
<1>3. low \in Nat
    BY SMT, <1>1, <1>2
<1> QED
    BY <1>3 DEF low

LEMMA LoadedSpoiledFacts ==
    ASSUME NEW t \in Block, NEW saved, saved.spoiled \in SUBSET Entry
    PROVE  /\ LoadedSpoiled(saved, t) \in SUBSET Entry
           /\ \A e \in Entry : e \notin LoadedSpoiled(saved, t) =>
                 /\ e.height < MinBurnHeight(t) => Replayed(t)[e] = 0
                 /\ saved.tag \in Chain[t] => e \notin saved.spoiled
<1>1. LoadedSpoiled(saved, t) \in SUBSET Entry
    BY DEF LoadedSpoiled
<1>2. ASSUME NEW e \in Entry, e \notin LoadedSpoiled(saved, t)
      PROVE  /\ e.height < MinBurnHeight(t) => Replayed(t)[e] = 0
             /\ saved.tag \in Chain[t] => e \notin saved.spoiled
  <2>1. e.height < MinBurnHeight(t) => ~ (Replayed(t)[e] > 0)
      BY <1>2 DEF LoadedSpoiled
  <2>2. Replayed(t)[e] \in Nat
      BY ReplayedType
  <2>3. ~ (Replayed(t)[e] > 0) => Replayed(t)[e] = 0
      BY SMT, <2>2
  <2> QED
      BY <1>2, <2>1, <2>3 DEF LoadedSpoiled
<1> QED
    BY <1>1, <1>2

(* InitializeBurnCache has wrong only what the saved cache had wrong and   *)
(* the burns of the chain that it drops.                                   *)
LEMMA LoadRight ==
    ASSUME NEW t \in Block, NEW saved \in Saved, SavedRight(saved, t)
    PROVE  /\ InitializeBurnCache(saved, t) \in [Entry -> Nat]
           /\ LoadedSpoiled(saved, t) \in SUBSET Entry
           /\ Matches(InitializeBurnCache(saved, t), t, LoadedSpoiled(saved, t))
<1> DEFINE low == MinBurnHeight(t)
           bad == LoadedSpoiled(saved, t)
           recent == {b \in Chain[t] : Height[b] >= low}
           delta == BurnsOf(Chain[t] \ Chain[saved.tag])
           kept == {e \in Entry : e.height \in low .. Height[saved.tag]}
           m == InitializeBurnCache(saved, t)
<1>0. /\ saved.tag \in Block /\ saved.burns \in [Entry -> Nat]
      /\ saved.spoiled \in SUBSET Entry
    BY DEF Saved
<1>1. low \in Nat /\ Height[saved.tag] \in Nat /\ \A e \in Entry : e.height \in Nat
    BY <1>0, MinBurnHeightType, ChainFacts, EntryFacts
<1>2. bad \in SUBSET Entry
    BY <1>0, LoadedSpoiledFacts
<1>3. ASSUME NEW e \in Entry, e \notin bad
      PROVE  /\ e.height < low => Replayed(t)[e] = 0
             /\ saved.tag \in Chain[t] => e \notin saved.spoiled
    BY <1>0, <1>3, LoadedSpoiledFacts
<1>4. CASE saved.tag \in Chain[t]
  <2>1. m = [e \in Entry |-> (IF e \in kept THEN saved.burns[e] ELSE 0) + delta[e]]
      BY <1>4 DEF InitializeBurnCache
  <2>2. delta \in [Entry -> Nat]
    <3>1. Chain[t] \ Chain[saved.tag] \in SUBSET Chain[t]
        OBVIOUS
    <3> QED
        BY <3>1, BurnsType
  <2>3. ASSUME NEW e \in Entry
        PROVE  /\ e.height > Height[saved.tag] => delta[e] = Replayed(t)[e]
               /\ e.height <= Height[saved.tag] => delta[e] = 0
    <3>1. e.height > Height[saved.tag] => delta[e] = Replayed(t)[e]
        BY ZenonT(30), <1>4, ReplayedSuffix
    <3>2. e.height <= Height[saved.tag] => delta[e] = 0
        BY ZenonT(30), <1>4, ReplayedSuffix
    <3> QED
        BY <3>1, <3>2
  <2>4. ASSUME NEW e \in Entry, e \notin saved.spoiled, e.height <= Height[saved.tag]
        PROVE  saved.burns[e] = Replayed(t)[e]
    <3>1. saved.burns[e] = Replayed(saved.tag)[e]
        BY <1>4, <2>4 DEF SavedRight, SavedExact
    <3>2. Replayed(t)[e] = Replayed(saved.tag)[e]
        BY <1>4, <2>4, ReplayedBelow
    <3> QED
        BY <3>1, <3>2
  <2> HIDE DEF delta, bad, low, m
  <2>5. m \in [Entry -> Nat]
      BY SMT, <1>0, <2>1, <2>2
  <2>6. ASSUME NEW e \in Entry, e \notin bad PROVE m[e] = Replayed(t)[e]
    <3>1. m[e] = (IF e \in kept THEN saved.burns[e] ELSE 0) + delta[e]
        BY <2>1
    <3>2. /\ saved.burns[e] \in Nat /\ delta[e] \in Nat /\ e.height \in Nat
          /\ e \in kept <=> e.height \in low .. Height[saved.tag]
        BY <1>0, <1>1, <2>2
    <3> HIDE DEF kept
    <3>3. CASE e.height > Height[saved.tag]
      <4>1. e \notin kept
          BY SMT, <1>1, <3>2, <3>3
      <4>2. delta[e] = Replayed(t)[e]
          BY <2>3, <3>3
      <4>3. 0 + delta[e] = delta[e]
          BY SMT, <3>2
      <4> QED
          BY <3>1, <4>1, <4>2, <4>3
    <3>4. CASE e.height <= Height[saved.tag] /\ e \in kept
      <4>1. delta[e] = 0 /\ saved.burns[e] = Replayed(t)[e]
          BY <1>3, <1>4, <2>3, <2>4, <2>6, <3>4
      <4>2. saved.burns[e] + 0 = saved.burns[e]
          BY SMT, <3>2
      <4> QED
          BY <3>1, <3>4, <4>1, <4>2
    <3>5. CASE e.height <= Height[saved.tag] /\ e \notin kept
      <4>1. e.height < low
          BY SMT, <1>1, <3>2, <3>5
      <4>2. delta[e] = 0 /\ Replayed(t)[e] = 0
          BY <1>3, <2>3, <2>6, <3>5, <4>1
      <4>3. 0 + 0 = 0
          BY SMT
      <4> QED
          BY <3>1, <3>5, <4>2, <4>3
    <3> QED
        BY SMT, <1>1, <3>2, <3>3, <3>4, <3>5
  <2> QED
      BY <1>2, <2>5, <2>6 DEF Matches, bad, m
<1>5. CASE saved.tag \notin Chain[t]
  <2>1. m = BurnsOf(recent)
      BY <1>5 DEF InitializeBurnCache
  <2>2. recent \in SUBSET Chain[t] /\ Chain[t] \in SUBSET Block
      BY ChainFacts
  <2>3. BurnsOf(recent) \in [Entry -> Nat]
    <3> HIDE DEF recent
    <3> QED
        BY <2>2, BurnsType
  <2>4. ASSUME NEW e \in Entry, e \notin bad PROVE BurnsOf(recent)[e] = Replayed(t)[e]
    <3>1. CASE e.height >= low
        BY <3>1, ReplayedRecent
    <3>2. CASE e.height < low
      <4>1. Replayed(t)[e] = 0
          BY <1>3, <2>4, <3>2
      <4>2. \A b \in recent : Height[b] # e.height
        <5>1. \A b \in recent : Height[b] >= low /\ Height[b] \in Nat
            BY ChainFacts
        <5> HIDE DEF recent, low
        <5> QED
            BY SMT, <1>1, <3>2, <5>1
      <4>3. BurnsOf(recent)[e] = 0
        <5>1. recent \in SUBSET Block
            BY <2>2
        <5> HIDE DEF recent
        <5> QED
            BY <4>2, <5>1, NoBurns
      <4> QED
          BY <4>1, <4>3
    <3>3. e.height >= low \/ e.height < low
      <4> HIDE DEF low
      <4> QED
          BY SMT, <1>1
    <3> QED
        BY <3>1, <3>2, <3>3
  <2> QED
      BY <1>2, <2>1, <2>3, <2>4 DEF Matches
<1> QED
    BY <1>4, <1>5

-----------------------------------------------------------------------------
(* The initial state *)

LEMMA BurnInit == Init => BurnInv
<1> SUFFICES ASSUME Init PROVE BurnInv
    OBVIOUS
<1> DEFINE none == BurnsOf({})
<1>1. /\ tip = Genesis /\ dbTip = Genesis /\ burns = none /\ work = Idle
      /\ disk = [tag |-> Genesis, burns |-> none, spoiled |-> {}]
      /\ spoiled = {} /\ failed = {} /\ failedDb = {} /\ crashes = 0
    BY DEF Init
<1>2. Genesis \in Block /\ Chain[Genesis] = {Genesis} /\ Burns[Genesis] = <<>>
    BY BurnAssumption, TreeAssumption
<1>3. none \in [Entry -> Nat]
    BY <1>2, BurnsType
<1>4. \A e \in Entry : none[e] = Replayed(Genesis)[e]
  <2>1. ASSUME NEW e \in Entry PROVE none[e] = Replayed(Genesis)[e]
    <3>1. none[e] = 0
        BY NoBurns
    <3>2. CASE e.height = Height[Genesis]
      <4>1. Len(Burns[Genesis]) = 0
          BY SMT, <1>2
      <4>2. /\ {Genesis} \in SUBSET Block /\ Genesis \in {Genesis}
            /\ \A c \in {Genesis} : Height[c] = Height[Genesis] => c = Genesis
          BY <1>2
      <4>3. BurnsOf({Genesis})[e] = AmongFirst(Genesis, Len(Burns[Genesis]), e)
          BY <3>2, <4>2, OneBlockBurns
      <4>4. AmongFirst(Genesis, 0, e) = 0
        <5>1. 0 \in Nat
            BY SMT
        <5> QED
            BY <1>2, <5>1, AmongFirstSteps
      <4> QED
          BY <1>2, <3>1, <4>1, <4>3, <4>4 DEF Replayed
    <3>3. CASE e.height # Height[Genesis]
      <4>1. {Genesis} \in SUBSET Block /\ \A b \in {Genesis} : Height[b] # e.height
          BY <1>2, <3>3
      <4>2. BurnsOf({Genesis})[e] = 0
          BY <4>1, NoBurns
      <4> QED
          BY <1>2, <3>1, <4>2 DEF Replayed
    <3> QED
        BY <3>2, <3>3
  <2> QED
      BY <2>1
<1> HIDE DEF none
<1>5. TypeOK
  <2>1. work \in [op : {"idle", "connect", "disconnect", "flush", "flushed"},
                  block : Block, done : Nat]
      BY SMT, <1>1, <1>2 DEF Idle
  <2>2. disk \in Saved
      BY <1>1, <1>2, <1>3 DEF Saved
  <2>3. crashes \in 0 .. MaxCrash
      BY SMT, <1>1, BurnAssumption
  <2>4. spoiled \in SUBSET Entry /\ failed \in SUBSET Bad /\ failedDb \in SUBSET Bad
      BY <1>1
  <2> QED
      BY <1>1, <1>2, <1>3, <2>1, <2>2, <2>3, <2>4 DEF TypeOK, Saved
<1>6. work.op = "idle"
    BY SMT, <1>1 DEF Idle
<1>7. MemorySound
  <2>1. Matches(burns, tip, spoiled)
      BY <1>1, <1>4 DEF Matches
  <2> QED
      BY <1>1, <1>6, <2>1 DEF MemorySound
<1>8. CoinsBehind
    BY <1>1, <1>2, <1>6 DEF CoinsBehind
<1>9. DiskSound
  <2>1. disk.tag = Genesis /\ disk.burns = none
      BY SMT, <1>1
  <2> QED
      BY <1>4, <2>1 DEF DiskSound, SavedRight, SavedExact
<1> QED
    BY <1>5, <1>7, <1>8, <1>9 DEF BurnInv

-----------------------------------------------------------------------------
(* Burns counted and taken out one at a time *)

LEMMA ParentMisses ==
    ASSUME NEW b \in Block \ {Genesis}, NEW e \in Entry, e.height = Height[b]
    PROVE  Replayed(Parent[b])[e] = 0
<1>1. Parent[b] \in Block /\ Height[b] = Height[Parent[b]] + 1 /\ Height[b] \in Nat
    BY ChainFacts
<1>2. Height[Parent[b]] \in Nat
    BY <1>1, ChainFacts
<1>3. e.height > Height[Parent[b]]
    BY SMT, <1>1, <1>2
<1> QED
    BY <1>1, <1>3, ReplayedAbove

(* No burn of b is counted yet.                                            *)
LEMMA ConnectingNone ==
    ASSUME NEW m, NEW b \in Block \ {Genesis}, NEW bad
    PROVE  Connecting(m, b, 0, bad) <=> Matches(m, Parent[b], bad)
<1>1. \A e \in Entry : AmongFirst(b, 0, e) = 0
  <2>1. 0 \in Nat
      BY SMT
  <2> QED
      BY <2>1, AmongFirstSteps
<1>2. \A e \in Entry : e.height = Height[b] => Replayed(Parent[b])[e] = 0
    BY ParentMisses
<1> QED
    BY <1>1, <1>2 DEF Connecting, Matches

(* All of them are.                                                        *)
LEMMA ConnectingAll ==
    ASSUME NEW m, NEW b \in Block \ {Genesis}, NEW bad, Connecting(m, b, Len(Burns[b]), bad)
    PROVE  Matches(m, b, bad)
BY ReplayedStep DEF Connecting, Matches

LEMMA ConnectingOne ==
    ASSUME NEW m \in [Entry -> Nat], NEW b \in Block \ {Genesis}, NEW bad,
           NEW n \in Nat, n < Len(Burns[b]), Connecting(m, b, n, bad),
           NEW w, w = [m EXCEPT ![EntryOf(b, n + 1)] = @ + 1]
    PROVE  w \in [Entry -> Nat] /\ Connecting(w, b, n + 1, bad)
<1> DEFINE x == EntryOf(b, n + 1)
<1>0. w = [m EXCEPT ![x] = @ + 1]
    OBVIOUS
<1>1. x \in Entry /\ x.height = Height[b]
  <2>1. Len(Burns[b]) \in Nat
      BY EntryFacts
  <2>2. n + 1 \in 1 .. Len(Burns[b])
      BY SMT, <2>1
  <2> QED
      BY <2>2, EntryFacts
<1> HIDE DEF x
<1>2. w \in [Entry -> Nat]
    BY SMT, <1>0, <1>1
<1>3. ASSUME NEW e \in Entry, e \notin bad
      PROVE  w[e] = IF e.height = Height[b] THEN AmongFirst(b, n + 1, e)
                    ELSE Replayed(Parent[b])[e]
  <2>1. m[e] = IF e.height = Height[b] THEN AmongFirst(b, n, e) ELSE Replayed(Parent[b])[e]
      BY <1>3 DEF Connecting
  <2>2. /\ x = e => AmongFirst(b, n + 1, e) = AmongFirst(b, n, e) + 1
        /\ x # e => AmongFirst(b, n + 1, e) = AmongFirst(b, n, e)
      BY AmongFirstSteps DEF x
  <2>3. w[e] = IF e = x THEN m[e] + 1 ELSE m[e]
      BY <1>0, <1>1
  <2>4. CASE e = x
      BY <1>1, <2>1, <2>2, <2>3, <2>4
  <2>5. CASE e # x
      BY <2>1, <2>2, <2>3, <2>5
  <2> QED
      BY <2>4, <2>5
<1> QED
    BY <1>2, <1>3 DEF Connecting, x

LEMMA DisconnectingNone ==
    ASSUME NEW m, NEW t \in Block, NEW bad, Matches(m, t, bad)
    PROVE  Disconnecting(m, t, Len(Burns[t]), bad)
<1>1. Len(Burns[t]) \in Nat
    BY EntryFacts
<1>2. Len(Burns[t]) + 1 .. Len(Burns[t]) = {}
    BY SMT, <1>1
<1> QED
    BY <1>2 DEF Matches, Disconnecting

LEMMA DisconnectingOne ==
    ASSUME NEW m \in [Entry -> Nat], NEW t \in Block, NEW bad,
           NEW n \in 1 .. Len(Burns[t]), Disconnecting(m, t, n, bad)
    PROVE  /\ RemoveBurnFromCache(m, EntryOf(t, n)) \in [Entry -> Nat]
           /\ Disconnecting(RemoveBurnFromCache(m, EntryOf(t, n)), t, n - 1, bad)
<1> DEFINE x == EntryOf(t, n)
           w == RemoveBurnFromCache(m, x)
<1>1. x \in Entry
    BY EntryFacts
<1>2. w \in [Entry -> Nat] /\ \A e \in Entry : w[e] = IF e = x THEN 0 ELSE m[e]
  <2> HIDE DEF x
  <2> QED
      BY SMT, <1>1 DEF RemoveBurnFromCache
<1>3. n - 1 + 1 .. Len(Burns[t]) = {n} \cup (n + 1 .. Len(Burns[t]))
  <2>1. Len(Burns[t]) \in Nat
      BY EntryFacts
  <2> QED
      BY SMT, <2>1
<1>4. ASSUME NEW e \in Entry, e \notin bad
      PROVE  w[e] = IF \E i \in n - 1 + 1 .. Len(Burns[t]) : EntryOf(t, i) = e
                    THEN 0 ELSE Replayed(t)[e]
  <2>1. m[e] = IF \E i \in n + 1 .. Len(Burns[t]) : EntryOf(t, i) = e
               THEN 0 ELSE Replayed(t)[e]
      BY <1>4 DEF Disconnecting
  <2>2. (\E i \in n - 1 + 1 .. Len(Burns[t]) : EntryOf(t, i) = e)
            <=> (x = e \/ \E i \in n + 1 .. Len(Burns[t]) : EntryOf(t, i) = e)
      BY <1>3
  <2> HIDE DEF x, w
  <2> QED
      BY <1>2, <2>1, <2>2
<1> QED
    BY <1>2, <1>4 DEF Disconnecting

LEMMA DisconnectingAll ==
    ASSUME NEW m, NEW t \in Block \ {Genesis}, NEW bad, Disconnecting(m, t, 0, bad)
    PROVE  Matches(m, Parent[t], bad)
<1>1. 0 + 1 = 1 /\ Len(Burns[t]) \in Nat
    BY SMT, EntryFacts
<1>2. ASSUME NEW e \in Entry, e \notin bad PROVE m[e] = Replayed(Parent[t])[e]
  <2>1. m[e] = IF \E i \in 1 .. Len(Burns[t]) : EntryOf(t, i) = e THEN 0 ELSE Replayed(t)[e]
      BY <1>1, <1>2 DEF Disconnecting
  <2>2. CASE \E i \in 1 .. Len(Burns[t]) : EntryOf(t, i) = e
    <3>1. e.height = Height[t]
        BY <2>2, EntryFacts
    <3> QED
        BY <2>1, <2>2, <3>1, ParentMisses
  <2>3. CASE ~ \E i \in 1 .. Len(Burns[t]) : EntryOf(t, i) = e
    <3>1. AmongFirst(t, Len(Burns[t]), e) = 0
        BY <2>3, AmongNone
    <3>2. m[e] = Replayed(t)[e]
        BY <2>1, <2>3
    <3>3. Replayed(t)[e] = IF e.height = Height[t] THEN 0 ELSE Replayed(Parent[t])[e]
        BY <3>1, ReplayedStep
    <3>4. e.height = Height[t] => Replayed(Parent[t])[e] = 0
        BY ParentMisses
    <3> QED
        BY <3>2, <3>3, <3>4
  <2> QED
      BY <2>2, <2>3
<1> QED
    BY <1>2 DEF Matches

(* A complete VerifyDB puts back what it takes out of m when it goes    *)
(* from t down to s.                                                       *)
Verified(m, t, s) ==
    LET checked == BurnsOf(Chain[t] \ Chain[s])
        removed == [e \in Entry |-> IF checked[e] > 0 THEN 0 ELSE m[e]]
    IN  [e \in Entry |-> removed[e] + checked[e]]

LEMMA VerifyKeeps ==
    ASSUME NEW m \in [Entry -> Nat], NEW t \in Block, NEW s \in Chain[t], NEW bad,
           Matches(m, t, bad)
    PROVE  Verified(m, t, s) \in [Entry -> Nat] /\ Matches(Verified(m, t, s), t, bad)
<1> DEFINE checked == BurnsOf(Chain[t] \ Chain[s])
           w == Verified(m, t, s)
<1>0. w = [e \in Entry |-> (IF checked[e] > 0 THEN 0 ELSE m[e]) + checked[e]]
    BY DEF Verified
<1>1. checked \in [Entry -> Nat]
  <2>1. Chain[t] \ Chain[s] \in SUBSET Chain[t]
      OBVIOUS
  <2> QED
      BY <2>1, BurnsType
<1>2. ASSUME NEW e \in Entry PROVE checked[e] = Replayed(t)[e] \/ checked[e] = 0
  <2>1. e.height \in Nat /\ Height[s] \in Nat
      BY EntryFacts, ChainFacts
  <2>2. e.height > Height[s] \/ e.height <= Height[s]
      BY SMT, <2>1
  <2> QED
      BY <2>2, ReplayedSuffix
<1> HIDE DEF checked, w
<1>3. w \in [Entry -> Nat]
    BY SMT, <1>0, <1>1
<1>4. ASSUME NEW e \in Entry, e \notin bad PROVE w[e] = Replayed(t)[e]
  <2>1. /\ w[e] = (IF checked[e] > 0 THEN 0 ELSE m[e]) + checked[e]
        /\ m[e] = Replayed(t)[e] /\ m[e] \in Nat /\ checked[e] \in Nat
      BY <1>0, <1>1, <1>4 DEF Matches
  <2>2. checked[e] = Replayed(t)[e] \/ checked[e] = 0
      BY <1>2
  <2> QED
      BY SMT, <2>1, <2>2
<1> QED
    BY <1>3, <1>4 DEF Matches, w

(* When it is stopped it leaves out what it took out.                      *)
Unverified(m, t, s) ==
    LET checked == BurnsOf(Chain[t] \ Chain[s])
    IN  [e \in Entry |-> IF checked[e] > 0 THEN 0 ELSE m[e]]

Checked(t, s) == {e \in Entry : BurnsOf(Chain[t] \ Chain[s])[e] > 0}

LEMMA StoppedSpoils ==
    ASSUME NEW m \in [Entry -> Nat], NEW t, NEW s, NEW bad, Matches(m, t, bad)
    PROVE  /\ Unverified(m, t, s) \in [Entry -> Nat]
           /\ Matches(Unverified(m, t, s), t, bad \cup Checked(t, s))
<1> DEFINE w == Unverified(m, t, s)
<1>1. w = [e \in Entry |-> IF e \in Checked(t, s) THEN 0 ELSE m[e]]
    BY DEF Unverified, Checked
<1> HIDE DEF w
<1>2. w \in [Entry -> Nat]
    BY SMT, <1>1
<1>3. \A e \in Entry : e \notin Checked(t, s) => w[e] = m[e]
    BY <1>1
<1> QED
    BY <1>2, <1>3 DEF Matches, w

-----------------------------------------------------------------------------
(* The steps *)

Ops == {"idle", "connect", "disconnect", "flush", "flushed"}

LEMMA FieldTypes ==
    ASSUME TypeOK
    PROVE  /\ tip \in Block /\ dbTip \in Block /\ burns \in [Entry -> Nat]
           /\ disk.tag \in Block /\ disk.burns \in [Entry -> Nat] /\ disk.spoiled \in SUBSET Entry
           /\ work.op \in Ops /\ work.block \in Block /\ work.done \in Nat
           /\ spoiled \in SUBSET Entry /\ failed \in SUBSET Bad /\ failedDb \in SUBSET Bad
           /\ crashes \in 0 .. MaxCrash
BY DEF TypeOK, Ops, Saved

(* A new step under way and a newly saved cache have their types.          *)
LEMMA RecordTypes ==
    ASSUME NEW o \in Ops, NEW b \in Block, NEW n \in Nat, NEW m \in [Entry -> Nat],
           NEW bad \in SUBSET Entry
    PROVE  /\ [op |-> o, block |-> b, done |-> n] \in [op : Ops, block : Block, done : Nat]
           /\ [tag |-> b, burns |-> m, spoiled |-> bad] \in Saved
BY DEF Saved

LEMMA IdleFacts ==
    /\ Idle.op = "idle" /\ Idle \in [op : Ops, block : Block, done : Nat]
<1>1. Genesis \in Block /\ 0 \in Nat /\ "idle" \in Ops
    BY SMT, BurnAssumption DEF Ops
<1>2. Idle.op = "idle"
    BY SMT DEF Idle
<1> QED
    BY <1>1, <1>2 DEF Idle

LEMMA BeginConnectInv ==
    ASSUME BurnInv, NEW b \in Block, BeginConnect(b)
    PROVE  BurnInv'
<1>0. TypeOK /\ MemorySound /\ CoinsBehind /\ DiskSound
    BY DEF BurnInv
<1>1. /\ work = Idle /\ b # Genesis /\ Parent[b] = tip
      /\ work' = [op |-> "connect", block |-> b, done |-> 0]
      /\ UNCHANGED <<tip, burns, disk, dbTip, spoiled, failed, failedDb, crashes>>
    BY DEF BeginConnect
<1>2. work.op = "idle"
    BY <1>1, IdleFacts
<1>3. work'.op = "connect" /\ work'.block = b /\ work'.done = 0
    BY SMT, <1>1
<1>4. 0 \in Nat /\ "connect" \in Ops
    BY SMT DEF Ops
<1>5. work' \in [op : Ops, block : Block, done : Nat]
    BY <1>1, <1>4, RecordTypes
<1>6. TypeOK'
    BY <1>0, <1>1, <1>5 DEF TypeOK, Ops, Saved
<1>7. MemorySound'
  <2>1. Connecting(burns, b, 0, spoiled)
    <3>1. Matches(burns, Parent[b], spoiled)
        BY <1>0, <1>1, <1>2 DEF MemorySound
    <3> QED
        BY <1>1, <3>1, ConnectingNone
  <2>2. 0 \in 0 .. Reached(b)
    <3>1. Reached(b) \in Nat
      <4>1. Len(Burns[b]) \in Nat
          BY EntryFacts
      <4>2. b \in Bad => FailsAfter[b] \in 0 .. Len(Burns[b])
          BY BurnAssumption
      <4>3. b \in Bad => FailsAfter[b] \in Nat
          BY SMT, <4>1, <4>2
      <4> QED
          BY <4>1, <4>3 DEF Reached
    <3> QED
        BY SMT, <3>1
  <2>3. Connecting(burns, b, 0, spoiled)'
      BY <1>1, <2>1 DEF Connecting, Replayed
  <2> QED
      BY <1>1, <1>3, <2>2, <2>3 DEF MemorySound
<1>8. CoinsBehind'
    BY <1>0, <1>1, <1>2, <1>3 DEF CoinsBehind
<1>9. DiskSound'
    BY <1>0, <1>1, <1>2, <1>3 DEF DiskSound, SavedRight, SavedExact
<1> QED
    BY <1>6, <1>7, <1>8, <1>9 DEF BurnInv

LEMMA ReachedType ==
    ASSUME NEW b \in Block
    PROVE  Reached(b) \in Nat /\ Len(Burns[b]) \in Nat /\ Reached(b) <= Len(Burns[b])
<1>1. Len(Burns[b]) \in Nat
    BY EntryFacts
<1>2. b \in Bad => FailsAfter[b] \in 0 .. Len(Burns[b])
    BY BurnAssumption
<1> QED
    BY SMT, <1>1, <1>2 DEF Reached

LEMMA ChainTransitive ==
    ASSUME NEW t \in Block, NEW s \in Chain[t], NEW b \in Chain[s]
    PROVE  b \in Chain[t] /\ s \in Block /\ b \in Block
<1>1. s \in Block
    BY ChainFacts
<1>2. b \in Block
    BY <1>1, ChainFacts
<1> QED
    BY <1>1, <1>2, ChainPrefix

LEMMA CountBurnInv ==
    ASSUME BurnInv, CountBurn
    PROVE  BurnInv'
<1>0. TypeOK /\ MemorySound /\ CoinsBehind
    BY DEF BurnInv
<1> DEFINE b == work.block
           n == work.done
<1>1. /\ work.op = "connect" /\ n < Reached(b)
      /\ burns' = [burns EXCEPT ![EntryOf(b, n + 1)] = @ + 1]
      /\ disk' = [tag |-> b, burns |-> burns', spoiled |-> spoiled]
      /\ work' = [work EXCEPT !.done = @ + 1]
      /\ tip' = tip /\ dbTip' = dbTip /\ spoiled' = spoiled /\ failed' = failed
      /\ failedDb' = failedDb /\ crashes' = crashes
    BY DEF CountBurn, AddBurnToCache
<1>2. /\ tip \in Block /\ dbTip \in Block /\ burns \in [Entry -> Nat]
      /\ b \in Block /\ n \in Nat /\ spoiled \in SUBSET Entry /\ work \in [op : Ops, block : Block, done : Nat]
    BY <1>0, FieldTypes DEF TypeOK, Ops, Saved
<1>3. /\ b # Genesis /\ Parent[b] = tip /\ Connecting(burns, b, n, spoiled)
    BY <1>0, <1>1 DEF MemorySound
<1>4. work'.op = "connect" /\ work'.block = b /\ work'.done = n + 1
    BY SMT, <1>1, <1>2
<1>5. n + 1 \in Nat /\ n + 1 \in 0 .. Reached(b) /\ n < Len(Burns[b])
  <2>1. Reached(b) \in Nat /\ Len(Burns[b]) \in Nat /\ Reached(b) <= Len(Burns[b])
      BY <1>2, ReachedType
  <2> HIDE DEF b, n
  <2> QED
      BY SMT, <1>1, <1>2, <2>1
<1>6. work' \in [op : Ops, block : Block, done : Nat]
    BY <1>1, <1>2, <1>5
<1> HIDE DEF b, n
<1>7. burns' \in [Entry -> Nat] /\ Connecting(burns', b, n + 1, spoiled)
  <2>1. b \in Block \ {Genesis}
      BY <1>2, <1>3
  <2> QED
      BY <1>1, <1>2, <1>3, <1>5, <2>1, ConnectingOne
<1>8. TypeOK'
  <2>1. disk' \in Saved
      BY <1>1, <1>2, <1>7 DEF Saved
  <2> QED
      BY <1>0, <1>1, <1>2, <1>6, <1>7, <2>1 DEF TypeOK, Ops, Saved
<1>9. MemorySound'
    BY <1>1, <1>3, <1>4, <1>5, <1>7 DEF MemorySound
<1>10. CoinsBehind'
    BY <1>0, <1>1, <1>4 DEF CoinsBehind
<1>11. DiskSound'
  <2>1. disk'.tag = b
      BY SMT, <1>1
  <2>2. dbTip \in Chain[tip]
      BY <1>0, <1>1 DEF CoinsBehind
  <2>3. b \notin Chain[tip]
      BY <1>2, <1>3, ChainFacts
  <2>4. b \notin Chain[dbTip]
      BY <1>2, <2>2, <2>3, ChainTransitive
  <2> QED
      BY <1>1, <2>1, <2>4 DEF DiskSound, SavedRight, SavedExact
<1> QED
    BY <1>8, <1>9, <1>10, <1>11 DEF BurnInv

(* A step that ends with cs_main free: memory matches the new tip.         *)
LEMMA EndsIdle ==
    ASSUME BurnInv, work' = Idle, burns' \in [Entry -> Nat], tip' \in Block,
           spoiled' \in SUBSET Entry, failed' \in SUBSET Bad,
           UNCHANGED <<disk, dbTip, failedDb, crashes>>,
           Matches(burns', tip', spoiled'), dbTip \in Chain[tip']
    PROVE  BurnInv'
<1>0. TypeOK /\ DiskSound
    BY DEF BurnInv
<1>1. work'.op = "idle" /\ work' \in [op : Ops, block : Block, done : Nat]
    BY IdleFacts
<1>2. TypeOK'
    BY <1>0, <1>1 DEF TypeOK, Ops
<1>3. MemorySound'
    BY <1>1 DEF MemorySound
<1>4. CoinsBehind'
    BY <1>1 DEF CoinsBehind
<1>5. DiskSound'
    BY <1>0 DEF DiskSound, SavedRight, SavedExact
<1> QED
    BY <1>2, <1>3, <1>4, <1>5 DEF BurnInv

LEMMA RejectInv ==
    ASSUME BurnInv, Reject
    PROVE  BurnInv'
<1>0. TypeOK /\ MemorySound /\ CoinsBehind
    BY DEF BurnInv
<1> DEFINE b == work.block
           n == work.done
           left == {EntryOf(b, i) : i \in 1 .. n}
<1>1. /\ work.op = "connect" /\ b \in Bad /\ n = Reached(b) /\ work' = Idle
      /\ spoiled' = spoiled \cup left /\ failed' = failed \cup {b}
      /\ tip' = tip /\ burns' = burns /\ UNCHANGED <<disk, dbTip, failedDb, crashes>>
    BY DEF Reject
<1>2. /\ tip \in Block /\ burns \in [Entry -> Nat] /\ b \in Block /\ n \in Nat
      /\ spoiled \in SUBSET Entry /\ failed \in SUBSET Bad
    BY <1>0, FieldTypes
<1>3. /\ b # Genesis /\ Parent[b] = tip
      /\ Connecting(burns, b, n, spoiled) /\ dbTip \in Chain[tip]
    BY <1>0, <1>1 DEF MemorySound, CoinsBehind
<1>4. Reached(b) \in Nat /\ Len(Burns[b]) \in Nat /\ Reached(b) <= Len(Burns[b])
    BY <1>2, ReachedType
<1> HIDE DEF b, n
<1>5. left \in SUBSET Entry
  <2>1. \A i \in 1 .. n : i \in 1 .. Len(Burns[b])
      BY SMT, <1>1, <1>4
  <2> QED
      BY <1>2, <2>1, EntryFacts
<1>6. Matches(burns, tip, spoiled')
  <2>1. ASSUME NEW e \in Entry, e \notin spoiled' PROVE burns[e] = Replayed(tip)[e]
    <3>1. e \notin spoiled /\ ~ \E i \in 1 .. n : EntryOf(b, i) = e
        BY <1>1, <2>1
    <3>2. burns[e] = IF e.height = Height[b] THEN AmongFirst(b, n, e) ELSE Replayed(tip)[e]
        BY <1>3, <3>1 DEF Connecting
    <3>3. AmongFirst(b, n, e) = 0
        BY <3>1, AmongNone
    <3>4. e.height = Height[b] => Replayed(tip)[e] = 0
        BY <1>2, <1>3, ParentMisses
    <3> QED
        BY <3>2, <3>3, <3>4
  <2> QED
      BY <2>1 DEF Matches
<1>7. spoiled' \in SUBSET Entry /\ failed' \in SUBSET Bad
    BY <1>1, <1>2, <1>5
<1> HIDE DEF left
<1>8. Matches(burns', tip', spoiled') /\ dbTip \in Chain[tip'] /\ tip' \in Block
      /\ burns' \in [Entry -> Nat]
    BY <1>1, <1>2, <1>3, <1>6
<1> QED
    BY <1>1, <1>7, <1>8, EndsIdle

(* A block whose burns were all counted.                                   *)
LEMMA CountedFacts ==
    ASSUME BurnInv, Counted
    PROVE  /\ work.block \in Block /\ work.block # Genesis /\ Parent[work.block] = tip
           /\ tip \in Chain[work.block] /\ dbTip \in Chain[tip] /\ dbTip \in Chain[work.block]
           /\ Matches(burns, work.block, spoiled)
<1>0. TypeOK /\ MemorySound /\ CoinsBehind
    BY DEF BurnInv
<1>1. /\ work.op = "connect" /\ work.block \notin Bad /\ work.done = Len(Burns[work.block])
    BY DEF Counted, Reached
<1>2. /\ work.block \in Block /\ work.block # Genesis /\ Parent[work.block] = tip
      /\ Connecting(burns, work.block, Len(Burns[work.block]), spoiled) /\ dbTip \in Chain[tip]
    BY <1>0, <1>1, FieldTypes DEF MemorySound, CoinsBehind
<1>3. tip \in Chain[work.block]
    BY <1>2, ChainFacts
<1>4. dbTip \in Chain[work.block]
    BY <1>2, <1>3, ChainTransitive
<1>5. Matches(burns, work.block, spoiled)
    BY <1>2, ConnectingAll
<1> QED
    BY <1>2, <1>3, <1>4, <1>5

LEMMA ConnectTipInv ==
    ASSUME BurnInv, ConnectTip
    PROVE  BurnInv'
<1>1. /\ Counted /\ work.op = "connect" /\ tip' = work.block /\ work' = Idle
      /\ UNCHANGED <<burns, disk, dbTip, spoiled, failed, failedDb, crashes>>
    BY DEF ConnectTip, Counted
<1>2. /\ work.block \in Block /\ dbTip \in Chain[work.block]
      /\ Matches(burns, work.block, spoiled)
    BY <1>1, CountedFacts
<1>3. burns \in [Entry -> Nat]
    BY FieldTypes DEF BurnInv
<1>4. spoiled' \in SUBSET Entry /\ failed' \in SUBSET Bad
    BY <1>1, FieldTypes DEF BurnInv
<1>5. /\ Matches(burns', tip', spoiled') /\ dbTip \in Chain[tip'] /\ tip' \in Block
      /\ burns' \in [Entry -> Nat] /\ UNCHANGED <<disk, dbTip, failedDb, crashes>>
    BY <1>1, <1>2, <1>3
<1> QED
    BY <1>1, <1>4, <1>5, EndsIdle

LEMMA BeginDisconnectInv ==
    ASSUME BurnInv, BeginDisconnect
    PROVE  BurnInv'
<1>0. TypeOK /\ MemorySound /\ CoinsBehind /\ DiskSound
    BY DEF BurnInv
<1>1. /\ work = Idle /\ tip # Genesis
      /\ work' = [op |-> "disconnect", block |-> Parent[tip], done |-> Len(Burns[tip])]
      /\ UNCHANGED <<tip, burns, disk, dbTip, spoiled, failed, failedDb, crashes>>
    BY DEF BeginDisconnect
<1>2. work.op = "idle" /\ tip \in Block
    BY <1>0, <1>1, IdleFacts, FieldTypes
<1>3. work'.op = "disconnect" /\ work'.block = Parent[tip] /\ work'.done = Len(Burns[tip])
    BY SMT, <1>1
<1>4. Parent[tip] \in Block /\ Len(Burns[tip]) \in Nat /\ "disconnect" \in Ops
    BY <1>2, BurnAssumption, EntryFacts DEF Ops
<1>5. work' \in [op : Ops, block : Block, done : Nat]
    BY <1>1, <1>4, RecordTypes
<1>6. TypeOK'
    BY <1>0, <1>1, <1>5 DEF TypeOK, Ops, Saved
<1>7. MemorySound'
  <2>1. Disconnecting(burns, tip, Len(Burns[tip]), spoiled)
    <3>1. Matches(burns, tip, spoiled)
        BY <1>0, <1>2 DEF MemorySound
    <3> QED
        BY <1>2, <3>1, DisconnectingNone
  <2>2. Len(Burns[tip]) \in 0 .. Len(Burns[tip])
      BY SMT, <1>4
  <2> QED
      BY <1>1, <1>3, <2>1, <2>2 DEF MemorySound
<1>8. CoinsBehind'
    BY <1>0, <1>1, <1>2, <1>3 DEF CoinsBehind
<1>9. DiskSound'
    BY <1>0, <1>1, <1>2, <1>3 DEF DiskSound, SavedRight, SavedExact
<1> QED
    BY <1>6, <1>7, <1>8, <1>9 DEF BurnInv

LEMMA UncountBurnInv ==
    ASSUME BurnInv, UncountBurn
    PROVE  BurnInv'
<1>0. TypeOK /\ MemorySound /\ CoinsBehind
    BY DEF BurnInv
<1> DEFINE n == work.done
<1>1. /\ work.op = "disconnect" /\ n > 0
      /\ burns' = RemoveBurnFromCache(burns, EntryOf(tip, n))
      /\ disk' = [tag |-> Parent[tip], burns |-> burns', spoiled |-> spoiled]
      /\ work' = [work EXCEPT !.done = @ - 1]
      /\ tip' = tip /\ dbTip' = dbTip /\ spoiled' = spoiled /\ failed' = failed
      /\ failedDb' = failedDb /\ crashes' = crashes
    BY DEF UncountBurn
<1>2. /\ tip \in Block /\ dbTip \in Block /\ burns \in [Entry -> Nat]
      /\ n \in Nat /\ spoiled \in SUBSET Entry /\ work \in [op : Ops, block : Block, done : Nat]
      /\ Len(Burns[tip]) \in Nat
    BY <1>0, FieldTypes, EntryFacts DEF TypeOK, Ops, Saved
<1>3. /\ tip # Genesis /\ work.block = Parent[tip] /\ n \in 0 .. Len(Burns[tip])
      /\ Disconnecting(burns, tip, n, spoiled)
    BY <1>0, <1>1 DEF MemorySound
<1>4. work'.op = "disconnect" /\ work'.block = Parent[tip] /\ work'.done = n - 1
    BY SMT, <1>1, <1>2, <1>3
<1>5. n \in 1 .. Len(Burns[tip]) /\ n - 1 \in 0 .. Len(Burns[tip]) /\ n - 1 \in Nat
  <2> HIDE DEF n
  <2> QED
      BY SMT, <1>1, <1>2, <1>3
<1>6. work' \in [op : Ops, block : Block, done : Nat]
    BY <1>1, <1>2, <1>5
<1> HIDE DEF n
<1>7. burns' \in [Entry -> Nat] /\ Disconnecting(burns', tip, n - 1, spoiled)
    BY <1>1, <1>2, <1>3, <1>5, DisconnectingOne
<1>8. /\ Parent[tip] \in Block /\ Parent[tip] \in Chain[tip] /\ Height[Parent[tip]] \in Nat
      /\ Height[tip] = Height[Parent[tip]] + 1
  <2>1. Parent[tip] \in Block
      BY <1>2, BurnAssumption
  <2> QED
      BY <1>2, <1>3, <2>1, ChainFacts
<1>9. TypeOK'
  <2>1. disk' \in Saved
      BY <1>1, <1>2, <1>7, <1>8 DEF Saved
  <2> QED
      BY <1>0, <1>1, <1>2, <1>6, <1>7, <2>1 DEF TypeOK, Ops, Saved
<1>10. MemorySound'
    BY <1>1, <1>3, <1>4, <1>5, <1>7 DEF MemorySound
<1>11. CoinsBehind'
    BY <1>0, <1>1, <1>4 DEF CoinsBehind
<1>12. DiskSound'
  <2>1. disk'.tag = Parent[tip] /\ disk'.burns = burns' /\ disk'.spoiled = spoiled
      BY SMT, <1>1
  <2>2. ASSUME NEW e \in Entry, e \notin spoiled, e.height <= Height[Parent[tip]]
        PROVE  burns'[e] = Replayed(Parent[tip])[e]
    <3>1. e.height # Height[tip]
        BY SMT, <1>8, <2>2, EntryFacts
    <3>2. \A i : EntryOf(tip, i) # e
        BY <3>1, EntryFacts
    <3>3. burns'[e] = Replayed(tip)[e]
        BY <1>7, <2>2, <3>2 DEF Disconnecting
    <3>4. Replayed(tip)[e] = Replayed(Parent[tip])[e]
        BY <1>2, <1>8, <2>2, ReplayedBelow
    <3> QED
        BY <3>3, <3>4
  <2> QED
      BY <2>1, <2>2 DEF DiskSound, SavedRight, SavedExact
<1> QED
    BY <1>9, <1>10, <1>11, <1>12 DEF BurnInv

(* A cache that matches a chain may be saved with any block of the chain.  *)
LEMMA SaveMatching ==
    ASSUME NEW b \in Block, NEW s \in Chain[b], NEW m, NEW bad, Matches(m, b, bad),
           NEW saved, saved.tag = s, saved.burns = m, bad \subseteq saved.spoiled
    PROVE  SavedExact(saved)
<1>1. ASSUME NEW e \in Entry, e \notin bad, e.height <= Height[s]
      PROVE  m[e] = Replayed(s)[e]
  <2>1. m[e] = Replayed(b)[e]
      BY <1>1 DEF Matches
  <2>2. Replayed(b)[e] = Replayed(s)[e]
      BY <1>1, ReplayedBelow
  <2> QED
      BY <2>1, <2>2
<1> QED
    BY <1>1 DEF SavedExact

(* A cache that matches the chain of the parent of t may be saved with t   *)
(* if the burns of t count as spoiled.                                     *)
LEMMA SaveTorn ==
    ASSUME NEW t \in Block \ {Genesis}, NEW m, NEW bad, Matches(m, Parent[t], bad),
           NEW saved, saved.tag = t, saved.burns = m, saved.spoiled = bad \cup EntriesOf(t)
    PROVE  SavedExact(saved)
<1>1. ASSUME NEW e \in Entry, e \notin bad, e \notin EntriesOf(t)
      PROVE  m[e] = Replayed(t)[e]
  <2>1. m[e] = Replayed(Parent[t])[e]
      BY <1>1 DEF Matches
  <2>2. ~ \E i \in 1 .. Len(Burns[t]) : EntryOf(t, i) = e
      BY <1>1, EntryFacts DEF EntriesOf
  <2>3. AmongFirst(t, Len(Burns[t]), e) = 0
      BY <2>2, AmongNone
  <2>4. e.height = Height[t] => Replayed(Parent[t])[e] = 0
      BY ParentMisses
  <2>5. Replayed(t)[e] = IF e.height = Height[t] THEN 0 ELSE Replayed(Parent[t])[e]
      BY <2>3, ReplayedStep
  <2> QED
      BY <2>1, <2>4, <2>5
<1> QED
    BY <1>1 DEF SavedExact

(* The block whose coins a due flush writes.                               *)
FlushTarget == IF work = Idle THEN tip ELSE work.block

LEMMA FlushDueFacts ==
    ASSUME BurnInv, FlushDue
    PROVE  /\ FlushTarget \in Block /\ Matches(burns, FlushTarget, spoiled)
           /\ dbTip \in Chain[tip]
           /\ work.op # "disconnect" => tip \in Chain[FlushTarget]
           /\ work.op = "disconnect" => tip # Genesis /\ FlushTarget = Parent[tip]
<1>0. TypeOK /\ MemorySound /\ CoinsBehind
    BY DEF BurnInv
<1>1. tip \in Block /\ work.block \in Block
    BY <1>0, FieldTypes
<1>2. CASE work = Idle
  <2>1. work.op = "idle" /\ FlushTarget = tip
      BY <1>2, IdleFacts DEF FlushTarget
  <2>2. Matches(burns, tip, spoiled) /\ dbTip \in Chain[tip]
      BY <1>0, <2>1 DEF MemorySound, CoinsBehind
  <2>3. tip \in Chain[tip]
      BY <1>1, ChainFacts
  <2> QED
      BY <1>1, <2>1, <2>2, <2>3
<1>3. CASE Counted
  <2>1. work.op = "connect"
      BY <1>3 DEF Counted
  <2>2. FlushTarget = work.block
      BY <2>1, IdleFacts DEF FlushTarget
  <2>3. /\ Matches(burns, work.block, spoiled) /\ dbTip \in Chain[tip]
        /\ tip \in Chain[work.block]
      BY <1>3, CountedFacts
  <2> QED
      BY <1>1, <2>1, <2>2, <2>3
<1>4. CASE work.op = "disconnect" /\ work.done = 0
  <2>1. FlushTarget = work.block
      BY <1>4, IdleFacts DEF FlushTarget
  <2>2. /\ tip # Genesis /\ work.block = Parent[tip] /\ dbTip \in Chain[tip]
        /\ Disconnecting(burns, tip, 0, spoiled)
      BY <1>0, <1>4 DEF MemorySound, CoinsBehind
  <2>3. Matches(burns, Parent[tip], spoiled)
      BY <1>1, <2>2, DisconnectingAll
  <2> QED
      BY <1>1, <1>4, <2>1, <2>2, <2>3
<1> QED
    BY <1>2, <1>3, <1>4 DEF FlushDue

LEMMA FlushIndexInv ==
    ASSUME BurnInv, FlushIndex
    PROVE  BurnInv'
<1>0. TypeOK
    BY DEF BurnInv
<1> DEFINE b == FlushTarget
           bad == spoiled \cup (IF work.op = "disconnect" THEN EntriesOf(tip) ELSE {})
<1>1. /\ FlushDue
      /\ disk' = [tag |-> tip, burns |-> burns, spoiled |-> bad]
      /\ work' = [op |-> "flush", block |-> b, done |-> 0]
      /\ tip' = tip /\ burns' = burns /\ dbTip' = dbTip /\ spoiled' = spoiled
      /\ failed' = failed /\ failedDb' = failed /\ crashes' = crashes
    BY DEF FlushIndex, FlushTarget
<1>2. /\ b \in Block /\ Matches(burns, b, spoiled) /\ dbTip \in Chain[tip]
      /\ work.op # "disconnect" => tip \in Chain[b]
      /\ work.op = "disconnect" => tip # Genesis /\ b = Parent[tip]
    BY <1>1, FlushDueFacts
<1>3. /\ work.op = "disconnect" => bad = spoiled \cup EntriesOf(tip)
      /\ spoiled \subseteq bad
    OBVIOUS
<1>4. tip \in Block /\ burns \in [Entry -> Nat] /\ bad \in SUBSET Entry
  <2>1. tip \in Block /\ burns \in [Entry -> Nat] /\ spoiled \in SUBSET Entry
      BY <1>0, FieldTypes
  <2>2. EntriesOf(tip) \subseteq Entry
      BY <2>1, EntryFacts DEF EntriesOf
  <2> QED
      BY <2>1, <2>2
<1> HIDE DEF b, bad
<1>5. work'.op = "flush" /\ work'.block = b
    BY SMT, <1>1
<1>6. disk'.tag = tip /\ disk'.burns = burns /\ disk'.spoiled = bad
    BY SMT, <1>1
<1>7. TypeOK'
  <2>1. /\ work' \in [op : Ops, block : Block, done : Nat]
        /\ disk' \in Saved
    <3>1. 0 \in Nat /\ "flush" \in Ops
        BY SMT DEF Ops
    <3> QED
        BY <1>1, <1>2, <1>4, <3>1, RecordTypes
  <2> QED
      BY <1>0, <1>1, <2>1 DEF TypeOK, Ops, Saved
<1>8. MemorySound'
    BY <1>1, <1>2, <1>5 DEF MemorySound
<1>9. SavedExact(disk')
  <2>1. CASE work.op = "disconnect"
    <3>1. tip \in Block \ {Genesis} /\ Matches(burns, Parent[tip], spoiled)
        BY <1>2, <1>4, <2>1
    <3> QED
        BY <1>3, <1>6, <2>1, <3>1, SaveTorn
  <2>2. CASE work.op # "disconnect"
    <3>1. tip \in Chain[b]
        BY <1>2, <2>2
    <3> QED
        BY <1>2, <1>3, <1>6, <3>1, SaveMatching
  <2> QED
      BY <2>1, <2>2
<1>10. CoinsBehind'
  <2>1. SavedExact(disk)'
      BY <1>9 DEF SavedExact
  <2> QED
      BY <1>1, <1>2, <1>5, <2>1 DEF CoinsBehind
<1>11. DiskSound'
    BY <1>9 DEF DiskSound, SavedRight, SavedExact
<1> QED
    BY <1>7, <1>8, <1>10, <1>11 DEF BurnInv

LEMMA FlushCoinsInv ==
    ASSUME BurnInv, FlushCoins
    PROVE  BurnInv'
<1>0. TypeOK /\ MemorySound /\ CoinsBehind
    BY DEF BurnInv
<1>1. /\ work.op = "flush" /\ dbTip' = work.block
      /\ work' = [work EXCEPT !.op = "flushed"]
      /\ tip' = tip /\ burns' = burns /\ disk' = disk /\ spoiled' = spoiled
      /\ failed' = failed /\ failedDb' = failedDb /\ crashes' = crashes
    BY DEF FlushCoins
<1>2. /\ work \in [op : Ops, block : Block, done : Nat] /\ work.block \in Block
    BY <1>0, FieldTypes DEF TypeOK, Ops
<1>3. work'.op = "flushed" /\ work'.block = work.block
    BY SMT, <1>1, <1>2
<1>4. Matches(burns, work.block, spoiled)
    BY <1>0, <1>1 DEF MemorySound
<1>5. SavedExact(disk)
    BY <1>0, <1>1 DEF CoinsBehind
<1>6. TypeOK'
  <2>1. work' \in [op : Ops, block : Block, done : Nat]
    <3>1. "flushed" \in Ops
        BY DEF Ops
    <3> QED
        BY <1>1, <1>2, <3>1
  <2> QED
      BY <1>0, <1>1, <1>2, <2>1 DEF TypeOK, Ops
<1>7. MemorySound'
    BY <1>1, <1>3, <1>4 DEF MemorySound
<1>8. CoinsBehind'
  <2>1. work.block \in Chain[work.block]
      BY <1>2, ChainFacts
  <2> QED
      BY <1>1, <1>3, <2>1 DEF CoinsBehind
<1>9. DiskSound'
    BY <1>1, <1>5 DEF DiskSound, SavedRight, SavedExact
<1> QED
    BY <1>6, <1>7, <1>8, <1>9 DEF BurnInv

LEMMA PeriodicWriteInv ==
    ASSUME BurnInv, PeriodicWrite
    PROVE  BurnInv'
<1>0. TypeOK /\ MemorySound /\ CoinsBehind
    BY DEF BurnInv
<1>1. /\ work.op = "flush" /\ work.block = tip /\ work' = Idle
      /\ UNCHANGED <<tip, burns, disk, dbTip, spoiled, failed, failedDb, crashes>>
    BY DEF PeriodicWrite
<1>2. tip \in Block /\ burns \in [Entry -> Nat]
    BY <1>0, FieldTypes
<1>3. Matches(burns, tip, spoiled) /\ dbTip \in Chain[tip]
    BY <1>0, <1>1 DEF MemorySound, CoinsBehind
<1>4. spoiled' \in SUBSET Entry /\ failed' \in SUBSET Bad
    BY <1>1, FieldTypes DEF BurnInv
<1>5. /\ Matches(burns', tip', spoiled') /\ dbTip \in Chain[tip'] /\ tip' \in Block
      /\ burns' \in [Entry -> Nat] /\ UNCHANGED <<disk, dbTip, failedDb, crashes>>
    BY <1>1, <1>2, <1>3
<1> QED
    BY <1>1, <1>4, <1>5, EndsIdle

LEMMA UpdateTipInv ==
    ASSUME BurnInv, UpdateTip
    PROVE  BurnInv'
<1>0. TypeOK /\ MemorySound /\ CoinsBehind
    BY DEF BurnInv
<1>1. /\ work.op = "flushed" /\ tip' = work.block /\ work' = Idle
      /\ UNCHANGED <<burns, disk, dbTip, spoiled, failed, failedDb, crashes>>
    BY DEF UpdateTip
<1>2. work.block \in Block /\ burns \in [Entry -> Nat]
    BY <1>0, FieldTypes
<1>3. Matches(burns, work.block, spoiled) /\ dbTip \in Chain[work.block]
    BY <1>0, <1>1 DEF MemorySound, CoinsBehind
<1>4. spoiled' \in SUBSET Entry /\ failed' \in SUBSET Bad
    BY <1>1, FieldTypes DEF BurnInv
<1>5. /\ Matches(burns', tip', spoiled') /\ dbTip \in Chain[tip'] /\ tip' \in Block
      /\ burns' \in [Entry -> Nat] /\ UNCHANGED <<disk, dbTip, failedDb, crashes>>
    BY <1>1, <1>2, <1>3
<1> QED
    BY <1>1, <1>4, <1>5, EndsIdle

LEMMA VerifyDBInv ==
    ASSUME BurnInv, NEW b \in Block, NEW stopped \in BOOLEAN, VerifyDB(b, stopped)
    PROVE  BurnInv'
<1>0. TypeOK /\ MemorySound /\ CoinsBehind
    BY DEF BurnInv
<1>1. /\ work = Idle /\ b \in Chain[tip] /\ work' = Idle /\ tip' = tip
      /\ failed' = failed /\ UNCHANGED <<disk, dbTip, failedDb, crashes>>
    BY DEF VerifyDB
<1>2. \/ /\ burns' = Unverified(burns, tip, b)
         /\ spoiled' = spoiled \cup Checked(tip, b)
      \/ burns' = Verified(burns, tip, b) /\ spoiled' = spoiled
    BY DEF VerifyDB, Unverified, Verified, Checked
<1>3. /\ tip \in Block /\ burns \in [Entry -> Nat] /\ work.op = "idle"
      /\ spoiled \in SUBSET Entry /\ failed' \in SUBSET Bad
    BY <1>0, <1>1, FieldTypes, IdleFacts
<1>4. Matches(burns, tip, spoiled) /\ dbTip \in Chain[tip]
    BY <1>0, <1>3 DEF MemorySound, CoinsBehind
<1>5. /\ burns' \in [Entry -> Nat] /\ spoiled' \in SUBSET Entry
      /\ Matches(burns', tip', spoiled')
  <2>1. CASE /\ burns' = Unverified(burns, tip, b)
             /\ spoiled' = spoiled \cup Checked(tip, b)
    <3>1. /\ Unverified(burns, tip, b) \in [Entry -> Nat]
          /\ Matches(Unverified(burns, tip, b), tip, spoiled \cup Checked(tip, b))
        BY <1>3, <1>4, StoppedSpoils
    <3>2. Checked(tip, b) \subseteq Entry
        BY DEF Checked
    <3> QED
        BY <1>1, <1>3, <2>1, <3>1, <3>2
  <2>2. CASE burns' = Verified(burns, tip, b) /\ spoiled' = spoiled
      BY <1>1, <1>3, <1>4, <2>2, VerifyKeeps
  <2> QED
      BY <1>2, <2>1, <2>2
<1>6. tip' \in Block /\ dbTip \in Chain[tip']
    BY <1>1, <1>3, <1>4
<1> QED
    BY <1>1, <1>3, <1>5, <1>6, EndsIdle

LEMMA RestartInv ==
    ASSUME BurnInv, Restart
    PROVE  BurnInv'
<1>0. TypeOK /\ DiskSound
    BY DEF BurnInv
<1>1. /\ crashes < MaxCrash /\ crashes' = crashes + 1
      /\ tip' = dbTip /\ burns' = InitializeBurnCache(disk, dbTip)
      /\ spoiled' = LoadedSpoiled(disk, dbTip) /\ work' = Idle /\ dbTip' = dbTip
      /\ failed' = failedDb /\ failedDb' = failedDb
      /\ disk' = IF disk.tag = dbTip THEN disk
                 ELSE [tag |-> dbTip, burns |-> burns', spoiled |-> spoiled']
    BY DEF Restart
<1>2. /\ dbTip \in Block /\ disk \in Saved /\ failedDb \in SUBSET Bad
    BY <1>0 DEF TypeOK, Saved
<1>3. SavedRight(disk, dbTip)
    BY <1>0 DEF DiskSound
<1>4. /\ burns' \in [Entry -> Nat] /\ spoiled' \in SUBSET Entry
      /\ Matches(burns', dbTip, spoiled')
    BY <1>1, <1>2, <1>3, LoadRight
<1>5. work'.op = "idle" /\ work' \in [op : Ops, block : Block, done : Nat]
    BY <1>1, IdleFacts
<1>6. dbTip \in Chain[dbTip]
    BY <1>2, ChainFacts
<1> DEFINE new == [tag |-> dbTip, burns |-> burns', spoiled |-> spoiled']
<1>7. new.tag = dbTip /\ new.burns = burns' /\ new.spoiled = spoiled'
    OBVIOUS
<1>8. new \in Saved
    BY <1>2, <1>4 DEF Saved
<1> HIDE DEF new
<1>9. SavedRight(new, dbTip)
  <2>1. SavedExact(new)
      BY <1>2, <1>4, <1>6, <1>7, SaveMatching
  <2> QED
      BY <2>1 DEF SavedRight
<1>10. disk' \in {disk, new}
    BY <1>1 DEF new
<1>11. TypeOK'
  <2>1. crashes' \in 0 .. MaxCrash
      BY SMT, <1>0, <1>1, BurnAssumption DEF TypeOK
  <2>2. disk' \in Saved
      BY <1>2, <1>8, <1>10
  <2> QED
      BY <1>1, <1>2, <1>4, <1>5, <2>1, <2>2 DEF TypeOK, Ops, Saved
<1>12. MemorySound'
    BY <1>1, <1>4, <1>5 DEF MemorySound
<1>13. CoinsBehind'
    BY <1>1, <1>5, <1>6 DEF CoinsBehind
<1>14. DiskSound'
  <2>1. SavedRight(disk', dbTip)
      BY <1>3, <1>9, <1>10
  <2> QED
      BY <1>1, <2>1 DEF DiskSound, SavedRight, SavedExact
<1> QED
    BY <1>11, <1>12, <1>13, <1>14 DEF BurnInv

-----------------------------------------------------------------------------
(* The theorems *)

LEMMA BurnStep == BurnInv /\ [Next]_vars => BurnInv'
<1> SUFFICES ASSUME BurnInv, [Next]_vars PROVE BurnInv'
    OBVIOUS
<1>1. CASE \E b \in Block : BeginConnect(b)
    BY <1>1, BeginConnectInv
<1>2. CASE CountBurn
    BY <1>2, CountBurnInv
<1>3. CASE Reject
    BY <1>3, RejectInv
<1>4. CASE ConnectTip
    BY <1>4, ConnectTipInv
<1>5. CASE BeginDisconnect
    BY <1>5, BeginDisconnectInv
<1>6. CASE UncountBurn
    BY <1>6, UncountBurnInv
<1>7. CASE FlushIndex
    BY <1>7, FlushIndexInv
<1>8. CASE FlushCoins
    BY <1>8, FlushCoinsInv
<1>9. CASE PeriodicWrite
    BY <1>9, PeriodicWriteInv
<1>10. CASE UpdateTip
    BY <1>10, UpdateTipInv
<1>11. CASE \E b \in Block, stopped \in BOOLEAN : VerifyDB(b, stopped)
    BY <1>11, VerifyDBInv
<1>12. CASE Restart
    BY <1>12, RestartInv
<1>13. CASE UNCHANGED vars
    BY <1>13 DEF vars, BurnInv, TypeOK, MemorySound, CoinsBehind, DiskSound, SavedRight, Counted
<1> QED
    BY <1>1, <1>2, <1>3, <1>4, <1>5, <1>6, <1>7, <1>8, <1>9, <1>10, <1>11, <1>12, <1>13
       DEF Next

(* On every tree of blocks, whatever they burn, wherever a refused block   *)
(* fails and however often the node crashes: the cache in memory counts    *)
(* the burns of the active chain, burn by burn while a block is connected  *)
(* or disconnected, and the saved cache is right up to the block it was    *)
(* saved with whenever the next start would build on it                    *)
(* (InitializeBurnCache), both but for the spoiled entries.                *)
THEOREM BurnsAlwaysSound == Spec => []BurnInv
<1>1. Init => BurnInv
    BY BurnInit
<1>2. BurnInv /\ [Next]_vars => BurnInv'
    BY BurnStep
<1> QED
    BY <1>1, <1>2, PTL DEF Spec

(* Whenever cs_main is free, GetActiveBurnWeight gives an address the      *)
(* weight that the burns of the active chain give it, unless one of its    *)
(* own entries is spoiled and still has weight.                            *)
THEOREM WeightAlwaysFollowsChain == Spec => []WeightFollowsChain
<1>1. BurnInv => WeightFollowsChain
  <2> SUFFICES ASSUME BurnInv, work = Idle PROVE SameWeight(burns, tip, spoiled)
      BY DEF WeightFollowsChain
  <2>1. Matches(burns, tip, spoiled)
      BY IdleFacts DEF BurnInv, MemorySound
  <2>2. tip \in Block /\ burns \in [Entry -> Nat]
      BY DEF BurnInv, TypeOK
  <2> QED
      BY <2>1, <2>2, MatchesWeight
<1>2. Spec => []BurnInv
    BY BurnsAlwaysSound
<1> QED
    BY <1>1, <1>2, PTL

(* A crash at any step, also inside a flush, would reload a cache that     *)
(* gives an address its weight on the chain of the coin database           *)
(* (InitializeBurnCache after FlushBurnCacheToDisk), unless one of its     *)
(* own entries was spoiled in the saved cache and still has weight.        *)
THEOREM SavedBurnsAlwaysReload == Spec => []SavedBurnsReload
<1>1. BurnInv => SavedBurnsReload
  <2> SUFFICES ASSUME BurnInv
               PROVE  SameWeight(InitializeBurnCache(disk, dbTip), dbTip,
                                 LoadedSpoiled(disk, dbTip))
      BY DEF SavedBurnsReload
  <2>1. SavedRight(disk, dbTip)
      BY DEF BurnInv, DiskSound
  <2>2. dbTip \in Block /\ disk \in Saved
      BY DEF BurnInv, TypeOK, Saved
  <2>3. /\ InitializeBurnCache(disk, dbTip) \in [Entry -> Nat]
        /\ Matches(InitializeBurnCache(disk, dbTip), dbTip, LoadedSpoiled(disk, dbTip))
      BY <2>1, <2>2, LoadRight
  <2> QED
      BY <2>2, <2>3, MatchesWeight
<1>2. Spec => []BurnInv
    BY BurnsAlwaysSound
<1> QED
    BY <1>1, <1>2, PTL
=============================================================================
