---------------------------- MODULE RegistryProofs ----------------------------
(***************************************************************************)
(* Theorems about the masternode registry: on every tree of blocks,        *)
(* whatever they carry, each collateral has one key, and the heights       *)
(* recorded for a key are those of blocks of the chain that name it.       *)
(***************************************************************************)
EXTENDS MasternodeRegistry, WellFoundedInduction, FiniteSetTheorems, TLAPS

OneKey(r) == \A k, l \in Key : r.coll[k] = r.coll[l] /\ r.coll[k] # None => k = l

(* The block b names the key k, and so does the block of height h of the   *)
(* chain of t.                                                             *)
Names(b, k) == \E i \in DOMAIN content[b].acts : content[b].acts[i].key = k
Heard(t, h, k) == h \in 1 .. Height(t) /\ Names(Chain[t][h], k)

(* The last height of a key, which is kept beside the others, is one of    *)
(* them.                                                                   *)
LastKept(r) == \A k \in Key : r.last[k] # 0 => r.last[k] \in r.heights[k]

(* What a registry may be when t is the tip. *)
Sound(t) ==
  {r \in Registry : /\ OneKey(r) /\ LastKept(r)
                    /\ \A k \in Key : \A h \in r.heights[k] : Heard(t, h, k)}

(* The block whose chain the registry in memory stands for: ConnectBlock   *)
(* and DisconnectBlock edit it before the tip moves.                       *)
RegTip ==
  IF at \in {"connected", "connect-coins"} THEN Next1
  ELSE IF at \in {"disconnected", "disconnect-coins"} THEN Parent[tip] ELSE tip

(* A saved registry r with the tag t is right up to the height of its tag, *)
(* which is all that a start keeps of it (ct: what the blocks carry).      *)
SavedIn(ct, r, t) ==
  /\ OneKey(r)
  /\ \A k \in Key : \A h \in r.heights[k] : h <= Height(t) =>
       /\ h \in 1 .. Height(t)
       /\ \E i \in DOMAIN ct[Chain[t][h]].acts : ct[Chain[t][h]].acts[i].key = k

SavedSound == SavedIn(content, saved.reg, saved.tag)
SavedTyped == saved.tag \in Index /\ saved.reg \in Registry /\ saved.touched \in SUBSET Coll

(* The inductive invariant. *)
RegInv ==
  /\ TypeOK /\ content \in Content
  /\ at \in {"connected", "connect-coins"} => tip # goal /\ OnChain(tip, goal)
  /\ at \in {"disconnected", "disconnect-coins"} => tip # Genesis
  /\ reg \in Sound(RegTip)
  /\ SavedSound

USE Zenon
-----------------------------------------------------------------------------
(* Numbers, and functions defined by recursion on them *)

(* Every set of numbers has a least element. *)
LEMMA LeastNat ==
  ASSUME NEW S \in SUBSET Nat, S # {}
  PROVE  \E n \in S : \A m \in S : n <= m
<1> DEFINE R == OpToRel(LAMBDA x, y : x < y, Nat)
<1>1. IsWellFoundedOn(R, Nat)
  BY NatLessThanWellFounded
<1> HIDE DEF R
<1>2. PICK x \in S : \A y \in S : ~ (<<y, x>> \in R)
  BY <1>1, WFMin
<1>3. \A m, n \in Nat : m < n => <<m, n>> \in R
  BY DEF R, OpToRel
<1>4. \A y \in S : ~ (y < x)
  BY <1>2, <1>3
<1> QED
  BY SMT, <1>4

(* A set with 0, and with the successor of each of its numbers below n,    *)
(* has all numbers up to n.                                                *)
LEMMA UpTo ==
  ASSUME NEW n \in Nat, NEW T, 0 \in T, \A i \in 1 .. n : i - 1 \in T => i \in T
  PROVE  0 .. n \subseteq T
<1> SUFFICES ASSUME (0 .. n) \ T # {} PROVE FALSE
  OBVIOUS
<1>1. (0 .. n) \ T \in SUBSET Nat
  BY SMT
<1>2. PICK i \in (0 .. n) \ T : \A m \in (0 .. n) \ T : i <= m
  BY <1>1, LeastNat
<1>3. i # 0
  BY <1>2
<1>4. i \in 1 .. n /\ i - 1 \in 0 .. n /\ ~ (i <= i - 1)
  BY SMT, <1>2, <1>3
<1>5. i - 1 \in T
  BY <1>2, <1>4
<1> QED
  BY <1>2, <1>4, <1>5

(* A sequence of n steps within S, and the states f on the way from r.     *)
Steps(S, n) == [1 .. n -> [S -> S]]
Visits(f, F, r, S, n) ==
  f \in [0 .. n -> S] /\ f[0] = r /\ \A i \in 1 .. n : f[i] = F[i][f[i - 1]]

(* Steps can be taken one after the other, and never leave their set.      *)
LEMMA Iterate ==
  ASSUME NEW S, NEW n \in Nat, NEW F \in Steps(S, n), NEW r \in S
  PROVE  \E f : Visits(f, F, r, S, n)
<1> DEFINE Ok(m, f) == f[0] = r /\ \A i \in 1 .. m : f[i] = F[i][f[i - 1]]
           T == {m \in 0 .. n : \E f \in [0 .. m -> S] : Ok(m, f)}
<1>1. 0 \in T
  <2> DEFINE f == [i \in 0 .. 0 |-> r]
  <2>1. f \in [0 .. 0 -> S]
    OBVIOUS
  <2>2. f[0] = r /\ 1 .. 0 = {} /\ 0 \in 0 .. n
    BY SMT
  <2> QED
    BY <2>1, <2>2
<1>2. ASSUME NEW m \in 1 .. n, m - 1 \in T PROVE m \in T
  <2>1. PICK f \in [0 .. m - 1 -> S] : Ok(m - 1, f)
    BY <1>2
  <2>2. m \in 0 .. n /\ m \in Nat /\ 0 \in 0 .. m - 1 /\ m - 1 \in 0 .. m - 1 /\ m # 0
    BY SMT
  <2> DEFINE g == [i \in 0 .. m |-> IF i = m THEN F[m][f[m - 1]] ELSE f[i]]
  <2>3. F[m][f[m - 1]] \in S
    BY <2>2 DEF Steps
  <2>4. \A i \in 0 .. m : i # m => i \in 0 .. m - 1
    BY SMT
  <2>5. g \in [0 .. m -> S]
    BY <2>3, <2>4
  <2>6. g[0] = r
    <3>1. 0 \in 0 .. m
      BY SMT, <2>2
    <3> QED
      BY <2>1, <2>2, <3>1
  <2>7. ASSUME NEW i \in 1 .. m PROVE g[i] = F[i][g[i - 1]]
    <3>1. i \in 0 .. m /\ i - 1 \in 0 .. m /\ i - 1 # m
      BY SMT, <2>2
    <3>2. g[i - 1] = f[i - 1]
      BY <3>1
    <3>3. CASE i = m
      BY <3>1, <3>2, <3>3
    <3>4. CASE i # m
      <4>1. i \in 1 .. m - 1
        BY SMT, <3>4
      <4>2. g[i] = f[i]
        BY <3>1, <3>4
      <4>3. f[i] = F[i][f[i - 1]]
        BY <2>1, <4>1
      <4> QED
        BY <3>2, <4>2, <4>3
    <3> QED
      BY <3>3, <3>4
  <2> HIDE DEF g
  <2> QED
    BY <2>2, <2>5, <2>6, <2>7
<1> HIDE DEF T
<1>3. 0 .. n \subseteq T
  BY <1>1, <1>2, UpTo
<1>4. n \in T
  BY SMT, <1>3
<1> QED
  BY <1>4 DEF T, Visits

Stays(g, S, n) == g[0] \in S /\ \A i \in 1 .. n : g[i - 1] \in S => g[i] \in S

(* A sequence of values that starts in S and does not leave it ends in S.  *)
LEMMA StaysIn ==
  ASSUME NEW S, NEW n \in Nat, NEW g, Stays(g, S, n)
  PROVE  g[n] \in S
<1> DEFINE T == {i \in 0 .. n : g[i] \in S}
<1>1. 0 \in 0 .. n /\ n \in 0 .. n /\ \A i \in 1 .. n : i \in 0 .. n
  BY SMT
<1>2. 0 \in T /\ \A i \in 1 .. n : i - 1 \in T => i \in T
  BY <1>1 DEF Stays
<1> HIDE DEF T
<1>3. n \in T
  BY <1>1, <1>2, UpTo
<1> QED
  BY <1>3 DEF T

(* What each ping and heartbeat of a block keeps, its registration keeps.  *)
LEMMA RegisteredKeeps ==
  ASSUME NEW b, NEW coins, NEW S, NEW r \in S, Len(content[b].acts) \in Nat,
         \A i \in 1 .. Len(content[b].acts) : \A s \in S :
            Apply(s, content[b].acts[i], Height(b), coins) \in S
  PROVE  Registered(r, b, coins) \in S
<1> DEFINE n == Len(content[b].acts)
           Step(s, i) == Apply(s, content[b].acts[i], Height(b), coins)
           Rec(g) == g = [i \in 0 .. n |-> IF i = 0 THEN r ELSE Step(g[i - 1], i)]
           F == [i \in 1 .. n |-> [s \in S |-> Step(s, i)]]
           after == CHOOSE g : Rec(g)
<1>1. Registered(r, b, coins) = after[n]
  BY DEF Registered
<1>2. n \in Nat /\ \A i \in 1 .. n : \A s \in S : Step(s, i) \in S
  OBVIOUS
<1> HIDE DEF n, Step
<1>3. F \in Steps(S, n) /\ \A i \in 1 .. n : \A s \in S : F[i][s] = Step(s, i)
  BY <1>2 DEF Steps
<1> HIDE DEF F
<1>4. PICK f : Visits(f, F, r, S, n)
  BY <1>2, <1>3, Iterate
<1>5. /\ 0 \in 0 .. n /\ \A i \in 0 .. n : i # 0 => i \in 1 .. n
      /\ \A i \in 1 .. n : i # 0 /\ i \in 0 .. n /\ i - 1 \in 0 .. n
  BY SMT, <1>2
<1>6. Rec(f)
  <2>1. f \in [0 .. n -> S] /\ f[0] = r /\ \A i \in 1 .. n : f[i] = F[i][f[i - 1]]
    BY <1>4 DEF Visits
  <2>2. \A i \in 1 .. n : f[i] = Step(f[i - 1], i)
    BY <1>3, <1>5, <2>1
  <2>3. \A i \in 0 .. n : f[i] = IF i = 0 THEN r ELSE Step(f[i - 1], i)
    BY <1>5, <2>1, <2>2
  <2> QED
    BY <2>1, <2>3
<1>7. Rec(after)
  BY <1>6
<1> HIDE DEF after
<1>8. after[0] \in S
  BY <1>5, <1>7
<1>9. ASSUME NEW i \in 1 .. n, after[i - 1] \in S PROVE after[i] \in S
  <2>1. after[i] = Step(after[i - 1], i)
    BY <1>5, <1>7
  <2> QED
    BY <1>2, <1>9, <2>1
<1> QED
  <2>1. Stays(after, S, n)
    BY <1>8, <1>9 DEF Stays
  <2> QED
    BY <1>1, <1>2, <2>1, StaysIn

(* What each block keeps, the scan of several blocks keeps. *)
LEMMA RescannedKeeps ==
  ASSUME NEW t, NEW low, NEW S, NEW r \in S, Height(t) - low \in Nat,
         \A i \in 1 .. Height(t) - low : \A s \in S :
            Registered(s, Chain[t][low + i], Coins(t)) \in S
  PROVE  Rescanned(r, t, low) \in S
<1> DEFINE n == Height(t) - low
           Step(s, i) == Registered(s, Chain[t][low + i], Coins(t))
           Rec(g) == g = [i \in 0 .. n |-> IF i = 0 THEN r ELSE Step(g[i - 1], i)]
           F == [i \in 1 .. n |-> [s \in S |-> Step(s, i)]]
           after == CHOOSE g : Rec(g)
<1>1. Rescanned(r, t, low) = after[n]
  BY DEF Rescanned
<1>2. n \in Nat /\ \A i \in 1 .. n : \A s \in S : Step(s, i) \in S
  OBVIOUS
<1> HIDE DEF n, Step
<1>3. F \in Steps(S, n) /\ \A i \in 1 .. n : \A s \in S : F[i][s] = Step(s, i)
  BY <1>2 DEF Steps
<1> HIDE DEF F
<1>4. PICK f : Visits(f, F, r, S, n)
  BY <1>2, <1>3, Iterate
<1>5. /\ 0 \in 0 .. n /\ \A i \in 0 .. n : i # 0 => i \in 1 .. n
      /\ \A i \in 1 .. n : i # 0 /\ i \in 0 .. n /\ i - 1 \in 0 .. n
  BY SMT, <1>2
<1>6. Rec(f)
  <2>1. f \in [0 .. n -> S] /\ f[0] = r /\ \A i \in 1 .. n : f[i] = F[i][f[i - 1]]
    BY <1>4 DEF Visits
  <2>2. \A i \in 1 .. n : f[i] = Step(f[i - 1], i)
    BY <1>3, <1>5, <2>1
  <2>3. \A i \in 0 .. n : f[i] = IF i = 0 THEN r ELSE Step(f[i - 1], i)
    BY <1>5, <2>1, <2>2
  <2> QED
    BY <2>1, <2>3
<1>7. Rec(after)
  BY <1>6
<1> HIDE DEF after
<1>8. after[0] \in S
  BY <1>5, <1>7
<1>9. ASSUME NEW i \in 1 .. n, after[i - 1] \in S PROVE after[i] \in S
  <2>1. after[i] = Step(after[i - 1], i)
    BY <1>5, <1>7
  <2> QED
    BY <1>2, <1>9, <2>1
<1> QED
  <2>1. Stays(after, S, n)
    BY <1>8, <1>9 DEF Stays
  <2> QED
    BY <1>1, <1>2, <2>1, StaysIn

(* What each disconnection keeps, that of several blocks keeps. *)
LEMMA UnwoundKeeps ==
  ASSUME NEW t, NEW m \in Nat, NEW S, NEW r \in S,
         \A i \in 1 .. m : \A s \in S :
            Disconnected(s, Chain[t][Height(t) + 1 - i]) \in S
  PROVE  Unwound(r, t, m) \in S
<1> DEFINE n == m
           Step(s, i) == Disconnected(s, Chain[t][Height(t) + 1 - i])
           Rec(g) == g = [i \in 0 .. n |-> IF i = 0 THEN r ELSE Step(g[i - 1], i)]
           F == [i \in 1 .. n |-> [s \in S |-> Step(s, i)]]
           after == CHOOSE g : Rec(g)
<1>1. Unwound(r, t, m) = after[n]
  BY DEF Unwound
<1>2. n \in Nat /\ \A i \in 1 .. n : \A s \in S : Step(s, i) \in S
  OBVIOUS
<1> HIDE DEF n, Step
<1>3. F \in Steps(S, n) /\ \A i \in 1 .. n : \A s \in S : F[i][s] = Step(s, i)
  BY <1>2 DEF Steps
<1> HIDE DEF F
<1>4. PICK f : Visits(f, F, r, S, n)
  BY <1>2, <1>3, Iterate
<1>5. /\ 0 \in 0 .. n /\ \A i \in 0 .. n : i # 0 => i \in 1 .. n
      /\ \A i \in 1 .. n : i # 0 /\ i \in 0 .. n /\ i - 1 \in 0 .. n
  BY SMT, <1>2
<1>6. Rec(f)
  <2>1. f \in [0 .. n -> S] /\ f[0] = r /\ \A i \in 1 .. n : f[i] = F[i][f[i - 1]]
    BY <1>4 DEF Visits
  <2>2. \A i \in 1 .. n : f[i] = Step(f[i - 1], i)
    BY <1>3, <1>5, <2>1
  <2>3. \A i \in 0 .. n : f[i] = IF i = 0 THEN r ELSE Step(f[i - 1], i)
    BY <1>5, <2>1, <2>2
  <2> QED
    BY <2>1, <2>3
<1>7. Rec(after)
  BY <1>6
<1> HIDE DEF after
<1>8. after[0] \in S
  BY <1>5, <1>7
<1>9. ASSUME NEW i \in 1 .. n, after[i - 1] \in S PROVE after[i] \in S
  <2>1. after[i] = Step(after[i - 1], i)
    BY <1>5, <1>7
  <2> QED
    BY <1>2, <1>9, <2>1
<1> QED
  <2>1. Stays(after, S, n)
    BY <1>8, <1>9 DEF Stays
  <2> QED
    BY <1>1, <1>2, <2>1, StaysIn

(* One step of each of the two passes over a disconnected block. *)
RevertStep(b, s, i) ==
  IF content[b].acts[i].kind = "ping" THEN RevertPing(s, content[b].acts[i], Height(b)) ELSE s
RevertStart(r, b) == [r |-> WithoutHeight(r, Height(b)), todo |-> Emptied(r, Height(b))]

RecoverStep(p, todo, s, i) ==
  IF Keys[i] \notin DOMAIN todo THEN s
  ELSE Recovered(s, p, Keys[i],
                 IF todo[Keys[i]] = None THEN s.coll[Keys[i]] ELSE todo[Keys[i]], Coins(p))

(* What each ping keeps as it is reverted, all of them keep. *)
LEMMA RevertedKeeps ==
  ASSUME NEW b, NEW S, NEW r, Len(content[b].acts) \in Nat, RevertStart(r, b) \in S,
         \A i \in 1 .. Len(content[b].acts) : \A s \in S : RevertStep(b, s, i) \in S
  PROVE  PingsReverted(r, b) \in S
<1> DEFINE n == Len(content[b].acts)
           Step(s, i) == RevertStep(b, s, i)
           Rec(g) == g = [i \in 0 .. n |-> IF i = 0 THEN RevertStart(r, b) ELSE Step(g[i - 1], i)]
           F == [i \in 1 .. n |-> [s \in S |-> Step(s, i)]]
           after == CHOOSE g : Rec(g)
<1>1. PingsReverted(r, b) = after[n]
  BY DEF PingsReverted, RevertStep, RevertStart
<1>2. n \in Nat /\ \A i \in 1 .. n : \A s \in S : Step(s, i) \in S
  OBVIOUS
<1> HIDE DEF n, Step
<1>3. F \in Steps(S, n) /\ \A i \in 1 .. n : \A s \in S : F[i][s] = Step(s, i)
  BY <1>2 DEF Steps
<1> HIDE DEF F
<1>4. PICK f : Visits(f, F, RevertStart(r, b), S, n)
  BY <1>2, <1>3, Iterate
<1>5. /\ 0 \in 0 .. n /\ \A i \in 0 .. n : i # 0 => i \in 1 .. n
      /\ \A i \in 1 .. n : i # 0 /\ i \in 0 .. n /\ i - 1 \in 0 .. n
  BY SMT, <1>2
<1>6. Rec(f)
  <2>1. f \in [0 .. n -> S] /\ f[0] = RevertStart(r, b) /\ \A i \in 1 .. n : f[i] = F[i][f[i - 1]]
    BY <1>4 DEF Visits
  <2>2. \A i \in 1 .. n : f[i] = Step(f[i - 1], i)
    BY <1>3, <1>5, <2>1
  <2>3. \A i \in 0 .. n : f[i] = IF i = 0 THEN RevertStart(r, b) ELSE Step(f[i - 1], i)
    BY <1>5, <2>1, <2>2
  <2> QED
    BY <2>1, <2>3
<1>7. Rec(after)
  BY <1>6
<1> HIDE DEF after
<1>8. after[0] \in S
  BY <1>5, <1>7
<1>9. ASSUME NEW i \in 1 .. n, after[i - 1] \in S PROVE after[i] \in S
  <2>1. after[i] = Step(after[i - 1], i)
    BY <1>5, <1>7
  <2> QED
    BY <1>2, <1>9, <2>1
<1> QED
  <2>1. Stays(after, S, n)
    BY <1>8, <1>9 DEF Stays
  <2> QED
    BY <1>1, <1>2, <2>1, StaysIn

(* What the recovery of each key keeps, that of all keys keeps. *)
LEMMA RecoveredKeeps ==
  ASSUME NEW p, NEW todo, NEW S, NEW r \in S, Len(Keys) \in Nat,
         \A i \in 1 .. Len(Keys) : \A s \in S : RecoverStep(p, todo, s, i) \in S
  PROVE  AllRecovered(r, p, todo) \in S
<1> DEFINE n == Len(Keys)
           Step(s, i) == RecoverStep(p, todo, s, i)
           Rec(g) == g = [i \in 0 .. n |-> IF i = 0 THEN r ELSE Step(g[i - 1], i)]
           F == [i \in 1 .. n |-> [s \in S |-> Step(s, i)]]
           after == CHOOSE g : Rec(g)
<1>1. AllRecovered(r, p, todo) = after[n]
  BY DEF AllRecovered, RecoverStep
<1>2. n \in Nat /\ \A i \in 1 .. n : \A s \in S : Step(s, i) \in S
  OBVIOUS
<1> HIDE DEF n, Step
<1>3. F \in Steps(S, n) /\ \A i \in 1 .. n : \A s \in S : F[i][s] = Step(s, i)
  BY <1>2 DEF Steps
<1> HIDE DEF F
<1>4. PICK f : Visits(f, F, r, S, n)
  BY <1>2, <1>3, Iterate
<1>5. /\ 0 \in 0 .. n /\ \A i \in 0 .. n : i # 0 => i \in 1 .. n
      /\ \A i \in 1 .. n : i # 0 /\ i \in 0 .. n /\ i - 1 \in 0 .. n
  BY SMT, <1>2
<1>6. Rec(f)
  <2>1. f \in [0 .. n -> S] /\ f[0] = r /\ \A i \in 1 .. n : f[i] = F[i][f[i - 1]]
    BY <1>4 DEF Visits
  <2>2. \A i \in 1 .. n : f[i] = Step(f[i - 1], i)
    BY <1>3, <1>5, <2>1
  <2>3. \A i \in 0 .. n : f[i] = IF i = 0 THEN r ELSE Step(f[i - 1], i)
    BY <1>5, <2>1, <2>2
  <2> QED
    BY <2>1, <2>3
<1>7. Rec(after)
  BY <1>6
<1> HIDE DEF after
<1>8. after[0] \in S
  BY <1>5, <1>7
<1>9. ASSUME NEW i \in 1 .. n, after[i - 1] \in S PROVE after[i] \in S
  <2>1. after[i] = Step(after[i - 1], i)
    BY <1>5, <1>7
  <2> QED
    BY <1>2, <1>9, <2>1
<1> QED
  <2>1. Stays(after, S, n)
    BY <1>8, <1>9 DEF Stays
  <2> QED
    BY <1>1, <1>2, <2>1, StaysIn

-----------------------------------------------------------------------------
(* Chains *)

(* A chain is a sequence of blocks, as long as its tip is high.            *)
LEMMA ChainShape ==
  ASSUME NEW t \in Index
  PROVE  /\ Height(t) \in Nat /\ Chain[t] \in Seq(Block) /\ DOMAIN Chain[t] = 1 .. Height(t)
         /\ \A i \in 1 .. Height(t) : Chain[t][i] \in Block
<1>1. Chain[t] \in Seq(Block)
  BY RegistryAssumption
<1> QED
  BY SMT, <1>1 DEF Height

(* A block ends its chain, and its parent's chain comes before it.         *)
LEMMA ChainStep ==
  ASSUME NEW b \in Block
  PROVE  /\ b \in Index /\ b # Genesis /\ Parent[b] \in Index
         /\ Height(b) = Height(Parent[b]) + 1
         /\ Chain[b][Height(b)] = b
         /\ \A i \in 1 .. Height(Parent[b]) : Chain[b][i] = Chain[Parent[b]][i]
<1>1. b \in Index /\ b # Genesis /\ Parent[b] \in Index
  BY RegistryAssumption DEF Index
<1>2. Chain[Parent[b]] \in Seq(Block) /\ Chain[b] = Append(Chain[Parent[b]], b)
  BY <1>1, RegistryAssumption
<1>3. /\ Height(b) = Height(Parent[b]) + 1
      /\ Chain[b][Height(b)] = b
      /\ \A i \in 1 .. Height(Parent[b]) : Chain[b][i] = Chain[Parent[b]][i]
  BY SMT, <1>2 DEF Height
<1> QED
  BY <1>1, <1>3

(* The genesis block is the root, at height 0. *)
LEMMA GenesisLow == Genesis \in Index /\ Height(Genesis) = 0
<1>1. Genesis \in Index /\ Chain[Genesis] = <<>>
  BY RegistryAssumption DEF Index
<1> QED
  BY SMT, <1>1 DEF Height

(* A set with the genesis block, and with every block whose parent it has, *)
(* has them all.                                                           *)
LEMMA TreeInduction ==
  ASSUME NEW S, Genesis \in S, \A b \in Block : Parent[b] \in S => b \in S
  PROVE  Index \subseteq S
<1> SUFFICES ASSUME Index \ S # {} PROVE FALSE
  OBVIOUS
<1> DEFINE H == {Height(b) : b \in Index \ S}
<1>1. H \in SUBSET Nat /\ H # {}
  BY ChainShape
<1>2. PICK n \in H : \A m \in H : n <= m
  BY <1>1, LeastNat
<1>3. PICK b \in Index \ S : n = Height(b)
  BY <1>2
<1>4. b \in Block
  BY <1>3 DEF Index
<1>5. Parent[b] \in Index \ S
  BY <1>3, <1>4, ChainStep
<1>6. Height(b) <= Height(Parent[b])
  BY <1>2, <1>3, <1>5
<1>7. Height(b) = Height(Parent[b]) + 1 /\ Height(Parent[b]) \in Nat
  BY <1>4, <1>5, ChainStep, ChainShape
<1> QED
  BY SMT, <1>6, <1>7

(* The chain of s is the beginning of the chain of t. *)
Below(s, t) ==
  /\ Height(s) <= Height(t)
  /\ \A j \in 1 .. Height(s) : Chain[s][j] = Chain[t][j]

(* Below is reflexive. *)
LEMMA BelowSelf == \A t \in Index : Below(t, t)
<1>1. \A t \in Index : Height(t) \in Nat
  BY ChainShape
<1>2. \A t \in Index : Height(t) <= Height(t)
  BY SMT, <1>1
<1> QED
  BY <1>2 DEF Below

(* The genesis block is below every block. *)
LEMMA BelowGenesis == \A t \in Index : Below(Genesis, t)
<1> SUFFICES ASSUME NEW t \in Index PROVE Below(Genesis, t)
  OBVIOUS
<1>1. Height(t) \in Nat
  BY ChainShape
<1>2. 0 <= Height(t) /\ 1 .. 0 = {}
  BY SMT, <1>1
<1> QED
  BY <1>2, GenesisLow DEF Below

(* So is its parent below a block. *)
LEMMA BelowParent == \A b \in Block : Below(Parent[b], b)
<1> SUFFICES ASSUME NEW b \in Block PROVE Below(Parent[b], b)
  OBVIOUS
<1>1. Height(Parent[b]) \in Nat /\ Height(b) = Height(Parent[b]) + 1
  BY ChainStep, ChainShape
<1>2. Height(Parent[b]) <= Height(b)
  BY SMT, <1>1
<1> QED
  BY <1>2, ChainStep DEF Below

(* Below is transitive. *)
LEMMA BelowTrans ==
  ASSUME NEW r \in Index, NEW s \in Index, NEW t \in Index, Below(r, s), Below(s, t)
  PROVE  Below(r, t)
<1>1. Height(r) \in Nat /\ Height(s) \in Nat /\ Height(t) \in Nat
  BY ChainShape
<1>2. Height(r) <= Height(t) /\ \A j \in 1 .. Height(r) : j \in 1 .. Height(s)
  BY SMT, <1>1 DEF Below
<1> QED
  BY <1>2 DEF Below

(* The block at height i of a chain has height i and a chain of its own    *)
(* that is the beginning of it.                                            *)
LEMMA BlockAt ==
  \A t \in Index : \A i \in 1 .. Height(t) : Height(Chain[t][i]) = i /\ Below(Chain[t][i], t)
<1> DEFINE P(t) == \A i \in 1 .. Height(t) : Height(Chain[t][i]) = i /\ Below(Chain[t][i], t)
           S == {t \in Index : P(t)}
<1>1. Genesis \in S
  <2>1. 1 .. 0 = {}
    BY SMT
  <2> QED
    BY <2>1, GenesisLow
<1>2. ASSUME NEW b \in Block, Parent[b] \in S PROVE b \in S
  <2>1. b \in Index /\ Parent[b] \in Index /\ Height(b) \in Nat /\ Height(Parent[b]) \in Nat
    BY ChainStep, ChainShape
  <2>2. ASSUME NEW i \in 1 .. Height(b)
        PROVE  Height(Chain[b][i]) = i /\ Below(Chain[b][i], b)
    <3>1. CASE i = Height(b)
      BY <2>1, <3>1, ChainStep, BelowSelf
    <3>2. CASE i # Height(b)
      <4>1. i \in 1 .. Height(Parent[b])
        BY SMT, <2>1, <3>2, ChainStep
      <4>2. Chain[b][i] = Chain[Parent[b]][i]
        BY <4>1, ChainStep
      <4>3. Height(Chain[Parent[b]][i]) = i /\ Below(Chain[Parent[b]][i], Parent[b])
        BY <1>2, <4>1
      <4>4. Chain[Parent[b]][i] \in Index /\ Below(Parent[b], b)
        BY <2>1, <4>1, ChainShape, BelowParent DEF Index
      <4> QED
        BY <2>1, <4>2, <4>3, <4>4, BelowTrans
    <3> QED
      BY <3>1, <3>2
  <2> QED
    BY <2>1, <2>2
<1> HIDE DEF S
<1>3. Index \subseteq S
  BY <1>1, <1>2, TreeInduction
<1> QED
  BY <1>3 DEF S

(* A block is on a chain exactly when its own chain begins it. *)
LEMMA OnChainBelow ==
  ASSUME NEW s \in Index, NEW t \in Index, OnChain(s, t)
  PROVE  Below(s, t)
<1>1. CASE s = Genesis
  BY <1>1, BelowGenesis
<1>2. CASE s # Genesis
  <2>1. s \in Range(Chain[t])
    BY <1>2 DEF OnChain
  <2>2. PICK i \in DOMAIN Chain[t] : s = Chain[t][i]
    BY <2>1 DEF Range
  <2> QED
    BY <2>2, BlockAt, ChainShape
<1> QED
  BY <1>1, <1>2

(* A chain determines its tip. *)
LEMMA SameHeight ==
  ASSUME NEW s \in Index, NEW t \in Index, Below(s, t), Height(s) = Height(t)
  PROVE  s = t
<1>1. Height(s) \in Nat
  BY ChainShape
<1>2. CASE Height(s) = 0
  <2>1. ASSUME NEW x \in Index, Height(x) = 0 PROVE x = Genesis
    <3> SUFFICES ASSUME x # Genesis PROVE FALSE
      OBVIOUS
    <3>1. x \in Block
      BY DEF Index
    <3>2. Height(x) = Height(Parent[x]) + 1 /\ Height(Parent[x]) \in Nat
      BY <3>1, ChainStep, ChainShape
    <3> QED
      BY SMT, <2>1, <3>2
  <2> QED
    BY <1>2, <2>1
<1>3. CASE Height(s) # 0
  <2>1. s \in Block /\ t \in Block
    BY <1>3, GenesisLow DEF Index
  <2>2. Height(s) \in 1 .. Height(s)
    BY SMT, <1>1, <1>3
  <2>3. Chain[s][Height(s)] = Chain[t][Height(s)]
    BY <2>2 DEF Below
  <2>4. Chain[s][Height(s)] = s /\ Chain[t][Height(t)] = t
    BY <2>1, ChainStep
  <2> QED
    BY <2>3, <2>4
<1> QED
  BY <1>2, <1>3

(* The next block towards the goal is a child of the tip. *)
LEMMA NextBlock ==
  ASSUME tip \in Index, goal \in Index, tip # goal, OnChain(tip, goal)
  PROVE  Next1 \in Block /\ Parent[Next1] = tip
<1>1. Below(tip, goal) /\ Height(tip) \in Nat /\ Height(goal) \in Nat
  BY OnChainBelow, ChainShape
<1>2. Height(tip) # Height(goal)
  BY <1>1, SameHeight
<1>3. Height(tip) + 1 \in 1 .. Height(goal)
  BY SMT, <1>1, <1>2 DEF Below
<1>4. Next1 \in Block /\ Height(Next1) = Height(tip) + 1 /\ Below(Next1, goal)
  BY <1>3, ChainShape, BlockAt DEF Next1
<1>5. Parent[Next1] \in Index /\ Height(Parent[Next1]) \in Nat /\ Next1 \in Index
  BY <1>4, ChainStep, ChainShape
<1>6. Height(Parent[Next1]) = Height(tip)
  <2>1. Height(Next1) = Height(Parent[Next1]) + 1
    BY <1>4, ChainStep
  <2> QED
    BY SMT, <1>1, <1>4, <1>5, <2>1
<1>7. Below(Parent[Next1], goal)
  BY <1>4, <1>5, BelowParent, BelowTrans
<1>8. Below(Parent[Next1], tip)
  <2>1. Height(Parent[Next1]) <= Height(tip)
    BY SMT, <1>1, <1>6
  <2>2. ASSUME NEW j \in 1 .. Height(Parent[Next1])
        PROVE  Chain[Parent[Next1]][j] = Chain[tip][j]
    <3>1. j \in 1 .. Height(tip)
      BY <1>6
    <3>2. Chain[tip][j] = Chain[goal][j]
      BY <1>1, <3>1 DEF Below
    <3>3. Chain[Parent[Next1]][j] = Chain[goal][j]
      BY <1>7 DEF Below
    <3> QED
      BY <3>2, <3>3
  <2> QED
    BY <2>1, <2>2 DEF Below
<1>9. Parent[Next1] = tip
  BY <1>5, <1>6, <1>8, SameHeight
<1> QED
  BY <1>4, <1>9

(* What was heard on a chain is heard on a longer one, and on a shorter    *)
(* one if it reaches as far.                                               *)
LEMMA HeardLonger ==
  ASSUME NEW s \in Index, NEW t \in Index, Below(s, t), NEW h, NEW k
  PROVE  Heard(s, h, k) => Heard(t, h, k)
<1> SUFFICES ASSUME Heard(s, h, k) PROVE Heard(t, h, k)
  OBVIOUS
<1>1. Height(s) \in Nat /\ Height(t) \in Nat
  BY ChainShape
<1>2. h \in 1 .. Height(s) /\ Chain[s][h] = Chain[t][h]
  BY DEF Heard, Below
<1>3. h \in 1 .. Height(t)
  BY SMT, <1>1, <1>2 DEF Below
<1> QED
  BY <1>2, <1>3 DEF Heard

(* And what is heard up to the height of s on the chain of t, on that of s. *)
LEMMA HeardShorter ==
  ASSUME NEW s \in Index, NEW t \in Index, Below(s, t), NEW h, NEW k, h <= Height(s)
  PROVE  Heard(t, h, k) => Heard(s, h, k)
<1> SUFFICES ASSUME Heard(t, h, k) PROVE Heard(s, h, k)
  OBVIOUS
<1>1. Height(s) \in Nat /\ Height(t) \in Nat /\ h \in 1 .. Height(t)
  BY ChainShape DEF Heard
<1>2. h \in 1 .. Height(s)
  BY SMT, <1>1
<1>3. Chain[s][h] = Chain[t][h]
  BY <1>2 DEF Below
<1> QED
  BY <1>2, <1>3 DEF Heard

(* So a registry that is right on a chain is right on a longer one. *)
LEMMA SoundLonger ==
  ASSUME NEW s \in Index, NEW t \in Index, Below(s, t)
  PROVE  Sound(s) \subseteq Sound(t)
  BY HeardLonger DEF Sound

-----------------------------------------------------------------------------
(* Registries *)

(* The greatest and the least element are elements. *)
LEMMA MaxIn ==
  ASSUME NEW n \in Nat, NEW S \in SUBSET (0 .. n), S # {}
  PROVE  Max(S) \in S
<1> DEFINE D == {n - x : x \in S}
<1>1. D \in SUBSET Nat /\ D # {}
  <2>1. \A x \in S : n - x \in Nat
    BY SMT
  <2> QED
    BY <2>1
<1>2. PICK d \in D : \A e \in D : d <= e
  BY <1>1, LeastNat
<1>3. PICK x \in S : d = n - x
  BY <1>2
<1>4. \A y \in S : n - x <= n - y
  BY <1>2, <1>3
<1>5. \A y \in S : x >= y
  BY SMT, <1>4
<1> QED
  BY <1>5 DEF Max

(* The least number of a set is in it. *)
LEMMA MinIn ==
  ASSUME NEW S \in SUBSET Nat, S # {}
  PROVE  Min(S) \in S
<1>1. PICK x \in S : \A y \in S : x <= y
  BY LeastNat
<1> QED
  BY <1>1 DEF Min

(* An entry more, and the oldest one less, in a history. *)
LEMMA AppendTail ==
  ASSUME NEW E, NEW s \in Seq(E), NEW e \in E
  PROVE  Append(s, e) \in Seq(E) /\ Tail(Append(s, e)) \in Seq(E)
<1>1. Append(s, e) \in Seq(E) /\ Len(Append(s, e)) = Len(s) + 1 /\ Len(s) \in Nat
  BY SMT
<1>2. Append(s, e) # <<>>
  BY SMT, <1>1
<1> QED
  BY SMT, <1>1, <1>2

(* A delegation does not touch heights and collaterals. *)
LEMMA DelegateFacts ==
  ASSUME NEW r \in Registry, NEW c \in Coll, NEW k \in Key, NEW h \in Nat
  PROVE  /\ Delegate(r, c, k, h) \in Registry
         /\ Delegate(r, c, k, h).heights = r.heights
         /\ Delegate(r, c, k, h).last = r.last
         /\ Delegate(r, c, k, h).coll = r.coll
<1> DEFINE d == Delegate(r, c, k, h)
<1>1. /\ r.del \in [Coll -> Key \cup {None}] /\ r.first \in [Coll -> Nat]
      /\ r.hist \in [Coll -> Seq(Nat \X Key)]
      /\ r.heights \in [Key -> SUBSET Nat] /\ r.last \in [Key -> Nat]
      /\ r.coll \in [Key -> Coll \cup {None}]
  BY DEF Registry
<1> DEFINE longer == Append(r.hist[c], <<r.first[c], r.del[c]>>)
           moved == r.del[c] # None /\ r.del[c] # k
           newHist == IF ~moved THEN r.hist[c]
                      ELSE IF Len(longer) > HistoryCap THEN Tail(longer) ELSE longer
           newFirst == IF r.del[c] = k THEN Min({r.first[c], h}) ELSE h
<1>2. d = [r EXCEPT !.del[c] = k, !.hist[c] = newHist, !.first[c] = newFirst]
  BY DEF Delegate
<1>3. newFirst \in Nat
  <2>1. {r.first[c], h} \in SUBSET Nat /\ {r.first[c], h} # {}
    BY <1>1
  <2>2. Min({r.first[c], h}) \in Nat
    BY <2>1, MinIn
  <2> QED
    BY <2>2
<1>4. newHist \in Seq(Nat \X Key)
  <2>1. CASE ~moved
    BY <1>1, <2>1
  <2>2. CASE moved
    <3> DEFINE E == Nat \X Key
    <3>1. <<r.first[c], r.del[c]>> \in E
      BY <1>1, <2>2
    <3>2. r.hist[c] \in Seq(E)
      BY <1>1
    <3> HIDE DEF E
    <3>3. longer \in Seq(E) /\ Tail(longer) \in Seq(E)
      BY <3>1, <3>2, AppendTail
    <3> QED
      BY <2>2, <3>3 DEF E
  <2> QED
    BY <2>1, <2>2
<1> HIDE DEF newHist, newFirst, d
<1>5. /\ d.del = [r.del EXCEPT ![c] = k] /\ d.hist = [r.hist EXCEPT ![c] = newHist]
      /\ d.first = [r.first EXCEPT ![c] = newFirst]
      /\ d.heights = r.heights /\ d.last = r.last /\ d.coll = r.coll
  BY <1>2 DEF Registry
<1>6. /\ d.del \in [Coll -> Key \cup {None}] /\ d.first \in [Coll -> Nat]
      /\ d.hist \in [Coll -> Seq(Nat \X Key)]
  <2>1. d.del \in [Coll -> Key \cup {None}]
    BY ZenonT(30), <1>1, <1>5
  <2>2. d.first \in [Coll -> Nat]
    BY ZenonT(30), <1>1, <1>3, <1>5
  <2>3. d.hist \in [Coll -> Seq(Nat \X Key)]
    BY ZenonT(30), <1>1, <1>4, <1>5
  <2> QED
    BY <2>1, <2>2, <2>3
<1>7. d \in Registry
  BY <1>1, <1>2, <1>5, <1>6 DEF Registry
<1> QED
  BY <1>5, <1>7 DEF d

(* The types of the fields of a registry. *)
LEMMA RegistryFields ==
  ASSUME NEW r \in Registry
  PROVE  /\ r.heights \in [Key -> SUBSET Nat] /\ r.last \in [Key -> Nat]
         /\ r.coll \in [Key -> Coll \cup {None}] /\ r.del \in [Coll -> Key \cup {None}]
         /\ r.first \in [Coll -> Nat] /\ r.hist \in [Coll -> Seq(Nat \X Key)]
  BY DEF Registry

(* Heights heard on the chain of t are numbers up to its height. *)
LEMMA HeardBounded ==
  ASSUME NEW t \in Index, NEW k, NEW S, \A h \in S : Heard(t, h, k)
  PROVE  S \subseteq 0 .. Height(t) /\ S \subseteq Nat
<1>1. Height(t) \in Nat
  BY ChainShape
<1>2. \A h \in S : h \in 1 .. Height(t)
  BY DEF Heard
<1> QED
  BY SMT, <1>1, <1>2

(* A new height of a key, which takes the collateral from every other key. *)
Bound(d, k, c, kept) ==
  [d EXCEPT
    !.heights = [l \in Key |-> IF l = k THEN kept
                   ELSE IF l \in {m \in Key \ {k} : d.coll[m] = c} THEN {} ELSE @[l]],
    !.last = [l \in Key |-> IF l = k THEN Max(kept)
                   ELSE IF l \in {m \in Key \ {k} : d.coll[m] = c} THEN 0 ELSE @[l]],
    !.coll = [l \in Key |-> IF l = k THEN c
                   ELSE IF l \in {m \in Key \ {k} : d.coll[m] = c} THEN None ELSE @[l]]]

(* It keeps a registry right when the heights kept are of the chain. *)
LEMMA BoundSound ==
  ASSUME NEW t \in Index, NEW d \in Sound(t), NEW k \in Key, NEW c \in Coll, NEW kept,
         kept # {}, \A h \in kept : Heard(t, h, k)
  PROVE  Bound(d, k, c, kept) \in Sound(t)
<1> DEFINE e == Bound(d, k, c, kept)
           others == {m \in Key \ {k} : d.coll[m] = c}
           hs == [l \in Key |-> IF l = k THEN kept ELSE IF l \in others THEN {} ELSE d.heights[l]]
           ls == [l \in Key |-> IF l = k THEN Max(kept) ELSE IF l \in others THEN 0 ELSE d.last[l]]
           cs == [l \in Key |-> IF l = k THEN c ELSE IF l \in others THEN None ELSE d.coll[l]]
<1>1. e = [d EXCEPT !.heights = hs, !.last = ls, !.coll = cs]
  BY DEF Bound
<1>2. /\ d \in Registry /\ OneKey(d) /\ LastKept(d)
      /\ \A l \in Key : \A h \in d.heights[l] : Heard(t, h, l)
  BY DEF Sound
<1>3. kept \subseteq 0 .. Height(t) /\ kept \subseteq Nat /\ Height(t) \in Nat
  BY HeardBounded, ChainShape
<1>4. Max(kept) \in Nat /\ Max(kept) \in kept
  BY <1>3, MaxIn
<1>5. hs \in [Key -> SUBSET Nat]
  BY <1>2, <1>3, RegistryFields
<1>6. ls \in [Key -> Nat]
  BY <1>2, <1>4, RegistryFields
<1>7. cs \in [Key -> Coll \cup {None}]
  BY <1>2, RegistryFields
<1> HIDE DEF e
<1>8. e \in Registry /\ e.heights = hs /\ e.last = ls /\ e.coll = cs
  <2> HIDE DEF hs, ls, cs
  <2> QED
    BY <1>1, <1>2, <1>5, <1>6, <1>7 DEF Registry
<1>9. OneKey(e)
  <2> HIDE DEF hs, ls, cs
  <2> SUFFICES ASSUME NEW l \in Key, NEW m \in Key, cs[l] = cs[m], cs[l] # None PROVE l = m
    BY <1>8 DEF OneKey
  <2> QED
    BY <1>2 DEF OneKey, cs
<1>10. ASSUME NEW l \in Key, NEW h \in hs[l] PROVE Heard(t, h, l)
  BY <1>2, <1>10
<1>11. ASSUME NEW l \in Key, ls[l] # 0 PROVE ls[l] \in hs[l]
  BY <1>2, <1>4, <1>11 DEF LastKept
<1>12. LastKept(e)
  <2> HIDE DEF hs, ls
  <2> QED
    BY <1>8, <1>11 DEF LastKept
<1> HIDE DEF hs
<1> QED
  BY <1>8, <1>9, <1>10, <1>12 DEF Sound, e

(* RegisterOnChainMasternodePing keeps a registry right. *)
LEMMA PingSound ==
  ASSUME NEW t \in Index, NEW r \in Sound(t), NEW k \in Key, NEW c \in Coll,
         NEW proof \in BOOLEAN, NEW h, Heard(t, h, k)
  PROVE  Ping(r, k, c, proof, h) \in Sound(t)
<1> DEFINE d == IF proof THEN Delegate(r, c, k, h) ELSE r
           all == d.heights[k] \cup {h}
           kept == IF Cardinality(all) <= MaxHeights THEN all ELSE {p \in all : p >= h - 2 * Window}
<1>1. Ping(r, k, c, proof, h) = Bound(d, k, c, kept)
  BY DEF Ping, Bound
<1>2. h \in Nat
  <2>1. \A x \in {h} : Heard(t, x, k)
    OBVIOUS
  <2> QED
    BY <2>1, HeardBounded
<1>3. r \in Registry /\ OneKey(r) /\ LastKept(r) /\ \A l \in Key : \A p \in r.heights[l] : Heard(t, p, l)
  BY DEF Sound
<1>4. d \in Registry /\ d.heights = r.heights /\ d.last = r.last /\ d.coll = r.coll
  BY <1>2, <1>3, DelegateFacts
<1> HIDE DEF d
<1>5. d \in Sound(t)
  BY <1>3, <1>4 DEF Sound, OneKey, LastKept
<1>6. \A p \in all : Heard(t, p, k)
  BY <1>3, <1>4
<1>7. h >= h - 2 * Window
  BY SMT, <1>2, RegistryAssumption
<1>8. kept # {} /\ \A p \in kept : Heard(t, p, k)
  BY <1>6, <1>7
<1> HIDE DEF kept
<1> QED
  BY <1>1, <1>5, <1>8, BoundSound

-----------------------------------------------------------------------------
(* Connecting blocks *)

(* The fields of a ping and of a heartbeat. *)
LEMMA ActFacts ==
  ASSUME NEW a \in Act
  PROVE  /\ a.key \in Key
         /\ a.kind = "ping" => a.coll \in Coll /\ a.proof \in BOOLEAN
<1>1. CASE a \in [kind : {"ping"}, key : Key, coll : Coll, proof : BOOLEAN]
  BY <1>1
<1>2. CASE a \in [kind : {"beat"}, key : Key]
  BY SMT, <1>2
<1> QED
  BY <1>1, <1>2 DEF Act

(* What a block carries is a sequence of pings and heartbeats. *)
LEMMA ContentFacts ==
  ASSUME content \in Content, NEW b \in Block
  PROVE  /\ Len(content[b].acts) \in Nat /\ DOMAIN content[b].acts = 1 .. Len(content[b].acts)
         /\ \A i \in 1 .. Len(content[b].acts) :
              content[b].acts[i] \in Act /\ Names(b, content[b].acts[i].key)
<1>1. content[b] \in [acts : Seq(Act), spends : SUBSET Coll]
  <2>1. Content \subseteq [Block -> [acts : Seq(Act), spends : SUBSET Coll]]
    BY RegistryAssumption
  <2> QED
    BY <2>1
<1>2. content[b].acts \in Seq(Act)
  BY <1>1
<1>3. /\ Len(content[b].acts) \in Nat /\ DOMAIN content[b].acts = 1 .. Len(content[b].acts)
      /\ \A i \in 1 .. Len(content[b].acts) : content[b].acts[i] \in Act
  BY SMT, <1>2
<1> QED
  BY <1>3 DEF Names

(* A ping or a heartbeat of a block of the chain keeps the registry right. *)
LEMMA ApplySound ==
  ASSUME NEW t \in Index, NEW r \in Sound(t), NEW a \in Act, NEW h, Heard(t, h, a.key), NEW coins
  PROVE  Apply(r, a, h, coins) \in Sound(t)
<1> DEFINE c == IF a.kind = "ping" THEN a.coll ELSE r.coll[a.key]
           proof == a.kind = "ping" /\ a.proof
<1>1. CASE c # None /\ Authorised(r, a.key, c, proof, coins)
  <2>1. r \in Registry
    BY DEF Sound
  <2>2. c \in Coll /\ a.key \in Key /\ proof \in BOOLEAN
    BY <1>1, <2>1, ActFacts, RegistryFields
  <2>3. Apply(r, a, h, coins) = Ping(r, a.key, c, proof, h)
    BY <1>1 DEF Apply
  <2> HIDE DEF c, proof
  <2> QED
    BY <2>2, <2>3, PingSound
<1>2. CASE ~ (c # None /\ Authorised(r, a.key, c, proof, coins))
  <2>1. Apply(r, a, h, coins) = r
    BY <1>2 DEF Apply
  <2> QED
    BY <2>1
<1> QED
  BY <1>1, <1>2

(* RegisterBlockMasternodeActivity keeps a registry right on any chain     *)
(* that the block is part of.                                              *)
LEMMA RegisteredSound ==
  ASSUME content \in Content, NEW t \in Index, NEW r \in Sound(t),
         NEW i \in 1 .. Height(t), NEW coins
  PROVE  Registered(r, Chain[t][i], coins) \in Sound(t)
<1> DEFINE b == Chain[t][i]
<1>1. b \in Block /\ Height(b) = i
  BY ChainShape, BlockAt
<1>2. ASSUME NEW j \in 1 .. Len(content[b].acts), NEW s \in Sound(t)
      PROVE  Apply(s, content[b].acts[j], Height(b), coins) \in Sound(t)
  <2>1. content[b].acts[j] \in Act /\ Names(b, content[b].acts[j].key)
    BY <1>1, ContentFacts
  <2>2. Heard(t, Height(b), content[b].acts[j].key)
    BY <1>1, <2>1 DEF Heard
  <2> QED
    BY <2>1, <2>2, ApplySound
<1>3. Len(content[b].acts) \in Nat
  BY <1>1, ContentFacts
<1> HIDE DEF b
<1>4. Registered(r, b, coins) \in Sound(t)
  BY <1>2, <1>3, RegisteredKeeps
<1> QED
  BY <1>4 DEF b

(* So does the scan of several blocks. *)
LEMMA RescannedSound ==
  ASSUME content \in Content, NEW t \in Index, NEW r \in Sound(t), NEW low \in 0 .. Height(t)
  PROVE  Rescanned(r, t, low) \in Sound(t)
<1>1. Height(t) \in Nat
  BY ChainShape
<1>2. Height(t) - low \in Nat /\ \A i \in 1 .. Height(t) - low : low + i \in 1 .. Height(t)
  BY SMT, <1>1
<1>3. \A i \in 1 .. Height(t) - low : \A s \in Sound(t) :
        Registered(s, Chain[t][low + i], Coins(t)) \in Sound(t)
  BY <1>2, RegisteredSound
<1> QED
  BY <1>2, <1>3, RescannedKeeps

-----------------------------------------------------------------------------
(* Disconnecting blocks *)

(* The first activity found in a block is a ping or heartbeat of it.       *)
LEMMA FirstFacts ==
  ASSUME content \in Content, NEW b \in Block, NEW r, NEW k, NEW c, NEW coins,
         Restorables(r, b, k, c, coins) # {}
  PROVE  /\ FirstRestorable(r, b, k, c, coins) \in Act
         /\ Names(b, FirstRestorable(r, b, k, c, coins).key)
         /\ Restorable(r, FirstRestorable(r, b, k, c, coins), k, c, coins)
<1> DEFINE S == Restorables(r, b, k, c, coins)
<1>1. S \subseteq 1 .. Len(content[b].acts)
  BY ContentFacts DEF Restorables
<1>2. S \in SUBSET Nat
  <2>1. 1 .. Len(content[b].acts) \subseteq Nat
    BY SMT, ContentFacts
  <2> QED
    BY <1>1, <2>1
<1>3. Min(S) \in S
  BY <1>2, MinIn
<1>4. Min(S) \in 1 .. Len(content[b].acts) /\ Restorable(r, content[b].acts[Min(S)], k, c, coins)
  BY <1>1, <1>3 DEF Restorables
<1> QED
  BY <1>4, ContentFacts DEF FirstRestorable

(* RestoreMasternodeActivityFromBlock keeps a registry right. *)
LEMMA RestoredSound ==
  ASSUME content \in Content, NEW t \in Index, NEW r \in Sound(t), NEW i \in 1 .. Height(t),
         NEW k, NEW c \in Coll \cup {None}, NEW coins,
         Restorables(r, Chain[t][i], k, c, coins) # {}
  PROVE  Restored(r, Chain[t][i], k, c, coins) \in Sound(t)
<1> DEFINE b == Chain[t][i]
           a == FirstRestorable(r, b, k, c, coins)
<1>1. b \in Block /\ Height(b) = i
  BY ChainShape, BlockAt
<1>2. a \in Act /\ Names(b, a.key) /\ Restorable(r, a, k, c, coins)
  BY <1>1, FirstFacts
<1>3. Heard(t, Height(b), a.key)
  BY <1>1, <1>2 DEF Heard
<1>4. Restored(r, b, k, c, coins) = IF a.kind = "ping" THEN Ping(r, a.key, a.coll, a.proof, Height(b))
                                    ELSE Ping(r, a.key, c, FALSE, Height(b))
  BY DEF Restored
<1> HIDE DEF b, a
<1>5. CASE a.kind = "ping"
  <2>1. a.key \in Key /\ a.coll \in Coll /\ a.proof \in BOOLEAN
    BY <1>2, <1>5, ActFacts
  <2>2. Restored(r, b, k, c, coins) = Ping(r, a.key, a.coll, a.proof, Height(b))
    BY <1>4, <1>5
  <2> QED
    BY <1>3, <2>1, <2>2, PingSound DEF b
<1>6. CASE a.kind # "ping"
  <2>1. a.key \in Key /\ c \in Coll /\ FALSE \in BOOLEAN
    BY <1>2, <1>6, ActFacts DEF Restorable
  <2>2. Restored(r, b, k, c, coins) = Ping(r, a.key, c, FALSE, Height(b))
    BY <1>4, <1>6
  <2> QED
    BY <1>3, <2>1, <2>2, PingSound DEF b
<1> QED
  BY <1>5, <1>6

(* The heights of blocks to restore from are heights of the chain. *)
LEMMA SourcesFacts ==
  ASSUME NEW p \in Index, NEW r, NEW low \in Nat, NEW h, NEW k, NEW c, NEW coins,
         Sources(r, p, low, h, k, c, coins) # {}
  PROVE  /\ Max(Sources(r, p, low, h, k, c, coins)) \in 1 .. Height(p)
         /\ Restorables(r, Chain[p][Max(Sources(r, p, low, h, k, c, coins))], k, c, coins) # {}
<1> DEFINE S == Sources(r, p, low, h, k, c, coins)
<1>1. Height(p) \in Nat
  BY ChainShape
<1>2. S \subseteq low + 1 .. Height(p)
  BY DEF Sources
<1>3. \A i \in low + 1 .. Height(p) : i \in 0 .. Height(p) /\ i \in 1 .. Height(p)
  BY SMT, <1>1
<1>4. Max(S) \in S
  <2>1. S \in SUBSET (0 .. Height(p))
    BY <1>2, <1>3
  <2> QED
    BY <1>1, <2>1, MaxIn
<1> QED
  BY <1>2, <1>3, <1>4 DEF Sources

(* A key without collateral and last height. *)
LEMMA ClearedSound ==
  ASSUME NEW t \in Index, NEW r \in Sound(t), NEW k \in Key
  PROVE  [r EXCEPT !.last[k] = 0, !.coll[k] = None] \in Sound(t)
<1> DEFINE e == [r EXCEPT !.last[k] = 0, !.coll[k] = None]
<1>1. /\ r \in Registry /\ OneKey(r) /\ LastKept(r)
      /\ \A l \in Key : \A h \in r.heights[l] : Heard(t, h, l)
  BY DEF Sound
<1>2. /\ e.last = [r.last EXCEPT ![k] = 0] /\ e.coll = [r.coll EXCEPT ![k] = None]
      /\ e.heights = r.heights
  BY <1>1 DEF Registry
<1>3. [r.last EXCEPT ![k] = 0] \in [Key -> Nat]
  BY <1>1, RegistryFields
<1>4. [r.coll EXCEPT ![k] = None] \in [Key -> Coll \cup {None}]
  BY <1>1, RegistryFields
<1>5. e \in Registry
  BY <1>1, <1>2, <1>3, <1>4 DEF Registry
<1>6. OneKey(e)
  <2> HIDE DEF e
  <2> SUFFICES ASSUME NEW l \in Key, NEW m \in Key, e.coll[l] = e.coll[m], e.coll[l] # None
               PROVE  l = m
    BY DEF OneKey
  <2>1. r.coll \in [Key -> Coll \cup {None}]
    BY <1>1, RegistryFields
  <2>2. \A x \in Key : e.coll[x] = IF x = k THEN None ELSE r.coll[x]
    BY <1>2, <2>1
  <2>3. l # k /\ m # k
    BY <2>2
  <2>4. r.coll[l] = r.coll[m] /\ r.coll[l] # None
    BY <2>2, <2>3
  <2> QED
    BY <1>1, <2>4 DEF OneKey
<1> HIDE DEF e
<1>7. LastKept(e)
  <2>1. r.last \in [Key -> Nat]
    BY <1>1, RegistryFields
  <2>2. \A x \in Key : e.last[x] = IF x = k THEN 0 ELSE r.last[x]
    BY <1>2, <2>1
  <2> QED
    BY <1>1, <1>2, <2>2 DEF LastKept
<1>8. e \in Sound(t)
  BY <1>1, <1>2, <1>5, <1>6, <1>7 DEF Sound
<1> QED
  BY <1>8 DEF e

(* The recovery of one key, from blocks of a chain that t extends.         *)
LEMMA RecoveredSound ==
  ASSUME content \in Content, NEW t \in Index, NEW p \in Index, Below(p, t),
         NEW r \in Sound(t), NEW k \in Key, NEW c \in Coll \cup {None}, NEW coins
  PROVE  Recovered(r, p, k, c, coins) \in Sound(t)
<1> DEFINE r1 == [r EXCEPT !.last[k] = 0, !.coll[k] = None]
           S == Sources(r1, p, 0, Height(p) + 1, k, c, coins)
           b == Chain[p][Max(S)]
           a == FirstRestorable(r1, b, k, c, coins)
           r2 == Restored(r1, b, k, c, coins)
           T == Sources(r2, p, Max(S), Height(p), a.key, c, coins)
           r3 == Restored(r2, Chain[p][Max(T)], a.key, c, coins)
<1>1. Recovered(r, p, k, c, coins) =
        IF S = {} THEN r1 ELSE IF a.key = k \/ T = {} THEN r2 ELSE r3
  BY DEF Recovered
<1>2. r1 \in Sound(t)
  BY ClearedSound
<1>3. /\ \A i \in 1 .. Height(p) : i \in 1 .. Height(t) /\ Chain[p][i] = Chain[t][i]
  <2>1. Height(p) \in Nat /\ Height(t) \in Nat
    BY ChainShape
  <2>2. \A i \in 1 .. Height(p) : i \in 1 .. Height(t)
    BY SMT, <2>1 DEF Below
  <2> QED
    BY <2>2 DEF Below
<1> HIDE DEF r1
<1>4. ASSUME S # {}
      PROVE  r2 \in Sound(t) /\ Max(S) \in 1 .. Height(p)
  <2>1. 0 \in Nat
    BY SMT
  <2>2. Max(S) \in 1 .. Height(p) /\ Restorables(r1, b, k, c, coins) # {}
    BY <1>4, <2>1, SourcesFacts
  <2>3. Max(S) \in 1 .. Height(t) /\ b = Chain[t][Max(S)]
    BY <1>3, <2>2
  <2> HIDE DEF S
  <2>4. Restorables(r1, Chain[t][Max(S)], k, c, coins) # {}
    BY <2>2, <2>3
  <2> HIDE DEF b
  <2>5. Restored(r1, Chain[t][Max(S)], k, c, coins) \in Sound(t)
    BY <1>2, <2>3, <2>4, RestoredSound
  <2> QED
    BY <2>2, <2>3, <2>5
<1> HIDE DEF r2, a
<1>5. ASSUME S # {}, T # {} PROVE r3 \in Sound(t)
  <2>1. r2 \in Sound(t) /\ Max(S) \in Nat
    <3>1. Max(S) \in 1 .. Height(p) /\ Height(p) \in Nat
      BY <1>4, <1>5, ChainShape
    <3> HIDE DEF S
    <3>2. Max(S) \in Nat
      BY SMT, <3>1
    <3> QED
      BY <1>4, <1>5, <3>2 DEF S
  <2>2. Max(T) \in 1 .. Height(p) /\ Restorables(r2, Chain[p][Max(T)], a.key, c, coins) # {}
    <3> HIDE DEF S
    <3> QED
      BY <1>5, <2>1, SourcesFacts
  <2> HIDE DEF T
  <2>3. Max(T) \in 1 .. Height(t) /\ Chain[p][Max(T)] = Chain[t][Max(T)]
    BY <1>3, <2>2
  <2>4. Restorables(r2, Chain[t][Max(T)], a.key, c, coins) # {}
    BY <2>2, <2>3
  <2>5. Restored(r2, Chain[t][Max(T)], a.key, c, coins) \in Sound(t)
    BY <2>1, <2>3, <2>4, RestoredSound
  <2> QED
    BY <2>3, <2>5
<1> HIDE DEF r3, S, T
<1> QED
  BY <1>1, <1>2, <1>4, <1>5

(* A reverted delegation does not touch heights and collaterals. *)
LEMMA RevertedFacts ==
  ASSUME NEW r \in Registry, NEW c \in Coll, NEW k, NEW h
  PROVE  /\ Reverted(r, c, k, h) \in Registry
         /\ Reverted(r, c, k, h).heights = r.heights
         /\ Reverted(r, c, k, h).last = r.last
         /\ Reverted(r, c, k, h).coll = r.coll
<1> DEFINE n == Len(r.hist[c])
           back == r.hist[c][n]
           shorter == SubSeq(r.hist[c], 1, n - 1)
           old == [r EXCEPT !.del[c] = back[2], !.first[c] = back[1], !.hist[c] = shorter]
           none == [r EXCEPT !.del[c] = None, !.first[c] = 0]
<1>1. Reverted(r, c, k, h) =
        IF r.del[c] # k \/ r.first[c] < h THEN r ELSE IF n # 0 THEN old ELSE none
  BY DEF Reverted
<1>2. /\ r.del \in [Coll -> Key \cup {None}] /\ r.first \in [Coll -> Nat]
      /\ r.hist \in [Coll -> Seq(Nat \X Key)]
  BY RegistryFields
<1>3. ASSUME n # 0 PROVE back[1] \in Nat /\ back[2] \in Key /\ shorter \in Seq(Nat \X Key)
  <2> DEFINE E == Nat \X Key
  <2>1. r.hist[c] \in Seq(E)
    BY <1>2
  <2> HIDE DEF E
  <2>2. back \in E /\ shorter \in Seq(E)
    BY SMT, <1>3, <2>1
  <2> HIDE DEF back
  <2> QED
    BY <2>2 DEF E
<1>4. ASSUME n # 0 PROVE old \in Registry /\ old.heights = r.heights /\ old.last = r.last /\ old.coll = r.coll
  <2> HIDE DEF back, shorter, n
  <2>1. /\ old.del = [r.del EXCEPT ![c] = back[2]] /\ old.first = [r.first EXCEPT ![c] = back[1]]
        /\ old.hist = [r.hist EXCEPT ![c] = shorter]
        /\ old.heights = r.heights /\ old.coll = r.coll /\ old.last = r.last
    BY DEF Registry
  <2>2. [r.del EXCEPT ![c] = back[2]] \in [Coll -> Key \cup {None}]
    BY <1>2, <1>3, <1>4
  <2>3. [r.first EXCEPT ![c] = back[1]] \in [Coll -> Nat]
    BY <1>2, <1>3, <1>4
  <2>4. [r.hist EXCEPT ![c] = shorter] \in [Coll -> Seq(Nat \X Key)]
    BY <1>2, <1>3, <1>4
  <2>5. old \in Registry
    BY <2>1, <2>2, <2>3, <2>4 DEF Registry
  <2> QED
    BY <2>1, <2>5
<1>5. none \in Registry /\ none.heights = r.heights /\ none.last = r.last /\ none.coll = r.coll
  <2>1. /\ none.del = [r.del EXCEPT ![c] = None] /\ none.first = [r.first EXCEPT ![c] = 0]
        /\ none.heights = r.heights /\ none.coll = r.coll /\ none.last = r.last
    BY DEF Registry
  <2>2. [r.del EXCEPT ![c] = None] \in [Coll -> Key \cup {None}]
    BY <1>2
  <2>3. [r.first EXCEPT ![c] = 0] \in [Coll -> Nat]
    BY <1>2
  <2>4. none \in Registry
    BY <2>1, <2>2, <2>3 DEF Registry
  <2> QED
    BY <2>1, <2>4
<1> HIDE DEF old, none
<1> QED
  BY <1>1, <1>4, <1>5

(* Without the heights of a block, the registry is right with or without   *)
(* that block.                                                             *)
LEMMA WithoutHeightFacts ==
  ASSUME NEW t \in Index, NEW r \in Sound(t), NEW n
  PROVE  /\ WithoutHeight(r, n) \in Sound(t)
         /\ \A k \in Key : \A h \in WithoutHeight(r, n).heights[k] : h # n /\ Heard(t, h, k)
<1> DEFINE hs == [k \in Key |-> r.heights[k] \ {n}]
           ls == [k \in Key |-> IF n \notin r.heights[k] THEN r.last[k]
                                ELSE Max({0} \cup (r.heights[k] \ {n}))]
           e == WithoutHeight(r, n)
<1>1. /\ r \in Registry /\ OneKey(r) /\ LastKept(r)
      /\ \A k \in Key : \A h \in r.heights[k] : Heard(t, h, k)
  BY DEF Sound
<1>2. e = [r EXCEPT !.heights = hs, !.last = ls]
  BY DEF WithoutHeight
<1>3. hs \in [Key -> SUBSET Nat]
  BY <1>1, RegistryFields
<1>4. ASSUME NEW k \in Key
      PROVE  /\ Max({0} \cup (r.heights[k] \ {n})) \in Nat
             /\ Max({0} \cup (r.heights[k] \ {n})) \in {0} \cup (r.heights[k] \ {n})
  <2>1. r.heights[k] \subseteq 0 .. Height(t) /\ Height(t) \in Nat
    BY <1>1, HeardBounded, ChainShape
  <2>2. 0 \in 0 .. Height(t) /\ 0 .. Height(t) \subseteq Nat
    BY SMT, <2>1
  <2> DEFINE S == {0} \cup (r.heights[k] \ {n})
  <2>3. S \in SUBSET (0 .. Height(t)) /\ S # {}
    BY <2>1, <2>2
  <2> HIDE DEF S
  <2>4. Max(S) \in S
    BY <2>1, <2>3, MaxIn
  <2>5. Max(S) \in Nat
    BY <2>2, <2>3, <2>4
  <2> QED
    BY <2>4, <2>5 DEF S
<1>5. ls \in [Key -> Nat]
  BY <1>1, <1>4, RegistryFields
<1>6. ASSUME NEW k \in Key, ls[k] # 0 PROVE ls[k] \in hs[k]
  <2>1. CASE n \notin r.heights[k]
    BY <1>1, <1>6, <2>1 DEF LastKept
  <2>2. CASE n \in r.heights[k]
    BY <1>4, <1>6, <2>2
  <2> QED
    BY <2>1, <2>2
<1> HIDE DEF e
<1>7. e \in Registry /\ e.heights = hs /\ e.last = ls /\ e.coll = r.coll
  <2> HIDE DEF hs, ls
  <2> QED
    BY <1>1, <1>2, <1>3, <1>5 DEF Registry
<1>8. \A k \in Key : \A h \in e.heights[k] : h # n /\ Heard(t, h, k)
  <2>1. \A k \in Key : hs[k] = r.heights[k] \ {n}
    OBVIOUS
  <2> HIDE DEF hs, ls
  <2> QED
    BY <1>1, <1>7, <2>1
<1> HIDE DEF hs, ls
<1>9. LastKept(e)
  BY <1>7, <1>6 DEF LastKept
<1>10. e \in Sound(t)
  BY <1>1, <1>7, <1>8, <1>9 DEF Sound, OneKey
<1> QED
  BY <1>8, <1>10 DEF e

(* On the chain of the parent, too. *)
LEMMA WithoutTip ==
  ASSUME NEW b \in Block, NEW r \in Sound(b)
  PROVE  WithoutHeight(r, Height(b)) \in Sound(Parent[b])
<1> DEFINE e == WithoutHeight(r, Height(b))
<1>1. b \in Index /\ Parent[b] \in Index /\ Below(Parent[b], b)
      /\ Height(b) = Height(Parent[b]) + 1 /\ Height(Parent[b]) \in Nat
  BY ChainStep, ChainShape, BelowParent
<1>2. /\ e \in Sound(b)
      /\ \A k \in Key : \A h \in e.heights[k] : h # Height(b) /\ Heard(b, h, k)
  BY <1>1, WithoutHeightFacts
<1> HIDE DEF e
<1>3. ASSUME NEW k \in Key, NEW h \in e.heights[k] PROVE Heard(Parent[b], h, k)
  <2>1. h # Height(b) /\ Heard(b, h, k)
    BY <1>2
  <2>2. h \in 1 .. Height(b)
    BY <2>1 DEF Heard
  <2>3. h <= Height(Parent[b])
    BY SMT, <1>1, <2>1, <2>2
  <2> QED
    BY <1>1, <2>1, <2>3, HeardShorter
<1> QED
  BY <1>2, <1>3 DEF Sound, e

(* The keys to recover, each with the collateral to look for. *)
Todos == UNION {[D -> Coll \cup {None}] : D \in SUBSET Key}
Passes(t) == [r : Sound(t), todo : Todos]

(* The keys to recover, each with a collateral or none. *)
LEMMA TodoFacts ==
  ASSUME NEW todo
  PROVE  /\ todo \in Todos => DOMAIN todo \subseteq Key
         /\ todo \in Todos => \A k \in DOMAIN todo : todo[k] \in Coll \cup {None}
         /\ \A D \in SUBSET Key : todo \in [D -> Coll \cup {None}] => todo \in Todos
  BY DEF Todos

(* What DisconnectBlock begins the pass over the pings with. *)
LEMMA StartPasses ==
  ASSUME NEW b, NEW t \in Index, NEW r \in Registry, WithoutHeight(r, Height(b)) \in Sound(t)
  PROVE  RevertStart(r, b) \in Passes(t)
<1> DEFINE D == {l \in Key : r.heights[l] = {Height(b)}}
<1>1. D \in SUBSET Key
  OBVIOUS
<1>2. Emptied(r, Height(b)) \in [D -> Coll \cup {None}]
  BY RegistryFields DEF Emptied
<1>3. Emptied(r, Height(b)) \in Todos
  BY <1>1, <1>2, TodoFacts
<1> QED
  BY <1>3 DEF RevertStart, Passes

(* A ping of the disconnected block. *)
LEMMA RevertPingPasses ==
  ASSUME NEW t \in Index, NEW acc \in Passes(t), NEW a \in Act, a.kind = "ping", NEW h
  PROVE  RevertPing(acc, a, h) \in Passes(t)
<1> DEFINE r == IF a.proof THEN Reverted(acc.r, a.coll, a.key, h) ELSE acc.r
           back == IF r = acc.r THEN None ELSE r.del[a.coll]
           lost == {k \in {back, a.key} \ {None} : r.heights[k] = {}}
           D == lost \cup DOMAIN acc.todo
           todo == [k \in D |-> IF k \in lost THEN a.coll ELSE acc.todo[k]]
<1>1. RevertPing(acc, a, h) = [r |-> r, todo |-> todo]
  BY DEF RevertPing
<1>2. acc.r \in Sound(t) /\ acc.todo \in Todos
  BY DEF Passes
<1>3. acc.r \in Registry
  BY <1>2 DEF Sound
<1>4. a.key \in Key /\ a.coll \in Coll
  BY ActFacts
<1>5. r \in Registry /\ r.heights = acc.r.heights /\ r.last = acc.r.last /\ r.coll = acc.r.coll
  <2>1. CASE a.proof
    <3>1. r = Reverted(acc.r, a.coll, a.key, h)
      BY <2>1
    <3>2. /\ Reverted(acc.r, a.coll, a.key, h) \in Registry
          /\ Reverted(acc.r, a.coll, a.key, h).heights = acc.r.heights
          /\ Reverted(acc.r, a.coll, a.key, h).last = acc.r.last
          /\ Reverted(acc.r, a.coll, a.key, h).coll = acc.r.coll
      BY SMT, <1>3, <1>4, RevertedFacts
    <3> HIDE DEF r
    <3> QED
      BY <3>1, <3>2
  <2>2. CASE ~a.proof
    BY <1>3, <2>2
  <2> QED
    BY <2>1, <2>2
<1>6. r \in Sound(t)
  <2> HIDE DEF r
  <2> QED
    BY <1>2, <1>5 DEF Sound, OneKey, LastKept
<1> HIDE DEF r
<1>7. back \in Key \cup {None}
  BY <1>4, <1>5, RegistryFields
<1> HIDE DEF back
<1>8. D \in SUBSET Key
  BY <1>2, <1>4, <1>7, TodoFacts
<1>9. todo \in [D -> Coll \cup {None}]
  BY <1>2, <1>4, TodoFacts
<1> HIDE DEF D, todo
<1>10. todo \in Todos
  BY <1>8, <1>9, TodoFacts
<1>11. [r |-> r, todo |-> todo] \in [r : Sound(t), todo : Todos]
  BY <1>6, <1>10
<1> QED
  BY <1>1, <1>11 DEF Passes

(* DisconnectBlock, once the heights of the block are gone. *)
LEMMA DisconnectedOn ==
  ASSUME content \in Content, NEW b \in Block, NEW t \in Index, Below(Parent[b], t),
         NEW r \in Registry, WithoutHeight(r, Height(b)) \in Sound(t)
  PROVE  Disconnected(r, b) \in Sound(t)
<1> DEFINE acc == PingsReverted(r, b)
<1>1. ASSUME NEW i \in 1 .. Len(content[b].acts), NEW s \in Passes(t)
      PROVE  RevertStep(b, s, i) \in Passes(t)
  <2>1. content[b].acts[i] \in Act
    BY ContentFacts
  <2>2. CASE content[b].acts[i].kind = "ping"
    <3>1. RevertStep(b, s, i) = RevertPing(s, content[b].acts[i], Height(b))
      BY <2>2 DEF RevertStep
    <3> QED
      BY <2>1, <2>2, <3>1, RevertPingPasses
  <2>3. CASE content[b].acts[i].kind # "ping"
    BY <2>3 DEF RevertStep
  <2> QED
    BY <2>2, <2>3
<1>2. Len(content[b].acts) \in Nat /\ RevertStart(r, b) \in Passes(t)
  BY ContentFacts, StartPasses
<1>3. acc \in Passes(t)
  BY <1>1, <1>2, RevertedKeeps
<1> HIDE DEF acc
<1>4. acc.r \in Sound(t) /\ acc.todo \in Todos
  BY <1>3 DEF Passes
<1>5. Len(Keys) \in Nat /\ \A i \in 1 .. Len(Keys) : Keys[i] \in Key
  <2>1. Keys \in Seq(Key)
    BY RegistryAssumption
  <2> QED
    BY SMT, <2>1
<1>6. Parent[b] \in Index
  BY ChainStep
<1>7. ASSUME NEW i \in 1 .. Len(Keys), NEW s \in Sound(t)
      PROVE  RecoverStep(Parent[b], acc.todo, s, i) \in Sound(t)
  <2> DEFINE c == IF acc.todo[Keys[i]] = None THEN s.coll[Keys[i]] ELSE acc.todo[Keys[i]]
  <2>1. CASE Keys[i] \notin DOMAIN acc.todo
    BY <2>1 DEF RecoverStep
  <2>2. CASE Keys[i] \in DOMAIN acc.todo
    <3>1. RecoverStep(Parent[b], acc.todo, s, i) = Recovered(s, Parent[b], Keys[i], c, Coins(Parent[b]))
      BY <2>2 DEF RecoverStep
    <3>2. s.coll \in [Key -> Coll \cup {None}]
      BY RegistryFields DEF Sound
    <3>3. Keys[i] \in Key /\ acc.todo[Keys[i]] \in Coll \cup {None}
      BY <1>4, <1>5, <2>2, TodoFacts
    <3>4. c \in Coll \cup {None}
      BY <3>2, <3>3
    <3> HIDE DEF c
    <3> QED
      BY <1>6, <3>1, <3>3, <3>4, RecoveredSound
  <2> QED
    BY <2>1, <2>2
<1>8. AllRecovered(acc.r, Parent[b], acc.todo) \in Sound(t)
  BY <1>4, <1>5, <1>7, RecoveredKeeps
<1> QED
  BY <1>8 DEF Disconnected, acc

(* After DisconnectBlock the registry is right on the chain of the parent, *)
(* and it stays right on any chain that the block is part of.              *)
LEMMA DisconnectedSound ==
  /\ \A b \in Block : content \in Content => \A r \in Sound(b) : Disconnected(r, b) \in Sound(Parent[b])
  /\ \A t \in Index : content \in Content => \A i \in 1 .. Height(t) : \A r \in Sound(t) :
        Disconnected(r, Chain[t][i]) \in Sound(t)
<1>1. ASSUME content \in Content, NEW b \in Block, NEW r \in Sound(b)
      PROVE  Disconnected(r, b) \in Sound(Parent[b])
  <2>1. Parent[b] \in Index /\ Below(Parent[b], Parent[b])
    BY ChainStep, BelowSelf
  <2>2. r \in Registry /\ WithoutHeight(r, Height(b)) \in Sound(Parent[b])
    BY WithoutTip DEF Sound
  <2> QED
    BY <1>1, <2>1, <2>2, DisconnectedOn
<1>2. ASSUME content \in Content, NEW t \in Index, NEW i \in 1 .. Height(t), NEW r \in Sound(t)
      PROVE  Disconnected(r, Chain[t][i]) \in Sound(t)
  <2> DEFINE b == Chain[t][i]
  <2>1. b \in Block /\ Below(b, t)
    BY ChainShape, BlockAt
  <2>2. Below(Parent[b], t)
    <3> HIDE DEF b
    <3>1. b \in Index /\ Parent[b] \in Index /\ Below(Parent[b], b)
      BY <2>1, ChainStep, BelowParent
    <3> QED
      BY <2>1, <3>1, BelowTrans
  <2>3. r \in Registry /\ WithoutHeight(r, Height(b)) \in Sound(t)
    BY WithoutHeightFacts DEF Sound
  <2> HIDE DEF b
  <2>4. Disconnected(r, b) \in Sound(t)
    BY <1>2, <2>1, <2>2, <2>3, DisconnectedOn
  <2> QED
    BY <2>4 DEF b
<1> QED
  BY <1>1, <1>2

(* So does the disconnection of the last blocks in VerifyDB. *)
LEMMA UnwoundSound ==
  ASSUME content \in Content, NEW t \in Index, NEW r \in Sound(t), NEW n \in 0 .. Height(t)
  PROVE  Unwound(r, t, n) \in Sound(t)
<1>1. Height(t) \in Nat
  BY ChainShape
<1>2. n \in Nat /\ \A i \in 1 .. n : Height(t) + 1 - i \in 1 .. Height(t)
  BY SMT, <1>1
<1>3. \A i \in 1 .. n : \A s \in Sound(t) : Disconnected(s, Chain[t][Height(t) + 1 - i]) \in Sound(t)
  BY <1>2, DisconnectedSound
<1> QED
  BY <1>2, <1>3, UnwoundKeeps

-----------------------------------------------------------------------------
(* Start-up *)

(* The empty registry is right on every chain. *)
LEMMA EmptySound == \A t \in Index : Empty \in Sound(t)
<1>1. Empty \in Registry
  <2>1. <<>> \in Seq(Nat \X Key) /\ 0 \in Nat
    BY SMT
  <2> DEFINE hs == [k \in Key |-> {}]
             ls == [k \in Key |-> 0]
             cs == [k \in Key |-> None]
             ds == [c \in Coll |-> None]
             fs == [c \in Coll |-> 0]
             ts == [c \in Coll |-> <<>>]
  <2>2. hs \in [Key -> SUBSET Nat] /\ ls \in [Key -> Nat] /\ cs \in [Key -> Coll \cup {None}]
    BY <2>1
  <2>3. ds \in [Coll -> Key \cup {None}] /\ fs \in [Coll -> Nat] /\ ts \in [Coll -> Seq(Nat \X Key)]
    BY <2>1
  <2>4. Empty = [heights |-> hs, last |-> ls, coll |-> cs, del |-> ds, first |-> fs, hist |-> ts]
    BY DEF Empty
  <2> HIDE DEF hs, ls, cs, ds, fs, ts
  <2> QED
    BY <2>2, <2>3, <2>4 DEF Registry
<1>2. \A k \in Key : Empty.heights[k] = {} /\ Empty.last[k] = 0 /\ Empty.coll[k] = None
  BY DEF Empty
<1> QED
  BY <1>1, <1>2 DEF Sound, OneKey, LastKept

(* SavedIn says of the heights up to that of the tag what Heard says.      *)
LEMMA SavedMeans ==
  ASSUME NEW r, NEW t
  PROVE  SavedIn(content, r, t) <=>
           OneKey(r) /\ \A k \in Key : \A h \in r.heights[k] : h <= Height(t) => Heard(t, h, k)
  BY DEF SavedIn, Heard, Names

(* What a start keeps of the saved registry is right on the chain of its   *)
(* tag.                                                                    *)
LEMMA TrimmedSound ==
  ASSUME saved.tag \in Index, saved.reg \in Registry, SavedSound
  PROVE  Trimmed(saved.reg, Height(saved.tag)) \in Sound(saved.tag)
<1> DEFINE r == saved.reg
           n == Height(saved.tag)
           cut == [k \in Key |-> {p \in r.heights[k] : p <= n}]
           ls == [k \in Key |-> Max({0} \cup cut[k])]
<1>1. \A k \in Key : \A h \in cut[k] : Heard(saved.tag, h, k)
  BY SavedMeans DEF SavedSound
<1>2. n \in Nat
  BY ChainShape
<1>3. \A k \in Key : cut[k] \subseteq 0 .. n /\ cut[k] \subseteq Nat
  BY <1>1, HeardBounded
<1>4. cut \in [Key -> SUBSET Nat]
  BY <1>3
<1>5. ASSUME NEW k \in Key PROVE Max({0} \cup cut[k]) \in Nat /\ Max({0} \cup cut[k]) \in {0} \cup cut[k]
  <2> DEFINE S == {0} \cup cut[k]
  <2>1. 0 \in 0 .. n /\ 0 \in Nat
    BY SMT, <1>2
  <2>2. S \in SUBSET (0 .. n) /\ S # {} /\ S \subseteq Nat
    BY <1>3, <2>1
  <2> HIDE DEF S
  <2>3. Max(S) \in S
    BY <1>2, <2>2, MaxIn
  <2>4. Max(S) \in Nat
    BY <2>2, <2>3
  <2> QED
    BY <2>3, <2>4 DEF S
<1>6. ls \in [Key -> Nat]
  BY <1>5
<1>7. \A k \in Key : ls[k] # 0 => ls[k] \in cut[k]
  BY <1>5
<1>8. Trimmed(r, n) = [r EXCEPT !.heights = cut, !.last = ls]
  BY DEF Trimmed
<1> HIDE DEF cut, ls
<1>9. Trimmed(r, n) \in Registry
  BY <1>4, <1>6, <1>8 DEF Registry
<1>10. Trimmed(r, n).heights = cut /\ Trimmed(r, n).last = ls /\ Trimmed(r, n).coll = r.coll
  BY <1>8 DEF Registry
<1>11. OneKey(Trimmed(r, n))
  BY <1>10 DEF SavedSound, SavedIn, OneKey
<1>12. LastKept(Trimmed(r, n))
  BY <1>10, <1>7 DEF LastKept
<1> QED
  BY <1>1, <1>9, <1>11, <1>10, <1>12 DEF Sound

(* InitializeOnChainMasternodePings leaves a registry that is right on the *)
(* chain of the coins.                                                     *)
LEMMA LoadedSound ==
  ASSUME TypeOK, content \in Content, SavedSound
  PROVE  Loaded \in Sound(diskTip)
<1>1. /\ diskTip \in Index /\ saved.tag \in Index /\ saved.reg \in Registry
      /\ Height(diskTip) \in Nat /\ Height(saved.tag) \in Nat
  BY ChainShape DEF TypeOK
<1>2. CASE diskTip = Genesis
  BY <1>1, <1>2, EmptySound DEF Loaded
<1>3. CASE diskTip # Genesis /\ OnChain(saved.tag, diskTip)
  <2> DEFINE r == Trimmed(saved.reg, Height(saved.tag))
  <2>1. Below(saved.tag, diskTip)
    BY <1>1, <1>3, OnChainBelow
  <2>2. Height(saved.tag) \in 0 .. Height(diskTip)
    <3>1. Height(saved.tag) <= Height(diskTip)
      BY <2>1 DEF Below
    <3> QED
      BY SMT, <1>1, <3>1
  <2>3. r \in Sound(diskTip)
    BY <1>1, <2>1, TrimmedSound, SoundLonger
  <2>4. Loaded = Rescanned(r, diskTip, Height(saved.tag))
    BY <1>3 DEF Loaded
  <2> HIDE DEF r
  <2> QED
    BY <1>1, <2>2, <2>3, <2>4, RescannedSound
<1>4. CASE diskTip # Genesis /\ ~OnChain(saved.tag, diskTip)
  <2>1. 0 \in 0 .. Height(diskTip)
    BY SMT, <1>1
  <2>2. Loaded = Rescanned(Empty, diskTip, 0)
    BY <1>4 DEF Loaded
  <2> QED
    BY <1>1, <2>1, <2>2, EmptySound, RescannedSound
<1> QED
  BY <1>2, <1>3, <1>4

-----------------------------------------------------------------------------
(* The inductive invariant *)

(* A registry that is right on the chain of t, at a step to RegTip = t.    *)
LEMMA InMemory ==
  ASSUME content' = content, NEW t, RegTip' = t, reg' \in Sound(t)
  PROVE  (reg \in Sound(RegTip))'
  BY DEF Sound, Heard, Names

(* A registry saved with the tag t, when it is right on a chain that       *)
(* begins with that of t or on the beginning of it.                        *)
LEMMA SavedAs ==
  ASSUME content' = content, NEW s \in Index, NEW t \in Index, Below(s, t) \/ Below(t, s),
         NEW r \in Sound(s), NEW x \in SUBSET Coll, saved' = [reg |-> r, tag |-> t, touched |-> x]
  PROVE  SavedSound' /\ SavedTyped'
<1>1. saved'.tag = t /\ saved'.reg = r /\ saved'.touched = x
  OBVIOUS
<1>2. OneKey(r) /\ r \in Registry /\ \A k \in Key : \A h \in r.heights[k] : Heard(s, h, k)
  BY DEF Sound
<1>3. \A k \in Key : \A h \in r.heights[k] : h <= Height(t) => Heard(t, h, k)
  <2>1. CASE Below(s, t)
    BY <1>2, <2>1, HeardLonger
  <2>2. CASE Below(t, s)
    BY <1>2, <2>2, HeardShorter
  <2> QED
    BY <2>1, <2>2
<1>4. SavedIn(content, r, t)
  BY <1>2, <1>3, SavedMeans
<1> QED
  BY <1>1, <1>2, <1>4 DEF SavedSound, SavedTyped

(* What a step leaves saved stays right. *)
LEMMA SavedKept ==
  ASSUME content' = content, saved' = saved, SavedSound
  PROVE  SavedSound'
  BY DEF SavedSound

(* Before the first block everything is empty. *)
LEMMA RegInvInit == Init => RegInv
<1> SUFFICES ASSUME Init PROVE RegInv
  OBVIOUS
<1>1. Genesis \in Index /\ Empty \in Sound(Genesis)
  BY GenesisLow, EmptySound
<1>2. Empty \in Registry /\ OneKey(Empty)
  BY <1>1 DEF Sound
<1>3. saved.tag = Genesis /\ saved.reg = Empty /\ saved.touched = {} /\ touched = {}
  BY DEF Init
<1>4. restarts \in 0 .. MaxRestart
  BY SMT, RegistryAssumption DEF Init
<1>5. TypeOK
  BY <1>1, <1>2, <1>3, <1>4 DEF TypeOK, Init
<1>6. reg \in Sound(RegTip)
  BY <1>1 DEF Init, RegTip
<1>7. SavedSound
  <2>1. \A k \in Key : Empty.heights[k] = {}
    BY DEF Empty
  <2> QED
    BY <1>2, <1>3, <2>1 DEF SavedSound, SavedIn
<1> QED
  BY <1>5, <1>6, <1>7 DEF RegInv, Init

(* Choosing a tip moves nothing but the goal. *)
LEMMA ChooseKeeps == RegInv /\ (\E b \in Block : Choose(b)) => RegInv'
<1> SUFFICES ASSUME RegInv, NEW b \in Block, Choose(b) PROVE RegInv'
  OBVIOUS
<1>1. TypeOK'
  BY ChainStep DEF RegInv, TypeOK, Choose
<1>2. reg \in Sound(tip)
  BY DEF RegInv, RegTip, Choose
<1>3. RegTip' = tip
  BY DEF RegTip, Choose
<1>4. (reg \in Sound(RegTip))'
  BY <1>2, <1>3, InMemory DEF Choose
<1>5. SavedSound'
  BY SavedKept DEF RegInv, Choose
<1> QED
  BY <1>1, <1>4, <1>5 DEF RegInv, Choose

(* ConnectBlock: the registry is that of the next block, and saved so.     *)
LEMMA ConnectBlockKeeps == RegInv /\ ConnectBlock => RegInv'
<1> SUFFICES ASSUME RegInv, ConnectBlock PROVE RegInv'
  OBVIOUS
<1> DEFINE n == Next1
<1>1. n \in Block /\ Parent[n] = tip
  BY NextBlock DEF RegInv, TypeOK, ConnectBlock
<1>2. reg \in Sound(tip) /\ tip \in Index /\ touched \in SUBSET Coll
  BY DEF RegInv, RegTip, ConnectBlock, TypeOK
<1>3. Next1' = n
  BY DEF Next1, ConnectBlock
<1>4. RegTip' = n
  BY <1>3 DEF RegTip, ConnectBlock
<1>5. reg' = Registered(reg, n, Coins(n)) /\ saved' = [reg |-> reg', tag |-> n, touched |-> touched]
  BY DEF ConnectBlock
<1> HIDE DEF n
<1>6. /\ n \in Index /\ reg \in Sound(n) /\ n = Chain[n][Height(n)]
      /\ Height(n) = Height(tip) + 1 /\ Height(tip) \in Nat
  BY <1>1, <1>2, ChainStep, ChainShape, BelowParent, SoundLonger
<1>7. Height(n) \in 1 .. Height(n)
  BY SMT, <1>6
<1>8. Registered(reg, Chain[n][Height(n)], Coins(n)) \in Sound(n)
  BY <1>6, <1>7, RegisteredSound DEF RegInv
<1>9. reg' \in Sound(n)
  BY <1>5, <1>6, <1>8
<1>10. (reg \in Sound(RegTip))'
  BY <1>4, <1>9, InMemory DEF ConnectBlock
<1>11. SavedSound' /\ SavedTyped'
  BY <1>2, <1>5, <1>6, <1>9, BelowSelf, SavedAs DEF ConnectBlock
<1>12. reg' \in Registry
  BY <1>9 DEF Sound
<1>13. TypeOK'
  BY <1>11, <1>12 DEF RegInv, TypeOK, SavedTyped, ConnectBlock
<1>14. (tip # goal /\ OnChain(tip, goal))'
  BY DEF ConnectBlock, OnChain
<1> QED
  BY <1>10, <1>11, <1>13, <1>14 DEF RegInv, ConnectBlock

(* The flush inside ConnectTip saves the registry of the next block under  *)
(* the name of the old tip: it is right up to that height.                 *)
LEMMA ConnectFlushKeeps == RegInv /\ ConnectFlush => RegInv'
<1> SUFFICES ASSUME RegInv, ConnectFlush PROVE RegInv'
  OBVIOUS
<1> DEFINE n == Next1
<1>1. n \in Block /\ Parent[n] = tip
  BY NextBlock DEF RegInv, TypeOK, ConnectFlush
<1>2. reg \in Sound(n) /\ tip \in Index /\ tip # goal /\ OnChain(tip, goal) /\ touched \in SUBSET Coll
  BY DEF RegInv, RegTip, ConnectFlush, TypeOK
<1>3. Next1' = n
  BY DEF Next1, ConnectFlush
<1>4. RegTip' = n
  BY <1>3 DEF RegTip, ConnectFlush
<1> HIDE DEF n
<1>5. n \in Index /\ Below(tip, n)
  BY <1>1, ChainStep, BelowParent
<1>6. reg' \in Sound(n)
  BY <1>2 DEF ConnectFlush
<1>7. (reg \in Sound(RegTip))'
  BY <1>4, <1>6, InMemory DEF ConnectFlush
<1>8. SavedSound' /\ SavedTyped'
  BY <1>2, <1>5, SavedAs DEF ConnectFlush
<1>9. TypeOK'
  BY <1>8 DEF RegInv, TypeOK, SavedTyped, ConnectFlush
<1>10. (tip # goal /\ OnChain(tip, goal))'
  BY <1>2 DEF ConnectFlush, OnChain
<1> QED
  BY <1>7, <1>8, <1>9, <1>10 DEF RegInv, ConnectFlush

(* ConnectTip: the tip becomes the block the registry already stands for.  *)
LEMMA ConnectTipKeeps == RegInv /\ ConnectTip => RegInv'
<1> SUFFICES ASSUME RegInv, ConnectTip PROVE RegInv'
  OBVIOUS
<1> DEFINE n == Next1
<1>1. n \in Block
  BY NextBlock DEF RegInv, TypeOK, ConnectTip
<1>2. reg \in Sound(n)
  BY DEF RegInv, RegTip, ConnectTip
<1>3. RegTip' = n
  BY DEF RegTip, ConnectTip
<1>4. tip' = n /\ diskTip' \in {n, diskTip}
  BY DEF ConnectTip
<1> HIDE DEF n
<1>5. n \in Index
  BY <1>1, ChainStep
<1>6. (reg \in Sound(RegTip))'
  BY <1>2, <1>3, InMemory DEF ConnectTip
<1>7. SavedSound'
  BY SavedKept DEF RegInv, ConnectTip
<1>8. TypeOK'
  BY <1>4, <1>5 DEF RegInv, TypeOK, ConnectTip
<1> QED
  BY <1>6, <1>7, <1>8 DEF RegInv, ConnectTip

(* DisconnectBlock: the registry is that of the parent, and saved so.      *)
LEMMA DisconnectBlockKeeps == RegInv /\ DisconnectBlock => RegInv'
<1> SUFFICES ASSUME RegInv, DisconnectBlock PROVE RegInv'
  OBVIOUS
<1>1. tip # Genesis /\ tip \in Block
  BY DEF RegInv, TypeOK, DisconnectBlock, OnChain, Index
<1>2. reg \in Sound(tip) /\ touched \in SUBSET Coll
  BY DEF RegInv, RegTip, TypeOK, DisconnectBlock
<1>3. RegTip' = Parent[tip]
  BY DEF RegTip, DisconnectBlock
<1>4. Parent[tip] \in Index
  BY <1>1, ChainStep
<1>5. reg' \in Sound(Parent[tip])
  BY <1>1, <1>2, DisconnectedSound DEF DisconnectBlock, RegInv
<1>6. (reg \in Sound(RegTip))'
  BY <1>3, <1>5, InMemory DEF DisconnectBlock
<1>7. SavedSound' /\ SavedTyped'
  BY <1>2, <1>4, <1>5, BelowSelf, SavedAs DEF DisconnectBlock
<1>8. reg' \in Registry
  BY <1>5 DEF Sound
<1>9. TypeOK'
  BY <1>7, <1>8 DEF RegInv, TypeOK, SavedTyped, DisconnectBlock
<1> QED
  BY <1>1, <1>6, <1>7, <1>9 DEF RegInv, DisconnectBlock

(* The flush inside DisconnectTip saves the registry of the parent under   *)
(* the name of the deleted block.                                          *)
LEMMA DisconnectFlushKeeps == RegInv /\ DisconnectFlush => RegInv'
<1> SUFFICES ASSUME RegInv, DisconnectFlush PROVE RegInv'
  OBVIOUS
<1>1. tip # Genesis /\ tip \in Block
  BY DEF RegInv, TypeOK, DisconnectFlush, Index
<1>2. reg \in Sound(Parent[tip]) /\ touched \in SUBSET Coll
  BY DEF RegInv, RegTip, TypeOK, DisconnectFlush
<1>3. RegTip' = Parent[tip]
  BY DEF RegTip, DisconnectFlush
<1>4. tip \in Index /\ Parent[tip] \in Index /\ Below(Parent[tip], tip)
  BY <1>1, ChainStep, BelowParent
<1>5. reg' \in Sound(Parent[tip])
  BY <1>2 DEF DisconnectFlush
<1>6. (reg \in Sound(RegTip))'
  BY <1>3, <1>5, InMemory DEF DisconnectFlush
<1>7. SavedSound' /\ SavedTyped'
  BY <1>2, <1>4, SavedAs DEF DisconnectFlush
<1>8. TypeOK'
  BY <1>7 DEF RegInv, TypeOK, SavedTyped, DisconnectFlush
<1> QED
  BY <1>1, <1>6, <1>7, <1>8 DEF RegInv, DisconnectFlush

(* DisconnectTip: the tip becomes the parent. *)
LEMMA DisconnectTipKeeps == RegInv /\ DisconnectTip => RegInv'
<1> SUFFICES ASSUME RegInv, DisconnectTip PROVE RegInv'
  OBVIOUS
<1>1. tip \in Block
  BY DEF RegInv, TypeOK, DisconnectTip, Index
<1>2. reg \in Sound(Parent[tip])
  BY DEF RegInv, RegTip, DisconnectTip
<1>3. RegTip' = Parent[tip]
  BY DEF RegTip, DisconnectTip
<1>4. Parent[tip] \in Index
  BY <1>1, ChainStep
<1>5. (reg \in Sound(RegTip))'
  BY <1>2, <1>3, InMemory DEF DisconnectTip
<1>6. SavedSound'
  BY SavedKept DEF RegInv, DisconnectTip
<1>7. TypeOK'
  BY <1>4 DEF RegInv, TypeOK, DisconnectTip
<1> QED
  BY <1>5, <1>6, <1>7 DEF RegInv, DisconnectTip

(* The flush between blocks. *)
LEMMA FlushKeeps == RegInv /\ Flush => RegInv'
<1> SUFFICES ASSUME RegInv, Flush PROVE RegInv'
  OBVIOUS
<1>1. reg \in Sound(tip) /\ tip \in Index /\ touched \in SUBSET Coll
  BY DEF RegInv, RegTip, Flush, TypeOK
<1>2. RegTip' = tip
  BY DEF RegTip, Flush
<1>3. reg' \in Sound(tip)
  BY <1>1 DEF Flush
<1>4. (reg \in Sound(RegTip))'
  BY <1>2, <1>3, InMemory DEF Flush
<1>5. SavedSound' /\ SavedTyped'
  BY <1>1, BelowSelf, SavedAs DEF Flush
<1>6. TypeOK'
  BY <1>5 DEF RegInv, TypeOK, SavedTyped, Flush
<1> QED
  BY <1>4, <1>5, <1>6 DEF RegInv, Flush

(* The touched collaterals are collaterals. *)
LEMMA TornTyped == Torn \subseteq Coll /\ \A b : Involved(b) \subseteq Coll
  BY DEF Torn, Involved, Claims

(* A start, whatever the last stop left behind. *)
LEMMA RestartKeeps == RegInv /\ Restart => RegInv'
<1> SUFFICES ASSUME RegInv, Restart PROVE RegInv'
  OBVIOUS
<1>1. Loaded \in Sound(diskTip) /\ diskTip \in Index
  BY LoadedSound DEF RegInv, TypeOK
<1>2. RegTip' = diskTip
  BY DEF RegTip, Restart
<1>3. reg' \in Sound(diskTip)
  BY <1>1 DEF Restart
<1>4. (reg \in Sound(RegTip))'
  BY <1>2, <1>3, InMemory DEF Restart
<1>5. touched' \in SUBSET Coll
  BY TornTyped DEF RegInv, TypeOK, Restart
<1>6. SavedSound' /\ SavedTyped'
  <2>1. CASE saved' = [reg |-> saved.reg, tag |-> saved.tag, touched |-> touched']
    <3>1. saved'.reg = saved.reg /\ saved'.tag = saved.tag /\ saved'.touched = touched'
      BY <2>1
    <3> QED
      BY <1>5, <3>1 DEF RegInv, TypeOK, Restart, SavedSound, SavedTyped
  <2>2. CASE saved' = [reg |-> reg', tag |-> diskTip, touched |-> touched']
    BY <1>1, <1>3, <1>5, <2>2, BelowSelf, SavedAs DEF Restart
  <2> QED
    BY <2>1, <2>2 DEF Restart
<1>7. reg' \in Registry
  BY <1>3 DEF Sound
<1>8. restarts' \in 0 .. MaxRestart
  <2>1. restarts \in 0 .. MaxRestart /\ restarts < MaxRestart /\ restarts' = restarts + 1
    BY DEF RegInv, TypeOK, Restart
  <2> QED
    BY SMT, <2>1, RegistryAssumption
<1>9. TypeOK'
  BY <1>1, <1>5, <1>6, <1>7, <1>8 DEF TypeOK, SavedTyped, Restart
<1> QED
  BY <1>4, <1>6, <1>9 DEF RegInv, Restart

(* VerifyDB at start-up: it may forget, but what is left is of the chain.  *)
LEMMA VerifyDBKeeps == RegInv /\ VerifyDB => RegInv'
<1> SUFFICES ASSUME RegInv, VerifyDB PROVE RegInv'
  OBVIOUS
<1> DEFINE H == Height(tip)
           depth == IF CheckBlocks = 0 THEN H ELSE Min({CheckBlocks, H})
           n == Min({depth + 1, H})
<1>1. reg \in Sound(tip) /\ tip \in Index
  BY DEF RegInv, RegTip, VerifyDB, TypeOK
<1>2. RegTip' = tip
  BY DEF RegTip, VerifyDB
<1>3. reg' = Unwound(reg, tip, n)
  BY DEF VerifyDB
<1>4. H \in Nat /\ CheckBlocks \in Nat
  BY <1>1, ChainShape, RegistryAssumption
<1>5. \A x, y \in Nat : Min({x, y}) \in Nat /\ Min({x, y}) <= y
  <2> SUFFICES ASSUME NEW x \in Nat, NEW y \in Nat PROVE Min({x, y}) \in Nat /\ Min({x, y}) <= y
    OBVIOUS
  <2>1. \E m \in {x, y} : \A z \in {x, y} : m <= z
    BY LeastNat
  <2> DEFINE m == CHOOSE m \in {x, y} : \A z \in {x, y} : m <= z
  <2>2. m \in {x, y} /\ m <= y
    BY <2>1
  <2>3. Min({x, y}) = m
    BY DEF Min
  <2> HIDE DEF m
  <2> QED
    BY <2>2, <2>3
<1> HIDE DEF H
<1>6. depth \in Nat
  BY <1>4, <1>5
<1> HIDE DEF depth
<1>7. depth + 1 \in Nat
  BY SMT, <1>6
<1>8. n \in Nat /\ n <= H
  BY <1>4, <1>5, <1>7
<1> HIDE DEF n
<1>9. n \in 0 .. H
  BY SMT, <1>4, <1>8
<1>10. reg' \in Sound(tip)
  BY <1>1, <1>3, <1>9, UnwoundSound DEF RegInv, H
<1>11. (reg \in Sound(RegTip))'
  BY <1>2, <1>10, InMemory DEF VerifyDB
<1>12. SavedSound'
  BY SavedKept DEF RegInv, VerifyDB
<1>13. reg' \in Registry
  BY <1>10 DEF Sound
<1>14. touched' \in SUBSET Coll
  <2>1. \A b : Involved(b) \subseteq Coll
    BY TornTyped
  <2> QED
    BY <2>1 DEF RegInv, TypeOK, VerifyDB
<1>15. TypeOK'
  BY <1>13, <1>14 DEF RegInv, TypeOK, VerifyDB
<1> QED
  BY <1>11, <1>12, <1>15 DEF RegInv, VerifyDB

(* A step that changes nothing. *)
LEMMA StutterKeeps == RegInv /\ UNCHANGED vars => RegInv'
<1> SUFFICES ASSUME RegInv, UNCHANGED vars PROVE RegInv'
  OBVIOUS
<1>1. RegTip' = RegTip
  BY DEF RegTip, Next1, Height, vars
<1>2. (reg \in Sound(RegTip))'
  BY <1>1, InMemory DEF RegInv, vars
<1>3. SavedSound'
  BY SavedKept DEF RegInv, vars
<1>4. TypeOK'
  BY DEF RegInv, TypeOK, vars
<1> QED
  BY <1>2, <1>3, <1>4 DEF RegInv, OnChain, vars

-----------------------------------------------------------------------------
(* Theorems *)

(* The invariant holds in every state of every behaviour. *)
LEMMA RegInvAlways == Spec => []RegInv
<1>1. RegInv /\ [Next]_vars => RegInv'
  BY ChooseKeeps, ConnectBlockKeeps, ConnectFlushKeeps, ConnectTipKeeps, DisconnectBlockKeeps,
     DisconnectFlushKeeps, DisconnectTipKeeps, FlushKeeps, RestartKeeps, VerifyDBKeeps,
     StutterKeeps DEF Next
<1> QED
  BY <1>1, RegInvInit, PTL DEF Spec

(* Every variable of the registry keeps its type, through connections,     *)
(* disconnections, flushes, restarts and the verification of the chain.    *)
THEOREM RegistryTyped == Spec => []TypeOK
<1>1. RegInv => TypeOK
  BY DEF RegInv
<1> QED
  BY <1>1, RegInvAlways, PTL

(* RegisterOnChainMasternodePing's "strict 1-to-1 bijection" between       *)
(* collaterals and keys: on every tree of blocks, whatever they carry, no  *)
(* collateral is ever bound to two keys, neither by the restores of        *)
(* DisconnectBlock nor by a reload of a saved registry.                    *)
THEOREM OneKeyAlways == Spec => []OneKeyPerCollateral
<1>1. RegInv => OneKeyPerCollateral
  BY DEF RegInv, Sound, OneKey, OneKeyPerCollateral
<1> QED
  BY <1>1, RegInvAlways, PTL

(* Between blocks, every height recorded for a key, and its last one, is   *)
(* that of a block of the active chain that names the key: no activity of  *)
(* a disconnected block survives, not even in a registry saved under       *)
(* another block's name before a crash.                                    *)
THEOREM HeightsAlwaysOnChain == Spec => []HeightsOnChain
<1>1. RegInv => HeightsOnChain
  <2> SUFFICES ASSUME RegInv, at = "idle", NEW k \in Key,
                      NEW h \in reg.heights[k] \cup ({reg.last[k]} \ {0})
               PROVE  Heard(tip, h, k)
    BY DEF HeightsOnChain, Heard, Names
  <2>1. reg \in Sound(tip)
    BY DEF RegInv, RegTip
  <2>2. h \in reg.heights[k]
    BY <2>1 DEF Sound, LastKept
  <2> QED
    BY <2>1, <2>2 DEF Sound
<1> QED
  BY <1>1, RegInvAlways, PTL

(* The masternodes found for an election stand for different collaterals,  *)
(* each unspent, and each key is named by a block of the active chain that *)
(* is at most Window blocks old.                                           *)
ElectionEarned ==
  at = "idle" => \A e \in Enabled(reg, tip) :
    /\ e[2] \in Coins(tip) /\ \A f \in Enabled(reg, tip) : f[2] = e[2] => f = e
    /\ \E h \in 1 .. Height(tip) : Height(tip) - h <= Window /\ Names(Chain[tip][h], e[1])

(* Whatever was connected, disconnected, saved and reloaded before,        *)
(* ElectQuorumMembers and GetAdamMinerPool find only masternodes that the  *)
(* active chain vouches for, and none of them twice.                       *)
THEOREM ElectionsEarned == Spec => []ElectionEarned
<1>1. RegInv => ElectionEarned
  <2> SUFFICES ASSUME RegInv, at = "idle", NEW e \in Enabled(reg, tip)
               PROVE  /\ e[2] \in Coins(tip)
                      /\ \A f \in Enabled(reg, tip) : f[2] = e[2] => f = e
                      /\ \E h \in 1 .. Height(tip) :
                           Height(tip) - h <= Window /\ Names(Chain[tip][h], e[1])
    BY DEF ElectionEarned
  <2>1. reg \in Sound(tip) /\ OneKey(reg)
    BY DEF RegInv, RegTip, Sound
  <2>2. \A f \in Enabled(reg, tip) : \E l \in Key :
          /\ f = <<l, reg.coll[l]>> /\ reg.coll[l] # None /\ ActiveAt(reg, l, Height(tip))
          /\ reg.coll[l] \in Coins(tip)
    BY DEF Enabled, Authorised
  <2>3. PICK k \in Key : /\ e = <<k, reg.coll[k]>> /\ reg.coll[k] # None
                         /\ ActiveAt(reg, k, Height(tip)) /\ reg.coll[k] \in Coins(tip)
    BY <2>2
  <2>4. e[1] = k /\ e[2] = reg.coll[k]
    BY <2>3
  <2>5. ASSUME NEW f \in Enabled(reg, tip), f[2] = e[2] PROVE f = e
    <3>1. PICK l \in Key : f = <<l, reg.coll[l]>>
      BY <2>2
    <3>2. reg.coll[l] = reg.coll[k]
      BY <2>4, <2>5, <3>1
    <3>3. l = k
      BY <2>1, <2>3, <3>2 DEF OneKey
    <3> QED
      BY <2>3, <3>1, <3>3
  <2>6. PICK h \in reg.heights[k] : Height(tip) - h <= Window
    BY <2>1, <2>3 DEF ActiveAt, Sound, LastKept
  <2>7. Heard(tip, h, k)
    BY <2>1 DEF Sound
  <2> QED
    BY <2>3, <2>4, <2>5, <2>6, <2>7 DEF Heard
<1> QED
  BY <1>1, RegInvAlways, PTL
=============================================================================
